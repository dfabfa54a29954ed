---- MODULE MacroSession ----
(***************************************************************************)
(* One macro benchmark session for one scenario: orchestrateMacro drives a  *)
(* publisher and a subscriber process over the pipes of two ssh sessions,   *)
(* and the two exchange MQTT messages of QoS 0 through the broker.          *)
(*                                                                         *)
(* Actors: the orchestrator (orchestrate_macro.go), the main goroutine of   *)
(* each endpoint (runPublisher, runSubscriber and the benchmarks they call),*)
(* the MQTT message handler of the subscriber, and the broker.  A session   *)
(* ends when orchestrateMacro returns; an endpoint ends when it exits.      *)
(***************************************************************************)
EXTENDS MacroResults

CONSTANTS
  PayloadCount,  \* [Endpoint -> Nat]: len(PayloadSizes) in each endpoint's environment
  WarmupRuns,    \* [Endpoint -> Nat]
  Runs,          \* [Endpoint -> Nat]
  MessageCount,  \* [Endpoint -> Nat]
  Repetitions,   \* the orchestrator's own len(payloadSizes) * (warmupRuns + runs)
  Faults         \* the kinds of failure that may happen

FaultKinds == {"start", "connect", "perf", "codec", "disk", "crash",
               "interrupt", "loss", "connection"}

ASSUME ConfigAssumption ==
  /\ PayloadCount \in [Endpoint -> Nat \ {0}]
  /\ WarmupRuns \in [Endpoint -> Nat]
  /\ Runs \in [Endpoint -> Nat \ {0}]
  /\ MessageCount \in [Endpoint -> Nat \ {0}]
  /\ Repetitions \in Nat
  /\ Faults \subseteq FaultKinds

VARIABLES
  orch,          \* where orchestrateMacro is
  repetition,    \* rounds it has completed
  stdin,         \* [Endpoint -> Seq(signal)]: orchestrator to endpoint
  stdout,        \* [Endpoint -> Seq(signal)]: endpoint to orchestrator
  pc,            \* where the main goroutine of each endpoint is
  payloadIndex,  \* the outer loop of each endpoint
  run,           \* the inner loop of each endpoint
  cpu,           \* the perf counter of each endpoint
  results,       \* the measurement tables
  cycles,        \* the slots that were assigned a cycle count
  csv,           \* whether publisher.csv / subscriber.csv is complete
  connected,     \* the MQTT connection of each endpoint
  sent,          \* the publisher's messageIndex
  tokenError,    \* some publish token of this run holds an error
  handler,       \* the callback installed for the topic and its closure
  subscribed,    \* the broker holds the subscription
  suback,        \* the SUBSCRIBE / SUBACK exchange under way
  uplink,        \* messages from the publisher, not yet routed by the broker
  downlink       \* messages from the broker, not yet handled

orchVars   == <<orch, repetition>>
pipeVars   == <<stdin, stdout>>
loopVars   == <<payloadIndex, run>>
tableVars  == <<results, cycles, csv>>
sendVars   == <<sent, tokenError>>
brokerVars == <<subscribed, suback>>
netVars    == <<connected, brokerVars, uplink, downlink>>
endVars    == <<pc, loopVars, cpu, tableVars, sendVars, handler>>
vars       == <<orchVars, pipeVars, endVars, netVars>>

----------------------------------------------------------------------------

OrchSteps == {"startSubscriber", "startPublisher", "subscriberGo", "subscriberReady",
              "publisherGo", "publisherDone", "subscriberDone", "finishPublisher",
              "finishSubscriber", "waitPublisher", "waitSubscriber"}

OrchEnded == orch \in {"succeeded", "failed"}

Ended(e)  == pc[e] \in {"succeeded", "failed"}
Alive(e)  == pc[e] \notin {"absent", "succeeded", "failed"}

IsWarmup(e) == run[e] < WarmupRuns[e]

Round(e) == <<payloadIndex[e], run[e]>>

Slot(e) == ResultIndex(payloadIndex[e], run[e], Runs[e], WarmupRuns[e])

\* The number of GO signals an endpoint expects before FINISH.
Rounds(e) == PayloadCount[e] * (WarmupRuns[e] + Runs[e])

\* A message is known by the publisher's run that sent it and its index there:
\* BuildMessages gives every message of every run a fresh UUID.
MessageID(e, index) == <<payloadIndex[e], run[e], index>>

\* Mutation: the closure starts counting at one.
NewHandlerAtOne == [round |-> Round(Subscriber), warmup |-> IsWarmup(Subscriber),
                    slot |-> Slot(Subscriber), index |-> 1, channel |-> <<>>]

\* What BenchmarkSubscriber allocates for a run: the closure of the callback
\* and the result channel of capacity one.
NewHandler == [round |-> Round(Subscriber), warmup |-> IsWarmup(Subscriber),
               slot |-> Slot(Subscriber), index |-> 0, channel |-> <<>>]

NoHandler == [round |-> <<>>, warmup |-> TRUE, slot |-> 0, index |-> 0, channel |-> <<>>]

Init ==
  /\ orch = "startSubscriber"
  /\ repetition = 0
  /\ stdin = [e \in Endpoint |-> <<>>]
  /\ stdout = [e \in Endpoint |-> <<>>]
  /\ pc = [e \in Endpoint |-> "absent"]
  /\ payloadIndex = [e \in Endpoint |-> 0]
  /\ run = [e \in Endpoint |-> 0]
  /\ cpu = [e \in Endpoint |-> "none"]
  /\ results = [e \in Endpoint |-> Prepared(PayloadCount[e], Runs[e], MessageCount[e])]
  /\ cycles = [e \in Endpoint |-> {}]
  /\ csv = [e \in Endpoint |-> FALSE]
  /\ connected = [e \in Endpoint |-> FALSE]
  /\ sent = 0
  /\ tokenError = FALSE
  /\ handler = NoHandler
  /\ subscribed = FALSE
  /\ suback = "idle"
  /\ uplink = <<>>
  /\ downlink = <<>>

----------------------------------------------------------------------------
(* The orchestrator *)

OrchGoto(step) == orch' = step

OrchFail == orch' = "failed"

\* startBenchmark: the ssh client is started, nothing waits for the remote side.
Start(e, at, next) ==
  /\ orch = at
  /\ \/ pc' = [pc EXCEPT ![e] = "connect"] /\ OrchGoto(next)
     \/ "start" \in Faults /\ OrchFail /\ UNCHANGED pc
  /\ UNCHANGED <<repetition, pipeVars, loopVars, cpu, tableVars, sendVars, handler, netVars>>

\* Mutation: one round too many, one too few.
AfterRoundTooMany(n) == IF n <= Repetitions THEN "subscriberGo" ELSE "finishPublisher"
AfterRoundTooFew(n) == IF n + 1 < Repetitions THEN "subscriberGo" ELSE "finishPublisher"

AfterRound(n) == IF n < Repetitions THEN "subscriberGo" ELSE "finishPublisher"

StartSubscriber == Start(Subscriber, "startSubscriber", "startPublisher")
StartPublisher  == Start(Publisher, "startPublisher", AfterRound(0))

\* WriteSignal into the stdin of an endpoint.  When its process is gone the
\* write either still reaches a buffer of the ssh client or fails.
OrchWrite(e, signal, at, next) ==
  /\ orch = at
  /\ \/ stdin' = [stdin EXCEPT ![e] = Append(@, signal)] /\ OrchGoto(next)
     \/ Ended(e) /\ OrchFail /\ UNCHANGED stdin
  /\ UNCHANGED <<repetition, stdout, endVars, netVars>>

\* ReadSignal from the stdout of an endpoint: the expected signal, any other
\* signal (an error), or the end of the file once the process is gone.
OrchRead(e, signal, at, next, n) ==
  /\ orch = at
  /\ \/ /\ stdout[e] # <<>>
        /\ stdout' = [stdout EXCEPT ![e] = Tail(@)]
        /\ \/ Head(stdout[e]) = signal /\ OrchGoto(next) /\ repetition' = n
           \/ Head(stdout[e]) # signal /\ OrchFail /\ UNCHANGED repetition
     \/ stdout[e] = <<>> /\ Ended(e) /\ OrchFail /\ UNCHANGED <<stdout, repetition>>
  /\ UNCHANGED <<stdin, endVars, netVars>>

\* Mutation: the publisher is released before the subscriber said READY.
WriteSubscriberGoOnly == OrchWrite(Subscriber, "GO", "subscriberGo", "publisherGo")

WriteSubscriberGo == OrchWrite(Subscriber, "GO", "subscriberGo", "subscriberReady")
ReadReady == OrchRead(Subscriber, "READY", "subscriberReady", "publisherGo", repetition)
WritePublisherGo == OrchWrite(Publisher, "GO", "publisherGo", "publisherDone")
ReadPublisherDone == OrchRead(Publisher, "DONE", "publisherDone", "subscriberDone", repetition)
ReadSubscriberDone ==
  OrchRead(Subscriber, "DONE", "subscriberDone", AfterRound(repetition + 1), repetition + 1)
WritePublisherFinish == OrchWrite(Publisher, "FINISH", "finishPublisher", "finishSubscriber")
WriteSubscriberFinish == OrchWrite(Subscriber, "FINISH", "finishSubscriber", "waitPublisher")

\* Mutation: the exit status is ignored.
OrchWaitAnyStatus(e, at, next) ==
  /\ orch = at
  /\ Ended(e) /\ OrchGoto(next)
  /\ UNCHANGED <<repetition, pipeVars, endVars, netVars>>

\* exec.Cmd.Wait: an error when the process exited with a status other than 0.
OrchWait(e, at, next) ==
  /\ orch = at
  /\ \/ pc[e] = "succeeded" /\ OrchGoto(next)
     \/ pc[e] = "failed" /\ OrchFail
  /\ UNCHANGED <<repetition, pipeVars, endVars, netVars>>

WaitPublisher  == OrchWait(Publisher, "waitPublisher", "waitSubscriber")
WaitSubscriber == OrchWait(Subscriber, "waitSubscriber", "succeeded")

\* The orchestrator is killed, or its machine goes away.
Interrupt ==
  /\ "interrupt" \in Faults
  /\ ~OrchEnded
  /\ OrchFail
  /\ UNCHANGED <<repetition, pipeVars, endVars, netVars>>

Orchestrator ==
  \/ StartSubscriber \/ StartPublisher
  \/ WriteSubscriberGo \/ ReadReady \/ WritePublisherGo
  \/ ReadPublisherDone \/ ReadSubscriberDone
  \/ WritePublisherFinish \/ WriteSubscriberFinish
  \/ WaitPublisher \/ WaitSubscriber

----------------------------------------------------------------------------
(* Both endpoints *)

Goto(e, step) == pc' = [pc EXCEPT ![e] = step]

\* Any suffix of what was in transit is lost with a connection.
LosesSuffix(queue, queue2) == \E n \in 0 .. Len(queue) : queue2 = SubSeq(queue, 1, n)

\* A fatal error: the benchmark returns it (after Abort when a counter is
\* running) and the process exits with a status other than 0.  The broker sees
\* the connection end and, the session being clean, drops the subscription.
\* Messages whose tokens were not yet waited for may not have been written.
Exit(e, status) ==
  /\ Goto(e, status)
  /\ cpu' = [cpu EXCEPT ![e] = "none"]
  /\ connected' = [connected EXCEPT ![e] = FALSE]
  /\ \/ /\ e = Publisher
        /\ IF connected[e] /\ pc[e] = "publish"
           THEN LosesSuffix(uplink, uplink') ELSE UNCHANGED uplink
        /\ UNCHANGED <<brokerVars, downlink>>
     \/ /\ e = Subscriber
        /\ subscribed' = FALSE
        /\ suback' = "idle"
        /\ downlink' = <<>>
        /\ UNCHANGED uplink

Fail(e) == Exit(e, "failed")

\* What the main goroutine leaves alone when it exits.
ExitFrame == UNCHANGED <<orchVars, stdout, loopVars, results, cycles, csv, sendVars, handler>>

\* A step that leaves everything but the program counter and the counter alone.
StepFrame == UNCHANGED <<orchVars, pipeVars, loopVars, results, cycles, csv, sendVars,
                         handler, netVars>>

\* A fatal error in a call that leaves no trace of its own.
FailAt(e, at) ==
  /\ pc[e] = at
  /\ Fail(e)
  /\ UNCHANGED stdin
  /\ ExitFrame

\* PahoClient.Connect.
Connect(e) ==
  \/ /\ pc[e] = "connect"
     /\ Goto(e, "readGo")
     /\ connected' = [connected EXCEPT ![e] = TRUE]
     /\ UNCHANGED <<orchVars, pipeVars, loopVars, cpu, tableVars, sendVars, handler,
                    brokerVars, uplink, downlink>>
  \/ "connect" \in Faults /\ FailAt(e, "connect")

\* Where RunBenchmark begins once GO was read.
FirstStep(e) ==
  IF ~IsWarmup(e) THEN "newCPU" ELSE IF e = Publisher THEN "publish" ELSE "subscribe"

\* Mutation: the end of the orchestrator goes unnoticed.
ReadFailsOnSignal(e, signal) == stdin[e] # <<>> /\ Head(stdin[e]) # signal

\* ReadSignal from stdin, with the orchestrator's end closed once it has ended.
ReadFails(e, signal) ==
  \/ stdin[e] # <<>> /\ Head(stdin[e]) # signal
  \/ stdin[e] = <<>> /\ OrchEnded

Read(e, signal, at, next) ==
  /\ pc[e] = at
  /\ \/ /\ stdin[e] # <<>>
        /\ Head(stdin[e]) = signal
        /\ stdin' = [stdin EXCEPT ![e] = Tail(@)]
        /\ Goto(e, next)
        /\ UNCHANGED <<cpu, netVars>>
     \/ /\ ReadFails(e, signal)
        /\ stdin' = [stdin EXCEPT ![e] = IF @ = <<>> THEN @ ELSE Tail(@)]
        /\ Fail(e)
  /\ UNCHANGED <<orchVars, stdout, loopVars, tableVars, handler>>

\* BuildMessages and the fresh tokens belong to the run that begins here.
ReadGo(e) ==
  /\ Read(e, "GO", "readGo", FirstStep(e))
  /\ IF e = Publisher
     THEN sent' = 0 /\ tokenError' = FALSE
     ELSE UNCHANGED sendVars

ReadFinish(e) == Read(e, "FINISH", "readFinish", "disconnect") /\ UNCHANGED sendVars

\* NewCPUPerf: the perf child runs, not yet counting.
NewCPU(e) ==
  \/ /\ pc[e] = "newCPU"
     /\ Goto(e, IF e = Publisher THEN "enable" ELSE "subscribe")
     /\ cpu' = [cpu EXCEPT ![e] = "created"]
     /\ StepFrame
  \/ "perf" \in Faults /\ FailAt(e, "newCPU")

\* CPUPerf.Enable: perf acknowledged that it counts.
Enable(e) ==
  \/ /\ pc[e] = "enable"
     /\ Goto(e, IF e = Publisher THEN "publish" ELSE "ready")
     /\ cpu' = [cpu EXCEPT ![e] = "enabled"]
     /\ StepFrame
  \/ "perf" \in Faults /\ FailAt(e, "enable")

\* CPUPerf.Stop, and the assignment results[resultIndex] = result.
Stop(e) ==
  \/ /\ pc[e] = "stop"
     /\ Goto(e, "done")
     /\ cpu' = [cpu EXCEPT ![e] = "none"]
     /\ cycles' = [cycles EXCEPT ![e] = @ \union {Slot(e)}]
     /\ UNCHANGED <<orchVars, pipeVars, loopVars, results, csv, sendVars, handler, netVars>>
  \/ "perf" \in Faults /\ FailAt(e, "stop")

\* Mutation: the inner loop is not restarted for the next payload.
NextRoundNoRestart(e) ==
  IF run[e] + 1 < WarmupRuns[e] + Runs[e]
  THEN run' = [run EXCEPT ![e] = @ + 1] /\ UNCHANGED payloadIndex /\ Goto(e, "readGo")
  ELSE /\ run' = [run EXCEPT ![e] = @ + 1]
       /\ payloadIndex' = [payloadIndex EXCEPT ![e] = @ + 1]
       /\ Goto(e, IF payloadIndex[e] + 1 < PayloadCount[e] THEN "readGo" ELSE "readFinish")

\* The heads of the two nested loops, after run `run` of payload `payloadIndex`.
NextRound(e) ==
  IF run[e] + 1 < WarmupRuns[e] + Runs[e]
  THEN /\ run' = [run EXCEPT ![e] = @ + 1]
       /\ UNCHANGED payloadIndex
       /\ Goto(e, "readGo")
  ELSE /\ run' = [run EXCEPT ![e] = 0]
       /\ payloadIndex' = [payloadIndex EXCEPT ![e] = @ + 1]
       /\ Goto(e, IF payloadIndex[e] + 1 < PayloadCount[e] THEN "readGo" ELSE "readFinish")

\* WriteSignal DONE.  Once the orchestrator is gone the pipe is broken, or ssh still
\* takes the signal and nobody reads it.
WriteDone(e) ==
  \/ /\ pc[e] = "done"
     /\ stdout' = [stdout EXCEPT ![e] = Append(@, "DONE")]
     /\ NextRound(e)
     /\ UNCHANGED <<orchVars, stdin, cpu, tableVars, sendVars, handler, netVars>>
  \/ OrchEnded /\ FailAt(e, "done")

\* PahoClient.Disconnect: what the publisher wrote before still arrives.
Disconnect(e) ==
  /\ pc[e] = "disconnect"
  /\ Goto(e, "writeResults")
  /\ connected' = [connected EXCEPT ![e] = FALSE]
  /\ \/ e = Publisher /\ UNCHANGED <<subscribed, downlink>>
     \/ e = Subscriber /\ subscribed' = FALSE /\ LosesSuffix(downlink, downlink')
  /\ UNCHANGED <<orchVars, pipeVars, loopVars, cpu, tableVars, sendVars, handler, suback, uplink>>

\* writePublisherResults / writeSubscriberResults, then the process exits.
WriteResults(e) ==
  \/ /\ pc[e] = "writeResults"
     /\ csv' = [csv EXCEPT ![e] = TRUE]
     /\ Exit(e, "succeeded")
     /\ UNCHANGED <<orchVars, pipeVars, loopVars, results, cycles, sendVars, handler>>
  \/ "disk" \in Faults /\ FailAt(e, "writeResults")

\* The endpoint is killed or panics, at any point.
Crash(e) ==
  /\ "crash" \in Faults
  /\ Alive(e)
  /\ FailAt(e, pc[e])

\* The MQTT connection is lost.  There is no reconnection and the handler of
\* the event only prints: main learns of it from the tokens it waits for.
ConnectionLost(e) ==
  /\ "connection" \in Faults
  /\ Alive(e)
  /\ connected[e]
  /\ connected' = [connected EXCEPT ![e] = FALSE]
  /\ \/ /\ e = Publisher
        /\ LosesSuffix(uplink, uplink')
        /\ UNCHANGED <<subscribed, downlink>>
     \/ /\ e = Subscriber
        /\ subscribed' = FALSE
        /\ LosesSuffix(downlink, downlink')
        /\ UNCHANGED uplink
  /\ UNCHANGED <<orchVars, pipeVars, endVars, suback>>

EndpointStep(e) ==
  \/ Connect(e) \/ ReadGo(e) \/ NewCPU(e) \/ Enable(e) \/ Stop(e)
  \/ WriteDone(e) \/ ReadFinish(e) \/ Disconnect(e) \/ WriteResults(e)

----------------------------------------------------------------------------
(* The publisher: the loop of PublishMessages and the wait for the tokens *)

MessageFrame == UNCHANGED <<orchVars, pipeVars, loopVars, cycles, csv, handler>>

\* One turn of the loop.  A publish on a lost connection returns a token that
\* holds an error, which is looked at only after the loop.
Publish ==
  \/ /\ pc[Publisher] = "publish"
     /\ sent < MessageCount[Publisher]
     /\ sent' = sent + 1
     /\ IF connected[Publisher]
        THEN uplink' = Append(uplink, MessageID(Publisher, sent)) /\ UNCHANGED tokenError
        ELSE tokenError' = TRUE /\ UNCHANGED uplink
     /\ results' = IF IsWarmup(Publisher) THEN results
                   ELSE [results EXCEPT ![Publisher][Slot(Publisher)][sent]
                                          = MessageID(Publisher, sent)]
     /\ UNCHANGED <<pc, cpu, connected, brokerVars, downlink>>
     /\ MessageFrame
  \/ /\ "codec" \in Faults
     /\ sent < MessageCount[Publisher]
     /\ FailAt(Publisher, "publish")

WaitTokens ==
  \/ /\ pc[Publisher] = "publish"
     /\ sent = MessageCount[Publisher]
     /\ ~tokenError
     /\ Goto(Publisher, IF IsWarmup(Publisher) THEN "done" ELSE "stop")
     /\ UNCHANGED cpu
     /\ StepFrame
  \/ /\ sent = MessageCount[Publisher]
     /\ tokenError
     /\ FailAt(Publisher, "publish")

----------------------------------------------------------------------------
(* The subscriber: Subscribe, READY, the handler and the result channel *)

\* PahoClient.Subscribe replaces the route of the topic and only then sends the
\* SUBSCRIBE packet.  A client that is not connected returns an error.
Subscribe ==
  \/ /\ pc[Subscriber] = "subscribe"
     /\ connected[Subscriber]
     /\ handler' = NewHandler
     /\ suback' = "requested"
     /\ Goto(Subscriber, "suback")
     /\ UNCHANGED <<orchVars, pipeVars, loopVars, cpu, tableVars, sendVars, connected,
                    subscribed, uplink, downlink>>
  \/ ~connected[Subscriber] /\ FailAt(Subscriber, "subscribe")

\* The broker registers the subscription, or refreshes the one it has.
GrantSubscription ==
  /\ suback = "requested"
  /\ connected[Subscriber]
  /\ subscribed' = TRUE
  /\ suback' = "granted"
  /\ UNCHANGED <<orchVars, pipeVars, endVars, connected, uplink, downlink>>

\* Mutation: a measured run goes on without Enable.
WaitSubackNoEnable ==
  /\ pc[Subscriber] = "suback"
  /\ suback = "granted"
  /\ suback' = "idle"
  /\ Goto(Subscriber, "ready")
  /\ UNCHANGED <<orchVars, pipeVars, loopVars, cpu, tableVars, sendVars, handler,
                 connected, subscribed, uplink, downlink>>

\* token.Wait in Subscribe.  A connection lost meanwhile fails the token.
WaitSuback ==
  \/ /\ pc[Subscriber] = "suback"
     /\ suback = "granted"
     /\ suback' = "idle"
     /\ Goto(Subscriber, IF IsWarmup(Subscriber) THEN "ready" ELSE "enable")
     /\ UNCHANGED <<orchVars, pipeVars, loopVars, cpu, tableVars, sendVars, handler,
                    connected, subscribed, uplink, downlink>>
  \/ ~connected[Subscriber] /\ FailAt(Subscriber, "suback")

\* WriteSignal READY, like that of DONE.
WriteReady ==
  \/ /\ pc[Subscriber] = "ready"
     /\ stdout' = [stdout EXCEPT ![Subscriber] = Append(@, "READY")]
     /\ Goto(Subscriber, "wait")
     /\ UNCHANGED <<orchVars, stdin, loopVars, cpu, tableVars, sendVars, handler, netVars>>
  \/ OrchEnded /\ FailAt(Subscriber, "ready")

\* The callback runs on the goroutine of the MQTT client, whatever main does.
\* An index beyond the preallocated measurements panics; a full channel blocks.
HandleMessage ==
  /\ Alive(Subscriber)
  /\ downlink # <<>>
  /\ handler.warmup \/ handler.index < MessageCount[Subscriber]
  /\ downlink' = Tail(downlink)
  /\ results' = IF handler.warmup THEN results
                ELSE [results EXCEPT ![Subscriber][handler.slot][handler.index]
                                       = Head(downlink)]
  /\ IF handler.index + 1 = MessageCount[Subscriber]
     THEN /\ handler.channel = <<>>
          /\ handler' = [handler EXCEPT !.index = @ + 1, !.channel = <<"nil">>]
     ELSE handler' = [handler EXCEPT !.index = @ + 1]
  /\ UNCHANGED <<orchVars, pipeVars, pc, loopVars, cpu, cycles, csv, sendVars, connected,
                 brokerVars, uplink>>

IndexPanic ==
  /\ downlink # <<>>
  /\ ~handler.warmup
  /\ handler.index >= MessageCount[Subscriber]
  /\ Alive(Subscriber)
  /\ FailAt(Subscriber, pc[Subscriber])

\* Mutation: the unreadable message is dropped and main is not told.
HandleUnreadableSilently ==
  /\ "codec" \in Faults
  /\ Alive(Subscriber)
  /\ downlink # <<>>
  /\ downlink' = Tail(downlink)
  /\ UNCHANGED <<orchVars, pipeVars, endVars, connected, brokerVars, uplink>>

\* ConsumeMessage returned an error: it goes to main, the message is not counted.
HandleUnreadable ==
  /\ "codec" \in Faults
  /\ Alive(Subscriber)
  /\ downlink # <<>>
  /\ handler.channel = <<>>
  /\ downlink' = Tail(downlink)
  /\ handler' = [handler EXCEPT !.channel = <<"error">>]
  /\ UNCHANGED <<orchVars, pipeVars, pc, loopVars, cpu, tableVars, sendVars, connected,
                 brokerVars, uplink>>

\* WaitMessages: main receives from the channel of this run.
WaitMessages ==
  \/ /\ pc[Subscriber] = "wait"
     /\ handler.channel = <<"nil">>
     /\ handler' = [handler EXCEPT !.channel = <<>>]
     /\ Goto(Subscriber, IF IsWarmup(Subscriber) THEN "done" ELSE "stop")
     /\ UNCHANGED <<orchVars, pipeVars, loopVars, cpu, tableVars, sendVars, netVars>>
  \/ handler.channel = <<"error">> /\ FailAt(Subscriber, "wait")

----------------------------------------------------------------------------
(* The broker *)

\* A message is forwarded to the subscription that is there when it is routed.
Route ==
  /\ uplink # <<>>
  /\ uplink' = Tail(uplink)
  /\ downlink' = IF subscribed THEN Append(downlink, Head(uplink)) ELSE downlink
  /\ UNCHANGED <<orchVars, pipeVars, endVars, connected, brokerVars>>

\* QoS 0: the broker may drop a message.
Drop ==
  /\ "loss" \in Faults
  /\ uplink # <<>>
  /\ uplink' = Tail(uplink)
  /\ UNCHANGED <<orchVars, pipeVars, endVars, connected, brokerVars, downlink>>

----------------------------------------------------------------------------

PublisherStep  == EndpointStep(Publisher) \/ Publish \/ WaitTokens
SubscriberStep == EndpointStep(Subscriber) \/ Subscribe \/ WaitSuback \/ WriteReady \/ WaitMessages
HandlerStep    == HandleMessage \/ IndexPanic
BrokerStep     == GrantSubscription \/ Route
FaultStep      == Interrupt \/ Drop \/ HandleUnreadable
                    \/ \E e \in Endpoint : Crash(e) \/ ConnectionLost(e)

Next == Orchestrator \/ PublisherStep \/ SubscriberStep \/ HandlerStep \/ BrokerStep \/ FaultStep

Spec == Init /\ [][Next]_vars

\* Each process and goroutine keeps running while it can; nothing forces a fault.
Fairness ==
  /\ WF_vars(Orchestrator)
  /\ WF_vars(PublisherStep)
  /\ WF_vars(SubscriberStep)
  /\ WF_vars(HandlerStep)
  /\ WF_vars(BrokerStep)

FairSpec == Spec /\ Fairness

----------------------------------------------------------------------------
(* Properties *)

Signals == {"GO", "READY", "DONE", "FINISH"}

Steps == {"absent", "connect", "readGo", "newCPU", "enable", "publish", "subscribe", "suback",
          "ready", "wait", "stop", "done", "readFinish", "disconnect", "writeResults",
          "succeeded", "failed"}

\* The message of run <<payload, run>> with index `index`.
IDs(e) == (0 .. PayloadCount[e] - 1) \X (0 .. WarmupRuns[e] + Runs[e] - 1)
            \X (0 .. MessageCount[e] - 1)

SlotsOf(e) == Slots(PayloadCount[e], Runs[e])

HandlerType ==
  [round : {<<>>} \union ((0 .. PayloadCount[Subscriber] - 1)
                            \X (0 .. WarmupRuns[Subscriber] + Runs[Subscriber] - 1)),
   warmup : BOOLEAN, slot : Int, index : Nat, channel : {<<>>, <<"nil">>, <<"error">>}]

SessionType ==
  /\ orch \in OrchSteps \union {"succeeded", "failed"}
  /\ repetition \in Nat
  /\ stdin \in [Endpoint -> Seq(Signals)]
  /\ stdout \in [Endpoint -> Seq(Signals)]

ProcessType ==
  /\ pc \in [Endpoint -> Steps]
  /\ payloadIndex \in [Endpoint -> Nat]
  /\ run \in [Endpoint -> Nat]
  /\ \A e \in Endpoint : payloadIndex[e] \in 0 .. PayloadCount[e]
  /\ \A e \in Endpoint : run[e] \in 0 .. WarmupRuns[e] + Runs[e] - 1
  /\ cpu \in [Endpoint -> {"none", "created", "enabled"}]
  /\ sent \in 0 .. MessageCount[Publisher]
  /\ tokenError \in BOOLEAN

\* `ids`: the messages that there are.
TableType(ids) ==
  /\ DOMAIN results = Endpoint
  /\ \A e \in Endpoint :
       results[e] \in [SlotsOf(e) -> [0 .. MessageCount[e] - 1 -> ids \union {Untouched}]]
  /\ cycles \in [Endpoint -> SUBSET Int]
  /\ \A e \in Endpoint : cycles[e] \subseteq SlotsOf(e)
  /\ csv \in [Endpoint -> BOOLEAN]

NetType(ids) ==
  /\ connected \in [Endpoint -> BOOLEAN]
  /\ handler \in HandlerType
  /\ subscribed \in BOOLEAN
  /\ suback \in {"idle", "requested", "granted"}
  /\ uplink \in Seq(ids)
  /\ downlink \in Seq(ids)

TypeOver(ids) == SessionType /\ ProcessType /\ TableType(ids) /\ NetType(ids)

\* Every variable keeps its type: the loops of both endpoints stay within their
\* configuration, every slot is a slot of the table, and only messages the
\* publisher built are in transit.
TypeOK == TypeOver(IDs(Publisher))

\* Both endpoints and the orchestrator sourced the same numbers.
Agreement ==
  /\ \A f \in {PayloadCount, WarmupRuns, Runs, MessageCount} : f[Publisher] = f[Subscriber]
  /\ Repetitions = Rounds(Publisher)

RoundOf(id) == <<id[1], id[2]>>

InTransit == {uplink[i] : i \in DOMAIN uplink} \union {downlink[i] : i \in DOMAIN downlink}

\* A message of one run never reaches the handler of another run: whatever is
\* still in transit belongs to the run whose callback is installed, and which
\* the subscriber is in.  The endpoints have no other way to tell runs apart:
\* the handler counts every message of the topic.
RunIsolation ==
  Alive(Subscriber) =>
    \A id \in InTransit : RoundOf(id) = handler.round /\ RoundOf(id) = Round(Subscriber)

\* As long as the publisher has messages to send, the subscriber waits for
\* those of the same run, its subscription is in place unless its connection
\* was lost, and in a measured run its counter counts.
PublishOnlyWhenReady ==
  (pc[Publisher] = "publish" /\ sent < MessageCount[Publisher] /\ Alive(Subscriber)) =>
    /\ pc[Subscriber] = "wait"
    /\ handler.round = Round(Publisher)
    /\ connected[Subscriber] => subscribed
    /\ IsWarmup(Publisher) \/ cpu[Subscriber] = "enabled"

\* The signal an endpoint reads next.
Awaited(e) == IF payloadIndex[e] < PayloadCount[e] THEN "GO" ELSE "FINISH"

\* No process ever meets a signal it does not expect: a pipe holds at most one
\* signal, the one its reader reads next, and an endpoint is sent nothing while
\* it is in a run.
SignalDiscipline ==
  /\ \A e \in Endpoint : (Alive(e) /\ stdin[e] # <<>>) =>
       stdin[e] = <<Awaited(e)>> /\ pc[e] \in {"connect", "readGo", "readFinish"}
  /\ ~OrchEnded =>
       /\ stdout[Publisher] # <<>> => stdout[Publisher] = <<"DONE">> /\ orch = "publisherDone"
       /\ stdout[Subscriber] # <<>> =>
            \/ stdout[Subscriber] = <<"READY">> /\ orch = "subscriberReady"
            \/ stdout[Subscriber] = <<"DONE">> /\ orch \in {"publisherGo", "publisherDone", "subscriberDone"}

\* The rounds an endpoint has completed, in the flat order of the orchestrator.
Completed(e) == payloadIndex[e] * (WarmupRuns[e] + Runs[e]) + run[e]

\* The orchestrator's flat loop and the nested loops of the endpoints stay in
\* step: an endpoint is at most one round ahead of the rounds the orchestrator
\* has seen both endpoints finish, and never behind them.
Lockstep == \A e \in Endpoint : Completed(e) \in {repetition, repetition + 1}

\* The three processes stay in step, signal by signal and round by round, whatever
\* has failed (runCommunicationSignals, RunPublisher, RunSubscriber).
InStep == SignalDiscipline /\ Lockstep

\* The rows of endpoint e's file name each message of each measured run once,
\* under the payload and the repetition of the run that sent it.
RowsComplete(e) ==
  CsvRows(results[e], Runs[e]) =
    {[payload |-> p, repetition |-> r, id |-> <<p, WarmupRuns[Publisher] + r - 1, i>>] :
       p \in 0 .. PayloadCount[Publisher] - 1, r \in 1 .. Runs[Publisher],
       i \in 0 .. MessageCount[Publisher] - 1}

\* When orchestrateMacro reports success, whatever failed on the way, both files
\* are complete: every measured run has its cycles and every message is there
\* in both files under the same payload, repetition and id, which is what the
\* report joins on.
SuccessIsComplete ==
  orch = "succeeded" =>
    \A e \in Endpoint : csv[e] /\ cycles[e] = SlotsOf(e) /\ RowsComplete(e)

\* orchestrateMacro reports success only when its flat repetitions are the
\* rounds that each endpoint derived from its own environment.
SuccessMeansAgreement ==
  orch = "succeeded" => \A e \in Endpoint : Rounds(e) = Repetitions

\* A message is measured by an endpoint only while its counter counts, so the
\* cycles of a run cover every one of its messages, and it is measured once: no
\* later run or message overwrites it.
MeasuredOnceWhileCounting ==
  [][\A e \in Endpoint : results'[e] # results[e] =>
       /\ cpu[e] = "enabled"
       /\ \A k \in DOMAIN results[e] : \A i \in DOMAIN results[e][k] :
            results[e][k][i] # Untouched => results'[e][k][i] = results[e][k][i]]_vars

\* orchestrateMacro returns, with success or with an error.
OrchestratorReturns == <>OrchEnded

\* Once the orchestrator is gone the publisher does not linger: it exits.
PublisherExits == OrchEnded ~> ~Alive(Publisher)

\* Once the orchestrator is gone the subscriber exits too, unless it waits for
\* messages: WaitMessages watches neither stdin nor the connection.
SubscriberExitsOrWaits == OrchEnded ~> (~Alive(Subscriber) \/ pc[Subscriber] = "wait")

\* No endpoint waits for a signal of an orchestrator that has gone.
OrphansExit == PublisherExits /\ SubscriberExitsOrWaits
====
