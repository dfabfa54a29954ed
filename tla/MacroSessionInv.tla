---- MODULE MacroSessionInv ----
(***************************************************************************)
(* The inductive invariants of the session: IInv, behind RunIsolation and   *)
(* PublishOnlyWhenReady, HandshakeInv, behind SuccessMeansAgreement, and    *)
(* RecordInv, behind MeasuredOnceWhileCounting and SuccessIsComplete.       *)
(*                                                                         *)
(* The argument: the three processes pass the round from hand to hand.  A   *)
(* round is opened by the subscriber (GO, Subscribe, Enable, READY), used by*)
(* the publisher (GO .. DONE) and closed by the subscriber once its handler *)
(* counted MessageCount messages.  A message is created only while a round  *)
(* is open, and the messages counted, in transit and still to be sent never *)
(* exceed MessageCount: when the handler has counted them all, none is left *)
(* that could reach the handler of the next round.                          *)
(*                                                                         *)
(* The orchestrator may fail at any point and leaves its signals in the     *)
(* pipes, so the parts below say where an endpoint may be by what is in its *)
(* pipes and where its peer is, and constrain a running orchestrator only.  *)
(***************************************************************************)
EXTENDS MacroSession

\* An endpoint has rounds left while it is before or in one, and uses its
\* counter in measured rounds only.
LoopInv ==
  \A e \in Endpoint :
    /\ pc[e] \in {"absent", "connect"} => payloadIndex[e] = 0 /\ run[e] = 0
    /\ pc[e] \in {"absent", "connect", "readGo", "newCPU", "enable", "publish", "subscribe",
                 "suback", "ready", "wait", "stop", "done"}
         => payloadIndex[e] < PayloadCount[e]
    /\ pc[e] \in {"newCPU", "enable", "stop"} => ~IsWarmup(e)

\* The types that the proofs rely on: a message is known by three numbers.  TypeOK says more,
\* which does not hold in MacroRerun, where messages of another session are in transit.
AnyID == Int \X Int \X Int
TypeInv == TypeOver(AnyID) /\ LoopInv

\* Publisher and subscriber sourced the same numbers; the orchestrator's own
\* count of repetitions does not matter here.
EndpointsAgree ==
  /\ PayloadCount[Publisher] = PayloadCount[Subscriber]
  /\ WarmupRuns[Publisher] = WarmupRuns[Subscriber]
  /\ Runs[Publisher] = Runs[Subscriber]
  /\ MessageCount[Publisher] = MessageCount[Subscriber]

Quiet == uplink = <<>> /\ downlink = <<>>

\* Both endpoints are in the same round; e is in the round after that of f.
SameRound == payloadIndex[Publisher] = payloadIndex[Subscriber] /\ run[Publisher] = run[Subscriber]

Ahead(e, f) ==
  IF run[f] + 1 < WarmupRuns[f] + Runs[f]
  THEN payloadIndex[e] = payloadIndex[f] /\ run[e] = run[f] + 1
  ELSE payloadIndex[e] = payloadIndex[f] + 1 /\ run[e] = 0

\* An endpoint between two rounds, and one that is told to begin the next.
Between(e) == pc[e] \in {"connect", "readGo", "readFinish"}
Told(e)    == stdin[e] = <<"GO">> /\ Between(e)

\* The publisher has been released, or is in the round.
PublisherBefore == Told(Publisher) \/ pc[Publisher] \in {"newCPU", "enable"}
PublisherActive == PublisherBefore \/ pc[Publisher] \in {"publish", "stop", "done"}

\* The subscriber prepares a round, has its round open, or is out of it.
Opening ==
  \/ Told(Subscriber)
  \/ pc[Subscriber] \in {"newCPU", "subscribe", "suback", "enable", "ready"}
  \/ pc[Subscriber] = "wait" /\ stdout[Subscriber] = <<"READY">>
Open    == pc[Subscriber] \in {"wait", "stop", "done"} /\ stdout[Subscriber] = <<>>
Closed  == Between(Subscriber) /\ stdin[Subscriber] = <<>>

\* The publisher is done with the round, the subscriber maybe not yet.
Handed ==
  \/ Ahead(Publisher, Subscriber) /\ Open
  \/ SameRound /\ Closed /\ stdout[Subscriber] = <<"DONE">>

Fresh == Quiet /\ handler.index = 0 /\ handler.channel = <<>>

Counted == handler.index + Len(uplink) + Len(downlink)

\* Where the orchestrator's own steps leave the endpoints.
OrchInv ==
  /\ orch = "startSubscriber" =>
       pc[Subscriber] = "absent" /\ stdin[Subscriber] = <<>> /\ stdout[Subscriber] = <<>>
  /\ orch \in {"startSubscriber", "startPublisher"} =>
       pc[Publisher] = "absent" /\ stdin[Publisher] = <<>>
  /\ orch \in OrchSteps \ {"publisherDone"} => stdout[Publisher] = <<>> /\ ~PublisherActive
  /\ orch \in {"startPublisher", "subscriberGo", "finishPublisher", "finishSubscriber"} =>
       SameRound /\ Closed /\ stdout[Subscriber] = <<>>
  /\ orch = "subscriberReady" => SameRound /\ Opening
  /\ orch = "publisherGo" => SameRound /\ Open /\ Fresh /\ pc[Subscriber] = "wait"
  /\ orch = "subscriberDone" => Handed
  /\ orch \in {"waitPublisher", "waitSubscriber", "succeeded"} =>
       ~Opening /\ ~Open /\ stdout[Subscriber] = <<>>

\* What an endpoint does and finds in its pipes, whatever became of the orchestrator.
PublisherInv ==
  /\ PublisherActive =>
       /\ orch \in {"publisherDone", "failed"}
       /\ stdout[Publisher] = <<>>
       /\ \/ SameRound /\ Open
          \/ Ahead(Subscriber, Publisher) /\ Closed /\ stdout[Subscriber] = <<"DONE">>
  /\ pc[Publisher] \in {"newCPU", "enable", "publish", "stop", "done"} => stdin[Publisher] = <<>>
  /\ PublisherBefore => SameRound /\ Open /\ Fresh /\ pc[Subscriber] = "wait"
  /\ stdout[Publisher] # <<>> =>
       stdout[Publisher] = <<"DONE">> /\ stdin[Publisher] = <<>> /\ Handed
  /\ stdin[Publisher] \in {<<>>, <<"GO">>, <<"FINISH">>}
  /\ stdin[Publisher] = <<"GO">> => orch \in {"publisherDone", "failed"} /\ stdout[Publisher] = <<>>
  /\ stdin[Publisher] = <<"FINISH">> =>
       orch \in {"finishSubscriber", "waitPublisher", "waitSubscriber", "succeeded", "failed"}

SubscriberInv ==
  /\ stdin[Subscriber] \in {<<>>, <<"GO">>, <<"FINISH">>}
  /\ Opening =>
       /\ orch \in {"subscriberReady", "failed"}
       /\ SameRound
       /\ Quiet
       /\ ~PublisherActive
       /\ stdout[Publisher] = <<>>
  /\ Told(Subscriber) \/ pc[Subscriber] \in {"newCPU", "subscribe", "suback", "enable", "ready"}
       => stdout[Subscriber] = <<>>
  /\ pc[Subscriber] \in {"newCPU", "subscribe", "suback", "enable", "ready", "wait", "stop", "done"}
       => stdin[Subscriber] = <<>>
  /\ stdout[Subscriber] = <<"DONE">> => Closed /\ orch \in {"publisherDone", "subscriberDone", "failed"}
  /\ stdout[Subscriber] \in {<<>>, <<"READY">>, <<"DONE">>}
  /\ stdout[Subscriber] = <<"READY">> => pc[Subscriber] = "wait"

\* Messages are in transit in an open round only, and belong to it.
TransitInv ==
  /\ \A i \in 1 .. Len(uplink) : RoundOf(uplink[i]) = Round(Subscriber)
  /\ \A i \in 1 .. Len(downlink) : RoundOf(downlink[i]) = Round(Subscriber)
  /\ ~Quiet => Open
  /\ pc[Subscriber] \in {"suback", "enable", "ready", "wait", "stop", "done"} =>
       handler.round = Round(Subscriber)

\* The messages of a round and the handler that counts them.
CountInv ==
  /\ Open => Counted <= MessageCount[Subscriber]
  /\ pc[Publisher] = "publish" => Counted <= sent
  /\ Closed /\ Ahead(Subscriber, Publisher) /\ PublisherActive =>
       handler.index = MessageCount[Subscriber]
  /\ handler.channel = <<"nil">> /\ pc[Subscriber] = "wait" => handler.index = MessageCount[Subscriber]
  /\ pc[Subscriber] \in {"stop", "done"} => handler.index = MessageCount[Subscriber]
  /\ pc[Subscriber] \in {"suback", "enable", "ready"} => Fresh
  /\ Opening /\ pc[Subscriber] = "wait" => Fresh

\* The subscription and the counter of an open round.
WindowInv ==
  /\ pc[Subscriber] \in {"enable", "ready", "wait", "stop", "done"} /\ connected[Subscriber] => subscribed
  /\ suback # "idle" => pc[Subscriber] = "suback"
  /\ suback = "granted" /\ connected[Subscriber] => subscribed
  /\ pc[Subscriber] \in {"ready", "wait", "stop"} /\ ~IsWarmup(Subscriber) => cpu[Subscriber] = "enabled"

IInv ==
  Alive(Subscriber) \/ pc[Subscriber] = "absent" =>
    OrchInv /\ PublisherInv /\ SubscriberInv /\ TransitInv /\ CountInv /\ WindowInv

----------------------------------------------------------------------------
(* The handshake of the orchestrator with each endpoint, whatever the three   *)
(* were configured with.  Every GO that an endpoint reads is one round of its *)
(* loops and one DONE, so its rounds are counted by what the orchestrator saw.*)

\* The orchestrator has not started e; waits for its DONE; has sent it FINISH.
Unstarted(e) ==
  orch \in IF e = Publisher THEN {"startSubscriber", "startPublisher"} ELSE {"startSubscriber"}
Awaits(e) ==
  orch \in IF e = Publisher THEN {"publisherDone"}
           ELSE {"subscriberReady", "publisherGo", "publisherDone", "subscriberDone"}
Released(e) ==
  orch \in {"waitPublisher", "waitSubscriber", "succeeded"}
             \union IF e = Publisher THEN {"finishSubscriber"} ELSE {}

\* The rounds of e whose DONE the orchestrator has read.
Seen(e) == IF e = Publisher /\ orch = "subscriberDone" THEN repetition + 1 ELSE repetition

\* In a round, up to its READY and after it (a publisher says none), and beyond the last.
Preparing(e) ==
  pc[e] \in {"newCPU", "enable"} \union IF e = Publisher THEN {} ELSE {"subscribe", "suback", "ready"}
Working(e) == pc[e] \in {"stop", "done"} \union IF e = Publisher THEN {"publish"} ELSE {"wait"}
Finishing(e) == pc[e] \in {"disconnect", "writeResults", "succeeded"}

\* The READY that the orchestrator has not read yet.
Announced(e) == IF e = Subscriber /\ orch = "subscriberReady" THEN <<"READY">> ELSE <<>>

\* An endpoint is in the round that the orchestrator waits for, or has answered it.
InRound(e) ==
  /\ Completed(e) = repetition
  /\ \/ /\ stdout[e] = <<>> /\ (e = Subscriber => orch = "subscriberReady")
        /\ pc[e] = "failed" \/ Told(e) \/ (stdin[e] = <<>> /\ Preparing(e))
     \/ stdout[e] = Announced(e) /\ (pc[e] = "failed" \/ (stdin[e] = <<>> /\ Working(e)))
Answered(e) ==
  /\ Completed(e) = repetition + 1
  /\ stdout[e] = Append(Announced(e), "DONE")
  /\ pc[e] = "failed" \/ (stdin[e] = <<>> /\ Between(e))

\* An endpoint that is not in a round, before the first and after the last.
Waiting(e) ==
  /\ Completed(e) = Seen(e) /\ stdout[e] = <<>>
  /\ \/ pc[e] = "failed"
     \/ stdin[e] = <<>> /\ IF Unstarted(e) THEN pc[e] = "absent" ELSE Between(e)
Leaving(e) ==
  /\ Completed(e) = repetition /\ stdout[e] = <<>>
  /\ \/ pc[e] = "failed"
     \/ stdin[e] = <<"FINISH">> /\ Between(e)
     \/ stdin[e] = <<>> /\ Finishing(e)

\* Where e is by what the orchestrator does, and what holds when that is gone.
PlaceInv(e) ==
  orch # "failed" =>
    /\ Awaits(e) => InRound(e) \/ Answered(e)
    /\ Released(e) => Leaving(e)
    /\ ~Awaits(e) /\ ~Released(e) => Waiting(e)

ReadInv(e) ==
  /\ Completed(e) \in {repetition, repetition + 1}
  /\ Told(e) \/ Preparing(e) \/ Working(e) => Completed(e) = repetition
  /\ Alive(e) /\ stdin[e] # <<>> =>
       /\ Between(e)
       /\ \/ stdin[e] = <<"GO">> /\ Completed(e) < Repetitions
          \/ stdin[e] = <<"FINISH">> /\ Completed(e) = Repetitions
  /\ pc[e] = "readFinish" \/ Finishing(e) => payloadIndex[e] = PayloadCount[e] /\ run[e] = 0

\* The orchestrator's own count.
RepetitionInv ==
  /\ orch \in {"startSubscriber", "startPublisher"} => repetition = 0
  /\ orch \in {"subscriberGo", "subscriberReady", "publisherGo", "publisherDone", "subscriberDone"} =>
       repetition < Repetitions
  /\ orch \in {"finishPublisher", "finishSubscriber", "waitPublisher", "waitSubscriber", "succeeded"} =>
       repetition = Repetitions
  /\ orch \in {"waitSubscriber", "succeeded"} => pc[Publisher] = "succeeded"
  /\ orch = "succeeded" => pc[Subscriber] = "succeeded"

HandshakeInv == RepetitionInv /\ \A e \in Endpoint : PlaceInv(e) /\ ReadInv(e)

----------------------------------------------------------------------------
(* The tables.  Slots are filled in the order of the runs, one that is filled *)
(* is not written again.  The handler counts the messages, so a lost one makes*)
(* those behind it take earlier places; once all are counted none was lost.   *)

\* The slots of the measured runs that are over, and the one that is filled now.
Filled(e)   == payloadIndex[e] * Runs[e] + IF IsWarmup(e) THEN 0 ELSE run[e] - WarmupRuns[e]
Filling(e)  == Working(e) /\ ~IsWarmup(e)
Recorded(e) == IF e = Publisher THEN sent ELSE handler.index

\* The messages of the round that cannot be counted any more, or were not sent.
Missing  == (IF pc[Publisher] = "publish" THEN sent ELSE MessageCount[Publisher]) - Counted
Slack(e) == IF e = Publisher THEN 0 ELSE Missing

\* The message that will take place n of the round is the n-th, or a later one.
Near(n, id) == n <= id[3] /\ id[3] <= n + Missing

OrderInv ==
  /\ \A i \in 1 .. Len(downlink) : Near(handler.index + i - 1, downlink[i])
  /\ \A i \in 1 .. Len(uplink) : Near(handler.index + Len(downlink) + i - 1, uplink[i])

EntryInv(e, k, i) ==
  IF k < Filled(e)
  THEN results[e][k][i] = <<k \div Runs[e], WarmupRuns[e] + (k % Runs[e]), i>>
  ELSE IF k = Filled(e) /\ Filling(e) /\ i < Recorded(e)
  THEN \E index \in i .. i + Slack(e) : results[e][k][i] = MessageID(e, index)
  ELSE results[e][k][i] = Untouched

TablesInv(e) ==
  pc[e] # "failed" => \A k \in SlotsOf(e) : \A i \in 0 .. MessageCount[e] - 1 : EntryInv(e, k, i)

CyclesInv(e) ==
  pc[e] # "failed" =>
    /\ \A k \in SlotsOf(e) :
         k < Filled(e) \/ (k = Filled(e) /\ pc[e] = "done" /\ ~IsWarmup(e)) => k \in cycles[e]
    /\ pc[e] = "succeeded" => csv[e]

\* What a run relies on: all is sent before it ends, and the closure of the
\* handler is that of the run.
SendInv ==
  /\ pc[Publisher] = "publish" /\ ~IsWarmup(Publisher) => cpu[Publisher] = "enabled"
  /\ pc[Publisher] \in {"newCPU", "enable"} => sent = 0
  /\ pc[Publisher] \in {"stop", "done"} => sent = MessageCount[Publisher]
ClosureInv ==
  pc[Subscriber] \in {"suback", "enable", "ready", "wait", "stop", "done"} =>
    handler.slot = Slot(Subscriber) /\ handler.warmup = IsWarmup(Subscriber)
RunInv == SendInv /\ ClosureInv

RecordInv ==
  /\ RunInv
  /\ \A e \in Endpoint : TablesInv(e) /\ CyclesInv(e)
  /\ Alive(Subscriber) => OrderInv
====
