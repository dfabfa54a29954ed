---- MODULE MacroSessionProofs ----
(***************************************************************************)
(* Theorems of MacroSession, for every configuration, every number of       *)
(* repetitions of the orchestrator and every set of faults: the types, the  *)
(* handshake of the orchestrator with each endpoint, and, when the endpoints*)
(* agree, RunIsolation and PublishOnlyWhenReady from the inductive invariant*)
(* IInv, InStep from both, and MeasuredOnceWhileCounting and                *)
(* SuccessIsComplete from RecordInv.  The last part is about MacroRerun,    *)
(* whose steps are those of the session and the old publisher's: the lemmas *)
(* about single steps are used again, with OldInv beside them.              *)
(***************************************************************************)
EXTENDS MacroSessionInv, MacroRerun, SequenceTheorems, FiniteSetTheorems, TLAPS

\* The slot of a measured run lies in the preallocated table.
LEMMA SlotInTable ==
  ASSUME NEW payloads \in Nat, NEW runs \in Nat, NEW warmups \in Nat,
         NEW payload \in Nat, NEW r \in Nat,
         payload < payloads, warmups <= r, r < warmups + runs
  PROVE  ResultIndex(payload, r, runs, warmups) \in Slots(payloads, runs)
<1>1. payload * runs >= 0 /\ payload * runs \in Int
  OBVIOUS
<1>2. (payload + 1) * runs <= payloads * runs
  <2>1. PICK d \in Nat : payloads = (payload + 1) + d
    <3>1. payloads - (payload + 1) \in Nat
      OBVIOUS
    <3> QED BY <3>1
  <2>2. payloads * runs = (payload + 1) * runs + d * runs
    BY <2>1
  <2>3. d * runs >= 0
    OBVIOUS
  <2> QED BY <2>2, <2>3
<1>3. (payload + 1) * runs = payload * runs + runs
  OBVIOUS
<1> QED BY <1>1, <1>2, <1>3 DEF ResultIndex, Slots

USE DEF Endpoint, Publisher, Subscriber

LEMMA TypeInit == Init => TypeInv
<1> SUFFICES ASSUME Init PROVE TypeInv
  OBVIOUS
<1>1. SessionType
  BY DEF Init, SessionType, OrchSteps
<1>2. ProcessType
  <2>1. tokenError \in BOOLEAN
    BY DEF Init
  <2>2. pc \in [Endpoint -> Steps] /\ cpu \in [Endpoint -> {"none", "created", "enabled"}]
    BY DEF Init, Steps
  <2>3. /\ payloadIndex \in [Endpoint -> Nat]
        /\ run \in [Endpoint -> Nat]
        /\ \A e \in Endpoint : payloadIndex[e] \in 0 .. PayloadCount[e]
        /\ \A e \in Endpoint : run[e] \in 0 .. WarmupRuns[e] + Runs[e] - 1
        /\ sent \in 0 .. MessageCount[Publisher]
    BY ConfigAssumption DEF Init
  <2> QED BY <2>1, <2>2, <2>3 DEF ProcessType
<1>3. TableType(AnyID)
  <2>1. \A e \in Endpoint :
          Prepared(PayloadCount[e], Runs[e], MessageCount[e]) \in
            [SlotsOf(e) -> [0 .. MessageCount[e] - 1 -> AnyID \union {Untouched}]]
    BY DEF Prepared, SlotsOf
  <2> QED BY <2>1 DEF Init, TableType
<1>4. NetType(AnyID)
  <2>1. handler \in HandlerType
    BY DEF Init, NoHandler, HandlerType
  <2>2. connected \in [Endpoint -> BOOLEAN] /\ subscribed \in BOOLEAN
    BY DEF Init
  <2>3. uplink \in Seq(AnyID) /\ downlink \in Seq(AnyID) /\ suback = "idle"
    BY DEF Init
  <2> QED BY <2>1, <2>2, <2>3 DEF NetType
<1>5. LoopInv
  BY ConfigAssumption DEF Init, LoopInv
<1> QED BY <1>1, <1>2, <1>3, <1>4, <1>5 DEF TypeInv, TypeOver

----------------------------------------------------------------------------
(* Type correctness: the frame of a step *)

LEMMA SessionFrame ==
  SessionType /\ UNCHANGED <<orchVars, pipeVars>> => SessionType'
BY DEF SessionType, orchVars, pipeVars

LEMMA ProcessFrame ==
  ProcessType /\ UNCHANGED <<pc, loopVars, cpu, sendVars>> => ProcessType'
BY DEF ProcessType, loopVars, sendVars

LEMMA LoopFrame == LoopInv /\ UNCHANGED <<pc, loopVars>> => LoopInv'
BY DEF LoopInv, loopVars, IsWarmup

LEMMA TableFrame == TableType(AnyID) /\ UNCHANGED tableVars => TableType(AnyID)'
BY DEF TableType, tableVars

LEMMA NetFrame == NetType(AnyID) /\ UNCHANGED <<netVars, handler>> => NetType(AnyID)'
BY DEF NetType, netVars, brokerVars

LEMMA EndFrame ==
  TypeInv /\ UNCHANGED <<endVars, netVars>> => ProcessType' /\ LoopInv' /\ TableType(AnyID)' /\ NetType(AnyID)'
BY ProcessFrame, LoopFrame, TableFrame, NetFrame DEF TypeInv, TypeOver, endVars

----------------------------------------------------------------------------
(* Type correctness: the orchestrator *)

LEMMA AfterRoundStep == ASSUME NEW n PROVE AfterRound(n) \in OrchSteps
BY DEF AfterRound, OrchSteps

\* Writing to and reading from a pipe keep its type.
LEMMA PipeAppend ==
  ASSUME NEW S, NEW pipe \in [Endpoint -> Seq(S)], NEW e \in Endpoint, NEW x \in S
  PROVE  [pipe EXCEPT ![e] = Append(@, x)] \in [Endpoint -> Seq(S)]
<1>1. Append(pipe[e], x) \in Seq(S)
  BY AppendProperties
<1> QED BY <1>1

LEMMA PipeTail ==
  ASSUME NEW S, NEW pipe \in [Endpoint -> Seq(S)], NEW e \in Endpoint, pipe[e] # <<>>
  PROVE  [pipe EXCEPT ![e] = Tail(@)] \in [Endpoint -> Seq(S)]
<1>1. Tail(pipe[e]) \in Seq(S)
  BY HeadTailProperties
<1> QED BY <1>1

LEMMA TypeStart ==
  ASSUME NEW e \in Endpoint, NEW at, NEW next \in OrchSteps, TypeInv, Start(e, at, next),
         pc[e] = "absent"
  PROVE  TypeInv'
<1> USE DEF TypeInv, TypeOver, Start, OrchGoto, OrchFail
<1>1. SessionType'
  BY DEF SessionType, pipeVars
<1>2. ProcessType'
  BY DEF ProcessType, loopVars, sendVars, Steps
<1>3. LoopInv'
  BY DEF LoopInv, loopVars, IsWarmup, ProcessType
<1>4. TableType(AnyID)' /\ NetType(AnyID)'
  BY TableFrame, NetFrame
<1> QED BY <1>1, <1>2, <1>3, <1>4

LEMMA TypeOrchWrite ==
  ASSUME NEW e \in Endpoint, NEW signal \in Signals, NEW at, NEW next \in OrchSteps, TypeInv,
         OrchWrite(e, signal, at, next)
  PROVE  TypeInv'
<1> USE DEF TypeInv, TypeOver, OrchWrite, OrchGoto, OrchFail
<1>1. SessionType'
  <2>1. [stdin EXCEPT ![e] = Append(@, signal)] \in [Endpoint -> Seq(Signals)]
    BY PipeAppend DEF SessionType
  <2> QED BY <2>1 DEF SessionType
<1> QED BY <1>1, EndFrame

LEMMA TypeOrchRead ==
  ASSUME NEW e \in Endpoint, NEW signal, NEW at, NEW next \in OrchSteps, NEW n \in Nat, TypeInv,
         OrchRead(e, signal, at, next, n)
  PROVE  TypeInv'
<1> USE DEF TypeInv, TypeOver, OrchRead, OrchGoto, OrchFail
<1>1. SessionType'
  <2>1. stdout[e] # <<>> => [stdout EXCEPT ![e] = Tail(@)] \in [Endpoint -> Seq(Signals)]
    BY PipeTail DEF SessionType
  <2> QED BY <2>1 DEF SessionType
<1> QED BY <1>1, EndFrame

LEMMA TypeOrchWait ==
  ASSUME NEW e \in Endpoint, NEW at, NEW next \in OrchSteps \union {"succeeded"}, TypeInv,
         OrchWait(e, at, next)
  PROVE  TypeInv'
<1> USE DEF TypeInv, TypeOver, OrchWait, OrchGoto, OrchFail
<1>1. SessionType'
  BY DEF SessionType, pipeVars
<1> QED BY <1>1, EndFrame

\* The rounds an orchestrator completed are counted up from 0.
LEMMA TypeOrchestrator ==
  ASSUME TypeInv, Orchestrator, orch = "startSubscriber" => pc[Subscriber] = "absent",
         orch = "startPublisher" => pc[Publisher] = "absent"
  PROVE  TypeInv'
<1> AfterRound(0) \in OrchSteps /\ AfterRound(repetition + 1) \in OrchSteps
  BY AfterRoundStep
<1> USE DEF OrchSteps
<1>1. repetition \in Nat /\ repetition + 1 \in Nat
  BY DEF TypeInv, TypeOver, SessionType
<1>2. CASE StartSubscriber
  BY <1>2, TypeStart DEF StartSubscriber, Start
<1>3. CASE StartPublisher
  BY <1>3, TypeStart DEF StartPublisher, Start
<1>4. CASE WriteSubscriberGo
  BY <1>4, TypeOrchWrite DEF WriteSubscriberGo, Signals
<1>5. CASE ReadReady
  BY <1>5, <1>1, TypeOrchRead DEF ReadReady
<1>6. CASE WritePublisherGo
  BY <1>6, TypeOrchWrite DEF WritePublisherGo, Signals
<1>7. CASE ReadPublisherDone
  BY <1>7, <1>1, TypeOrchRead DEF ReadPublisherDone
<1>8. CASE ReadSubscriberDone
  BY <1>8, <1>1, TypeOrchRead DEF ReadSubscriberDone
<1>9. CASE WritePublisherFinish
  BY <1>9, TypeOrchWrite DEF WritePublisherFinish, Signals
<1>10. CASE WriteSubscriberFinish
  BY <1>10, TypeOrchWrite DEF WriteSubscriberFinish, Signals
<1>11. CASE WaitPublisher
  BY <1>11, TypeOrchWait DEF WaitPublisher
<1>12. CASE WaitSubscriber
  BY <1>12, TypeOrchWait DEF WaitSubscriber
<1> QED
  BY <1>2, <1>3, <1>4, <1>5, <1>6, <1>7, <1>8, <1>9, <1>10, <1>11, <1>12 DEF Orchestrator

----------------------------------------------------------------------------
(* Type correctness: the endpoints *)

\* What is left of a queue when its suffix is lost.
LEMMA SuffixLost ==
  ASSUME NEW S, NEW q \in Seq(S), NEW r, LosesSuffix(q, r)
  PROVE  /\ r \in Seq(S)
         /\ Len(r) <= Len(q)
         /\ \A i \in DOMAIN r : i \in DOMAIN q /\ r[i] = q[i]
<1>1. PICK n \in 0 .. Len(q) : r = SubSeq(q, 1, n)
  BY DEF LosesSuffix
<1>2. Len(q) \in Nat /\ 1 \in 1 .. Len(q) + 1 /\ n \in 1 - 1 .. Len(q)
  BY <1>1, LenProperties
<1>3. /\ r \in Seq(S)
      /\ Len(r) = IF 1 <= n THEN n - 1 + 1 ELSE 0
      /\ \A i \in 1 .. n - 1 + 1 : r[i] = q[1 + i - 1]
  BY <1>1, <1>2, SubSeqProperties
<1>4. Len(r) = n /\ DOMAIN r = 1 .. n /\ DOMAIN q = 1 .. Len(q)
  BY <1>3, <1>1, <1>2, LenProperties
<1> QED BY <1>1, <1>2, <1>3, <1>4

\* A process that exits drops its counter and its connection, nothing else.
LEMMA NetExit ==
  ASSUME NEW e \in Endpoint, NEW status, TypeInv, Exit(e, status), UNCHANGED handler
  PROVE  NetType(AnyID)'
<1> USE DEF TypeInv, TypeOver, Exit
<1>1. connected' \in [Endpoint -> BOOLEAN] /\ subscribed' \in BOOLEAN
  BY DEF NetType, brokerVars
<1>2. suback' \in {"idle", "requested", "granted"} /\ handler' \in HandlerType
  BY DEF NetType, brokerVars
<1>3. uplink' \in Seq(AnyID)
  BY SuffixLost DEF NetType
<1>4. downlink' \in Seq(AnyID)
  BY EmptySeq DEF NetType, brokerVars
<1> QED BY <1>1, <1>2, <1>3, <1>4 DEF NetType

LEMMA TypeExit ==
  ASSUME NEW e \in Endpoint, NEW status \in {"succeeded", "failed"}, TypeInv,
         Exit(e, status), UNCHANGED <<loopVars, sendVars, handler>>
  PROVE  ProcessType' /\ LoopInv' /\ NetType(AnyID)'
<1> USE DEF TypeInv, TypeOver, Exit, Goto
<1>1. ProcessType'
  <2>1. pc' \in [Endpoint -> Steps] /\ cpu' \in [Endpoint -> {"none", "created", "enabled"}]
    BY DEF ProcessType, Steps
  <2> QED BY <2>1 DEF ProcessType, loopVars, sendVars
<1>2. LoopInv'
  BY DEF LoopInv, loopVars, IsWarmup, ProcessType
<1>3. NetType(AnyID)'
  BY NetExit
<1> QED BY <1>1, <1>2, <1>3

LEMMA TypeFailAt ==
  ASSUME NEW e \in Endpoint, NEW at, TypeInv, FailAt(e, at)
  PROVE  TypeInv'
<1>1. ProcessType' /\ LoopInv' /\ NetType(AnyID)'
  BY TypeExit DEF FailAt, Fail, ExitFrame
<1>2. SessionType' /\ TableType(AnyID)'
  BY SessionFrame, TableFrame DEF TypeInv, TypeOver, FailAt, ExitFrame, tableVars, pipeVars
<1> QED BY <1>1, <1>2 DEF TypeInv, TypeOver

\* The program counter of one endpoint moves to a step of its loop body.
LEMMA TypeGoto ==
  ASSUME NEW e \in Endpoint, NEW step \in Steps, TypeInv, pc' = [pc EXCEPT ![e] = step],
         UNCHANGED loopVars,
         pc[e] \notin {"readFinish", "disconnect", "writeResults", "succeeded", "failed"},
         step \notin {"absent", "connect"},
         step \in {"newCPU", "enable", "stop"} => ~IsWarmup(e)
  PROVE  LoopInv' /\ pc' \in [Endpoint -> Steps]
<1> USE DEF TypeInv, TypeOver, ProcessType
<1>1. pc' \in [Endpoint -> Steps]
  OBVIOUS
<1>2. LoopInv'
  BY DEF LoopInv, loopVars, IsWarmup, Steps
<1> QED BY <1>1, <1>2

LEMMA TypeConnect ==
  ASSUME NEW e \in Endpoint, TypeInv, Connect(e)
  PROVE  TypeInv'
<1>1. CASE "connect" \in Faults /\ FailAt(e, "connect")
  BY <1>1, TypeFailAt
<1>2. CASE ~("connect" \in Faults /\ FailAt(e, "connect"))
  <2> USE DEF TypeInv, TypeOver
  <2>1. pc[e] = "connect" /\ pc' = [pc EXCEPT ![e] = "readGo"] /\ UNCHANGED loopVars
    BY <1>2 DEF Connect, Goto
  <2>2. LoopInv' /\ pc' \in [Endpoint -> Steps]
    BY <2>1, TypeGoto DEF Steps
  <2>3. ProcessType'
    BY <1>2, <2>2 DEF Connect, ProcessType, loopVars, sendVars
  <2>4. SessionType' /\ TableType(AnyID)'
    BY <1>2, SessionFrame, TableFrame DEF Connect
  <2>5. NetType(AnyID)'
    <3>1. connected' \in [Endpoint -> BOOLEAN]
      BY <1>2 DEF Connect, NetType
    <3> QED BY <1>2, <3>1 DEF Connect, NetType, brokerVars
  <2> QED BY <2>2, <2>3, <2>4, <2>5
<1> QED BY <1>1, <1>2

LEMMA TypeRead ==
  ASSUME NEW e \in Endpoint, NEW signal, NEW at, NEW next \in Steps \ {"absent", "connect"},
         TypeInv, Read(e, signal, at, next),
         next \in {"newCPU", "enable", "stop"} => ~IsWarmup(e),
         \/ at \notin {"readFinish", "disconnect", "writeResults", "succeeded", "failed"}
         \/ next = "disconnect",
         sent' \in 0 .. MessageCount[Publisher], tokenError' \in BOOLEAN
  PROVE  TypeInv'
<1> USE DEF TypeInv, TypeOver
<1>1. SessionType' /\ TableType(AnyID)'
  <2>1. stdin[e] # <<>> => [stdin EXCEPT ![e] = Tail(@)] \in [Endpoint -> Seq(Signals)]
    BY PipeTail DEF SessionType
  <2>2. [stdin EXCEPT ![e] = <<>>] \in [Endpoint -> Seq(Signals)]
    BY EmptySeq DEF SessionType
  <2>3. stdin' \in [Endpoint -> Seq(Signals)]
    BY <2>1, <2>2 DEF Read, SessionType
  <2>4. UNCHANGED <<orchVars, stdout, tableVars>>
    BY DEF Read
  <2> QED BY <2>3, <2>4, TableFrame DEF SessionType, orchVars
<1>2. ASSUME Fail(e)
      PROVE  ProcessType' /\ LoopInv' /\ NetType(AnyID)'
  <2>1. UNCHANGED <<loopVars, handler>>
    BY DEF Read
  <2> USE DEF Fail, Exit, Goto
  <2>2. ProcessType'
    <3>1. pc' \in [Endpoint -> Steps] /\ cpu' \in [Endpoint -> {"none", "created", "enabled"}]
      BY <1>2 DEF ProcessType, Steps
    <3> QED BY <2>1, <3>1 DEF ProcessType, loopVars
  <2>3. LoopInv'
    BY <1>2, <2>1 DEF LoopInv, loopVars, IsWarmup, ProcessType
  <2> QED BY <2>2, <2>3, <1>2, <2>1, NetExit
<1>3. CASE pc[e] = at /\ Goto(e, next) /\ UNCHANGED <<cpu, netVars>>
  <2>1. UNCHANGED <<loopVars, handler>>
    BY DEF Read
  <2>2. pc' \in [Endpoint -> Steps]
    BY <1>3 DEF Goto, ProcessType
  <2>3. LoopInv'
    BY <1>3, <2>1 DEF Goto, LoopInv, loopVars, IsWarmup, Steps, ProcessType
  <2>4. ProcessType'
    BY <1>3, <2>1, <2>2 DEF ProcessType, loopVars
  <2>5. NetType(AnyID)'
    BY <1>3, <2>1, NetFrame
  <2> QED BY <1>1, <2>3, <2>4, <2>5
<1> QED BY <1>1, <1>2, <1>3 DEF Read

LEMMA TypeReadGo ==
  ASSUME NEW e \in Endpoint, TypeInv, ReadGo(e)
  PROVE  TypeInv'
<1>1. FirstStep(e) \in Steps \ {"absent", "connect"}
  BY DEF FirstStep, Steps
<1>2. FirstStep(e) \in {"newCPU", "enable", "stop"} => ~IsWarmup(e)
  BY DEF FirstStep
<1>3. sent' \in 0 .. MessageCount[Publisher]
  BY ConfigAssumption DEF ReadGo, TypeInv, TypeOver, ProcessType, sendVars
<1>4. tokenError' \in BOOLEAN
  BY DEF ReadGo, TypeInv, TypeOver, ProcessType, sendVars
<1> QED BY <1>1, <1>2, <1>3, <1>4, TypeRead DEF ReadGo

LEMMA TypeReadFinish ==
  ASSUME NEW e \in Endpoint, TypeInv, ReadFinish(e)
  PROVE  TypeInv'
<1>1. sent' \in 0 .. MessageCount[Publisher] /\ tokenError' \in BOOLEAN
  BY DEF ReadFinish, TypeInv, TypeOver, ProcessType, sendVars
<1> QED BY <1>1, TypeRead DEF ReadFinish, Steps

\* A step of a loop body that touches the program counter and the counter only.
LEMMA TypeStepFrame ==
  ASSUME NEW e \in Endpoint, NEW step \in Steps, TypeInv, Goto(e, step), StepFrame,
         UNCHANGED <<results, cycles, csv>>,
         cpu' \in [Endpoint -> {"none", "created", "enabled"}],
         pc[e] \notin {"readFinish", "disconnect", "writeResults", "succeeded", "failed"},
         step \notin {"absent", "connect"},
         step \in {"newCPU", "enable", "stop"} => ~IsWarmup(e)
  PROVE  TypeInv'
<1> USE DEF TypeInv, TypeOver, StepFrame
<1>1. LoopInv' /\ pc' \in [Endpoint -> Steps]
  BY TypeGoto DEF Goto
<1>2. ProcessType'
  BY <1>1 DEF ProcessType, loopVars, sendVars
<1>3. SessionType' /\ TableType(AnyID)' /\ NetType(AnyID)'
  BY SessionFrame, TableFrame, NetFrame DEF tableVars
<1> QED BY <1>1, <1>2, <1>3

LEMMA TypeNewCPU ==
  ASSUME NEW e \in Endpoint, TypeInv, NewCPU(e)
  PROVE  TypeInv'
<1>1. CASE FailAt(e, "newCPU")
  BY <1>1, TypeFailAt
<1>2. CASE ~FailAt(e, "newCPU")
  <2> DEFINE step == IF e = Publisher THEN "enable" ELSE "subscribe"
  <2>1. pc[e] = "newCPU" /\ Goto(e, step) /\ StepFrame
    BY <1>2 DEF NewCPU
  <2>2. ~IsWarmup(e)
    BY <2>1 DEF TypeInv, LoopInv
  <2>3. cpu' \in [Endpoint -> {"none", "created", "enabled"}]
    BY <1>2 DEF NewCPU, TypeInv, TypeOver, ProcessType
  <2> QED BY <2>1, <2>2, <2>3, TypeStepFrame DEF Steps, StepFrame
<1> QED BY <1>1, <1>2

LEMMA TypeEnable ==
  ASSUME NEW e \in Endpoint, TypeInv, Enable(e)
  PROVE  TypeInv'
<1>1. CASE FailAt(e, "enable")
  BY <1>1, TypeFailAt
<1>2. CASE ~FailAt(e, "enable")
  <2> DEFINE step == IF e = Publisher THEN "publish" ELSE "ready"
  <2>1. pc[e] = "enable" /\ Goto(e, step) /\ StepFrame
    BY <1>2 DEF Enable
  <2>2. cpu' \in [Endpoint -> {"none", "created", "enabled"}]
    BY <1>2 DEF Enable, TypeInv, TypeOver, ProcessType
  <2> QED BY <2>1, <2>2, TypeStepFrame DEF Steps, StepFrame
<1> QED BY <1>1, <1>2

\* The slot a measured run uses belongs to the table of its endpoint.
LEMMA SlotInEndpointTable ==
  ASSUME NEW e \in Endpoint, TypeInv, payloadIndex[e] < PayloadCount[e], ~IsWarmup(e)
  PROVE  Slot(e) \in SlotsOf(e)
<1>1. /\ PayloadCount[e] \in Nat /\ Runs[e] \in Nat /\ WarmupRuns[e] \in Nat
      /\ payloadIndex[e] \in Nat /\ run[e] \in Nat
      /\ WarmupRuns[e] <= run[e] /\ run[e] < WarmupRuns[e] + Runs[e]
  BY ConfigAssumption DEF TypeInv, TypeOver, ProcessType, IsWarmup
<1> QED BY <1>1, SlotInTable DEF Slot, SlotsOf

LEMMA TypeStop ==
  ASSUME NEW e \in Endpoint, TypeInv, Stop(e)
  PROVE  TypeInv'
<1>1. CASE FailAt(e, "stop")
  BY <1>1, TypeFailAt
<1>2. CASE ~FailAt(e, "stop")
  <2> USE DEF TypeInv, TypeOver
  <2>1. pc[e] = "stop" /\ Goto(e, "done") /\ UNCHANGED <<loopVars, sendVars>>
    BY <1>2 DEF Stop
  <2>2. LoopInv' /\ pc' \in [Endpoint -> Steps]
    BY <2>1, TypeGoto DEF Goto, Steps
  <2>3. ProcessType'
    BY <1>2, <2>2 DEF Stop, ProcessType, loopVars, sendVars
  <2>4. Slot(e) \in SlotsOf(e)
    BY <2>1, SlotInEndpointTable DEF LoopInv
  <2>5. TableType(AnyID)'
    <3>1. SlotsOf(e) \subseteq Int
      BY DEF SlotsOf, Slots
    <3>2. /\ cycles' \in [Endpoint -> SUBSET Int]
          /\ \A d \in Endpoint : cycles'[d] \subseteq SlotsOf(d)
      BY <1>2, <2>4, <3>1 DEF Stop, TableType
    <3> QED BY <1>2, <3>2 DEF Stop, TableType
  <2>6. SessionType' /\ NetType(AnyID)'
    BY <1>2, SessionFrame, NetFrame DEF Stop
  <2> QED BY <2>2, <2>3, <2>5, <2>6
<1> QED BY <1>1, <1>2

LEMMA TypeWriteDone ==
  ASSUME NEW e \in Endpoint, TypeInv, WriteDone(e)
  PROVE  TypeInv'
<1>1. CASE FailAt(e, "done")
  BY <1>1, TypeFailAt
<1>2. CASE ~FailAt(e, "done")
  <2> USE DEF TypeInv, TypeOver
  <2>1. pc[e] = "done" /\ NextRound(e) /\ UNCHANGED <<orchVars, stdin, cpu, sendVars>>
    BY <1>2 DEF WriteDone
  <2>2. payloadIndex[e] < PayloadCount[e]
    BY <2>1 DEF LoopInv
  <2>3. ProcessType'
    <3>1. pc' \in [Endpoint -> Steps]
      BY <2>1 DEF NextRound, Goto, ProcessType, Steps
    <3>2. /\ payloadIndex' \in [Endpoint -> Nat]
          /\ run' \in [Endpoint -> Nat]
          /\ \A d \in Endpoint : payloadIndex'[d] \in 0 .. PayloadCount[d]
          /\ \A d \in Endpoint : run'[d] \in 0 .. WarmupRuns[d] + Runs[d] - 1
      BY <2>1, <2>2, ConfigAssumption DEF NextRound, ProcessType
    <3> QED BY <2>1, <3>1, <3>2 DEF ProcessType, sendVars
  <2>4. LoopInv'
    BY <2>1, <2>2, ConfigAssumption DEF NextRound, Goto, LoopInv, ProcessType, IsWarmup
  <2>5. SessionType'
    <3>1. [stdout EXCEPT ![e] = Append(@, "DONE")] \in [Endpoint -> Seq(Signals)]
      BY PipeAppend DEF SessionType, Signals
    <3> QED BY <1>2, <3>1 DEF WriteDone, SessionType, orchVars
  <2>6. TableType(AnyID)' /\ NetType(AnyID)'
    BY <1>2, TableFrame, NetFrame DEF WriteDone
  <2> QED BY <2>3, <2>4, <2>5, <2>6
<1> QED BY <1>1, <1>2

LEMMA TypeDisconnect ==
  ASSUME NEW e \in Endpoint, TypeInv, Disconnect(e)
  PROVE  TypeInv'
<1> USE DEF TypeInv, TypeOver, Disconnect
<1>1. ProcessType'
  <2>1. pc' \in [Endpoint -> Steps]
    BY DEF Goto, ProcessType, Steps
  <2> QED BY <2>1 DEF ProcessType, loopVars, sendVars
<1>2. LoopInv'
  BY DEF LoopInv, Goto, loopVars, IsWarmup, ProcessType
<1>3. NetType(AnyID)'
  <2>1. connected' \in [Endpoint -> BOOLEAN] /\ subscribed' \in BOOLEAN
    BY DEF NetType
  <2>2. downlink' \in Seq(AnyID)
    BY SuffixLost DEF NetType
  <2> QED BY <2>1, <2>2 DEF NetType
<1>4. SessionType' /\ TableType(AnyID)'
  BY SessionFrame, TableFrame
<1> QED BY <1>1, <1>2, <1>3, <1>4

LEMMA TypeWriteResults ==
  ASSUME NEW e \in Endpoint, TypeInv, WriteResults(e)
  PROVE  TypeInv'
<1>1. CASE FailAt(e, "writeResults")
  BY <1>1, TypeFailAt
<1>2. CASE ~FailAt(e, "writeResults")
  <2> USE DEF TypeInv, TypeOver
  <2>1. Exit(e, "succeeded") /\ csv' = [csv EXCEPT ![e] = TRUE]
    BY <1>2 DEF WriteResults
  <2>2. UNCHANGED <<orchVars, pipeVars, loopVars, results, cycles, sendVars, handler>>
    BY <1>2 DEF WriteResults
  <2>3. ProcessType' /\ LoopInv' /\ NetType(AnyID)'
    BY <2>1, <2>2, TypeExit
  <2>4. TableType(AnyID)'
    BY <2>1, <2>2 DEF TableType
  <2>5. SessionType'
    BY <2>2, SessionFrame
  <2> QED BY <2>3, <2>4, <2>5
<1> QED BY <1>1, <1>2

LEMMA TypeConnectionLost ==
  ASSUME NEW e \in Endpoint, TypeInv, ConnectionLost(e)
  PROVE  TypeInv'
<1> USE DEF TypeInv, TypeOver
<1>1. NetType(AnyID)'
  <2>1. connected' \in [Endpoint -> BOOLEAN] /\ subscribed' \in BOOLEAN
    BY DEF ConnectionLost, NetType
  <2>2. uplink' \in Seq(AnyID) /\ downlink' \in Seq(AnyID)
    BY SuffixLost DEF ConnectionLost, NetType
  <2>3. handler' \in HandlerType /\ suback' \in {"idle", "requested", "granted"}
    BY DEF ConnectionLost, endVars, NetType
  <2> QED BY <2>1, <2>2, <2>3 DEF NetType
<1>2. UNCHANGED <<orchVars, pipeVars, pc, loopVars, cpu, sendVars, tableVars>>
  BY DEF ConnectionLost, endVars
<1>3. ProcessType' /\ LoopInv'
  BY <1>2, ProcessFrame, LoopFrame
<1>4. SessionType' /\ TableType(AnyID)'
  BY <1>2, SessionFrame, TableFrame
<1> QED BY <1>1, <1>3, <1>4

LEMMA TypeEndpointStep ==
  ASSUME NEW e \in Endpoint, TypeInv, EndpointStep(e)
  PROVE  TypeInv'
BY TypeConnect, TypeReadGo, TypeNewCPU, TypeEnable, TypeStop, TypeWriteDone, TypeReadFinish,
   TypeDisconnect, TypeWriteResults DEF EndpointStep

----------------------------------------------------------------------------
(* Type correctness: messages *)

\* A measurement is written where the table has a place for it; a write to any
\* other place would leave the function as it is.
LEMMA TableWrite ==
  ASSUME NEW e \in Endpoint, NEW slot, NEW index, NEW id \in AnyID, TableType(AnyID),
         results' = [results EXCEPT ![e][slot][index] = id], UNCHANGED <<cycles, csv>>
  PROVE  TableType(AnyID)'
<1>1. DOMAIN results' = Endpoint
  BY DEF TableType
<1>2. ASSUME NEW d \in Endpoint
      PROVE  results'[d] \in
               [SlotsOf(d) -> [0 .. MessageCount[d] - 1 -> AnyID \union {Untouched}]]
  <2>1. CASE d # e
    BY <2>1 DEF TableType
  <2>2. CASE d = e
    <3> DEFINE row == 0 .. MessageCount[e] - 1
               value == AnyID \union {Untouched}
    <3>1. results[e] \in [SlotsOf(e) -> [row -> value]]
      BY DEF TableType
    <3>2. results'[e] = [results[e] EXCEPT ![slot] = [@ EXCEPT ![index] = id]]
      BY DEF TableType
    <3>3. ASSUME NEW k \in SlotsOf(e)
          PROVE  results'[e][k] \in [row -> value]
      <4> HIDE DEF row, value
      <4>1. results[e][k] \in [row -> value]
        BY <3>1
      <4>2. id \in value
        BY DEF value
      <4>3. CASE k = slot
        <5>1. results'[e][k] = [results[e][k] EXCEPT ![index] = id]
          BY <3>1, <3>2, <4>3
        <5> QED BY <4>1, <4>2, <5>1
      <4>4. CASE k # slot
        BY <3>1, <3>2, <4>1, <4>4
      <4> QED BY <4>3, <4>4
    <3>4. results'[e] = [k \in SlotsOf(e) |-> results'[e][k]]
      BY <3>1, <3>2
    <3> HIDE DEF row, value
    <3>5. results'[e] \in [SlotsOf(e) -> [row -> value]]
      BY <3>3, <3>4
    <3> QED BY <2>2, <3>5 DEF row, value
  <2> QED BY <2>1, <2>2
<1> QED BY <1>1, <1>2 DEF TableType

\* The message that is published is one of the run that the publisher is in.
LEMMA NewMessageIsOwn ==
  ASSUME TypeInv, pc[Publisher] = "publish", sent < MessageCount[Publisher]
  PROVE  MessageID(Publisher, sent) \in IDs(Publisher) /\ MessageID(Publisher, sent) \in AnyID
<1>1. payloadIndex[Publisher] \in 0 .. PayloadCount[Publisher] - 1
  BY ConfigAssumption DEF TypeInv, TypeOver, LoopInv, ProcessType
<1>2. /\ run[Publisher] \in 0 .. WarmupRuns[Publisher] + Runs[Publisher] - 1
      /\ sent \in 0 .. MessageCount[Publisher] - 1
  BY ConfigAssumption DEF TypeInv, TypeOver, ProcessType
<1>3. MessageID(Publisher, sent) \in IDs(Publisher)
  BY <1>1, <1>2 DEF MessageID, IDs
<1>4. /\ payloadIndex[Publisher] \in Int /\ run[Publisher] \in Int /\ sent \in Int
  BY ConfigAssumption DEF TypeInv, TypeOver, ProcessType
<1>5. MessageID(Publisher, sent) \in AnyID
  BY <1>4 DEF MessageID, AnyID
<1> QED BY <1>3, <1>5

LEMMA TypePublish ==
  ASSUME TypeInv, Publish
  PROVE  TypeInv'
<1>1. CASE FailAt(Publisher, "publish")
  BY <1>1, TypeFailAt
<1>2. CASE ~FailAt(Publisher, "publish")
  <2>0. pc[Publisher] = "publish" /\ sent < MessageCount[Publisher] => MessageID(Publisher, sent) \in AnyID
    BY NewMessageIsOwn
  <2> USE DEF TypeInv, TypeOver
  <2>1. /\ pc[Publisher] = "publish" /\ sent < MessageCount[Publisher] /\ sent' = sent + 1
        /\ UNCHANGED <<pc, cpu, connected, brokerVars, downlink>>
        /\ UNCHANGED <<orchVars, pipeVars, loopVars, cycles, csv, handler>>
    BY <1>2 DEF Publish, MessageFrame
  <2>2. MessageID(Publisher, sent) \in AnyID
    BY <2>1, <2>0
  <2>3. TableType(AnyID)'
    <3>1. CASE results' = results
      BY <3>1, <2>1, TableFrame DEF tableVars
    <3>2. CASE results' = [results EXCEPT ![Publisher][Slot(Publisher)][sent]
                                            = MessageID(Publisher, sent)]
      BY <3>2, <2>1, <2>2, TableWrite
    <3> QED BY <1>2, <3>1, <3>2 DEF Publish
  <2>4. uplink' \in Seq(AnyID)
    <3>1. uplink' = uplink \/ uplink' = Append(uplink, MessageID(Publisher, sent))
      BY <1>2 DEF Publish
    <3>2. uplink \in Seq(AnyID)
      BY DEF NetType
    <3> QED BY <2>2, <3>1, <3>2, AppendProperties
  <2>5. tokenError' \in BOOLEAN
    BY <1>2 DEF Publish, ProcessType
  <2>6. sent' \in 0 .. MessageCount[Publisher]
    BY <2>1, ConfigAssumption DEF ProcessType
  <2>7. ProcessType'
    BY <2>1, <2>5, <2>6 DEF ProcessType, loopVars
  <2>8. NetType(AnyID)'
    BY <2>1, <2>4 DEF NetType, brokerVars
  <2>9. SessionType' /\ LoopInv'
    BY <2>1, SessionFrame, LoopFrame
  <2> QED BY <2>3, <2>7, <2>8, <2>9
<1> QED BY <1>1, <1>2

LEMMA TypeWaitTokens ==
  ASSUME TypeInv, WaitTokens
  PROVE  TypeInv'
<1>1. CASE FailAt(Publisher, "publish")
  BY <1>1, TypeFailAt
<1>2. CASE ~FailAt(Publisher, "publish")
  <2> DEFINE step == IF IsWarmup(Publisher) THEN "done" ELSE "stop"
  <2>1. pc[Publisher] = "publish" /\ Goto(Publisher, step) /\ UNCHANGED cpu /\ StepFrame
    BY <1>2 DEF WaitTokens
  <2>2. cpu' \in [Endpoint -> {"none", "created", "enabled"}]
    BY <2>1 DEF TypeInv, TypeOver, ProcessType
  <2> QED BY <2>1, <2>2, TypeStepFrame DEF Steps, StepFrame
<1> QED BY <1>1, <1>2

\* A step of the subscriber's main goroutine that leaves tables and sending alone.
LEMMA TypeSubscriberGoto ==
  ASSUME NEW step \in Steps, TypeInv, Goto(Subscriber, step),
         UNCHANGED <<loopVars, cpu, tableVars, sendVars>>,
         pc[Subscriber] \notin {"readFinish", "disconnect", "writeResults", "succeeded", "failed"},
         step \notin {"absent", "connect"},
         step \in {"newCPU", "enable", "stop"} => ~IsWarmup(Subscriber)
  PROVE  ProcessType' /\ LoopInv' /\ TableType(AnyID)'
<1>1. LoopInv' /\ pc' \in [Endpoint -> Steps]
  BY TypeGoto DEF Goto
<1> QED BY <1>1, TableFrame DEF TypeInv, TypeOver, ProcessType, loopVars, sendVars

LEMMA TypeSubscribe ==
  ASSUME TypeInv, Subscribe
  PROVE  TypeInv'
<1>1. CASE FailAt(Subscriber, "subscribe")
  BY <1>1, TypeFailAt
<1>2. CASE ~FailAt(Subscriber, "subscribe")
  <2> USE DEF TypeInv, TypeOver
  <2>1. pc[Subscriber] = "subscribe" /\ Goto(Subscriber, "suback") /\ handler' = NewHandler
    BY <1>2 DEF Subscribe
  <2>2. ProcessType' /\ LoopInv' /\ TableType(AnyID)'
    BY <1>2, <2>1, TypeSubscriberGoto DEF Subscribe, Steps
  <2>3. handler' \in HandlerType
    <3>1. /\ payloadIndex[Subscriber] \in 0 .. PayloadCount[Subscriber] - 1
          /\ run[Subscriber] \in 0 .. WarmupRuns[Subscriber] + Runs[Subscriber] - 1
      BY <2>1, ConfigAssumption DEF LoopInv, ProcessType
    <3>2. Slot(Subscriber) \in Int
      BY <3>1, ConfigAssumption DEF Slot, ResultIndex
    <3>3. IsWarmup(Subscriber) \in BOOLEAN
      BY DEF IsWarmup
    <3> QED BY <2>1, <3>1, <3>2, <3>3 DEF NewHandler, HandlerType, Round
  <2>4. SessionType'
    BY <1>2, SessionFrame DEF Subscribe
  <2>5. NetType(AnyID)'
    BY <1>2, <2>3 DEF Subscribe, NetType
  <2> QED BY <2>2, <2>4, <2>5
<1> QED BY <1>1, <1>2

LEMMA TypeGrantSubscription ==
  ASSUME TypeInv, GrantSubscription
  PROVE  TypeInv'
<1> USE DEF TypeInv, TypeOver, GrantSubscription
<1>1. UNCHANGED <<orchVars, pipeVars, pc, loopVars, cpu, sendVars, tableVars, handler>>
  BY DEF endVars
<1>2. SessionType' /\ ProcessType' /\ LoopInv' /\ TableType(AnyID)'
  BY <1>1, SessionFrame, ProcessFrame, LoopFrame, TableFrame
<1>3. NetType(AnyID)'
  BY <1>1 DEF NetType
<1> QED BY <1>2, <1>3

LEMMA TypeWaitSuback ==
  ASSUME TypeInv, WaitSuback
  PROVE  TypeInv'
<1>1. CASE FailAt(Subscriber, "suback")
  BY <1>1, TypeFailAt
<1>2. CASE ~FailAt(Subscriber, "suback")
  <2> USE DEF TypeInv, TypeOver
  <2> DEFINE step == IF IsWarmup(Subscriber) THEN "ready" ELSE "enable"
  <2>1. pc[Subscriber] = "suback" /\ Goto(Subscriber, step)
    BY <1>2 DEF WaitSuback
  <2>2. ProcessType' /\ LoopInv' /\ TableType(AnyID)'
    BY <1>2, <2>1, TypeSubscriberGoto DEF WaitSuback, Steps
  <2>3. SessionType'
    BY <1>2, SessionFrame DEF WaitSuback
  <2>4. NetType(AnyID)'
    BY <1>2 DEF WaitSuback, NetType
  <2> QED BY <2>2, <2>3, <2>4
<1> QED BY <1>1, <1>2

LEMMA TypeWriteReady ==
  ASSUME TypeInv, WriteReady
  PROVE  TypeInv'
<1>1. CASE FailAt(Subscriber, "ready")
  BY <1>1, TypeFailAt
<1>2. CASE ~FailAt(Subscriber, "ready")
  <2> USE DEF TypeInv, TypeOver
  <2>1. pc[Subscriber] = "ready" /\ Goto(Subscriber, "wait")
    BY <1>2 DEF WriteReady
  <2>2. ProcessType' /\ LoopInv' /\ TableType(AnyID)'
    BY <1>2, <2>1, TypeSubscriberGoto DEF WriteReady, Steps
  <2>3. SessionType'
    <3>1. [stdout EXCEPT ![Subscriber] = Append(@, "READY")] \in [Endpoint -> Seq(Signals)]
      BY PipeAppend DEF SessionType, Signals
    <3> QED BY <1>2, <3>1 DEF WriteReady, SessionType, orchVars
  <2>4. NetType(AnyID)'
    BY <1>2, NetFrame DEF WriteReady
  <2> QED BY <2>2, <2>3, <2>4
<1> QED BY <1>1, <1>2

\* What every step of the handler leaves alone.
LEMMA TypeHandlerFrame ==
  ASSUME TypeInv, UNCHANGED <<orchVars, pipeVars, pc, loopVars, cpu, sendVars>>
  PROVE  SessionType' /\ ProcessType' /\ LoopInv'
BY SessionFrame, ProcessFrame, LoopFrame DEF TypeInv, TypeOver

LEMMA TypeHandleMessage ==
  ASSUME TypeInv, HandleMessage
  PROVE  TypeInv'
<1> USE DEF TypeInv, TypeOver, HandleMessage
<1>1. SessionType' /\ ProcessType' /\ LoopInv'
  BY TypeHandlerFrame
<1>2. Head(downlink) \in AnyID /\ downlink' \in Seq(AnyID)
  BY HeadTailProperties DEF NetType
<1>3. TableType(AnyID)'
  <2>1. CASE results' = results
    BY <2>1, TableFrame DEF tableVars
  <2>2. CASE results' = [results EXCEPT ![Subscriber][handler.slot][handler.index] = Head(downlink)]
    <3>1. TableType(AnyID) /\ UNCHANGED <<cycles, csv>>
      OBVIOUS
    <3> HIDE DEF HandleMessage, TypeInv, TypeOver
    <3> QED BY <2>2, <3>1, <1>2, TableWrite
  <2> QED BY <2>1, <2>2
<1>4. handler' \in HandlerType
  <2>1. handler.index + 1 \in Nat /\ handler \in HandlerType
    BY DEF NetType, HandlerType
  <2>2. CASE handler' = [handler EXCEPT !.index = @ + 1]
    BY <2>1, <2>2 DEF HandlerType
  <2>3. CASE handler' = [handler EXCEPT !.index = @ + 1, !.channel = <<"nil">>]
    BY <2>1, <2>3 DEF HandlerType
  <2> QED BY <2>2, <2>3
<1>5. NetType(AnyID)'
  BY <1>2, <1>4 DEF NetType, brokerVars
<1> QED BY <1>1, <1>3, <1>5

LEMMA TypeIndexPanic ==
  ASSUME TypeInv, IndexPanic
  PROVE  TypeInv'
BY TypeFailAt DEF IndexPanic

LEMMA TypeHandleUnreadable ==
  ASSUME TypeInv, HandleUnreadable
  PROVE  TypeInv'
<1> USE DEF TypeInv, TypeOver, HandleUnreadable
<1>1. SessionType' /\ ProcessType' /\ LoopInv' /\ TableType(AnyID)'
  BY TypeHandlerFrame, TableFrame
<1>2. downlink' \in Seq(AnyID)
  BY HeadTailProperties DEF NetType
<1>3. handler' \in HandlerType
  BY DEF NetType, HandlerType
<1>4. NetType(AnyID)'
  BY <1>2, <1>3 DEF NetType, brokerVars
<1> QED BY <1>1, <1>4

LEMMA TypeWaitMessages ==
  ASSUME TypeInv, WaitMessages
  PROVE  TypeInv'
<1>1. CASE FailAt(Subscriber, "wait")
  BY <1>1, TypeFailAt
<1>2. CASE ~FailAt(Subscriber, "wait")
  <2> USE DEF TypeInv, TypeOver
  <2> DEFINE step == IF IsWarmup(Subscriber) THEN "done" ELSE "stop"
  <2>1. pc[Subscriber] = "wait" /\ Goto(Subscriber, step)
    BY <1>2 DEF WaitMessages
  <2>2. ProcessType' /\ LoopInv' /\ TableType(AnyID)'
    BY <1>2, <2>1, TypeSubscriberGoto DEF WaitMessages, Steps
  <2>3. SessionType'
    BY <1>2, SessionFrame DEF WaitMessages
  <2>4. handler' \in HandlerType
    BY <1>2 DEF WaitMessages, NetType, HandlerType
  <2>5. NetType(AnyID)'
    BY <1>2, <2>4 DEF WaitMessages, NetType, netVars, brokerVars
  <2> QED BY <2>2, <2>3, <2>5
<1> QED BY <1>1, <1>2

LEMMA TypeBroker ==
  ASSUME TypeInv, Route \/ Drop
  PROVE  TypeInv'
<1> USE DEF TypeInv, TypeOver
<1>1. UNCHANGED <<orchVars, pipeVars, endVars, connected, brokerVars>> /\ uplink # <<>>
  BY DEF Route, Drop
<1>2. SessionType' /\ ProcessType' /\ LoopInv' /\ TableType(AnyID)'
  BY <1>1, SessionFrame, ProcessFrame, LoopFrame, TableFrame DEF endVars
<1>3. Head(uplink) \in AnyID /\ Tail(uplink) \in Seq(AnyID)
  BY <1>1, HeadTailProperties DEF NetType
<1>4. Append(downlink, Head(uplink)) \in Seq(AnyID)
  BY <1>3, AppendProperties DEF NetType
<1>5. uplink' \in Seq(AnyID) /\ downlink' \in Seq(AnyID)
  BY <1>3, <1>4 DEF Route, Drop, NetType
<1>6. NetType(AnyID)'
  BY <1>1, <1>5 DEF NetType, brokerVars, endVars
<1> QED BY <1>2, <1>6

LEMMA TypeInterrupt ==
  ASSUME TypeInv, Interrupt
  PROVE  TypeInv'
<1> USE DEF TypeInv, TypeOver, Interrupt, OrchFail
<1>1. SessionType'
  BY DEF SessionType, pipeVars
<1> QED BY <1>1, EndFrame

----------------------------------------------------------------------------
(* Type correctness: the theorem *)

\* The processes that startBenchmark is about to start are not running yet.
StartInv ==
  /\ orch = "startSubscriber" => pc[Subscriber] = "absent"
  /\ orch \in {"startSubscriber", "startPublisher"} => pc[Publisher] = "absent"

\* Only the orchestrator moves itself, and only Start wakes an absent process.
LEMMA EndpointsDoNotStart ==
  ASSUME StartInv, TypeInv, UNCHANGED orch,
         pc' = pc \/ \E e \in Endpoint, step \in Steps : pc[e] # "absent" /\ Goto(e, step)
  PROVE  StartInv'
BY DEF StartInv, Goto, TypeInv, TypeOver, ProcessType

LEMMA StartOrchestrator ==
  ASSUME StartInv, TypeInv, Orchestrator
  PROVE  StartInv'
<1> AfterRound(0) \in OrchSteps \ {"startSubscriber", "startPublisher"}
  BY DEF AfterRound, OrchSteps
<1> AfterRound(repetition + 1) \in OrchSteps \ {"startSubscriber", "startPublisher"}
  BY DEF AfterRound, OrchSteps
<1>1. CASE StartSubscriber \/ StartPublisher
  BY <1>1 DEF StartSubscriber, StartPublisher, Start, OrchGoto, OrchFail, StartInv, OrchSteps,
     TypeInv, TypeOver, ProcessType
<1>2. CASE ~(StartSubscriber \/ StartPublisher)
  <2>1. UNCHANGED pc /\ orch' \notin {"startSubscriber", "startPublisher"}
    BY <1>2 DEF Orchestrator, WriteSubscriberGo, ReadReady, WritePublisherGo, ReadPublisherDone,
       ReadSubscriberDone, WritePublisherFinish, WriteSubscriberFinish, WaitPublisher,
       WaitSubscriber, OrchWrite, OrchRead, OrchWait, OrchGoto, OrchFail, OrchSteps, endVars
  <2> QED BY <2>1 DEF StartInv
<1> QED BY <1>1, <1>2

\* The subscriber's and the publisher's steps move a running process only.
LEMMA StartStep ==
  ASSUME StartInv, TypeInv, PublisherStep \/ SubscriberStep \/ HandlerStep \/ BrokerStep \/ FaultStep
  PROVE  StartInv'
<1>1. ASSUME NEW e \in Endpoint, NEW at \in Steps \ {"absent"}, FailAt(e, at)
      PROVE  StartInv'
  BY <1>1, EndpointsDoNotStart DEF FailAt, Fail, Exit, ExitFrame, orchVars, Steps
<1>2. ASSUME NEW e \in Endpoint, EndpointStep(e)
      PROVE  StartInv'
  <2>1. CASE Connect(e)
    BY <2>1, <1>1, EndpointsDoNotStart DEF Connect, orchVars, Steps
  <2>2. CASE ReadGo(e) \/ ReadFinish(e)
    <3>1. FirstStep(e) \in Steps
      BY DEF FirstStep, Steps
    <3> QED BY <2>2, <3>1, EndpointsDoNotStart DEF ReadGo, ReadFinish, Read, Fail, Exit, orchVars, Steps
  <2>3. CASE NewCPU(e) \/ Enable(e) \/ Stop(e)
    <3>1. CASE FailAt(e, "newCPU") \/ FailAt(e, "enable") \/ FailAt(e, "stop")
      BY <3>1, <1>1 DEF Steps
    <3> QED BY <2>3, <3>1, EndpointsDoNotStart DEF NewCPU, Enable, Stop, StepFrame, orchVars, Steps
  <2>4. CASE WriteDone(e)
    BY <2>4, <1>1, EndpointsDoNotStart DEF WriteDone, NextRound, orchVars, Steps
  <2>5. CASE Disconnect(e) \/ WriteResults(e)
    BY <2>5, <1>1, EndpointsDoNotStart DEF Disconnect, WriteResults, Exit, orchVars, Steps
  <2> QED BY <1>2, <2>1, <2>2, <2>3, <2>4, <2>5 DEF EndpointStep
<1>3. CASE Publish \/ WaitTokens
  BY <1>3, <1>1, EndpointsDoNotStart DEF Publish, WaitTokens, MessageFrame, StepFrame, orchVars, Steps
<1>4. CASE Subscribe \/ WaitSuback \/ WriteReady \/ WaitMessages
  BY <1>4, <1>1, EndpointsDoNotStart DEF Subscribe, WaitSuback, WriteReady, WaitMessages, orchVars,
     Steps
<1>5. CASE HandleMessage \/ HandleUnreadable \/ BrokerStep \/ Drop
  BY <1>5, EndpointsDoNotStart DEF HandleMessage, HandleUnreadable, BrokerStep, GrantSubscription,
     Route, Drop, orchVars, endVars
<1>6. CASE IndexPanic \/ \E e \in Endpoint : Crash(e)
  BY <1>6, <1>1 DEF IndexPanic, Crash, Alive, TypeInv, TypeOver, ProcessType
<1>7. CASE Interrupt
  BY <1>7 DEF Interrupt, OrchFail, StartInv
<1>8. CASE \E e \in Endpoint : ConnectionLost(e)
  BY <1>8, EndpointsDoNotStart DEF ConnectionLost, orchVars, endVars
<1> QED
  BY <1>2, <1>3, <1>4, <1>5, <1>6, <1>7, <1>8
     DEF PublisherStep, SubscriberStep, HandlerStep, FaultStep

LEMMA TypeStep ==
  ASSUME TypeInv, StartInv, Next
  PROVE  TypeInv' /\ StartInv'
<1>1. CASE Orchestrator
  BY <1>1, TypeOrchestrator, StartOrchestrator DEF StartInv
<1>2. CASE PublisherStep
  BY <1>2, TypeEndpointStep, TypePublish, TypeWaitTokens, StartStep DEF PublisherStep
<1>3. CASE SubscriberStep
  BY <1>3, TypeEndpointStep, TypeSubscribe, TypeWaitSuback, TypeWriteReady, TypeWaitMessages,
     StartStep DEF SubscriberStep
<1>4. CASE HandlerStep \/ BrokerStep
  BY <1>4, TypeHandleMessage, TypeIndexPanic, TypeGrantSubscription, TypeBroker, StartStep
     DEF HandlerStep, BrokerStep
<1>5. CASE FaultStep
  <2>1. ASSUME NEW e \in Endpoint, Crash(e) PROVE TypeInv'
    BY <2>1, TypeFailAt DEF Crash
  <2> QED
    BY <1>5, <2>1, TypeInterrupt, TypeBroker, TypeHandleUnreadable, TypeConnectionLost, StartStep
       DEF FaultStep
<1> QED BY <1>1, <1>2, <1>3, <1>4, <1>5 DEF Next

LEMMA TypeStutter ==
  ASSUME TypeInv, StartInv, UNCHANGED vars
  PROVE  TypeInv' /\ StartInv'
<1>1. UNCHANGED <<orchVars, pipeVars, endVars, netVars>>
  BY DEF vars
<1>2. SessionType' /\ StartInv'
  BY <1>1, SessionFrame DEF TypeInv, TypeOver, StartInv, orchVars, endVars
<1> QED BY <1>1, <1>2, EndFrame DEF TypeInv, TypeOver

LEMMA TypeInvariance == Spec => [](TypeInv /\ StartInv)
<1>1. Init => TypeInv /\ StartInv
  BY TypeInit DEF Init, StartInv
<1>2. (TypeInv /\ StartInv) /\ [Next]_vars => (TypeInv /\ StartInv)'
  BY TypeStep, TypeStutter
<1> QED BY <1>1, <1>2, PTL DEF Spec

----------------------------------------------------------------------------
(* The handshake: the rounds of an endpoint, counted *)

LEMMA CompletedNat ==
  ASSUME TypeInv, NEW e \in Endpoint
  PROVE  Completed(e) \in Nat
<1>1. payloadIndex[e] \in Nat /\ run[e] \in Nat /\ WarmupRuns[e] + Runs[e] \in Nat
  BY ConfigAssumption DEF TypeInv, TypeOver, ProcessType
<1>2. \A a, b \in Nat : a * b \in Nat
  OBVIOUS
<1> QED BY <1>1, <1>2 DEF Completed

\* Both branches of the nested loops are one more round.
LEMMA NextRoundCounts ==
  ASSUME TypeInv, NEW e \in Endpoint, NextRound(e)
  PROVE  Completed(e)' = Completed(e) + 1
<1> DEFINE n == WarmupRuns[e] + Runs[e]
<1>1. payloadIndex[e] \in Nat /\ run[e] \in 0 .. n - 1 /\ n \in Nat
      /\ payloadIndex \in [Endpoint -> Nat] /\ run \in [Endpoint -> Nat]
  BY ConfigAssumption DEF TypeInv, TypeOver, ProcessType
<1>2. CASE run[e] + 1 < n
  <2>1. payloadIndex'[e] = payloadIndex[e] /\ run'[e] = run[e] + 1
    BY <1>1, <1>2 DEF NextRound
  <2>2. payloadIndex[e] * n \in Int
    BY <1>1
  <2> QED BY <1>1, <2>1, <2>2 DEF Completed
<1>3. CASE ~(run[e] + 1 < n)
  <2>1. payloadIndex'[e] = payloadIndex[e] + 1 /\ run'[e] = 0 /\ run[e] + 1 = n
    BY <1>1, <1>3 DEF NextRound
  <2>2. (payloadIndex[e] + 1) * n = payloadIndex[e] * n + n /\ payloadIndex[e] * n \in Int
    BY <1>1
  <2> QED BY <1>1, <2>1, <2>2 DEF Completed
<1> QED BY <1>2, <1>3

LEMMA CompletedFrame ==
  ASSUME NEW e \in Endpoint, payloadIndex'[e] = payloadIndex[e], run'[e] = run[e]
  PROVE  Completed(e)' = Completed(e)
BY DEF Completed

\* An endpoint beyond its loops has completed all its rounds.
LEMMA AllRoundsCompleted ==
  ASSUME NEW e \in Endpoint, payloadIndex[e] = PayloadCount[e], run[e] = 0
  PROVE  Completed(e) = Rounds(e)
<1>1. PayloadCount[e] * (WarmupRuns[e] + Runs[e]) \in Int
  BY ConfigAssumption
<1> QED BY <1>1 DEF Completed, Rounds

----------------------------------------------------------------------------
(* The handshake: how an endpoint moves *)

Holds(e) == PlaceInv(e) /\ ReadInv(e)

LEMMA HoldsFrame ==
  ASSUME NEW f \in Endpoint, Holds(f), UNCHANGED orchVars,
         pc'[f] = pc[f], stdin'[f] = stdin[f], stdout'[f] = stdout[f],
         payloadIndex'[f] = payloadIndex[f], run'[f] = run[f]
  PROVE  Holds(f)'
<1>1. Completed(f)' = Completed(f)
  BY CompletedFrame
<1> QED
  BY <1>1 DEF Holds, PlaceInv, ReadInv, Awaits, Released, Unstarted, Seen, InRound, Answered, Waiting,
     Leaving, Announced, Preparing, Working, Finishing, Told, Between, Alive, orchVars

\* The steps of one endpoint leave the other and the orchestrator where they are.
LEMMA OneMoves ==
  ASSUME HandshakeInv, NEW e \in Endpoint, UNCHANGED orchVars, pc[e] # "succeeded", Holds(e)',
         \A f \in Endpoint \ {e} :
           /\ pc'[f] = pc[f] /\ stdin'[f] = stdin[f] /\ stdout'[f] = stdout[f]
           /\ payloadIndex'[f] = payloadIndex[f] /\ run'[f] = run[f]
  PROVE  HandshakeInv'
<1>1. \A f \in Endpoint : Holds(f)'
  BY HoldsFrame DEF HandshakeInv, Holds
<1>2. RepetitionInv'
  BY DEF HandshakeInv, RepetitionInv, orchVars
<1> QED BY <1>1, <1>2 DEF HandshakeInv, Holds

\* An endpoint that fails is out of the protocol: nothing is sent to it in vain
\* but its GO, and what it has answered stays.
LEMMA FailHolds ==
  ASSUME NEW e \in Endpoint, Holds(e), UNCHANGED orchVars,
         pc'[e] = "failed", stdout'[e] = stdout[e],
         payloadIndex'[e] = payloadIndex[e], run'[e] = run[e]
  PROVE  Holds(e)'
<1>1. Completed(e)' = Completed(e)
  BY CompletedFrame
<1>2. PlaceInv(e)'
  BY <1>1 DEF Holds, PlaceInv, Awaits, Released, Unstarted, Seen, InRound, Answered, Waiting,
     Leaving, Announced, orchVars
<1>3. ReadInv(e)'
  BY <1>1 DEF Holds, ReadInv, Alive, Told, Between, Preparing, Working, Finishing, orchVars
<1> QED BY <1>2, <1>3 DEF Holds

\* An endpoint goes on in the part of the protocol it is in; the publisher's work
\* begins without a READY.
LEMMA MoveHolds ==
  ASSUME NEW e \in Endpoint, Holds(e), UNCHANGED orchVars,
         stdin'[e] = stdin[e], stdout'[e] = stdout[e],
         payloadIndex'[e] = payloadIndex[e], run'[e] = run[e],
         \/ Preparing(e) /\ Preparing(e)'
         \/ Preparing(e) /\ Working(e)' /\ e = Publisher
         \/ Working(e) /\ Working(e)'
         \/ pc[e] = "connect" /\ pc'[e] = "readGo"
         \/ pc[e] \in {"disconnect", "writeResults"} /\ Finishing(e)'
  PROVE  Holds(e)'
<1>1. Completed(e)' = Completed(e)
  BY CompletedFrame
<1>2. UNCHANGED <<Awaits(e), Released(e), Unstarted(e), Seen(e), Announced(e)>>
  BY DEF Awaits, Released, Unstarted, Seen, Announced, orchVars
<1>3. PlaceInv(e)'
  <2> USE <1>1, <1>2 DEF Holds, PlaceInv, InRound, Answered, Waiting, Leaving, Told, Between, orchVars
  <2>1. CASE Preparing(e)
    BY <2>1 DEF Preparing, Working, Finishing, Announced
  <2>2. CASE Working(e) /\ Working(e)'
    BY <2>2 DEF Working, Preparing, Finishing
  <2>3. CASE pc[e] = "connect" /\ pc'[e] = "readGo"
    BY <2>3 DEF Working, Preparing, Finishing
  <2>4. CASE pc[e] \in {"disconnect", "writeResults"} /\ Finishing(e)'
    BY <2>4 DEF Working, Preparing, Finishing
  <2> QED BY <2>1, <2>2, <2>3, <2>4
<1>4. ReadInv(e)'
  BY <1>1 DEF Holds, ReadInv, Alive, Preparing, Working, Finishing, Told, Between, orchVars
<1> QED BY <1>3, <1>4 DEF Holds

\* READY is announced once, in the round that the orchestrator began.
LEMMA ReadyHolds ==
  ASSUME TypeInv, Holds(Subscriber), UNCHANGED orchVars, pc[Subscriber] = "ready",
         pc'[Subscriber] = "wait", stdin'[Subscriber] = stdin[Subscriber],
         stdout'[Subscriber] = Append(stdout[Subscriber], "READY"),
         payloadIndex'[Subscriber] = payloadIndex[Subscriber], run'[Subscriber] = run[Subscriber]
  PROVE  Holds(Subscriber)'
<1>1. Completed(Subscriber)' = Completed(Subscriber)
  BY CompletedFrame
<1>2. orch # "failed" =>
        InRound(Subscriber) /\ stdout[Subscriber] = <<>> /\ orch = "subscriberReady" /\ stdin[Subscriber] = <<>>
  BY DEF Holds, PlaceInv, InRound, Answered, Leaving, Waiting, Working, Preparing, Finishing, Told, Between
<1>3. PlaceInv(Subscriber)'
  BY <1>1, <1>2 DEF PlaceInv, InRound, Announced, Working, Awaits, Released, orchVars
<1>4. ReadInv(Subscriber)'
  BY <1>1 DEF Holds, ReadInv, Alive, Between, Told, Preparing, Working, Finishing, orchVars
<1> QED BY <1>3, <1>4 DEF Holds

\* GO takes an endpoint into the round that the orchestrator began, FINISH out of its loops.
LEMMA ReadHolds ==
  ASSUME TypeInv, NEW e \in Endpoint, Holds(e), UNCHANGED orchVars, stdin[e] # <<>>, stdin'[e] = Tail(stdin[e]),
         stdout'[e] = stdout[e], payloadIndex'[e] = payloadIndex[e], run'[e] = run[e],
         \/ pc[e] = "readGo" /\ Head(stdin[e]) = "GO" /\ pc'[e] = FirstStep(e)
         \/ pc[e] = "readFinish" /\ Head(stdin[e]) = "FINISH" /\ pc'[e] = "disconnect"
  PROVE  Holds(e)'
<1>1. Completed(e)' = Completed(e)
  BY CompletedFrame
<1>2. /\ pc[e] = "readGo" => stdin[e] = <<"GO">>
      /\ pc[e] = "readFinish" => stdin[e] = <<"FINISH">>
  BY DEF Holds, ReadInv, Alive
<1>3. stdin'[e] = <<>>
  <2>1. Tail(<<"GO">>) = <<>> /\ Tail(<<"FINISH">>) = <<>>
    OBVIOUS
  <2> QED BY <1>2, <2>1
<1>4. ReadInv(e)'
  BY <1>1, <1>2, <1>3 DEF Holds, ReadInv, Alive, Told, Between, Preparing, Working, Finishing, FirstStep,
     orchVars
<1>5. PlaceInv(e)'
  <2>1. UNCHANGED <<Awaits(e), Released(e), Unstarted(e), Seen(e), Announced(e)>>
    BY DEF Awaits, Released, Unstarted, Seen, Announced, orchVars
  <2>2. CASE pc[e] = "readGo"
    <3>1. orch # "failed" => Awaits(e) /\ InRound(e) /\ stdout[e] = <<>> /\ (e = Subscriber => orch = "subscriberReady")
      BY <1>2, <2>2 DEF Holds, PlaceInv, InRound, Answered, Leaving, Waiting, Working, Finishing, Between
    <3>2. IF e = Publisher THEN Preparing(e)' \/ Working(e)' ELSE Preparing(e)'
      BY <2>2 DEF FirstStep, Preparing, Working
    <3> QED
      BY <1>1, <1>3, <2>1, <3>1, <3>2 DEF PlaceInv, InRound, Announced, Awaits, Released, orchVars
  <2>3. CASE pc[e] = "readFinish"
    <3>1. orch # "failed" => Released(e) /\ Leaving(e)
      BY <1>2, <2>3 DEF Holds, PlaceInv, InRound, Answered, Waiting, Working, Preparing, Told
    <3> QED
      BY <1>1, <1>3, <2>1, <2>3, <3>1 DEF PlaceInv, Leaving, Finishing, Awaits, Released, orchVars
  <2> QED BY <2>2, <2>3
<1> QED BY <1>4, <1>5 DEF Holds

\* DONE ends the round on both sides of the pipe.
LEMMA DoneHolds ==
  ASSUME TypeInv, NEW e \in Endpoint, Holds(e), pc[e] = "done", WriteDone(e), ~FailAt(e, "done")
  PROVE  Holds(e)'
<1>1. /\ NextRound(e) /\ stdout'[e] = Append(stdout[e], "DONE") /\ stdin'[e] = stdin[e]
      /\ UNCHANGED orchVars
  BY DEF WriteDone, TypeInv, TypeOver, SessionType
<1>2. Completed(e)' = Completed(e) + 1
  BY <1>1, NextRoundCounts
<1>3. /\ Completed(e) = repetition /\ stdin[e] = <<>>
      /\ orch # "failed" => InRound(e) /\ Awaits(e) /\ stdout[e] = Announced(e)
  <2>1. Completed(e) = repetition /\ stdin[e] = <<>>
    BY DEF Holds, ReadInv, Working, Alive, Between
  <2>2. orch # "failed" => InRound(e) /\ Awaits(e) /\ stdout[e] = Announced(e)
    BY DEF Holds, PlaceInv, InRound, Answered, Leaving, Waiting, Working, Preparing, Finishing, Told, Between
  <2> QED BY <2>1, <2>2
<1>4. pc'[e] \in {"readGo", "readFinish"}
  BY <1>1 DEF NextRound, Goto, TypeInv, TypeOver, ProcessType
<1>5. PlaceInv(e)'
  BY <1>1, <1>2, <1>3, <1>4 DEF PlaceInv, InRound, Answered, Announced, Awaits, Released, Between, orchVars
<1>6. ReadInv(e)'
  <2>1. pc'[e] = "readFinish" => payloadIndex'[e] = PayloadCount[e] /\ run'[e] = 0
    <3>1. /\ pc \in [Endpoint -> Steps] /\ payloadIndex \in [Endpoint -> Nat] /\ run \in [Endpoint -> Nat]
          /\ payloadIndex[e] \in Nat /\ PayloadCount[e] \in Nat /\ payloadIndex[e] < PayloadCount[e]
      BY ConfigAssumption DEF TypeInv, TypeOver, ProcessType, LoopInv
    <3> QED BY <1>1, <3>1 DEF NextRound, Goto
  <2>2. ~Told(e)' /\ ~Preparing(e)' /\ ~Working(e)'
    BY <1>1, <1>3, <1>4 DEF Told, Preparing, Working
  <2> QED BY <1>1, <1>2, <1>3, <1>4, <2>1, <2>2 DEF ReadInv, Finishing, orchVars
<1> QED BY <1>5, <1>6 DEF Holds

----------------------------------------------------------------------------
(* The handshake: the steps *)

\* Nothing that the handshake is about changes.
LEMMA HandshakeFrame ==
  ASSUME HandshakeInv, UNCHANGED <<orchVars, pipeVars, pc, loopVars>>
  PROVE  HandshakeInv'
<1>1. \A f \in Endpoint : Holds(f)'
  BY HoldsFrame DEF HandshakeInv, Holds, pipeVars, loopVars
<1>2. RepetitionInv'
  BY DEF HandshakeInv, RepetitionInv, orchVars
<1> QED BY <1>1, <1>2 DEF HandshakeInv, Holds

LEMMA HandshakeFail ==
  ASSUME TypeInv, HandshakeInv, NEW e \in Endpoint, NEW at, at # "succeeded", FailAt(e, at)
  PROVE  HandshakeInv'
<1>1. /\ pc[e] # "succeeded" /\ pc' = [pc EXCEPT ![e] = "failed"]
      /\ stdin' = stdin /\ UNCHANGED <<orchVars, stdout, loopVars>>
  BY DEF FailAt, Fail, Exit, Goto, ExitFrame
<1>2. pc \in [Endpoint -> Steps]
  BY DEF TypeInv, TypeOver, ProcessType
<1>3. Holds(e)'
  BY <1>1, <1>2, FailHolds DEF HandshakeInv, Holds, loopVars
<1> QED BY <1>1, <1>2, <1>3, OneMoves DEF loopVars

LEMMA HandshakeMove ==
  ASSUME TypeInv, HandshakeInv, NEW e \in Endpoint, NEW step, Goto(e, step),
         UNCHANGED <<orchVars, pipeVars, loopVars>>,
         \/ Preparing(e) /\ Preparing(e)'
         \/ Preparing(e) /\ Working(e)' /\ e = Publisher
         \/ Working(e) /\ Working(e)'
         \/ pc[e] = "connect" /\ pc'[e] = "readGo"
         \/ pc[e] \in {"disconnect", "writeResults"} /\ Finishing(e)'
  PROVE  HandshakeInv'
<1>1. pc \in [Endpoint -> Steps] /\ pc' = [pc EXCEPT ![e] = step]
  BY DEF Goto, TypeInv, TypeOver, ProcessType
<1>2. Holds(e)'
  BY MoveHolds DEF HandshakeInv, Holds, loopVars, pipeVars
<1>3. pc[e] # "succeeded"
  BY DEF Preparing, Working
<1> QED BY <1>1, <1>2, <1>3, OneMoves DEF loopVars, pipeVars

LEMMA HandshakeRead ==
  ASSUME TypeInv, HandshakeInv, NEW e \in Endpoint, ReadGo(e) \/ ReadFinish(e)
  PROVE  HandshakeInv'
<1> USE DEF TypeInv, TypeOver, SessionType, ProcessType
<1>1. /\ pc[e] \in {"readGo", "readFinish"} /\ UNCHANGED <<orchVars, stdout, loopVars>>
      /\ \A f \in Endpoint \ {e} : pc'[f] = pc[f] /\ stdin'[f] = stdin[f]
  BY DEF ReadGo, ReadFinish, Read, Fail, Exit, Goto
<1>2. CASE pc'[e] = "failed"
  BY <1>1, <1>2, FailHolds, OneMoves DEF HandshakeInv, Holds, loopVars
<1>3. CASE pc'[e] # "failed"
  <2>1. /\ stdin[e] # <<>> /\ stdin'[e] = Tail(stdin[e])
        /\ \/ pc[e] = "readGo" /\ Head(stdin[e]) = "GO" /\ pc'[e] = FirstStep(e)
           \/ pc[e] = "readFinish" /\ Head(stdin[e]) = "FINISH" /\ pc'[e] = "disconnect"
    BY <1>3 DEF ReadGo, ReadFinish, Read, Fail, Exit, Goto
  <2>2. Holds(e)'
    BY <1>1, <2>1, ReadHolds DEF HandshakeInv, Holds, loopVars
  <2> QED BY <1>1, <2>2, OneMoves DEF loopVars
<1> QED BY <1>2, <1>3

LEMMA HandshakeDone ==
  ASSUME TypeInv, HandshakeInv, NEW e \in Endpoint, WriteDone(e)
  PROVE  HandshakeInv'
<1>1. CASE FailAt(e, "done")
  BY <1>1, HandshakeFail
<1>2. CASE ~FailAt(e, "done")
  <2>1. /\ pc[e] = "done" /\ NextRound(e) /\ stdout' = [stdout EXCEPT ![e] = Append(@, "DONE")]
        /\ UNCHANGED <<orchVars, stdin>>
    BY <1>2 DEF WriteDone
  <2>2. \A f \in Endpoint \ {e} :
          /\ pc'[f] = pc[f] /\ stdin'[f] = stdin[f] /\ stdout'[f] = stdout[f]
          /\ payloadIndex'[f] = payloadIndex[f] /\ run'[f] = run[f]
    BY <2>1 DEF NextRound, Goto, TypeInv, TypeOver, SessionType, ProcessType
  <2>3. Holds(e)'
    BY <1>2, <2>1, DoneHolds DEF HandshakeInv, Holds
  <2> QED BY <2>1, <2>2, <2>3, OneMoves
<1> QED BY <1>1, <1>2

LEMMA HandshakeEndpointStep ==
  ASSUME TypeInv, HandshakeInv, NEW e \in Endpoint, EndpointStep(e)
  PROVE  HandshakeInv'
<1> USE DEF TypeInv, TypeOver, ProcessType
<1>1. CASE \E at \in Steps \ {"succeeded"} : FailAt(e, at)
  BY <1>1, HandshakeFail
<1>2. CASE Connect(e) /\ ~FailAt(e, "connect")
  <2>1. Goto(e, "readGo") /\ pc[e] = "connect" /\ UNCHANGED <<orchVars, pipeVars, loopVars>>
    BY <1>2 DEF Connect
  <2>2. pc'[e] = "readGo"
    BY <2>1 DEF Goto
  <2> QED BY <2>1, <2>2, HandshakeMove
<1>3. CASE NewCPU(e) /\ ~FailAt(e, "newCPU")
  <2>1. PICK step : Goto(e, step) /\ pc[e] = "newCPU" /\ step = IF e = Publisher THEN "enable" ELSE "subscribe"
    BY <1>3 DEF NewCPU
  <2>2. UNCHANGED <<orchVars, pipeVars, loopVars>>
    BY <1>3 DEF NewCPU, StepFrame
  <2>3. Preparing(e) /\ Preparing(e)'
    BY <2>1 DEF Preparing, Goto
  <2> QED BY <2>1, <2>2, <2>3, HandshakeMove
<1>4. CASE Enable(e) /\ ~FailAt(e, "enable")
  <2>1. PICK step : Goto(e, step) /\ pc[e] = "enable" /\ step = IF e = Publisher THEN "publish" ELSE "ready"
    BY <1>4 DEF Enable
  <2>2. UNCHANGED <<orchVars, pipeVars, loopVars>>
    BY <1>4 DEF Enable, StepFrame
  <2>3. Preparing(e) /\ IF e = Publisher THEN Working(e)' ELSE Preparing(e)'
    BY <2>1 DEF Preparing, Working, Goto
  <2> QED BY <2>1, <2>2, <2>3, HandshakeMove
<1>5. CASE Stop(e) /\ ~FailAt(e, "stop")
  <2>1. Goto(e, "done") /\ pc[e] = "stop" /\ UNCHANGED <<orchVars, pipeVars, loopVars>>
    BY <1>5 DEF Stop
  <2>2. Working(e) /\ Working(e)'
    BY <2>1 DEF Working, Goto
  <2> QED BY <2>1, <2>2, HandshakeMove
<1>6. CASE Disconnect(e)
  <2>1. Goto(e, "writeResults") /\ pc[e] = "disconnect" /\ UNCHANGED <<orchVars, pipeVars, loopVars>>
    BY <1>6 DEF Disconnect
  <2>2. Finishing(e)'
    BY <2>1 DEF Finishing, Goto
  <2> QED BY <2>1, <2>2, HandshakeMove
<1>7. CASE WriteResults(e) /\ ~FailAt(e, "writeResults")
  <2>1. Goto(e, "succeeded") /\ pc[e] = "writeResults" /\ UNCHANGED <<orchVars, pipeVars, loopVars>>
    BY <1>7 DEF WriteResults, Exit
  <2>2. Finishing(e)'
    BY <2>1 DEF Finishing, Goto
  <2> QED BY <2>1, <2>2, HandshakeMove
<1>8. CASE ReadGo(e) \/ ReadFinish(e) \/ WriteDone(e)
  BY <1>8, HandshakeRead, HandshakeDone
<1>9. {"connect", "newCPU", "enable", "stop", "writeResults"} \subseteq Steps \ {"succeeded"}
  BY DEF Steps
<1> QED BY <1>1, <1>2, <1>3, <1>4, <1>5, <1>6, <1>7, <1>8, <1>9 DEF EndpointStep

LEMMA HandshakePublisher ==
  ASSUME TypeInv, HandshakeInv, Publish \/ WaitTokens
  PROVE  HandshakeInv'
<1>1. CASE FailAt(Publisher, "publish")
  BY <1>1, HandshakeFail
<1>2. CASE Publish /\ ~FailAt(Publisher, "publish")
  BY <1>2, HandshakeFrame DEF Publish, MessageFrame
<1>3. CASE WaitTokens /\ ~FailAt(Publisher, "publish")
  <2>1. PICK step \in {"done", "stop"} : Goto(Publisher, step) /\ pc[Publisher] = "publish"
    BY <1>3 DEF WaitTokens
  <2>2. UNCHANGED <<orchVars, pipeVars, loopVars>>
    BY <1>3 DEF WaitTokens, StepFrame
  <2>3. Working(Publisher) /\ Working(Publisher)'
    BY <2>1 DEF Working, Goto, TypeInv, TypeOver, ProcessType
  <2> QED BY <2>1, <2>2, <2>3, HandshakeMove
<1> QED BY <1>1, <1>2, <1>3

LEMMA HandshakeSubscriber ==
  ASSUME TypeInv, HandshakeInv, Subscribe \/ WaitSuback \/ WriteReady \/ WaitMessages
  PROVE  HandshakeInv'
<1> USE DEF TypeInv, TypeOver, ProcessType, SessionType
<1>1. CASE \E at \in {"subscribe", "suback", "ready", "wait"} : FailAt(Subscriber, at)
  BY <1>1, HandshakeFail
<1>2. CASE Subscribe /\ ~FailAt(Subscriber, "subscribe")
  <2>1. Goto(Subscriber, "suback") /\ pc[Subscriber] = "subscribe" /\ UNCHANGED <<orchVars, pipeVars, loopVars>>
    BY <1>2 DEF Subscribe
  <2>2. Preparing(Subscriber) /\ Preparing(Subscriber)'
    BY <2>1 DEF Preparing, Goto
  <2> QED BY <2>1, <2>2, HandshakeMove
<1>3. CASE WaitSuback /\ ~FailAt(Subscriber, "suback")
  <2>1. PICK step \in {"ready", "enable"} : Goto(Subscriber, step) /\ pc[Subscriber] = "suback"
    BY <1>3 DEF WaitSuback
  <2>2. UNCHANGED <<orchVars, pipeVars, loopVars>>
    BY <1>3 DEF WaitSuback
  <2>3. Preparing(Subscriber) /\ Preparing(Subscriber)'
    BY <2>1 DEF Preparing, Goto
  <2> QED BY <2>1, <2>2, <2>3, HandshakeMove
<1>4. CASE WriteReady /\ ~FailAt(Subscriber, "ready")
  <2>1. /\ pc[Subscriber] = "ready" /\ Goto(Subscriber, "wait")
        /\ stdout' = [stdout EXCEPT ![Subscriber] = Append(@, "READY")]
        /\ UNCHANGED <<orchVars, stdin, loopVars>>
    BY <1>4 DEF WriteReady
  <2>2. Holds(Subscriber)'
    BY <2>1, ReadyHolds DEF HandshakeInv, Holds, Goto, loopVars
  <2> QED BY <2>1, <2>2, OneMoves DEF Goto, loopVars
<1>5. CASE WaitMessages /\ ~FailAt(Subscriber, "wait")
  <2>1. PICK step \in {"done", "stop"} : Goto(Subscriber, step) /\ pc[Subscriber] = "wait"
    BY <1>5 DEF WaitMessages
  <2>2. UNCHANGED <<orchVars, pipeVars, loopVars>>
    BY <1>5 DEF WaitMessages
  <2>3. Working(Subscriber) /\ Working(Subscriber)'
    BY <2>1 DEF Working, Goto
  <2> QED BY <2>1, <2>2, <2>3, HandshakeMove
<1> QED BY <1>1, <1>2, <1>3, <1>4, <1>5

LEMMA HandshakeElsewhere ==
  ASSUME TypeInv, HandshakeInv, HandlerStep \/ BrokerStep \/ (FaultStep /\ ~Interrupt)
  PROVE  HandshakeInv'
<1>1. CASE IndexPanic
  BY <1>1, HandshakeFail DEF IndexPanic, Alive
<1>2. CASE \E e \in Endpoint : Crash(e)
  BY <1>2, HandshakeFail DEF Crash, Alive
<1>3. CASE HandleMessage \/ HandleUnreadable \/ GrantSubscription \/ Route \/ Drop
             \/ \E e \in Endpoint : ConnectionLost(e)
  BY <1>3, HandshakeFrame DEF HandleMessage, HandleUnreadable, GrantSubscription, Route, Drop,
     ConnectionLost, endVars
<1> QED BY <1>1, <1>2, <1>3 DEF HandlerStep, BrokerStep, FaultStep

----------------------------------------------------------------------------
(* The handshake: the orchestrator *)

\* What an orchestrator that fails leaves behind is what it had counted.
LEMMA HandshakeOrchFail ==
  ASSUME HandshakeInv, OrchFail, UNCHANGED <<repetition, stdin, pc, loopVars>>
  PROVE  HandshakeInv'
<1>1. ASSUME NEW e \in Endpoint PROVE Holds(e)'
  <2>1. Completed(e)' = Completed(e)
    BY CompletedFrame DEF loopVars
  <2> QED BY <2>1 DEF HandshakeInv, Holds, PlaceInv, ReadInv, OrchFail, Alive, Told, Between, Preparing, Working,
           Finishing, loopVars
<1> QED BY <1>1 DEF HandshakeInv, Holds, RepetitionInv, OrchFail

\* What is to be shown of a step that goes on: nothing runs but the orchestrator.
LEMMA HandshakeStart ==
  ASSUME TypeInv, StartInv, HandshakeInv, StartSubscriber \/ StartPublisher
  PROVE  HandshakeInv'
<1> USE DEF Start, OrchGoto
<1>1. CASE OrchFail /\ UNCHANGED pc
  BY <1>1, HandshakeOrchFail DEF StartSubscriber, StartPublisher, pipeVars
<1>2. CASE ~(OrchFail /\ UNCHANGED pc)
  <2>1. PICK e \in Endpoint :
          /\ pc' = [pc EXCEPT ![e] = "connect"] /\ Unstarted(e)
          /\ \/ e = Subscriber /\ orch = "startSubscriber" /\ orch' = "startPublisher"
             \/ e = Publisher /\ orch = "startPublisher" /\ orch' = AfterRound(0)
          /\ UNCHANGED <<repetition, pipeVars, loopVars>>
    BY <1>2 DEF StartSubscriber, StartPublisher, Unstarted
  <2>2. \A f \in Endpoint : Completed(f)' = Completed(f)
    BY <2>1, CompletedFrame DEF loopVars
  <2>3. /\ repetition = 0
        /\ \/ e = Subscriber /\ orch = "startSubscriber" /\ orch' = "startPublisher"
           \/ e = Publisher /\ orch = "startPublisher" /\ orch' \in {"subscriberGo", "finishPublisher"}
    BY <2>1 DEF AfterRound, HandshakeInv, RepetitionInv
  <2>4. (\A f \in Endpoint : Waiting(f)) /\ stdin[e] = <<>> /\ pc[e] = "absent"
    BY <2>1 DEF HandshakeInv, PlaceInv, Awaits, Released, Waiting, StartInv
  <2>5. pc \in [Endpoint -> Steps] /\ Repetitions \in Nat
    BY ConfigAssumption DEF TypeInv, TypeOver, ProcessType
  <2>6. \A f \in Endpoint : Waiting(f)'
    BY <2>1, <2>2, <2>3, <2>4, <2>5 DEF Waiting, Seen, Unstarted, Between, pipeVars
  <2>7. ReadInv(e)'
    BY <2>1, <2>2, <2>4, <2>5 DEF HandshakeInv, ReadInv, Told, Preparing, Working, Finishing, pipeVars
  <2>8. \A f \in Endpoint \ {e} : ReadInv(f)'
    BY <2>1, <2>2, <2>5 DEF HandshakeInv, ReadInv, Told, Preparing, Working, Finishing, Alive, Between, pipeVars,
       loopVars
  <2>9. RepetitionInv'
    BY <2>1, <2>3, <2>5 DEF RepetitionInv, AfterRound
  <2> QED BY <2>3, <2>6, <2>7, <2>8, <2>9 DEF HandshakeInv, PlaceInv, Awaits, Released
<1> QED BY <1>1, <1>2

\* A signal is written into the pipe of an endpoint between two rounds, or in vain.
LEMMA HandshakeWrite ==
  ASSUME TypeInv, HandshakeInv,
         WriteSubscriberGo \/ WritePublisherGo \/ WritePublisherFinish \/ WriteSubscriberFinish
  PROVE  HandshakeInv'
<1> USE DEF OrchWrite, OrchGoto
<1>1. CASE OrchFail
  BY <1>1, HandshakeOrchFail DEF WriteSubscriberGo, WritePublisherGo, WritePublisherFinish,
     WriteSubscriberFinish, OrchFail, endVars
<1>2. CASE ~OrchFail
  <2>1. PICK e \in Endpoint, signal \in Signals :
          /\ stdin' = [stdin EXCEPT ![e] = Append(@, signal)]
          /\ \/ e = Subscriber /\ signal = "GO" /\ orch = "subscriberGo" /\ orch' = "subscriberReady"
             \/ e = Publisher /\ signal = "GO" /\ orch = "publisherGo" /\ orch' = "publisherDone"
             \/ e = Publisher /\ signal = "FINISH" /\ orch = "finishPublisher" /\ orch' = "finishSubscriber"
             \/ e = Subscriber /\ signal = "FINISH" /\ orch = "finishSubscriber" /\ orch' = "waitPublisher"
    BY <1>2 DEF WriteSubscriberGo, WritePublisherGo, WritePublisherFinish, WriteSubscriberFinish, Signals
  <2>2. UNCHANGED <<repetition, stdout, pc, loopVars>>
    BY <1>2 DEF WriteSubscriberGo, WritePublisherGo, WritePublisherFinish, WriteSubscriberFinish, endVars
  <2>3. \A f \in Endpoint : Completed(f)' = Completed(f)
    BY <2>2, CompletedFrame DEF loopVars
  <2>4. Waiting(e) /\ Completed(e) = repetition
    BY <2>1 DEF HandshakeInv, PlaceInv, Awaits, Released, Waiting, Seen
  <2>5. pc[e] = "failed" \/ (Between(e) /\ stdin[e] = <<>> /\ stdin'[e] = <<signal>>)
    <3>1. stdin'[e] = Append(stdin[e], signal)
      BY <2>1 DEF TypeInv, TypeOver, SessionType
    <3>2. Append(<<>>, signal) = <<signal>>
      OBVIOUS
    <3>3. ~Unstarted(e)
      BY <2>1 DEF Unstarted
    <3> QED BY <2>4, <3>1, <3>2, <3>3 DEF Waiting
  <2>6. ReadInv(e)'
    BY <2>1, <2>2, <2>3, <2>4, <2>5 DEF HandshakeInv, RepetitionInv, ReadInv, Alive, Told, Between, Preparing,
       Working, Finishing, loopVars
  <2>7. PlaceInv(e)'
    BY <2>1, <2>2, <2>3, <2>4, <2>5 DEF PlaceInv, Awaits, Released, InRound, Leaving, Waiting, Told, Between
  <2>8. ASSUME NEW f \in Endpoint, f # e PROVE Holds(f)'
    <3>1. stdin'[f] = stdin[f] /\ Holds(f)
      BY <2>1, <2>8 DEF HandshakeInv, Holds, TypeInv, TypeOver, SessionType
    <3>2. ReadInv(f)'
      BY <2>2, <2>3, <3>1 DEF Holds, ReadInv, Alive, Told, Between, Preparing, Working, Finishing, loopVars
    <3>3. PlaceInv(f)'
      BY <2>1, <2>2, <2>3, <3>1, <2>8 DEF Holds, PlaceInv, Awaits, Released, Unstarted, Seen, InRound, Answered,
         Waiting, Leaving, Announced, Preparing, Working, Finishing, Told, Between
    <3> QED BY <3>2, <3>3 DEF Holds
  <2>9. RepetitionInv'
    BY <2>1, <2>2 DEF HandshakeInv, RepetitionInv
  <2> QED BY <2>6, <2>7, <2>8, <2>9 DEF HandshakeInv, Holds
<1> QED BY <1>1, <1>2

\* The orchestrator reads the signal that the endpoint's place tells, or fails.
LEMMA HandshakeReadSignal ==
  ASSUME TypeInv, HandshakeInv, ReadReady \/ ReadPublisherDone \/ ReadSubscriberDone
  PROVE  HandshakeInv'
<1> USE DEF OrchRead, OrchGoto
<1> DEFINE e == IF orch = "publisherDone" THEN Publisher ELSE Subscriber
<1>1. UNCHANGED <<stdin, pc, loopVars>>
  BY DEF ReadReady, ReadPublisherDone, ReadSubscriberDone, endVars
<1>2. \A f \in Endpoint : Completed(f)' = Completed(f)
  BY <1>1, CompletedFrame DEF loopVars
<1>3. CASE OrchFail /\ UNCHANGED repetition
  BY <1>1, <1>3, HandshakeOrchFail
<1>4. CASE ~(OrchFail /\ UNCHANGED repetition)
  <2>1. /\ stdout[e] # <<>> /\ stdout' = [stdout EXCEPT ![e] = Tail(@)]
        /\ \/ /\ orch = "subscriberReady" /\ Head(stdout[e]) = "READY"
              /\ orch' = "publisherGo" /\ repetition' = repetition
           \/ /\ orch = "publisherDone" /\ Head(stdout[e]) = "DONE"
              /\ orch' = "subscriberDone" /\ repetition' = repetition
           \/ /\ orch = "subscriberDone" /\ Head(stdout[e]) = "DONE"
              /\ orch' = AfterRound(repetition + 1) /\ repetition' = repetition + 1
    BY <1>4 DEF ReadReady, ReadPublisherDone, ReadSubscriberDone
  <2>2. e \in Endpoint /\ orch # "failed" /\ Awaits(e)
    BY <2>1 DEF Awaits
  <2>3. /\ \A f \in Endpoint \ {e} : stdout'[f] = stdout[f]
        /\ stdout'[e] = Tail(stdout[e])
        /\ repetition \in Nat /\ Repetitions \in Nat /\ repetition < Repetitions
    BY <2>1, <2>2, ConfigAssumption DEF HandshakeInv, RepetitionInv, TypeInv, TypeOver, SessionType
  <2>4. /\ Append(<<>>, "DONE") = <<"DONE">>
        /\ Tail(<<"READY">>) = <<>> /\ Tail(<<"DONE">>) = <<>>
        /\ Head(<<"READY">>) = "READY" /\ Head(<<"DONE">>) = "DONE"
        /\ Tail(Append(<<"READY">>, "DONE")) = Append(<<>>, "DONE")
    <3>1. <<"READY">> \in Seq({"READY"}) /\ <<"READY">> # <<>> /\ Tail(<<"READY">>) = <<>>
      OBVIOUS
    <3>2. Tail(Append(<<"READY">>, "DONE")) = Append(<<>>, "DONE")
      BY <3>1, HeadTailAppend
    <3> QED BY <3>2
  <2>5. RepetitionInv'
    BY <2>1, <2>3 DEF RepetitionInv, AfterRound
  <2>6. CASE orch = "subscriberReady"
    <3>1. PlaceInv(Subscriber)'
      <4>1. CASE InRound(Subscriber)
        BY <1>1, <1>2, <2>1, <2>3, <2>4, <2>6, <4>1 DEF InRound, PlaceInv, Awaits, Released, Announced, Working
      <4>2. CASE Answered(Subscriber)
        BY <1>1, <1>2, <2>1, <2>3, <2>4, <2>6, <4>2 DEF Answered, PlaceInv, Awaits, Released, Announced, Between
      <4> QED BY <2>2, <2>6, <4>1, <4>2 DEF HandshakeInv, PlaceInv
    <3>2. PlaceInv(Publisher)'
      BY <1>1, <1>2, <2>1, <2>3, <2>6 DEF HandshakeInv, PlaceInv, Awaits, Released, Waiting, Unstarted, Seen, Between
    <3>3. \A f \in Endpoint : ReadInv(f)'
      BY <1>1, <1>2, <2>1, <2>6
         DEF HandshakeInv, ReadInv, Alive, Told, Between, Preparing, Working, Finishing, loopVars
    <3> QED BY <2>5, <3>1, <3>2, <3>3 DEF HandshakeInv
  <2>7. CASE orch = "publisherDone"
    <3>1. PlaceInv(Publisher)'
      <4>1. Answered(Publisher)
        BY <2>1, <2>2, <2>7 DEF HandshakeInv, PlaceInv, InRound, Announced
      <4> QED
        BY <1>1, <1>2, <2>1, <2>3, <2>4, <2>7, <4>1
           DEF Answered, PlaceInv, Awaits, Released, Announced, Waiting, Unstarted, Seen, Between
    <3>2. PlaceInv(Subscriber)'
      BY <1>1, <1>2, <2>1, <2>3, <2>7
         DEF HandshakeInv, PlaceInv, Awaits, Released, InRound, Answered, Announced, Working, Between
    <3>3. \A f \in Endpoint : ReadInv(f)'
      BY <1>1, <1>2, <2>1, <2>7
         DEF HandshakeInv, ReadInv, Alive, Told, Between, Preparing, Working, Finishing, loopVars
    <3> QED BY <2>5, <3>1, <3>2, <3>3 DEF HandshakeInv
  <2>8. CASE orch = "subscriberDone"
    <3>1. Answered(Subscriber) /\ Waiting(Publisher)
      BY <2>1, <2>2, <2>8 DEF HandshakeInv, PlaceInv, InRound, Announced, Awaits, Released
    <3>2. /\ orch' \in {"subscriberGo", "finishPublisher"} /\ repetition' = repetition + 1
          /\ stdout'[Subscriber] = <<>>
      BY <2>1, <2>3, <2>4, <2>8, <3>1 DEF AfterRound, Answered, Announced
    <3>3. \A f \in Endpoint : Waiting(f)'
      BY <1>1, <1>2, <2>1, <2>3, <2>8, <3>1, <3>2 DEF Answered, Waiting, Unstarted, Seen, Between
    <3>4. \A f \in Endpoint : PlaceInv(f)'
      BY <3>2, <3>3 DEF PlaceInv, Awaits, Released
    <3>5. \A f \in Endpoint : ReadInv(f)'
      <4>1. \A f \in Endpoint : Completed(f) = repetition + 1
        BY <2>8, <3>1 DEF Answered, Waiting, Seen
      <4> QED
        <5>1. \A f \in Endpoint : ~Told(f)' /\ ~Preparing(f)' /\ ~Working(f)'
          BY <3>2, <3>3 DEF Waiting, Told, Between, Unstarted, Preparing, Working
        <5> QED
          BY <1>1, <1>2, <2>3, <3>2, <4>1, <5>1 DEF HandshakeInv, ReadInv, Alive, Between, Finishing, loopVars
    <3> QED BY <2>5, <3>4, <3>5 DEF HandshakeInv
  <2> QED BY <2>1, <2>6, <2>7, <2>8
<1> QED BY <1>3, <1>4

LEMMA HandshakeWait ==
  ASSUME TypeInv, HandshakeInv, WaitPublisher \/ WaitSubscriber
  PROVE  HandshakeInv'
<1>1. UNCHANGED <<repetition, stdin, stdout, pc, loopVars>>
  BY DEF WaitPublisher, WaitSubscriber, OrchWait, endVars, pipeVars
<1>2. CASE OrchFail
  BY <1>1, <1>2, HandshakeOrchFail
<1>3. CASE ~OrchFail
  <2>1. \/ orch = "waitPublisher" /\ pc[Publisher] = "succeeded" /\ orch' = "waitSubscriber"
        \/ orch = "waitSubscriber" /\ pc[Subscriber] = "succeeded" /\ orch' = "succeeded"
    BY <1>3 DEF WaitPublisher, WaitSubscriber, OrchWait, OrchGoto
  <2>2. \A f \in Endpoint : Completed(f)' = Completed(f)
    BY <1>1, CompletedFrame DEF loopVars
  <2>3. \A f \in Endpoint : PlaceInv(f)'
    BY <1>1, <2>1, <2>2 DEF HandshakeInv, PlaceInv, Awaits, Released, Leaving, Between, Finishing
  <2>4. \A f \in Endpoint : ReadInv(f)'
    BY <1>1, <2>2 DEF HandshakeInv, ReadInv, Alive, Told, Between, Preparing, Working, Finishing, loopVars
  <2>5. RepetitionInv'
    BY <1>1, <2>1 DEF HandshakeInv, RepetitionInv
  <2> QED BY <2>3, <2>4, <2>5 DEF HandshakeInv
<1> QED BY <1>2, <1>3

----------------------------------------------------------------------------
(* The handshake: the theorem *)

LEMMA HandshakeInit == Init => HandshakeInv
<1> SUFFICES ASSUME Init PROVE HandshakeInv
  OBVIOUS
<1>1. /\ orch = "startSubscriber" /\ repetition = 0 /\ pc = [e \in Endpoint |-> "absent"]
      /\ stdin = [e \in Endpoint |-> <<>>] /\ stdout = [e \in Endpoint |-> <<>>]
      /\ payloadIndex = [e \in Endpoint |-> 0] /\ run = [e \in Endpoint |-> 0]
  BY DEF Init
<1>2. \A e \in Endpoint : Completed(e) = 0
  BY <1>1, ConfigAssumption DEF Completed
<1> QED
  BY <1>1, <1>2 DEF HandshakeInv, RepetitionInv, PlaceInv, ReadInv, Awaits, Released, Waiting, Unstarted,
     Seen, Alive, Told, Between, Preparing, Working, Finishing

LEMMA HandshakeStep ==
  ASSUME TypeInv, StartInv, HandshakeInv, Next
  PROVE  HandshakeInv'
<1>1. CASE Orchestrator
  BY <1>1, HandshakeStart, HandshakeWrite, HandshakeReadSignal, HandshakeWait DEF Orchestrator
<1>2. CASE PublisherStep
  BY <1>2, HandshakeEndpointStep, HandshakePublisher DEF PublisherStep
<1>3. CASE SubscriberStep
  BY <1>3, HandshakeEndpointStep, HandshakeSubscriber DEF SubscriberStep
<1>4. CASE HandlerStep \/ BrokerStep \/ (FaultStep /\ ~Interrupt)
  BY <1>4, HandshakeElsewhere
<1>5. CASE Interrupt
  BY <1>5, HandshakeOrchFail DEF Interrupt, pipeVars, endVars
<1> QED BY <1>1, <1>2, <1>3, <1>4, <1>5 DEF Next

LEMMA HandshakeStutter == HandshakeInv /\ UNCHANGED vars => HandshakeInv'
BY HandshakeFrame DEF vars, endVars

\* The handshake holds whatever the three processes were configured with.
LEMMA Handshake == Spec => [](TypeInv /\ HandshakeInv)
<1>1. Init => TypeInv /\ StartInv /\ HandshakeInv
  BY TypeInit, HandshakeInit DEF TypeInv, Init, StartInv
<1>2. (TypeInv /\ StartInv /\ HandshakeInv) /\ [Next]_vars => (TypeInv /\ StartInv /\ HandshakeInv)'
  BY TypeStep, TypeStutter, HandshakeStep, HandshakeStutter
<1> QED BY <1>1, <1>2, PTL DEF Spec

\* Success of orchestrateMacro means that its flat count of repetitions was the
\* number of rounds of each endpoint, for any three configurations.
THEOREM SuccessIsAgreed == Spec => []SuccessMeansAgreement
<1>1. TypeInv /\ HandshakeInv => SuccessMeansAgreement
  <2> SUFFICES ASSUME TypeInv, HandshakeInv, orch = "succeeded", NEW e \in Endpoint
               PROVE  Rounds(e) = Repetitions
    BY DEF SuccessMeansAgreement
  <2>1. pc[e] = "succeeded" /\ repetition = Repetitions
    BY DEF HandshakeInv, RepetitionInv
  <2>2. Completed(e) = repetition
    BY DEF HandshakeInv, PlaceInv, Released, Leaving
  <2>3. Completed(e) = Rounds(e)
    BY <2>1, AllRoundsCompleted DEF HandshakeInv, ReadInv, Finishing
  <2> QED BY <2>1, <2>2, <2>3
<1> QED BY <1>1, Handshake, PTL

\* No endpoint ever runs ahead of the orchestrator by more than one round, nor
\* falls behind, for any three configurations.
THEOREM NobodyRunsAhead == Spec => []Lockstep
<1>1. HandshakeInv => Lockstep
  BY DEF HandshakeInv, ReadInv, Lockstep
<1> QED BY <1>1, Handshake, PTL

----------------------------------------------------------------------------
(* The round that goes from hand to hand: IInv. *)

USE DEF Endpoint, Publisher, Subscriber

\* The parts of IInv, while the subscriber has not exited.
Parts == OrchInv /\ PublisherInv /\ SubscriberInv /\ TransitInv /\ CountInv /\ WindowInv

\* What the proofs use of the types of the variables.
LEMMA Shapes ==
  ASSUME TypeInv
  PROVE  /\ pc \in [Endpoint -> Steps] /\ DOMAIN stdin = Endpoint /\ DOMAIN stdout = Endpoint
         /\ Len(uplink) \in Nat /\ Len(downlink) \in Nat
         /\ Len(uplink) = 0 <=> uplink = <<>>
         /\ Len(downlink) = 0 <=> downlink = <<>>
         /\ handler.index \in Nat /\ sent \in Nat
         /\ <<"GO">> # <<>> /\ <<"FINISH">> # <<>> /\ <<"READY">> # <<>> /\ <<"DONE">> # <<>>
         /\ <<"GO">> # <<"FINISH">> /\ <<"READY">> # <<"DONE">>
<1>1. /\ Len(uplink) \in Nat /\ Len(downlink) \in Nat
      /\ Len(uplink) = 0 <=> uplink = <<>>
      /\ Len(downlink) = 0 <=> downlink = <<>>
  BY EmptySeq, LenProperties DEF TypeInv, TypeOver, NetType
<1>2. handler.index \in Nat
  BY DEF TypeInv, TypeOver, NetType, HandlerType
<1>3. sent \in Nat
  BY ConfigAssumption DEF TypeInv, TypeOver, ProcessType
<1> QED BY <1>1, <1>2, <1>3 DEF TypeInv, TypeOver, ProcessType, SessionType

\* A step that neither moves messages nor ends the subscriber's round.
LEMMA TransitFrame ==
  ASSUME TransitInv, UNCHANGED <<uplink, downlink, handler, payloadIndex[Subscriber], run[Subscriber]>>,
         Open => Open',
         pc'[Subscriber] \in {"suback", "enable", "ready", "wait", "stop", "done"} =>
           pc[Subscriber] \in {"suback", "enable", "ready", "wait", "stop", "done"}
  PROVE  TransitInv'
<1>1. UNCHANGED <<Round(Subscriber), Quiet>>
  BY DEF Round, Quiet
<1> QED BY <1>1 DEF TransitInv, RoundOf

\* A step that changes neither the subscription nor the connection.
LEMMA WindowFrame ==
  ASSUME WindowInv, connected'[Subscriber] => connected[Subscriber], UNCHANGED <<subscribed, suback>>,
         pc'[Subscriber] \in {"enable", "ready", "wait", "stop", "done"} =>
           pc[Subscriber] \in {"enable", "ready", "wait", "stop", "done"},
         pc[Subscriber] = "suback" => pc'[Subscriber] = "suback",
         pc'[Subscriber] \in {"ready", "wait", "stop"} /\ ~IsWarmup(Subscriber)' =>
           cpu'[Subscriber] = "enabled"
  PROVE  WindowInv'
BY DEF WindowInv

\* perf is started for a measured run: nothing else happens.
LEMMA NewCPUParts ==
  ASSUME NEW e \in Endpoint, TypeInv, Parts, NewCPU(e), ~FailAt(e, "newCPU")
  PROVE  Parts'
<1>1. /\ pc[e] = "newCPU" /\ pc' = [pc EXCEPT ![e] = IF e = Publisher THEN "enable" ELSE "subscribe"]
      /\ cpu' = [cpu EXCEPT ![e] = "created"]
      /\ UNCHANGED <<orch, stdin, stdout, payloadIndex, run, sent, handler, connected, subscribed,
                     suback, uplink, downlink>>
  BY DEF NewCPU, Goto, StepFrame, orchVars, pipeVars, loopVars, sendVars, netVars, brokerVars
<1> USE Shapes DEF Parts, Between, Told, PublisherBefore, PublisherActive, Opening, Open, Closed,
             Handed, Fresh, Quiet, Counted, SameRound, Ahead
<1>2. OrchInv'
  BY <1>1 DEF OrchInv, OrchSteps, PublisherInv, SubscriberInv
<1>3. PublisherInv'
  BY <1>1 DEF PublisherInv, SubscriberInv
<1>4. SubscriberInv'
  BY <1>1 DEF PublisherInv, SubscriberInv
<1>5. TransitInv'
  BY <1>1, TransitFrame
<1>6. CountInv'
  BY <1>1 DEF CountInv, SubscriberInv
<1>7. WindowInv'
  BY <1>1, WindowFrame DEF WindowInv, IsWarmup
<1> QED BY <1>2, <1>3, <1>4, <1>5, <1>6, <1>7
----------------------------------------------------------------------------
(* The orchestrator *)

\* The orchestrator may end at any point.
LEMMA OrchFailParts ==
  ASSUME TypeInv, Parts, orch' = "failed",
         UNCHANGED <<pipeVars, endVars, netVars>>
  PROVE  Parts'
<1>1. UNCHANGED <<pc, stdin, stdout, cpu, payloadIndex, run, sent, handler, connected,
                     subscribed, suback, uplink, downlink>>
  BY DEF OrchGoto, OrchFail, pipeVars, endVars, loopVars, sendVars, netVars, brokerVars
<1> USE Shapes DEF Parts, Between, Told, PublisherBefore, PublisherActive, Opening, Open, Closed,
             Handed, Fresh, Quiet, Counted, SameRound, Ahead
<1>2. OrchInv'
  BY <1>1 DEF OrchInv, OrchSteps, PublisherInv, SubscriberInv, TransitInv
<1>3. PublisherInv'
  BY <1>1 DEF OrchInv, PublisherInv, SubscriberInv, TransitInv
<1>4. SubscriberInv'
  BY <1>1 DEF OrchInv, OrchSteps, PublisherInv, SubscriberInv, TransitInv
<1>5. TransitInv'
  BY <1>1, TransitFrame
<1>6. CountInv'
  BY <1>1 DEF OrchInv, CountInv, PublisherInv, SubscriberInv, TransitInv
<1>7. WindowInv'
  BY <1>1, WindowFrame DEF WindowInv, IsWarmup
<1> QED BY <1>2, <1>3, <1>4, <1>5, <1>6, <1>7

\* The subscriber is started first, before anything is in a pipe.
LEMMA StartSubscriberParts ==
  ASSUME TypeInv, Parts, StartSubscriber, orch' # "failed"
  PROVE  Parts'
<1>1. /\ orch = "startSubscriber" /\ orch' = "startPublisher"
      /\ pc' = [pc EXCEPT ![Subscriber] = "connect"]
      /\ UNCHANGED <<stdin, stdout, cpu, payloadIndex, run, sent, handler, connected,
                     subscribed, suback, uplink, downlink>>
  BY DEF StartSubscriber, Start, OrchGoto, OrchFail, pipeVars, loopVars, sendVars, netVars, brokerVars
<1> USE Shapes DEF Parts, Between, Told, PublisherBefore, PublisherActive, Opening, Open, Closed,
             Handed, Fresh, Quiet, Counted, SameRound, Ahead
<1>2. pc[Subscriber] = "absent" /\ pc[Publisher] = "absent" /\ SameRound
  BY <1>1 DEF OrchInv, TypeInv, LoopInv
<1>3. OrchInv'
  BY <1>1, <1>2 DEF OrchInv, OrchSteps
<1>4. PublisherInv'
  BY <1>1, <1>2 DEF PublisherInv, OrchInv
<1>5. SubscriberInv'
  BY <1>1, <1>2 DEF SubscriberInv, OrchInv, OrchSteps
<1>6. TransitInv'
  BY <1>1, <1>2, TransitFrame
<1>7. CountInv'
  BY <1>1, <1>2 DEF CountInv, OrchInv
<1>8. WindowInv'
  BY <1>1, <1>2, WindowFrame
<1> QED BY <1>3, <1>4, <1>5, <1>6, <1>7, <1>8

\* The publisher is started next to a subscriber that waits for GO.
LEMMA StartPublisherParts ==
  ASSUME TypeInv, Parts, StartPublisher, orch' # "failed"
  PROVE  Parts'
<1>1. /\ orch = "startPublisher" /\ orch' \in {"subscriberGo", "finishPublisher"}
      /\ pc' = [pc EXCEPT ![Publisher] = "connect"]
      /\ UNCHANGED <<stdin, stdout, cpu, payloadIndex, run, sent, handler, connected,
                     subscribed, suback, uplink, downlink>>
  BY DEF StartPublisher, AfterRound, Start, OrchGoto, OrchFail, pipeVars, loopVars, sendVars, netVars,
     brokerVars
<1> USE Shapes DEF Parts, Between, Told, PublisherBefore, PublisherActive, Opening, Open, Closed,
             Handed, Fresh, Quiet, Counted, SameRound, Ahead
<1>2. OrchInv'
  BY <1>1 DEF OrchInv, OrchSteps, PublisherInv, SubscriberInv, TransitInv
<1>3. PublisherInv'
  BY <1>1 DEF OrchInv, PublisherInv, SubscriberInv, TransitInv
<1>4. SubscriberInv'
  BY <1>1 DEF OrchInv, OrchSteps, PublisherInv, SubscriberInv, TransitInv
<1>5. TransitInv'
  BY <1>1, TransitFrame
<1>6. CountInv'
  BY <1>1 DEF OrchInv, CountInv, PublisherInv, SubscriberInv, TransitInv
<1>7. WindowInv'
  BY <1>1, WindowFrame DEF WindowInv, IsWarmup
<1> QED BY <1>2, <1>3, <1>4, <1>5, <1>6, <1>7

\* The subscriber is told to open the next round.
LEMMA WriteSubscriberGoParts ==
  ASSUME TypeInv, Parts, WriteSubscriberGo, orch' # "failed"
  PROVE  Parts'
<1>1. /\ orch = "subscriberGo" /\ orch' = "subscriberReady"
      /\ stdin' = [stdin EXCEPT ![Subscriber] = Append(@, "GO")]
      /\ UNCHANGED <<pc, stdout, cpu, payloadIndex, run, sent, handler, connected,
                     subscribed, suback, uplink, downlink>>
  BY DEF WriteSubscriberGo, OrchWrite, OrchGoto, OrchFail, endVars, loopVars, sendVars, netVars, brokerVars
<1> USE Shapes DEF Parts, Between, Told, PublisherBefore, PublisherActive, Opening, Open, Closed,
             Handed, Fresh, Quiet, Counted, SameRound, Ahead
<1>2. /\ SameRound /\ Closed /\ stdout[Subscriber] = <<>> /\ Quiet
      /\ stdin[Publisher] = <<>> /\ stdout[Publisher] = <<>> /\ ~PublisherActive
  BY <1>1 DEF OrchInv, OrchSteps, PublisherInv, TransitInv
<1>3. stdin' = [stdin EXCEPT ![Subscriber] = <<"GO">>]
  BY <1>1, <1>2
<1>4. OrchInv'
  BY <1>1, <1>2, <1>3 DEF OrchInv, OrchSteps, PublisherInv, SubscriberInv, TransitInv
<1>5. PublisherInv'
  BY <1>1, <1>2, <1>3 DEF OrchInv, OrchSteps, PublisherInv, SubscriberInv, TransitInv
<1>6. SubscriberInv'
  BY <1>1, <1>2, <1>3 DEF OrchInv, OrchSteps, PublisherInv, SubscriberInv, TransitInv
<1>7. TransitInv'
  BY <1>1, TransitFrame
<1>8. CountInv'
  BY <1>1, <1>2, <1>3 DEF OrchInv, OrchSteps, CountInv, PublisherInv, SubscriberInv, TransitInv
<1>9. WindowInv'
  BY <1>1, WindowFrame DEF WindowInv, IsWarmup
<1> QED BY <1>4, <1>5, <1>6, <1>7, <1>8, <1>9

\* The publisher is released into a round that is open and fresh.
LEMMA WritePublisherGoParts ==
  ASSUME TypeInv, Parts, WritePublisherGo, orch' # "failed"
  PROVE  Parts'
<1>1. /\ orch = "publisherGo" /\ orch' = "publisherDone"
      /\ stdin' = [stdin EXCEPT ![Publisher] = Append(@, "GO")]
      /\ UNCHANGED <<pc, stdout, cpu, payloadIndex, run, sent, handler, connected,
                     subscribed, suback, uplink, downlink>>
  BY DEF WritePublisherGo, OrchWrite, OrchGoto, OrchFail, endVars, loopVars, sendVars, netVars, brokerVars
<1> USE Shapes DEF Parts, Between, Told, PublisherBefore, PublisherActive, Opening, Open, Closed,
             Handed, Fresh, Quiet, Counted, SameRound, Ahead
<1>2. /\ SameRound /\ Open /\ Fresh /\ pc[Subscriber] = "wait"
      /\ stdin[Publisher] = <<>> /\ stdout[Publisher] = <<>> /\ ~PublisherActive
  BY <1>1 DEF OrchInv, OrchSteps, PublisherInv
<1>3. stdin' = [stdin EXCEPT ![Publisher] = <<"GO">>]
  BY <1>1, <1>2
<1>4. OrchInv'
  BY <1>1, <1>2, <1>3 DEF OrchInv, OrchSteps, PublisherInv, SubscriberInv, TransitInv
<1>5. PublisherInv'
  BY <1>1, <1>2, <1>3 DEF OrchInv, OrchSteps, PublisherInv, SubscriberInv, TransitInv
<1>6. SubscriberInv'
  BY <1>1, <1>2, <1>3 DEF OrchInv, OrchSteps, PublisherInv, SubscriberInv, TransitInv
<1>7. TransitInv'
  BY <1>1, TransitFrame
<1>8. CountInv'
  BY <1>1, <1>2, <1>3 DEF OrchInv, OrchSteps, CountInv, PublisherInv, SubscriberInv, TransitInv
<1>9. WindowInv'
  BY <1>1, WindowFrame DEF WindowInv, IsWarmup
<1> QED BY <1>4, <1>5, <1>6, <1>7, <1>8, <1>9

\* FINISH finds the publisher out of its rounds.
LEMMA WritePublisherFinishParts ==
  ASSUME TypeInv, Parts, WritePublisherFinish, orch' # "failed"
  PROVE  Parts'
<1>1. /\ orch = "finishPublisher" /\ orch' = "finishSubscriber"
      /\ stdin' = [stdin EXCEPT ![Publisher] = Append(@, "FINISH")]
      /\ UNCHANGED <<pc, stdout, cpu, payloadIndex, run, sent, handler, connected,
                     subscribed, suback, uplink, downlink>>
  BY DEF WritePublisherFinish, OrchWrite, OrchGoto, OrchFail, endVars, loopVars, sendVars, netVars, brokerVars
<1> USE Shapes DEF Parts, Between, Told, PublisherBefore, PublisherActive, Opening, Open, Closed,
             Handed, Fresh, Quiet, Counted, SameRound, Ahead
<1>2. /\ SameRound /\ Closed /\ stdout[Subscriber] = <<>>
      /\ stdin[Publisher] = <<>> /\ stdout[Publisher] = <<>> /\ ~PublisherActive
  BY <1>1 DEF OrchInv, OrchSteps, PublisherInv
<1>3. stdin' = [stdin EXCEPT ![Publisher] = <<"FINISH">>]
  BY <1>1, <1>2
<1>4. OrchInv'
  BY <1>1, <1>2, <1>3 DEF OrchInv, OrchSteps, PublisherInv, SubscriberInv, TransitInv
<1>5. PublisherInv'
  BY <1>1, <1>2, <1>3 DEF OrchInv, OrchSteps, PublisherInv, SubscriberInv, TransitInv
<1>6. SubscriberInv'
  BY <1>1, <1>2, <1>3 DEF OrchInv, OrchSteps, PublisherInv, SubscriberInv, TransitInv
<1>7. TransitInv'
  BY <1>1, TransitFrame
<1>8. CountInv'
  BY <1>1, <1>2, <1>3 DEF OrchInv, OrchSteps, CountInv, PublisherInv, SubscriberInv, TransitInv
<1>9. WindowInv'
  BY <1>1, WindowFrame DEF WindowInv, IsWarmup
<1> QED BY <1>4, <1>5, <1>6, <1>7, <1>8, <1>9

\* FINISH finds the subscriber out of its rounds.
LEMMA WriteSubscriberFinishParts ==
  ASSUME TypeInv, Parts, WriteSubscriberFinish, orch' # "failed"
  PROVE  Parts'
<1>1. /\ orch = "finishSubscriber" /\ orch' = "waitPublisher"
      /\ stdin' = [stdin EXCEPT ![Subscriber] = Append(@, "FINISH")]
      /\ UNCHANGED <<pc, stdout, cpu, payloadIndex, run, sent, handler, connected,
                     subscribed, suback, uplink, downlink>>
  BY DEF WriteSubscriberFinish, OrchWrite, OrchGoto, OrchFail, endVars, loopVars, sendVars, netVars, brokerVars
<1> USE Shapes DEF Parts, Between, Told, PublisherBefore, PublisherActive, Opening, Open, Closed,
             Handed, Fresh, Quiet, Counted, SameRound, Ahead
<1>2. /\ SameRound /\ Closed /\ stdout[Subscriber] = <<>> /\ Quiet
      /\ stdin[Publisher] # <<"GO">> /\ stdout[Publisher] = <<>> /\ ~PublisherActive
  BY <1>1 DEF OrchInv, OrchSteps, PublisherInv, TransitInv
<1>3. stdin' = [stdin EXCEPT ![Subscriber] = <<"FINISH">>]
  BY <1>1, <1>2
<1>4. OrchInv'
  BY <1>1, <1>2, <1>3 DEF OrchInv, OrchSteps, PublisherInv, SubscriberInv, TransitInv
<1>5. PublisherInv'
  BY <1>1, <1>2, <1>3 DEF OrchInv, OrchSteps, PublisherInv, SubscriberInv, TransitInv
<1>6. SubscriberInv'
  BY <1>1, <1>2, <1>3 DEF OrchInv, OrchSteps, PublisherInv, SubscriberInv, TransitInv
<1>7. TransitInv'
  BY <1>1, TransitFrame
<1>8. CountInv'
  BY <1>1, <1>2, <1>3 DEF OrchInv, OrchSteps, CountInv, PublisherInv, SubscriberInv, TransitInv
<1>9. WindowInv'
  BY <1>1, WindowFrame DEF WindowInv, IsWarmup
<1> QED BY <1>4, <1>5, <1>6, <1>7, <1>8, <1>9

\* READY is read from a subscriber that waits with a fresh handler.
LEMMA ReadReadyParts ==
  ASSUME TypeInv, Parts, ReadReady, orch' # "failed"
  PROVE  Parts'
<1>1. /\ orch = "subscriberReady" /\ orch' = "publisherGo" /\ stdout[Subscriber] # <<>>
      /\ stdout' = [stdout EXCEPT ![Subscriber] = Tail(@)] /\ Head(stdout[Subscriber]) = "READY"
      /\ UNCHANGED <<pc, stdin, cpu, payloadIndex, run, sent, handler, connected,
                     subscribed, suback, uplink, downlink>>
  BY DEF ReadReady, OrchRead, OrchGoto, OrchFail, endVars, loopVars, sendVars, netVars, brokerVars
<1> USE Shapes DEF Parts, Between, Told, PublisherBefore, PublisherActive, Opening, Open, Closed,
             Handed, Fresh, Quiet, Counted, SameRound, Ahead
<1>2. stdout[Subscriber] = <<"READY">>
  BY <1>1 DEF PublisherInv, SubscriberInv
<1>3. stdout' = [stdout EXCEPT ![Subscriber] = <<>>]
  BY <1>1, <1>2
<1>4. /\ SameRound /\ pc[Subscriber] = "wait" /\ Fresh
      /\ stdout[Publisher] = <<>> /\ ~PublisherActive
  BY <1>1, <1>2 DEF SubscriberInv, CountInv
<1>5. OrchInv'
  BY <1>1, <1>2, <1>3, <1>4 DEF OrchInv, OrchSteps, PublisherInv, SubscriberInv
<1>6. PublisherInv'
  BY <1>1, <1>2, <1>3, <1>4 DEF OrchInv, OrchSteps, PublisherInv, SubscriberInv
<1>7. SubscriberInv'
  BY <1>1, <1>2, <1>3, <1>4 DEF OrchInv, OrchSteps, PublisherInv, SubscriberInv
<1>8. TransitInv'
  BY <1>1, <1>2, <1>3, <1>4, TransitFrame
<1>9. CountInv'
  BY ConfigAssumption, <1>1, <1>2, <1>3, <1>4 DEF CountInv, PublisherInv, SubscriberInv
<1>10. WindowInv'
  BY <1>1, <1>2, <1>3, <1>4, WindowFrame DEF WindowInv, IsWarmup
<1> QED BY <1>5, <1>6, <1>7, <1>8, <1>9, <1>10

\* DONE is read from a publisher that has left the round.
LEMMA ReadPublisherDoneParts ==
  ASSUME TypeInv, Parts, ReadPublisherDone, orch' # "failed"
  PROVE  Parts'
<1>1. /\ orch = "publisherDone" /\ orch' = "subscriberDone" /\ stdout[Publisher] # <<>>
      /\ stdout' = [stdout EXCEPT ![Publisher] = Tail(@)] /\ Head(stdout[Publisher]) = "DONE"
      /\ UNCHANGED <<pc, stdin, cpu, payloadIndex, run, sent, handler, connected,
                     subscribed, suback, uplink, downlink>>
  BY DEF ReadPublisherDone, OrchRead, OrchGoto, OrchFail, endVars, loopVars, sendVars, netVars, brokerVars
<1> USE Shapes DEF Parts, Between, Told, PublisherBefore, PublisherActive, Opening, Open, Closed,
             Handed, Fresh, Quiet, Counted, SameRound, Ahead
<1>2. stdout[Publisher] = <<"DONE">>
  BY <1>1 DEF PublisherInv, SubscriberInv
<1>3. stdout' = [stdout EXCEPT ![Publisher] = <<>>]
  BY <1>1, <1>2
<1>4. /\ Handed /\ ~PublisherActive /\ ~Opening /\ stdin[Publisher] = <<>>
  BY <1>1, <1>2 DEF PublisherInv, SubscriberInv
<1>5. OrchInv'
  BY <1>1, <1>2, <1>3, <1>4 DEF OrchInv, OrchSteps, PublisherInv, SubscriberInv
<1>6. PublisherInv'
  BY <1>1, <1>2, <1>3, <1>4 DEF OrchInv, OrchSteps, PublisherInv, SubscriberInv
<1>7. SubscriberInv'
  BY <1>1, <1>2, <1>3, <1>4 DEF OrchInv, OrchSteps, PublisherInv, SubscriberInv
<1>8. TransitInv'
  BY <1>1, <1>2, <1>3, <1>4, TransitFrame
<1>9. CountInv'
  BY <1>1, <1>2, <1>3, <1>4 DEF CountInv, PublisherInv, SubscriberInv
<1>10. WindowInv'
  BY <1>1, <1>2, <1>3, <1>4, WindowFrame DEF WindowInv, IsWarmup
<1> QED BY <1>5, <1>6, <1>7, <1>8, <1>9, <1>10

\* With both DONEs read the endpoints are in the same round again.
LEMMA ReadSubscriberDoneParts ==
  ASSUME TypeInv, Parts, ReadSubscriberDone, orch' # "failed"
  PROVE  Parts'
<1>1. /\ orch = "subscriberDone" /\ orch' \in {"subscriberGo", "finishPublisher"} /\ stdout[Subscriber] # <<>>
      /\ stdout' = [stdout EXCEPT ![Subscriber] = Tail(@)] /\ Head(stdout[Subscriber]) = "DONE"
      /\ UNCHANGED <<pc, stdin, cpu, payloadIndex, run, sent, handler, connected,
                     subscribed, suback, uplink, downlink>>
  BY DEF ReadSubscriberDone, AfterRound, OrchRead, OrchGoto, OrchFail, endVars, loopVars, sendVars, netVars, brokerVars
<1> USE Shapes DEF Parts, Between, Told, PublisherBefore, PublisherActive, Opening, Open, Closed,
             Handed, Fresh, Quiet, Counted, SameRound, Ahead
<1>2. stdout[Subscriber] = <<"DONE">>
  BY <1>1 DEF PublisherInv, SubscriberInv
<1>3. stdout' = [stdout EXCEPT ![Subscriber] = <<>>]
  BY <1>1, <1>2
<1>4. /\ SameRound /\ Closed /\ ~PublisherActive /\ stdout[Publisher] = <<>>
      /\ stdin[Publisher] = <<>>
  BY <1>1, <1>2 DEF OrchInv, OrchSteps, PublisherInv, SubscriberInv
<1>5. OrchInv'
  BY <1>1, <1>2, <1>3, <1>4 DEF OrchInv, OrchSteps, PublisherInv, SubscriberInv
<1>6. PublisherInv'
  BY <1>1, <1>2, <1>3, <1>4 DEF OrchInv, OrchSteps, PublisherInv, SubscriberInv
<1>7. SubscriberInv'
  BY <1>1, <1>2, <1>3, <1>4 DEF OrchInv, OrchSteps, PublisherInv, SubscriberInv
<1>8. TransitInv'
  BY <1>1, <1>2, <1>3, <1>4, TransitFrame
<1>9. CountInv'
  BY <1>1, <1>2, <1>3, <1>4 DEF CountInv, PublisherInv, SubscriberInv
<1>10. WindowInv'
  BY <1>1, <1>2, <1>3, <1>4, WindowFrame DEF WindowInv, IsWarmup
<1> QED BY <1>5, <1>6, <1>7, <1>8, <1>9, <1>10

\* A running subscriber never writes a signal the orchestrator does not expect.
LEMMA NoUnexpectedSignal ==
  ASSUME TypeInv, Parts
  PROVE  /\ orch = "subscriberReady" /\ stdout[Subscriber] # <<>> => stdout[Subscriber] = <<"READY">>
         /\ orch = "publisherDone" /\ stdout[Publisher] # <<>> => stdout[Publisher] = <<"DONE">>
         /\ orch = "subscriberDone" /\ stdout[Subscriber] # <<>> => stdout[Subscriber] = <<"DONE">>
BY Shapes DEF Parts, OrchInv, PublisherInv, SubscriberInv, Handed, Open

\* Once FINISH is sent the orchestrator only waits.
LEMMA WaitParts ==
  ASSUME TypeInv, Parts, WaitPublisher \/ WaitSubscriber, orch' # "failed"
  PROVE  Parts'
<1>1. /\ orch \in {"waitPublisher", "waitSubscriber"} /\ orch' \in {"waitSubscriber", "succeeded"}
      /\ UNCHANGED <<pc, stdin, stdout, cpu, payloadIndex, run, sent, handler, connected,
                     subscribed, suback, uplink, downlink>>
  BY DEF WaitPublisher, WaitSubscriber, OrchWait, OrchGoto, OrchFail, pipeVars, endVars, loopVars, sendVars, netVars, brokerVars
<1> USE Shapes DEF Parts, Between, Told, PublisherBefore, PublisherActive, Opening, Open, Closed,
             Handed, Fresh, Quiet, Counted, SameRound, Ahead
<1>2. OrchInv'
  BY <1>1 DEF OrchInv, OrchSteps, PublisherInv, SubscriberInv
<1>3. PublisherInv'
  BY <1>1 DEF OrchInv, OrchSteps, PublisherInv, SubscriberInv
<1>4. SubscriberInv'
  BY <1>1 DEF OrchInv, OrchSteps, PublisherInv, SubscriberInv
<1>5. TransitInv'
  BY <1>1, TransitFrame
<1>6. CountInv'
  BY <1>1 DEF CountInv, PublisherInv, SubscriberInv
<1>7. WindowInv'
  BY <1>1, WindowFrame DEF WindowInv, IsWarmup
<1> QED BY <1>2, <1>3, <1>4, <1>5, <1>6, <1>7

LEMMA OrchestratorParts ==
  ASSUME TypeInv, Parts, Orchestrator
  PROVE  Parts'
<1>1. CASE orch' # "failed"
  BY <1>1, StartSubscriberParts, StartPublisherParts, WriteSubscriberGoParts, ReadReadyParts,
     WritePublisherGoParts, ReadPublisherDoneParts, ReadSubscriberDoneParts,
     WritePublisherFinishParts, WriteSubscriberFinishParts, WaitParts DEF Orchestrator
<1>2. CASE orch' = "failed"
  <2> USE DEF OrchGoto, OrchFail
  <2>1. AfterRound(0) # "failed" /\ AfterRound(repetition + 1) # "failed"
    BY DEF AfterRound
  <2>2. CASE StartSubscriber \/ StartPublisher
    BY <1>2, <2>1, <2>2, OrchFailParts DEF StartSubscriber, StartPublisher, Start, endVars
  <2>3. CASE WriteSubscriberGo \/ WritePublisherGo \/ WritePublisherFinish \/ WriteSubscriberFinish
    BY <1>2, <2>3, OrchFailParts DEF WriteSubscriberGo, WritePublisherGo, WritePublisherFinish,
       WriteSubscriberFinish, OrchWrite, pipeVars
  <2>4. CASE ReadReady \/ ReadPublisherDone \/ ReadSubscriberDone
    <3>1. UNCHANGED stdout
      BY <1>2, <2>1, <2>4, NoUnexpectedSignal DEF ReadReady, ReadPublisherDone, ReadSubscriberDone, OrchRead
    <3>2. UNCHANGED <<stdin, endVars, netVars>>
      BY <2>4 DEF ReadReady, ReadPublisherDone, ReadSubscriberDone, OrchRead
    <3> QED BY <1>2, <3>1, <3>2, OrchFailParts DEF pipeVars
  <2>5. CASE WaitPublisher \/ WaitSubscriber
    BY <1>2, <2>5, OrchFailParts DEF WaitPublisher, WaitSubscriber, OrchWait
  <2> QED BY <2>2, <2>3, <2>4, <2>5 DEF Orchestrator
<1> QED BY <1>1, <1>2

----------------------------------------------------------------------------
(* Both endpoints *)

\* A connection is opened before the first round.
LEMMA ConnectParts ==
  ASSUME NEW e \in Endpoint, TypeInv, Parts, Connect(e), ~FailAt(e, "connect")
  PROVE  Parts'
<1>1. /\ pc[e] = "connect" /\ pc' = [pc EXCEPT ![e] = "readGo"]
      /\ connected' = [connected EXCEPT ![e] = TRUE]
      /\ UNCHANGED <<orch, stdin, stdout, cpu, payloadIndex, run, sent, handler, subscribed, suback,
                     uplink, downlink>>
  BY DEF Connect, Goto, orchVars, pipeVars, endVars, loopVars, tableVars, sendVars, netVars, brokerVars
<1> USE Shapes DEF Parts, Between, Told, PublisherBefore, PublisherActive, Opening, Open, Closed,
             Handed, Fresh, Quiet, Counted, SameRound, Ahead
<1>2. connected \in [Endpoint -> BOOLEAN]
  BY DEF TypeInv, TypeOver, NetType
<1>3. OrchInv'
  BY <1>1, <1>2 DEF OrchInv, OrchSteps, PublisherInv, SubscriberInv
<1>4. PublisherInv'
  BY <1>1, <1>2 DEF OrchInv, OrchSteps, PublisherInv, SubscriberInv
<1>5. SubscriberInv'
  BY <1>1, <1>2 DEF OrchInv, OrchSteps, PublisherInv, SubscriberInv
<1>6. TransitInv'
  BY <1>1, <1>2, TransitFrame
<1>7. CountInv'
  BY <1>1, <1>2 DEF CountInv, PublisherInv, SubscriberInv
<1>8. WindowInv'
  <2>1. CASE e = Publisher
    <3>1. connected'[Subscriber] = connected[Subscriber]
      BY <1>1, <1>2, <2>1
    <3> QED BY <1>1, <2>1, <3>1, WindowFrame DEF WindowInv, IsWarmup
  <2>2. CASE e = Subscriber
    <3>1. pc'[Subscriber] = "readGo" /\ suback' = "idle"
      BY <1>1, <2>2 DEF WindowInv
    <3> QED BY <3>1 DEF WindowInv
  <2> QED BY <2>1, <2>2
<1> QED BY <1>3, <1>4, <1>5, <1>6, <1>7, <1>8

\* The publisher begins a run in an open and fresh round.
LEMMA PublisherReadGoParts ==
  ASSUME TypeInv, Parts, ReadGo(Publisher), ~Fail(Publisher)
  PROVE  Parts'
<1>1. /\ pc[Publisher] = "readGo" /\ stdin[Publisher] # <<>> /\ Head(stdin[Publisher]) = "GO"
      /\ \/ pc' = [pc EXCEPT ![Publisher] = "newCPU"]
         \/ pc' = [pc EXCEPT ![Publisher] = "publish"]
      /\ stdin' = [stdin EXCEPT ![Publisher] = Tail(@)] /\ sent' = 0
      /\ UNCHANGED <<orch, stdout, cpu, payloadIndex, run, handler, connected, subscribed, suback,
                     uplink, downlink>>
  BY DEF ReadGo, Read, FirstStep, Goto, orchVars, pipeVars, endVars, loopVars, tableVars, sendVars, netVars, brokerVars
<1> USE Shapes DEF Parts, Between, Told, PublisherBefore, PublisherActive, Opening, Open, Closed,
             Handed, Fresh, Quiet, Counted, SameRound, Ahead
<1>2. stdin[Publisher] = <<"GO">>
  BY <1>1 DEF PublisherInv
<1>3. stdin' = [stdin EXCEPT ![Publisher] = <<>>]
  BY <1>1, <1>2
<1>4. /\ SameRound /\ Open /\ Fresh /\ pc[Subscriber] = "wait" /\ stdout[Publisher] = <<>>
      /\ orch \in {"publisherDone", "failed"}
  BY <1>1, <1>2 DEF PublisherInv
<1>5. Counted = 0
  BY <1>4
<1>6. OrchInv'
  BY <1>1, <1>2, <1>3, <1>4, <1>5 DEF OrchInv, OrchSteps, PublisherInv, SubscriberInv
<1>7. PublisherInv'
  BY <1>1, <1>2, <1>3, <1>4, <1>5 DEF OrchInv, OrchSteps, PublisherInv, SubscriberInv
<1>8. SubscriberInv'
  BY <1>1, <1>2, <1>3, <1>4, <1>5 DEF OrchInv, OrchSteps, PublisherInv, SubscriberInv
<1>9. TransitInv'
  BY <1>1, <1>2, <1>3, <1>4, <1>5, TransitFrame
<1>10. CountInv'
  BY <1>1, <1>2, <1>3, <1>4, <1>5 DEF CountInv, PublisherInv, SubscriberInv
<1>11. WindowInv'
  BY <1>1, <1>2, <1>3, <1>4, <1>5, WindowFrame DEF WindowInv, IsWarmup
<1> QED BY <1>6, <1>7, <1>8, <1>9, <1>10, <1>11

\* The subscriber begins a run while nothing is in transit.
LEMMA SubscriberReadGoParts ==
  ASSUME TypeInv, Parts, ReadGo(Subscriber), ~Fail(Subscriber)
  PROVE  Parts'
<1>1. /\ pc[Subscriber] = "readGo" /\ stdin[Subscriber] # <<>> /\ Head(stdin[Subscriber]) = "GO"
      /\ \/ pc' = [pc EXCEPT ![Subscriber] = "newCPU"]
         \/ pc' = [pc EXCEPT ![Subscriber] = "subscribe"]
      /\ stdin' = [stdin EXCEPT ![Subscriber] = Tail(@)]
      /\ UNCHANGED <<orch, stdout, cpu, payloadIndex, run, sent, handler, connected, subscribed, suback,
                     uplink, downlink>>
  BY DEF ReadGo, Read, FirstStep, Goto, orchVars, pipeVars, endVars, loopVars, tableVars, sendVars, netVars, brokerVars
<1> USE Shapes DEF Parts, Between, Told, PublisherBefore, PublisherActive, Opening, Open, Closed,
             Handed, Fresh, Quiet, Counted, SameRound, Ahead
<1>2. stdin[Subscriber] = <<"GO">>
  BY <1>1 DEF SubscriberInv
<1>3. stdin' = [stdin EXCEPT ![Subscriber] = <<>>]
  BY <1>1, <1>2
<1>4. /\ SameRound /\ Quiet /\ ~PublisherActive /\ stdout[Publisher] = <<>>
      /\ stdout[Subscriber] = <<>> /\ orch \in {"subscriberReady", "failed"}
  BY <1>1, <1>2 DEF SubscriberInv
<1>5. OrchInv'
  BY <1>1, <1>2, <1>3, <1>4 DEF OrchInv, OrchSteps, PublisherInv, SubscriberInv
<1>6. PublisherInv'
  BY <1>1, <1>2, <1>3, <1>4 DEF OrchInv, OrchSteps, PublisherInv, SubscriberInv
<1>7. SubscriberInv'
  BY <1>1, <1>2, <1>3, <1>4 DEF OrchInv, OrchSteps, PublisherInv, SubscriberInv
<1>8. TransitInv'
  BY <1>1, <1>2, <1>3, <1>4, TransitFrame
<1>9. CountInv'
  BY <1>1, <1>2, <1>3, <1>4 DEF CountInv, PublisherInv, SubscriberInv
<1>10. WindowInv'
  BY <1>1, <1>2, <1>3, <1>4, WindowFrame DEF WindowInv, IsWarmup
<1> QED BY <1>5, <1>6, <1>7, <1>8, <1>9, <1>10

\* FINISH ends the loops of an endpoint that is between two rounds.
LEMMA ReadFinishParts ==
  ASSUME NEW e \in Endpoint, TypeInv, Parts, ReadFinish(e), ~Fail(e)
  PROVE  Parts'
<1>1. /\ pc[e] = "readFinish" /\ stdin[e] # <<>> /\ Head(stdin[e]) = "FINISH"
      /\ pc' = [pc EXCEPT ![e] = "disconnect"]
      /\ stdin' = [stdin EXCEPT ![e] = Tail(@)]
      /\ UNCHANGED <<orch, stdout, cpu, payloadIndex, run, sent, handler, connected, subscribed, suback,
                     uplink, downlink>>
  BY DEF ReadFinish, Read, Goto, orchVars, pipeVars, endVars, loopVars, tableVars, sendVars, netVars, brokerVars
<1> USE Shapes DEF Parts, Between, Told, PublisherBefore, PublisherActive, Opening, Open, Closed,
             Handed, Fresh, Quiet, Counted, SameRound, Ahead
<1>2. stdin[e] = <<"FINISH">>
  BY <1>1 DEF PublisherInv, SubscriberInv
<1>3. stdin' = [stdin EXCEPT ![e] = <<>>]
  BY <1>1, <1>2
<1>4. e = Subscriber => ~Closed /\ ~Open /\ ~Opening /\ Quiet /\ ~Told(Subscriber)
  BY <1>1, <1>2 DEF TransitInv
<1>5. OrchInv'
  BY <1>1, <1>2, <1>3, <1>4 DEF OrchInv, OrchSteps, PublisherInv, SubscriberInv
<1>6. PublisherInv'
  BY <1>1, <1>2, <1>3, <1>4 DEF OrchInv, OrchSteps, PublisherInv, SubscriberInv
<1>7. SubscriberInv'
  BY <1>1, <1>2, <1>3, <1>4 DEF OrchInv, OrchSteps, PublisherInv, SubscriberInv
<1>8. TransitInv'
  BY <1>1, <1>2, <1>3, <1>4, TransitFrame
<1>9. CountInv'
  BY <1>1, <1>2, <1>3, <1>4 DEF CountInv, PublisherInv, SubscriberInv
<1>10. WindowInv'
  BY <1>1, <1>2, <1>3, <1>4, WindowFrame DEF WindowInv, IsWarmup
<1> QED BY <1>5, <1>6, <1>7, <1>8, <1>9, <1>10

\* The counter of a measured run counts before READY and before the first message.
LEMMA EnableParts ==
  ASSUME NEW e \in Endpoint, TypeInv, Parts, Enable(e), ~FailAt(e, "enable")
  PROVE  Parts'
<1>1. /\ pc[e] = "enable" /\ pc' = [pc EXCEPT ![e] = IF e = Publisher THEN "publish" ELSE "ready"]
      /\ cpu' = [cpu EXCEPT ![e] = "enabled"] /\ cpu \in [Endpoint -> {"none", "created", "enabled"}]
      /\ UNCHANGED <<orch, stdin, stdout, payloadIndex, run, sent, handler, connected, subscribed,
                     suback, uplink, downlink>>
  BY DEF Enable, Goto, StepFrame, TypeInv, TypeOver, ProcessType, orchVars, pipeVars, endVars, loopVars, tableVars, sendVars, netVars, brokerVars
<1> USE Shapes DEF Parts, Between, Told, PublisherBefore, PublisherActive, Opening, Open, Closed,
             Handed, Fresh, Quiet, Counted, SameRound, Ahead
<1>2. e = Publisher => SameRound /\ Open /\ Fresh /\ Counted = 0
  BY <1>1 DEF PublisherInv
<1>3. OrchInv'
  BY <1>1, <1>2 DEF OrchInv, OrchSteps, PublisherInv, SubscriberInv
<1>4. PublisherInv'
  BY <1>1, <1>2 DEF OrchInv, OrchSteps, PublisherInv, SubscriberInv
<1>5. SubscriberInv'
  BY <1>1, <1>2 DEF OrchInv, OrchSteps, PublisherInv, SubscriberInv
<1>6. TransitInv'
  BY <1>1, <1>2, TransitFrame
<1>7. CountInv'
  <2>1. CASE e = Publisher
    <3>1. pc' = [pc EXCEPT ![Publisher] = "publish"] /\ Open /\ Open' /\ Fresh /\ Fresh' /\ Counted' = 0
      BY <1>1, <1>2, <2>1
    <3>2. Counted' <= sent' /\ ~Closed'
      BY <1>1, <3>1
    <3> QED BY <1>1, <3>1, <3>2 DEF CountInv
  <2>2. CASE e = Subscriber
    BY <1>1, <2>2 DEF CountInv, PublisherInv, SubscriberInv
  <2> QED BY <2>1, <2>2
<1>8. WindowInv'
  BY <1>1, <1>2, WindowFrame DEF WindowInv, IsWarmup
<1> QED BY <1>3, <1>4, <1>5, <1>6, <1>7, <1>8

\* Counting ends after the messages of the round.
LEMMA StopParts ==
  ASSUME NEW e \in Endpoint, TypeInv, Parts, Stop(e), ~FailAt(e, "stop")
  PROVE  Parts'
<1>1. /\ pc[e] = "stop" /\ pc' = [pc EXCEPT ![e] = "done"]
      /\ cpu' = [cpu EXCEPT ![e] = "none"]
      /\ UNCHANGED <<orch, stdin, stdout, payloadIndex, run, sent, handler, connected, subscribed,
                     suback, uplink, downlink>>
  BY DEF Stop, Goto, orchVars, pipeVars, endVars, loopVars, tableVars, sendVars, netVars, brokerVars
<1> USE Shapes DEF Parts, Between, Told, PublisherBefore, PublisherActive, Opening, Open, Closed,
             Handed, Fresh, Quiet, Counted, SameRound, Ahead
<1>2. OrchInv'
  BY <1>1 DEF OrchInv, OrchSteps, PublisherInv, SubscriberInv
<1>3. PublisherInv'
  BY <1>1 DEF OrchInv, OrchSteps, PublisherInv, SubscriberInv
<1>4. SubscriberInv'
  BY <1>1 DEF OrchInv, OrchSteps, PublisherInv, SubscriberInv
<1>5. TransitInv'
  BY <1>1, TransitFrame
<1>6. CountInv'
  BY <1>1 DEF CountInv, PublisherInv, SubscriberInv
<1>7. WindowInv'
  BY <1>1, WindowFrame DEF WindowInv, IsWarmup
<1> QED BY <1>2, <1>3, <1>4, <1>5, <1>6, <1>7

\* DONE hands the round over: the subscriber is still in it, or has closed it.
LEMMA PublisherDoneParts ==
  ASSUME EndpointsAgree, TypeInv, Parts, WriteDone(Publisher), ~FailAt(Publisher, "done")
  PROVE  Parts'
<1>1. /\ pc[Publisher] = "done"
      /\ stdout' = [stdout EXCEPT ![Publisher] = Append(@, "DONE")]
      /\ IF run[Publisher] + 1 < WarmupRuns[Publisher] + Runs[Publisher]
         THEN run' = [run EXCEPT ![Publisher] = @ + 1] /\ payloadIndex' = payloadIndex
         ELSE run' = [run EXCEPT ![Publisher] = 0] /\ payloadIndex' = [payloadIndex EXCEPT ![Publisher] = @ + 1]
      /\ \/ pc' = [pc EXCEPT ![Publisher] = "readGo"]
         \/ pc' = [pc EXCEPT ![Publisher] = "readFinish"]
      /\ UNCHANGED <<orch, stdin, cpu, sent, handler, connected, subscribed, suback, uplink, downlink>>
  BY DEF WriteDone, NextRound, Goto, orchVars, pipeVars, endVars, loopVars, tableVars, sendVars, netVars, brokerVars
<1> USE Shapes DEF Parts, Between, Told, PublisherBefore, PublisherActive, Opening, Open, Closed,
             Handed, Fresh, Quiet, Counted, SameRound, Ahead
<1>2. /\ payloadIndex \in [Endpoint -> Nat] /\ run \in [Endpoint -> Nat]
      /\ WarmupRuns[Publisher] = WarmupRuns[Subscriber] /\ Runs[Publisher] = Runs[Subscriber]
  BY DEF EndpointsAgree, TypeInv, TypeOver, ProcessType
<1>3. /\ stdout[Publisher] = <<>> /\ stdin[Publisher] = <<>> /\ orch \in {"publisherDone", "failed"}
      /\ \/ SameRound /\ Open
         \/ Ahead(Subscriber, Publisher) /\ Closed /\ stdout[Subscriber] = <<"DONE">>
  BY <1>1 DEF PublisherInv
<1>4. stdout' = [stdout EXCEPT ![Publisher] = <<"DONE">>]
  BY <1>1, <1>3
<1>5. Handed' /\ ~PublisherActive'
  <2>1. ~PublisherActive'
    BY <1>1, <1>3
  <2>2. CASE SameRound /\ Open
    <3>1. Ahead(Publisher, Subscriber)'
      BY <1>1, <1>2, <2>2
    <3>2. Open'
      BY <1>1, <1>4, <2>2
    <3> QED BY <2>1, <3>1, <3>2
  <2>3. CASE Ahead(Subscriber, Publisher) /\ Closed /\ stdout[Subscriber] = <<"DONE">>
    <3>1. SameRound'
      BY <1>1, <1>2, <2>3
    <3>2. Closed' /\ stdout'[Subscriber] = <<"DONE">>
      BY <1>1, <1>4, <2>3
    <3> QED BY <2>1, <3>1, <3>2
  <2> QED BY <1>3, <2>2, <2>3
<1>6. OrchInv'
  BY <1>1, <1>2, <1>3, <1>4, <1>5 DEF OrchInv, OrchSteps, PublisherInv, SubscriberInv
<1>7. PublisherInv'
  BY <1>1, <1>2, <1>3, <1>4, <1>5 DEF OrchInv, OrchSteps, PublisherInv, SubscriberInv
<1>8. SubscriberInv'
  BY <1>1, <1>2, <1>3, <1>4, <1>5 DEF OrchInv, OrchSteps, PublisherInv, SubscriberInv
<1>9. TransitInv'
  BY <1>1, <1>2, <1>3, <1>4, <1>5, TransitFrame
<1>10. CountInv'
  BY <1>1, <1>2, <1>3, <1>4, <1>5 DEF CountInv
<1>11. WindowInv'
  BY <1>1, <1>2, <1>3, <1>4, <1>5, WindowFrame DEF WindowInv, IsWarmup
<1> QED BY <1>6, <1>7, <1>8, <1>9, <1>10, <1>11

\* DONE closes the round: every message of it was counted, none is in transit.
LEMMA SubscriberDoneParts ==
  ASSUME EndpointsAgree, TypeInv, Parts, WriteDone(Subscriber), ~FailAt(Subscriber, "done")
  PROVE  Parts'
<1>1. /\ pc[Subscriber] = "done"
      /\ stdout' = [stdout EXCEPT ![Subscriber] = Append(@, "DONE")]
      /\ IF run[Subscriber] + 1 < WarmupRuns[Subscriber] + Runs[Subscriber]
         THEN run' = [run EXCEPT ![Subscriber] = @ + 1] /\ payloadIndex' = payloadIndex
         ELSE run' = [run EXCEPT ![Subscriber] = 0] /\ payloadIndex' = [payloadIndex EXCEPT ![Subscriber] = @ + 1]
      /\ \/ pc' = [pc EXCEPT ![Subscriber] = "readGo"]
         \/ pc' = [pc EXCEPT ![Subscriber] = "readFinish"]
      /\ UNCHANGED <<orch, stdin, cpu, sent, handler, connected, subscribed, suback, uplink, downlink>>
  BY DEF WriteDone, NextRound, Goto, orchVars, pipeVars, endVars, loopVars, tableVars, sendVars, netVars, brokerVars
<1> USE Shapes DEF Parts, Between, Told, PublisherBefore, PublisherActive, Opening, Open, Closed,
             Handed, Fresh, Quiet, Counted, SameRound, Ahead
<1>2. /\ payloadIndex \in [Endpoint -> Nat] /\ run \in [Endpoint -> Nat]
      /\ WarmupRuns[Publisher] = WarmupRuns[Subscriber] /\ Runs[Publisher] = Runs[Subscriber]
  BY DEF EndpointsAgree, TypeInv, TypeOver, ProcessType
<1>3. /\ Open /\ ~Opening /\ stdin[Subscriber] = <<>> /\ Quiet
      /\ handler.index = MessageCount[Subscriber]
  <2>1. stdout[Subscriber] = <<>> /\ stdin[Subscriber] = <<>>
    BY <1>1 DEF SubscriberInv
  <2>2. handler.index = MessageCount[Subscriber] /\ MessageCount[Subscriber] \in Nat
    BY <1>1, ConfigAssumption DEF CountInv
  <2>3. Counted <= MessageCount[Subscriber]
    BY <1>1, <2>1 DEF CountInv
  <2> QED BY <1>1, <2>1, <2>2, <2>3
<1>4. stdout' = [stdout EXCEPT ![Subscriber] = <<"DONE">>]
  BY <1>1, <1>3
<1>5. orch \in {"publisherDone", "subscriberDone", "failed"}
  <2>1. orch \in OrchSteps \union {"succeeded", "failed"}
    BY DEF TypeInv, TypeOver, SessionType
  <2>2. orch \notin {"startSubscriber", "startPublisher", "subscriberGo", "subscriberReady", "publisherGo",
                    "finishPublisher", "finishSubscriber", "waitPublisher", "waitSubscriber", "succeeded"}
    BY <1>1, <1>3 DEF OrchInv
  <2> QED BY <2>1, <2>2 DEF OrchSteps
<1>6. Closed' /\ ~Open' /\ ~Opening'
  BY <1>1, <1>3, <1>4
<1>7. SameRound => Ahead(Subscriber, Publisher)'
  BY <1>1, <1>2
<1>8. Ahead(Publisher, Subscriber) => SameRound'
  BY <1>1, <1>2
<1>9. OrchInv'
  BY <1>1, <1>2, <1>3, <1>4, <1>5, <1>6, <1>7, <1>8 DEF OrchInv, OrchSteps, PublisherInv, SubscriberInv
<1>10. PublisherInv'
  BY <1>1, <1>2, <1>3, <1>4, <1>5, <1>6, <1>7, <1>8 DEF OrchInv, OrchSteps, PublisherInv, SubscriberInv
<1>11. SubscriberInv'
  BY <1>1, <1>2, <1>3, <1>4, <1>5, <1>6, <1>7, <1>8 DEF OrchInv, OrchSteps, PublisherInv, SubscriberInv
<1>12. TransitInv'
  BY <1>1, <1>2, <1>3, <1>4, <1>5, <1>6, <1>7, <1>8 DEF TransitInv
<1>13. CountInv'
  BY <1>1, <1>2, <1>3, <1>4, <1>5, <1>6, <1>7, <1>8 DEF CountInv
<1>14. WindowInv'
  BY <1>1, <1>2, <1>3, <1>4, <1>5, <1>6, <1>7, <1>8, WindowFrame DEF WindowInv, IsWarmup
<1> QED BY <1>9, <1>10, <1>11, <1>12, <1>13, <1>14

\* Disconnecting comes after the last round.
LEMMA DisconnectParts ==
  ASSUME NEW e \in Endpoint, TypeInv, Parts, Disconnect(e)
  PROVE  Parts'
<1>1. /\ pc[e] = "disconnect" /\ pc' = [pc EXCEPT ![e] = "writeResults"]
      /\ connected' = [connected EXCEPT ![e] = FALSE]
      /\ e = Publisher => UNCHANGED <<subscribed, downlink>>
      /\ UNCHANGED <<orch, stdin, stdout, cpu, payloadIndex, run, sent, handler, suback, uplink>>
  BY DEF Disconnect, Goto, orchVars, pipeVars, endVars, loopVars, tableVars, sendVars, netVars, brokerVars
<1> USE Shapes DEF Parts, Between, Told, PublisherBefore, PublisherActive, Opening, Open, Closed,
             Handed, Fresh, Quiet, Counted, SameRound, Ahead
<1>2. connected \in [Endpoint -> BOOLEAN]
  BY DEF TypeInv, TypeOver, NetType
<1>3. UNCHANGED downlink
  <2>1. CASE e = Subscriber
    <3>1. downlink = <<>>
      BY <1>1, <2>1 DEF TransitInv
    <3>2. LosesSuffix(downlink, downlink')
      BY <2>1 DEF Disconnect
    <3>3. downlink \in Seq(AnyID)
      BY DEF TypeInv, TypeOver, NetType
    <3>4. downlink' \in Seq(AnyID) /\ Len(downlink') <= 0 /\ Len(downlink') \in Nat
      BY <3>1, <3>2, <3>3, SuffixLost, LenProperties
    <3>5. downlink' = <<>>
      BY <3>4, EmptySeq
    <3> QED BY <3>1, <3>5
  <2> QED BY <1>1, <2>1
<1>4. OrchInv'
  BY <1>1, <1>2, <1>3 DEF OrchInv, OrchSteps, PublisherInv, SubscriberInv
<1>5. PublisherInv'
  BY <1>1, <1>2, <1>3 DEF OrchInv, OrchSteps, PublisherInv, SubscriberInv
<1>6. SubscriberInv'
  BY <1>1, <1>2, <1>3 DEF OrchInv, OrchSteps, PublisherInv, SubscriberInv
<1>7. TransitInv'
  BY <1>1, <1>2, <1>3, TransitFrame
<1>8. CountInv'
  BY <1>1, <1>2, <1>3 DEF CountInv, PublisherInv, SubscriberInv
<1>9. WindowInv'
  <2>1. CASE e = Publisher
    <3>1. connected'[Subscriber] = connected[Subscriber]
      BY <1>1, <1>2, <2>1
    <3> QED BY <1>1, <2>1, <3>1, WindowFrame DEF WindowInv, IsWarmup
  <2>2. CASE e = Subscriber
    <3>1. pc'[Subscriber] = "writeResults" /\ suback' = "idle"
      BY <1>1, <2>2 DEF WindowInv
    <3> QED BY <3>1 DEF WindowInv
  <2> QED BY <2>1, <2>2
<1> QED BY <1>4, <1>5, <1>6, <1>7, <1>8, <1>9

\* A shorter queue holds messages of the same round.
LEMMA ShorterQueue ==
  ASSUME NEW S, NEW q \in Seq(S), NEW r, LosesSuffix(q, r)
  PROVE  /\ r \in Seq(S) /\ Len(r) \in Nat /\ Len(r) <= Len(q)
         /\ r = <<>> <=> Len(r) = 0
         /\ \A i \in 1 .. Len(r) : i \in 1 .. Len(q) /\ r[i] = q[i]
BY SuffixLost, LenProperties, EmptySeq

\* A publisher that exits leaves less in transit and is in no round.
LEMMA PublisherExitParts ==
  ASSUME NEW status \in {"succeeded", "failed"}, TypeInv, Parts, Exit(Publisher, status),
         pc[Publisher] # "absent",
         UNCHANGED <<orch, stdout, stdin[Subscriber], payloadIndex, run, handler>>,
         DOMAIN stdin' = Endpoint,
         stdin'[Publisher] \in {stdin[Publisher], <<>>}
  PROVE  Parts'
<1>1. /\ pc' = [pc EXCEPT ![Publisher] = status] /\ cpu' = [cpu EXCEPT ![Publisher] = "none"]
      /\ UNCHANGED <<subscribed, suback, downlink>>
  BY DEF Exit, Goto, brokerVars
<1> USE Shapes DEF Parts, Between, Told, PublisherBefore, PublisherActive, Opening, Open, Closed,
             Handed, Fresh, Quiet, Counted, SameRound, Ahead
<1>2. connected'[Subscriber] = connected[Subscriber]
  BY DEF Exit, TypeInv, TypeOver, NetType
<1>3. /\ Len(uplink') \in Nat /\ Len(uplink') <= Len(uplink) /\ (uplink' = <<>> <=> Len(uplink') = 0)
      /\ \A i \in 1 .. Len(uplink') : i \in 1 .. Len(uplink) /\ uplink'[i] = uplink[i]
  <2>1. uplink \in Seq(AnyID)
    BY DEF TypeInv, TypeOver, NetType
  <2>2. LosesSuffix(uplink, uplink') \/ uplink' = uplink
    BY DEF Exit
  <2> QED BY <2>1, <2>2, ShorterQueue
<1>4. ~PublisherActive' /\ (Open' <=> Open) /\ (Opening' <=> Opening) /\ (Closed' <=> Closed)
  BY <1>1
<1>5. Quiet => Quiet'
  BY <1>1, <1>3
<1>6. (SameRound' <=> SameRound) /\ (Ahead(Publisher, Subscriber)' <=> Ahead(Publisher, Subscriber))
  BY <1>1
<1>7. (Fresh => Fresh') /\ Counted' <= Counted /\ Counted \in Nat /\ Counted' \in Nat
  BY <1>1, <1>3, <1>5
<1>8. (Handed' <=> Handed) /\ (Opening' <=> Opening) /\ ~PublisherBefore'
  BY <1>1, <1>4
<1>9. OrchInv'
  BY <1>1, <1>2, <1>3, <1>4, <1>5, <1>6, <1>7, <1>8 DEF OrchInv, OrchSteps, PublisherInv, SubscriberInv
<1>10. PublisherInv'
  BY <1>1, <1>2, <1>3, <1>4, <1>5 DEF OrchInv, OrchSteps, PublisherInv, SubscriberInv
<1>11. SubscriberInv'
  BY <1>1, <1>2, <1>3, <1>4, <1>5 DEF OrchInv, OrchSteps, PublisherInv, SubscriberInv
<1>12. TransitInv'
  BY <1>1, <1>2, <1>3, <1>4, <1>5 DEF TransitInv, RoundOf, Round
<1>13. CountInv'
  <2>1. MessageCount[Subscriber] \in Nat /\ pc'[Publisher] # "publish"
    BY <1>1, ConfigAssumption
  <2>2. pc'[Subscriber] = pc[Subscriber] /\ (Open' <=> Open) /\ (Opening' <=> Opening)
    BY <1>1, <1>4
  <2> HIDE DEF Open, Opening, Closed, Ahead, Counted, Fresh, PublisherActive
  <2> QED BY <1>1, <1>4, <1>7, <2>1, <2>2 DEF CountInv
<1>14. WindowInv'
  BY <1>1, <1>2, <1>3, <1>4, <1>5, WindowFrame DEF WindowInv, IsWarmup
<1> QED BY <1>9, <1>10, <1>11, <1>12, <1>13, <1>14

\* A publisher that fails in a step that touches nothing of its own.
LEMMA PublisherFailParts ==
  ASSUME NEW at, at # "absent", TypeInv, Parts, FailAt(Publisher, at)
  PROVE  Parts'
<1>1. /\ Exit(Publisher, "failed") /\ pc[Publisher] # "absent"
      /\ UNCHANGED <<orch, stdin, stdout, payloadIndex, run, handler>>
  BY DEF FailAt, Fail, ExitFrame, orchVars, pipeVars, loopVars
<1> QED BY <1>1, PublisherExitParts, Shapes

\* A publisher that reads an unexpected signal or the end of its pipe.
LEMMA PublisherReadFailParts ==
  ASSUME NEW signal, NEW at, NEW next, at # "absent", TypeInv, Parts,
         Read(Publisher, signal, at, next), Fail(Publisher)
  PROVE  Parts'
<1>1. /\ Exit(Publisher, "failed") /\ pc[Publisher] # "absent"
      /\ UNCHANGED <<orch, stdout, payloadIndex, run, handler>>
  BY DEF Read, Fail, orchVars, pipeVars, loopVars
<1>2. \/ stdin' = [stdin EXCEPT ![Publisher] = Tail(@)]
      \/ stdin' = [stdin EXCEPT ![Publisher] = IF @ = <<>> THEN @ ELSE Tail(@)]
  BY DEF Read
<1>3. stdin[Publisher] \in {<<>>, <<"GO">>, <<"FINISH">>}
  BY DEF Parts, PublisherInv
<1>4. stdin[Publisher] # <<>> => Tail(stdin[Publisher]) = <<>>
  <2>1. Tail(<<"GO">>) = <<>> /\ Tail(<<"FINISH">>) = <<>>
    OBVIOUS
  <2> QED BY <1>3, <2>1
<1>5. stdin[Publisher] = <<>> => stdin' = [stdin EXCEPT ![Publisher] = @]
  <2>1. CASE stdin[Publisher] = <<>> /\ Read(Publisher, signal, at, next)
    <3>1. pc'[Publisher] = "failed"
      BY Shapes DEF Fail, Exit, Goto
    <3> QED BY <2>1, <3>1 DEF Read
  <2> QED BY <2>1
<1>6. /\ DOMAIN stdin' = Endpoint /\ stdin'[Subscriber] = stdin[Subscriber]
      /\ stdin'[Publisher] \in {stdin[Publisher], <<>>}
  BY <1>2, <1>4, <1>5, Shapes
<1> QED BY <1>1, <1>6, PublisherExitParts

\* The publisher's file is the last it does.
LEMMA PublisherWriteResultsParts ==
  ASSUME TypeInv, Parts, WriteResults(Publisher)
  PROVE  Parts'
<1>1. CASE FailAt(Publisher, "writeResults")
  BY <1>1, PublisherFailParts
<1>2. CASE ~FailAt(Publisher, "writeResults")
  <2>1. /\ Exit(Publisher, "succeeded") /\ pc[Publisher] # "absent"
        /\ UNCHANGED <<orch, stdin, stdout, payloadIndex, run, handler>>
    BY <1>2 DEF WriteResults, orchVars, pipeVars, loopVars
  <2> QED BY <2>1, PublisherExitParts, Shapes
<1> QED BY <1>1, <1>2

\* What is in transit is lost or forwarded, never added to.
LEMMA TransitParts ==
  ASSUME TypeInv, Parts,
         UNCHANGED <<orch, stdin, stdout, pc, cpu, payloadIndex, run, sent, handler, suback>>,
         Counted' \in Nat, Counted' <= Counted, Quiet => Quiet',
         \A i \in 1 .. Len(uplink') : RoundOf(uplink'[i]) = Round(Subscriber),
         \A i \in 1 .. Len(downlink') : RoundOf(downlink'[i]) = Round(Subscriber),
         connected'[Subscriber] => connected[Subscriber] /\ subscribed' = subscribed
  PROVE  Parts'
<1>1. /\ UNCHANGED <<Told(Publisher), Told(Subscriber), PublisherBefore, PublisherActive, Opening, Open,
                     Closed, SameRound, Ahead(Publisher, Subscriber), Ahead(Subscriber, Publisher), Handed>>
      /\ UNCHANGED Round(Subscriber)
      /\ Fresh => Fresh'
  BY DEF Between, Told, PublisherBefore, PublisherActive, Opening, Open, Closed, Handed, Fresh,
         SameRound, Ahead, Round
<1>2. Counted \in Nat /\ MessageCount[Subscriber] \in Nat /\ sent \in Nat
  <2>1. MessageCount[Subscriber] \in Nat
    BY ConfigAssumption
  <2>2. handler.index \in Nat /\ Len(uplink) \in Nat /\ Len(downlink) \in Nat /\ sent \in Nat
    BY Shapes
  <2> QED BY <2>1, <2>2 DEF Counted
<1> USE DEF Parts
<1>3. OrchInv'
  BY <1>1 DEF OrchInv
<1>4. PublisherInv'
  BY <1>1 DEF PublisherInv
<1>5. SubscriberInv'
  BY <1>1 DEF SubscriberInv
<1>6. TransitInv'
  BY <1>1 DEF TransitInv
<1>7. CountInv'
  BY <1>1, <1>2 DEF CountInv
<1>8. WindowInv'
  BY DEF WindowInv, IsWarmup
<1> QED BY <1>3, <1>4, <1>5, <1>6, <1>7, <1>8
----------------------------------------------------------------------------
(* The messages of a round *)

\* A message is sent into an open round, and there is room for it.
LEMMA PublishParts ==
  ASSUME EndpointsAgree, TypeInv, Parts, Publish, ~FailAt(Publisher, "publish")
  PROVE  Parts'
<1>1. /\ pc[Publisher] = "publish" /\ sent < MessageCount[Publisher] /\ sent' = sent + 1
      /\ uplink' = uplink \/ uplink' = Append(uplink, MessageID(Publisher, sent))
      /\ UNCHANGED <<orch, stdin, stdout, pc, cpu, payloadIndex, run, handler, connected, subscribed,
                     suback, downlink>>
  BY DEF Publish, MessageFrame, orchVars, pipeVars, endVars, loopVars, tableVars, sendVars, netVars, brokerVars
<1> USE Shapes DEF Parts, Between, Told, PublisherBefore, PublisherActive, Opening, Open, Closed,
             Handed, Fresh, Quiet, Counted, SameRound, Ahead
<1>2. /\ MessageCount[Publisher] \in Nat /\ MessageCount[Subscriber] = MessageCount[Publisher]
  BY ConfigAssumption DEF EndpointsAgree
<1>3. Counted <= sent /\ Counted \in Nat
  BY <1>1 DEF CountInv
<1>4. SameRound /\ Open /\ ~Opening /\ ~PublisherBefore /\ orch \in {"publisherDone", "failed"}
  <2>1. orch \in {"publisherDone", "failed"}
           /\ ((SameRound /\ Open) \/ (Ahead(Subscriber, Publisher) /\ Closed))
    BY <1>1 DEF PublisherInv
  <2>2. ~(Ahead(Subscriber, Publisher) /\ Closed)
    <3>1. handler.index <= Counted
      OBVIOUS
    <3>2. handler.index # MessageCount[Subscriber]
      BY <1>1, <1>2, <1>3, <3>1
    <3>3. PublisherActive
      BY <1>1
    <3> QED BY <3>2, <3>3 DEF CountInv
  <2>3. ~PublisherBefore
    BY <1>1 DEF PublisherInv
  <2> QED BY <2>1, <2>2, <2>3
<1>5. Len(uplink') \in Nat /\ Len(uplink') <= Len(uplink) + 1
      /\ \A i \in 1 .. Len(uplink') : RoundOf(uplink'[i]) = Round(Subscriber)
  <2>1. uplink \in Seq(AnyID) /\ uplink' \in Seq(AnyID)
    BY TypeStep, <1>1, TypePublish DEF TypeInv, TypeOver, NetType
  <2>2. RoundOf(MessageID(Publisher, sent)) = Round(Subscriber)
    BY <1>4 DEF RoundOf, MessageID, Round
  <2>3. \A i \in 1 .. Len(uplink) : RoundOf(uplink[i]) = Round(Subscriber)
    BY DEF TransitInv
  <2>4. CASE uplink' = Append(uplink, MessageID(Publisher, sent))
    <3>1. Len(uplink') = Len(uplink) + 1 /\ uplink'[Len(uplink) + 1] = MessageID(Publisher, sent)
          /\ \A i \in 1 .. Len(uplink) : uplink'[i] = uplink[i]
      BY <2>1, <2>4
    <3>2. \A i \in 1 .. Len(uplink') : i \in 1 .. Len(uplink) \/ i = Len(uplink) + 1
      BY <3>1
    <3>3. ASSUME NEW i \in 1 .. Len(uplink') PROVE RoundOf(uplink'[i]) = Round(Subscriber)
      <4>1. CASE i \in 1 .. Len(uplink)
        BY <2>3, <3>1, <4>1 DEF RoundOf
      <4>2. CASE i = Len(uplink) + 1
        BY <2>2, <3>1, <4>2 DEF RoundOf
      <4> QED BY <3>2, <4>1, <4>2
    <3> QED BY <3>1, <3>3
  <2>5. CASE uplink' = uplink
    BY <2>3, <2>5
  <2> QED BY <1>1, <2>4, <2>5
<1>6. Counted' \in Nat /\ Counted' <= sent' /\ Counted' <= MessageCount[Subscriber]
  <2>1. Counted' \in Nat /\ Counted' <= Counted + 1
    BY <1>1, <1>5
  <2> HIDE DEF Counted
  <2> QED BY <1>1, <1>2, <1>3, <2>1
<1>7. UNCHANGED <<PublisherActive, PublisherBefore, Opening, Open, Closed, SameRound, Handed, Round(Subscriber),
                  Ahead(Subscriber, Publisher), Told(Publisher), Told(Subscriber)>>
  BY <1>1 DEF Round
<1>8. OrchInv'
  BY <1>1, <1>4, <1>7 DEF OrchInv, OrchSteps
<1>9. PublisherInv'
  BY <1>1, <1>4, <1>7 DEF PublisherInv
<1>10. SubscriberInv'
  BY <1>1, <1>4, <1>7 DEF SubscriberInv
<1>11. TransitInv'
  BY <1>1, <1>4, <1>5, <1>7 DEF TransitInv
<1>12. CountInv'
  BY <1>1, <1>4, <1>6, <1>7 DEF CountInv
<1>13. WindowInv'
  BY <1>1, <1>4, <1>7, WindowFrame DEF WindowInv, IsWarmup
<1> QED BY <1>8, <1>9, <1>10, <1>11, <1>12, <1>13

\* The publisher waits for its tokens after the last message.
LEMMA WaitTokensParts ==
  ASSUME TypeInv, Parts, WaitTokens, ~FailAt(Publisher, "publish")
  PROVE  Parts'
<1>1. /\ pc[Publisher] = "publish" /\ sent = MessageCount[Publisher]
      /\ \/ pc' = [pc EXCEPT ![Publisher] = "done"]
         \/ pc' = [pc EXCEPT ![Publisher] = "stop"]
      /\ UNCHANGED <<orch, stdin, stdout, cpu, payloadIndex, run, sent, handler, connected, subscribed,
                     suback, uplink, downlink>>
  BY DEF WaitTokens, Goto, StepFrame, orchVars, pipeVars, endVars, loopVars, tableVars, sendVars, netVars, brokerVars
<1> USE Shapes DEF Parts, Between, Told, PublisherBefore, PublisherActive, Opening, Open, Closed,
             Handed, Fresh, Quiet, Counted, SameRound, Ahead
<1>2. OrchInv'
  BY <1>1 DEF OrchInv, OrchSteps, PublisherInv, SubscriberInv
<1>3. PublisherInv'
  BY <1>1 DEF OrchInv, OrchSteps, PublisherInv, SubscriberInv
<1>4. SubscriberInv'
  BY <1>1 DEF OrchInv, OrchSteps, PublisherInv, SubscriberInv
<1>5. TransitInv'
  BY <1>1, TransitFrame
<1>6. CountInv'
  BY <1>1 DEF CountInv, PublisherInv, SubscriberInv
<1>7. WindowInv'
  BY <1>1, WindowFrame DEF WindowInv, IsWarmup
<1> QED BY <1>2, <1>3, <1>4, <1>5, <1>6, <1>7

\* A new handler is installed while nothing is in transit.
LEMMA SubscribeParts ==
  ASSUME TypeInv, Parts, Subscribe, ~FailAt(Subscriber, "subscribe")
  PROVE  Parts'
<1>1. /\ pc[Subscriber] = "subscribe" /\ pc' = [pc EXCEPT ![Subscriber] = "suback"]
      /\ handler' = NewHandler /\ suback' = "requested"
      /\ UNCHANGED <<orch, stdin, stdout, cpu, payloadIndex, run, sent, connected, subscribed,
                     uplink, downlink>>
  BY DEF Subscribe, Goto, StepFrame, orchVars, pipeVars, endVars, loopVars, tableVars, sendVars, netVars, brokerVars
<1> USE Shapes DEF Parts, Between, Told, PublisherBefore, PublisherActive, Opening, Open, Closed,
             Handed, Fresh, Quiet, Counted, SameRound, Ahead
<1>2. handler'.index = 0 /\ handler'.channel = <<>> /\ handler'.round = Round(Subscriber)'
  BY <1>1 DEF NewHandler, Round
<1>3. /\ Opening /\ Opening' /\ SameRound /\ Quiet /\ Quiet' /\ ~PublisherActive
      /\ stdout[Publisher] = <<>> /\ stdout[Subscriber] = <<>> /\ stdin[Subscriber] = <<>>
      /\ orch \in {"subscriberReady", "failed"}
  BY <1>1 DEF SubscriberInv
<1>4. ~Open' /\ ~Closed' /\ Fresh' /\ ~PublisherActive'
  BY <1>1, <1>2, <1>3
<1>5. OrchInv'
  BY <1>1, <1>2, <1>3, <1>4 DEF OrchInv, OrchSteps, PublisherInv, SubscriberInv
<1>6. PublisherInv'
  BY <1>1, <1>2, <1>3, <1>4 DEF OrchInv, OrchSteps, PublisherInv, SubscriberInv
<1>7. SubscriberInv'
  BY <1>1, <1>2, <1>3, <1>4 DEF OrchInv, OrchSteps, PublisherInv, SubscriberInv
<1>8. TransitInv'
  BY <1>1, <1>2, <1>3, <1>4 DEF TransitInv
<1>9. CountInv'
  BY <1>1, <1>2, <1>3, <1>4 DEF CountInv, PublisherInv, SubscriberInv
<1>10. WindowInv'
  BY <1>1, <1>3 DEF WindowInv
<1> QED BY <1>5, <1>6, <1>7, <1>8, <1>9, <1>10

\* The broker's side of the subscription.
LEMMA GrantSubscriptionParts ==
  ASSUME TypeInv, Parts, GrantSubscription
  PROVE  Parts'
<1>1. /\ suback = "requested" /\ suback' = "granted" /\ subscribed' = TRUE
      /\ UNCHANGED <<orch, stdin, stdout, pc, cpu, payloadIndex, run, sent, handler, connected,
                     uplink, downlink>>
  BY DEF GrantSubscription, Goto, StepFrame, orchVars, pipeVars, endVars, loopVars, tableVars, sendVars, netVars, brokerVars
<1> USE Shapes DEF Parts, Between, Told, PublisherBefore, PublisherActive, Opening, Open, Closed,
             Handed, Fresh, Quiet, Counted, SameRound, Ahead
<1>2. OrchInv'
  BY <1>1 DEF OrchInv, OrchSteps, PublisherInv, SubscriberInv
<1>3. PublisherInv'
  BY <1>1 DEF OrchInv, OrchSteps, PublisherInv, SubscriberInv
<1>4. SubscriberInv'
  BY <1>1 DEF OrchInv, OrchSteps, PublisherInv, SubscriberInv
<1>5. TransitInv'
  BY <1>1, TransitFrame
<1>6. CountInv'
  BY <1>1 DEF CountInv, PublisherInv, SubscriberInv
<1>7. WindowInv'
  BY <1>1 DEF WindowInv, IsWarmup
<1> QED BY <1>2, <1>3, <1>4, <1>5, <1>6, <1>7

\* The subscription is in place before the round is opened.
LEMMA WaitSubackParts ==
  ASSUME TypeInv, Parts, WaitSuback, ~FailAt(Subscriber, "suback")
  PROVE  Parts'
<1>1. /\ pc[Subscriber] = "suback" /\ suback = "granted" /\ suback' = "idle"
      /\ pc' = [pc EXCEPT ![Subscriber] = IF IsWarmup(Subscriber) THEN "ready" ELSE "enable"]
      /\ UNCHANGED <<orch, stdin, stdout, cpu, payloadIndex, run, sent, handler, connected, subscribed,
                     uplink, downlink>>
  BY DEF WaitSuback, Goto, StepFrame, orchVars, pipeVars, endVars, loopVars, tableVars, sendVars, netVars, brokerVars
<1> USE Shapes DEF Parts, Between, Told, PublisherBefore, PublisherActive, Opening, Open, Closed,
             Handed, Fresh, Quiet, Counted, SameRound, Ahead
<1>2. OrchInv'
  BY <1>1 DEF OrchInv, OrchSteps, PublisherInv, SubscriberInv
<1>3. PublisherInv'
  BY <1>1 DEF OrchInv, OrchSteps, PublisherInv, SubscriberInv
<1>4. SubscriberInv'
  BY <1>1 DEF OrchInv, OrchSteps, PublisherInv, SubscriberInv
<1>5. TransitInv'
  BY <1>1, TransitFrame
<1>6. CountInv'
  BY <1>1 DEF CountInv, PublisherInv, SubscriberInv
<1>7. WindowInv'
  BY <1>1 DEF WindowInv, IsWarmup
<1> QED BY <1>2, <1>3, <1>4, <1>5, <1>6, <1>7

\* READY opens the round.
LEMMA WriteReadyParts ==
  ASSUME TypeInv, Parts, WriteReady, ~FailAt(Subscriber, "ready")
  PROVE  Parts'
<1>1. /\ pc[Subscriber] = "ready" /\ pc' = [pc EXCEPT ![Subscriber] = "wait"]
      /\ stdout' = [stdout EXCEPT ![Subscriber] = Append(@, "READY")]
      /\ UNCHANGED <<orch, stdin, cpu, payloadIndex, run, sent, handler, connected, subscribed,
                     suback, uplink, downlink>>
  BY DEF WriteReady, Goto, StepFrame, orchVars, pipeVars, endVars, loopVars, tableVars, sendVars, netVars, brokerVars
<1> USE Shapes DEF Parts, Between, Told, PublisherBefore, PublisherActive, Opening, Open, Closed,
             Handed, Fresh, Quiet, Counted, SameRound, Ahead
<1>2. stdout[Subscriber] = <<>> /\ stdin[Subscriber] = <<>> /\ Opening /\ Fresh
  BY <1>1 DEF SubscriberInv, CountInv
<1>3. stdout' = [stdout EXCEPT ![Subscriber] = <<"READY">>]
  BY <1>1, <1>2
<1>4. Opening' /\ Fresh' /\ ~Open' /\ ~Closed'
  BY <1>1, <1>2, <1>3
<1>5. OrchInv'
  BY <1>1, <1>2, <1>3, <1>4 DEF OrchInv, OrchSteps, PublisherInv, SubscriberInv
<1>6. PublisherInv'
  BY <1>1, <1>2, <1>3, <1>4 DEF OrchInv, OrchSteps, PublisherInv, SubscriberInv
<1>7. SubscriberInv'
  BY <1>1, <1>2, <1>3, <1>4 DEF OrchInv, OrchSteps, PublisherInv, SubscriberInv
<1>8. TransitInv'
  BY <1>1, <1>2, <1>3, <1>4, TransitFrame
<1>9. CountInv'
  BY <1>1, <1>2, <1>3, <1>4 DEF CountInv, SubscriberInv
<1>10. WindowInv'
  BY <1>1, <1>2, <1>3, <1>4, WindowFrame DEF WindowInv, IsWarmup
<1> QED BY <1>5, <1>6, <1>7, <1>8, <1>9, <1>10

\* A queue without its head holds messages of the same round.
LEMMA TailOfRound ==
  ASSUME NEW S, NEW q \in Seq(S), NEW r, q # <<>>,
         \A i \in 1 .. Len(q) : RoundOf(q[i]) = r
  PROVE  /\ Tail(q) \in Seq(S) /\ Len(q) \in Nat /\ Len(Tail(q)) = Len(q) - 1 /\ Len(q) > 0
         /\ RoundOf(Head(q)) = r
         /\ \A i \in 1 .. Len(Tail(q)) : RoundOf(Tail(q)[i]) = r
<1>1. /\ Tail(q) \in Seq(S) /\ Len(q) \in Nat /\ Len(Tail(q)) = Len(q) - 1 /\ Len(q) > 0
      /\ Head(q) = q[1] /\ \A i \in 1 .. Len(Tail(q)) : Tail(q)[i] = q[i + 1] /\ i + 1 \in 1 .. Len(q)
  BY HeadTailProperties, LenProperties, EmptySeq
<1>2. 1 \in 1 .. Len(q)
  BY <1>1
<1>3. ASSUME NEW i \in 1 .. Len(Tail(q)) PROVE RoundOf(Tail(q)[i]) = r
  BY <1>1 DEF RoundOf
<1>4. RoundOf(Head(q)) = r
  BY <1>1, <1>2 DEF RoundOf
<1> QED BY <1>1, <1>3, <1>4

\* The handler counts a message of the open round.
LEMMA HandleMessageParts ==
  ASSUME TypeInv, Parts, HandleMessage
  PROVE  Parts'
<1>1. /\ downlink # <<>> /\ downlink' = Tail(downlink)
      /\ handler'.round = handler.round /\ handler'.index = handler.index + 1
      /\ \/ handler'.channel = handler.channel
         \/ handler'.channel = <<"nil">> /\ handler'.index = MessageCount[Subscriber]
      /\ UNCHANGED <<orch, stdin, stdout, pc, cpu, payloadIndex, run, sent, connected, subscribed,
                     suback, uplink>>
  BY DEF HandleMessage, TypeInv, TypeOver, NetType, HandlerType, orchVars, pipeVars, endVars, loopVars, tableVars, sendVars, netVars, brokerVars
<1>2. /\ Len(downlink') \in Nat /\ Len(downlink) \in Nat /\ Len(downlink') = Len(downlink) - 1
      /\ \A i \in 1 .. Len(downlink') : RoundOf(downlink'[i]) = Round(Subscriber)
  BY <1>1, TailOfRound DEF TypeInv, TypeOver, NetType, TransitInv, Parts
<1> USE Shapes DEF Parts, Between, Told, PublisherBefore, PublisherActive, Opening, Open, Closed,
             Handed, Fresh, Quiet, Counted, SameRound, Ahead
<1>3. Open /\ ~Opening /\ ~Closed /\ ~Quiet /\ ~Fresh /\ ~PublisherBefore
  BY <1>1 DEF TransitInv, PublisherInv
<1>4. Counted' = Counted /\ Counted <= MessageCount[Subscriber] /\ Counted \in Nat /\ MessageCount[Subscriber] \in Nat
  <2>1. MessageCount[Subscriber] \in Nat
    BY ConfigAssumption
  <2>2. Counted <= MessageCount[Subscriber]
    BY <1>3 DEF CountInv
  <2>3. Counted' = Counted /\ Counted \in Nat
    BY <1>1, <1>2
  <2> QED BY <2>1, <2>2, <2>3
<1>5. handler.index < MessageCount[Subscriber]
  BY <1>2, <1>4
<1>6. UNCHANGED <<PublisherActive, PublisherBefore, Opening, Open, Closed, SameRound, Handed, Round(Subscriber),
                  Ahead(Subscriber, Publisher), Told(Publisher), Told(Subscriber)>>
  BY <1>1 DEF Round
<1>7. OrchInv'
  BY <1>1, <1>3, <1>6 DEF OrchInv, OrchSteps
<1>8. PublisherInv'
  BY <1>1, <1>3, <1>6 DEF PublisherInv
<1>9. SubscriberInv'
  BY <1>1, <1>3, <1>6 DEF SubscriberInv
<1>10. TransitInv'
  BY <1>1, <1>2, <1>3, <1>6 DEF TransitInv
<1>11. CountInv'
  <2> HIDE DEF Counted
  <2> QED BY <1>1, <1>3, <1>4, <1>5, <1>6 DEF CountInv
<1>12. WindowInv'
  BY <1>1, WindowFrame DEF WindowInv, IsWarmup
<1> QED BY <1>7, <1>8, <1>9, <1>10, <1>11, <1>12

\* An unreadable message is taken from the stream and told to main.
LEMMA HandleUnreadableParts ==
  ASSUME TypeInv, Parts, HandleUnreadable
  PROVE  Parts'
<1>1. /\ downlink # <<>> /\ downlink' = Tail(downlink)
      /\ handler'.round = handler.round /\ handler'.index = handler.index
      /\ handler'.channel = <<"error">>
      /\ UNCHANGED <<orch, stdin, stdout, pc, cpu, payloadIndex, run, sent, connected, subscribed,
                     suback, uplink>>
  BY DEF HandleUnreadable, TypeInv, TypeOver, NetType, HandlerType, orchVars, pipeVars, endVars, loopVars, tableVars, sendVars, netVars, brokerVars
<1>2. /\ Len(downlink') \in Nat /\ Len(downlink) \in Nat /\ Len(downlink') = Len(downlink) - 1
      /\ \A i \in 1 .. Len(downlink') : RoundOf(downlink'[i]) = Round(Subscriber)
  BY <1>1, TailOfRound DEF TypeInv, TypeOver, NetType, TransitInv, Parts
<1> USE Shapes DEF Parts, Between, Told, PublisherBefore, PublisherActive, Opening, Open, Closed,
             Handed, Fresh, Quiet, Counted, SameRound, Ahead
<1>3. Open /\ ~Opening /\ ~Closed /\ ~Quiet /\ ~Fresh /\ ~PublisherBefore
  BY <1>1 DEF TransitInv, PublisherInv
<1>4. Counted' <= Counted /\ Counted' \in Nat /\ Counted \in Nat /\ MessageCount[Subscriber] \in Nat
  BY <1>1, <1>2, <1>3, ConfigAssumption DEF CountInv
<1>5. UNCHANGED <<PublisherActive, PublisherBefore, Opening, Open, Closed, SameRound, Handed, Round(Subscriber),
                  Ahead(Subscriber, Publisher), Told(Publisher), Told(Subscriber)>>
  BY <1>1 DEF Round
<1>6. OrchInv'
  BY <1>1, <1>3, <1>5 DEF OrchInv, OrchSteps
<1>7. PublisherInv'
  BY <1>1, <1>3, <1>5 DEF PublisherInv
<1>8. SubscriberInv'
  BY <1>1, <1>3, <1>5 DEF SubscriberInv
<1>9. TransitInv'
  BY <1>1, <1>2, <1>3, <1>5 DEF TransitInv
<1>10. CountInv'
  <2> HIDE DEF Counted
  <2> QED BY <1>1, <1>3, <1>4, <1>5, Shapes DEF CountInv
<1>11. WindowInv'
  BY <1>1, WindowFrame DEF WindowInv, IsWarmup
<1> QED BY <1>6, <1>7, <1>8, <1>9, <1>10, <1>11

\* WaitMessages returns once every message of the round was counted.
LEMMA WaitMessagesParts ==
  ASSUME TypeInv, Parts, WaitMessages, ~FailAt(Subscriber, "wait")
  PROVE  Parts'
<1>1. /\ pc[Subscriber] = "wait" /\ handler.channel = <<"nil">>
      /\ pc' = [pc EXCEPT ![Subscriber] = IF IsWarmup(Subscriber) THEN "done" ELSE "stop"]
      /\ handler'.round = handler.round /\ handler'.index = handler.index /\ handler'.channel = <<>>
      /\ UNCHANGED <<orch, stdin, stdout, cpu, payloadIndex, run, sent, connected, subscribed,
                     suback, uplink, downlink>>
  BY DEF WaitMessages, Goto, TypeInv, TypeOver, NetType, HandlerType, orchVars, pipeVars, endVars, loopVars, tableVars, sendVars, netVars, brokerVars
<1> USE Shapes DEF Parts, Between, Told, PublisherBefore, PublisherActive, Opening, Open, Closed,
             Handed, Fresh, Quiet, Counted, SameRound, Ahead
<1>2. handler.index = MessageCount[Subscriber] /\ <<"nil">> # <<>> /\ ~Fresh
  BY <1>1 DEF CountInv
<1>3. ~Opening /\ Open /\ ~PublisherBefore
  <2>1. stdout[Subscriber] # <<"READY">> /\ stdout[Subscriber] # <<"DONE">>
    BY <1>1, <1>2 DEF CountInv, SubscriberInv
  <2> QED BY <1>1, <1>2, <2>1 DEF SubscriberInv, PublisherInv
<1>4. Open' /\ ~Opening' /\ ~Closed' /\ Counted' = Counted
  BY <1>1, <1>3
<1>5. OrchInv'
  BY <1>1, <1>2, <1>3, <1>4 DEF OrchInv, OrchSteps, PublisherInv, SubscriberInv
<1>6. PublisherInv'
  BY <1>1, <1>2, <1>3, <1>4 DEF OrchInv, OrchSteps, PublisherInv, SubscriberInv
<1>7. SubscriberInv'
  BY <1>1, <1>2, <1>3, <1>4 DEF OrchInv, OrchSteps, PublisherInv, SubscriberInv
<1>8. TransitInv'
  BY <1>1, <1>3, <1>4 DEF TransitInv, Round, RoundOf
<1>9. CountInv'
  BY <1>1, <1>2, <1>3, <1>4 DEF CountInv, PublisherInv, SubscriberInv
<1>10. WindowInv'
  BY <1>1, <1>2, <1>3, <1>4, WindowFrame DEF WindowInv, IsWarmup
<1> QED BY <1>5, <1>6, <1>7, <1>8, <1>9, <1>10

----------------------------------------------------------------------------
(* The broker and the network *)

LEMMA RouteParts ==
  ASSUME TypeInv, Parts, Route \/ Drop
  PROVE  Parts'
<1>1. /\ uplink # <<>> /\ uplink' = Tail(uplink)
      /\ downlink' = Append(downlink, Head(uplink)) \/ downlink' = downlink
      /\ UNCHANGED <<orch, stdin, stdout, pc, cpu, payloadIndex, run, sent, handler, connected,
                     subscribed, suback>>
  BY DEF Route, Drop, orchVars, pipeVars, endVars, loopVars, tableVars, sendVars, netVars, brokerVars
<1>2. uplink \in Seq(AnyID) /\ downlink \in Seq(AnyID)
  BY DEF TypeInv, TypeOver, NetType
<1>3. /\ \A i \in 1 .. Len(uplink) : RoundOf(uplink[i]) = Round(Subscriber)
      /\ \A i \in 1 .. Len(downlink) : RoundOf(downlink[i]) = Round(Subscriber)
  BY DEF TransitInv, Parts
<1>4. /\ Len(uplink) \in Nat /\ Len(uplink') \in Nat /\ Len(uplink') = Len(uplink) - 1
      /\ RoundOf(Head(uplink)) = Round(Subscriber) /\ Head(uplink) \in AnyID
      /\ \A i \in 1 .. Len(uplink') : RoundOf(uplink'[i]) = Round(Subscriber)
  BY <1>1, <1>2, <1>3, TailOfRound, HeadTailProperties, LenProperties
<1>5. /\ Len(downlink) \in Nat /\ Len(downlink') \in Nat /\ Len(downlink') <= Len(downlink) + 1
      /\ \A i \in 1 .. Len(downlink') : RoundOf(downlink'[i]) = Round(Subscriber)
  <2>1. CASE downlink' = downlink
    BY <1>2, <1>3, <2>1, LenProperties
  <2>2. CASE downlink' = Append(downlink, Head(uplink))
    <3>1. /\ Len(downlink) \in Nat /\ Len(downlink') = Len(downlink) + 1
          /\ downlink'[Len(downlink) + 1] = Head(uplink)
          /\ \A i \in 1 .. Len(downlink) : downlink'[i] = downlink[i]
      BY <1>2, <1>4, <2>2, AppendProperties, LenProperties
    <3>2. ASSUME NEW i \in 1 .. Len(downlink') PROVE RoundOf(downlink'[i]) = Round(Subscriber)
      <4>1. CASE i \in 1 .. Len(downlink)
        BY <1>3, <3>1, <4>1 DEF RoundOf
      <4>2. CASE i = Len(downlink) + 1
        BY <1>4, <3>1, <4>2 DEF RoundOf
      <4> QED BY <3>1, <4>1, <4>2
    <3> QED BY <3>1, <3>2
  <2> QED BY <1>1, <2>1, <2>2
<1>6. Counted' \in Nat /\ Counted' <= Counted
  BY <1>1, <1>4, <1>5, Shapes DEF Counted
<1>7. ~Quiet
  BY <1>1 DEF Quiet
<1> QED BY <1>1, <1>4, <1>5, <1>6, <1>7, TransitParts

LEMMA ConnectionLostParts ==
  ASSUME NEW e \in Endpoint, TypeInv, Parts, ConnectionLost(e)
  PROVE  Parts'
<1>1. /\ UNCHANGED <<orch, stdin, stdout, pc, cpu, payloadIndex, run, sent, handler, suback>>
      /\ connected' = [connected EXCEPT ![e] = FALSE] /\ connected \in [Endpoint -> BOOLEAN]
      /\ e = Publisher => subscribed' = subscribed
      /\ LosesSuffix(uplink, uplink') \/ uplink' = uplink
      /\ LosesSuffix(downlink, downlink') \/ downlink' = downlink
  BY DEF ConnectionLost, TypeInv, TypeOver, NetType, orchVars, pipeVars, endVars, loopVars, tableVars, sendVars, netVars, brokerVars
<1>2. /\ Len(uplink') \in Nat /\ Len(uplink') <= Len(uplink) /\ (uplink' = <<>> <=> Len(uplink') = 0)
      /\ \A i \in 1 .. Len(uplink') : i \in 1 .. Len(uplink) /\ uplink'[i] = uplink[i]
      /\ Len(downlink') \in Nat /\ Len(downlink') <= Len(downlink) /\ (downlink' = <<>> <=> Len(downlink') = 0)
      /\ \A i \in 1 .. Len(downlink') : i \in 1 .. Len(downlink) /\ downlink'[i] = downlink[i]
  BY <1>1, ShorterQueue, LenProperties, EmptySeq DEF TypeInv, TypeOver, NetType
<1>3. Counted' \in Nat /\ Counted' <= Counted /\ (Quiet => Quiet')
  BY <1>1, <1>2, Shapes DEF Counted, Quiet
<1>4. /\ \A i \in 1 .. Len(uplink') : RoundOf(uplink'[i]) = Round(Subscriber)
      /\ \A i \in 1 .. Len(downlink') : RoundOf(downlink'[i]) = Round(Subscriber)
  BY <1>2 DEF Parts, TransitInv, RoundOf
<1>5. connected'[Subscriber] => connected[Subscriber] /\ subscribed' = subscribed
  BY <1>1
<1> QED BY <1>1, <1>3, <1>4, <1>5, TransitParts

----------------------------------------------------------------------------
(* The inductive step *)

\* The subscriber's exits end the obligations of IInv.
LEMMA SubscriberExit ==
  ASSUME TypeInv, NEW status \in {"succeeded", "failed"}, Exit(Subscriber, status)
  PROVE  Ended(Subscriber)'
BY Shapes DEF Exit, Goto, Ended

LEMMA FailAtEnds ==
  ASSUME TypeInv, NEW at, FailAt(Subscriber, at)
  PROVE  Ended(Subscriber)'
BY SubscriberExit DEF FailAt, Fail

\* What a step of one endpoint makes of the parts.
LEMMA PublisherStepParts ==
  ASSUME EndpointsAgree, TypeInv, Parts, PublisherStep
  PROVE  Parts'
<1>1. CASE \E at \in Steps \ {"absent"} : FailAt(Publisher, at)
  BY <1>1, PublisherFailParts
<1>2. CASE Connect(Publisher) \/ NewCPU(Publisher) \/ Enable(Publisher) \/ Stop(Publisher)
             \/ WriteDone(Publisher)
  BY <1>1, <1>2, ConnectParts, NewCPUParts, EnableParts, StopParts, PublisherDoneParts DEF Steps
<1>3. CASE ReadGo(Publisher)
  BY <1>3, PublisherReadGoParts, PublisherReadFailParts DEF ReadGo
<1>4. CASE ReadFinish(Publisher)
  BY <1>4, ReadFinishParts, PublisherReadFailParts DEF ReadFinish
<1>5. CASE Disconnect(Publisher) \/ WriteResults(Publisher)
  BY <1>5, DisconnectParts, PublisherWriteResultsParts
<1>6. CASE Publish \/ WaitTokens
  BY <1>1, <1>6, PublishParts, WaitTokensParts DEF Steps
<1> QED BY <1>2, <1>3, <1>4, <1>5, <1>6 DEF PublisherStep, EndpointStep

LEMMA SubscriberStepParts ==
  ASSUME EndpointsAgree, TypeInv, Parts, SubscriberStep
  PROVE  Parts' \/ Ended(Subscriber)'
<1>1. CASE \E at \in Steps : FailAt(Subscriber, at)
  BY <1>1, FailAtEnds
<1>2. CASE Connect(Subscriber) \/ NewCPU(Subscriber) \/ Enable(Subscriber) \/ Stop(Subscriber)
             \/ WriteDone(Subscriber)
  BY <1>1, <1>2, ConnectParts, NewCPUParts, EnableParts, StopParts, SubscriberDoneParts DEF Steps
<1>3. CASE ReadGo(Subscriber)
  BY <1>3, SubscriberReadGoParts, SubscriberExit DEF Fail
<1>4. CASE ReadFinish(Subscriber)
  BY <1>4, ReadFinishParts, SubscriberExit DEF Fail
<1>5. CASE Disconnect(Subscriber)
  BY <1>5, DisconnectParts
<1>6. CASE WriteResults(Subscriber)
  BY <1>6, FailAtEnds, SubscriberExit DEF WriteResults
<1>7. CASE Subscribe \/ WaitSuback \/ WriteReady \/ WaitMessages
  BY <1>1, <1>7, SubscribeParts, WaitSubackParts, WriteReadyParts, WaitMessagesParts DEF Steps
<1> QED BY <1>2, <1>3, <1>4, <1>5, <1>6, <1>7 DEF SubscriberStep, EndpointStep

LEMMA FaultStepParts ==
  ASSUME TypeInv, Parts, FaultStep
  PROVE  Parts' \/ Ended(Subscriber)'
<1>1. CASE Interrupt
  BY <1>1, OrchFailParts DEF Interrupt, OrchFail
<1>2. CASE Drop
  BY <1>2, RouteParts
<1>3. CASE HandleUnreadable
  BY <1>3, HandleUnreadableParts
<1>4. ASSUME NEW e \in Endpoint, Crash(e) PROVE Parts' \/ Ended(Subscriber)'
  BY <1>4, PublisherFailParts, FailAtEnds DEF Crash, Alive
<1>5. ASSUME NEW e \in Endpoint, ConnectionLost(e) PROVE Parts'
  BY <1>5, ConnectionLostParts
<1> QED BY <1>1, <1>2, <1>3, <1>4, <1>5 DEF FaultStep

\* Nothing moves a subscriber that has exited.
LEMMA EndedStays ==
  ASSUME TypeInv, StartInv, Next, Ended(Subscriber)
  PROVE  Ended(Subscriber)'
<1> USE Shapes DEF Ended
<1>1. ASSUME NEW e \in Endpoint, NEW at, FailAt(e, at) PROVE Ended(Subscriber)'
  BY <1>1 DEF FailAt, Fail, Exit, Goto
<1>2. ASSUME NEW e \in Endpoint, EndpointStep(e) PROVE Ended(Subscriber)'
  <2>1. CASE \E at : FailAt(e, at)
    BY <1>1, <2>1
  <2>2. CASE e = Publisher
    BY <2>1, <1>2, <2>2 DEF EndpointStep, Connect, ReadGo, Read, NewCPU, Enable, Stop, WriteDone, NextRound,
       ReadFinish, Disconnect, WriteResults, Goto, Exit, Fail
  <2>3. CASE e = Subscriber
    BY <2>1, <1>2, <2>3 DEF EndpointStep, Connect, ReadGo, Read, NewCPU, Enable, Stop, WriteDone,
       ReadFinish, Disconnect, WriteResults
  <2> QED BY <2>2, <2>3
<1>3. CASE Publish \/ WaitTokens
  BY <1>1, <1>3 DEF Publish, WaitTokens, Goto
<1>4. CASE Subscribe \/ WaitSuback \/ WriteReady \/ WaitMessages
  BY <1>1, <1>4 DEF Subscribe, WaitSuback, WriteReady, WaitMessages
<1>5. CASE HandlerStep \/ BrokerStep \/ FaultStep
  BY <1>1, <1>5 DEF HandlerStep, HandleMessage, IndexPanic, BrokerStep, GrantSubscription, Route, FaultStep,
     Interrupt, Drop, HandleUnreadable, Crash, ConnectionLost, endVars
<1>6. CASE Orchestrator
  BY <1>6 DEF Orchestrator, StartSubscriber, StartPublisher, Start, StartInv, WriteSubscriberGo, ReadReady,
     WritePublisherGo, ReadPublisherDone, ReadSubscriberDone, WritePublisherFinish, WriteSubscriberFinish,
     WaitPublisher, WaitSubscriber, OrchWrite, OrchRead, OrchWait, endVars
<1> QED BY <1>2, <1>3, <1>4, <1>5, <1>6 DEF Next, PublisherStep, SubscriberStep

LEMMA IInvStep ==
  ASSUME EndpointsAgree, TypeInv, StartInv, IInv, Next
  PROVE  IInv'
<1>1. Ended(Subscriber)' => IInv'
  BY DEF Ended, IInv, Alive
<1>2. CASE Ended(Subscriber)
  BY <1>1, <1>2, EndedStays
<1>3. CASE ~Ended(Subscriber)
  <2>1. Parts
    BY <1>3 DEF IInv, Parts, Ended, Alive
  <2>2. Parts' => IInv'
    BY DEF IInv, Parts
  <2>3. CASE Orchestrator
    BY <2>1, <2>2, <2>3, OrchestratorParts
  <2>4. CASE PublisherStep
    BY <2>1, <2>2, <2>4, PublisherStepParts
  <2>5. CASE SubscriberStep
    BY <1>1, <2>1, <2>2, <2>5, SubscriberStepParts
  <2>6. CASE HandlerStep
    BY <1>1, <2>1, <2>2, <2>6, HandleMessageParts, FailAtEnds DEF HandlerStep, IndexPanic
  <2>7. CASE BrokerStep
    BY <2>1, <2>2, <2>7, GrantSubscriptionParts, RouteParts DEF BrokerStep
  <2>8. CASE FaultStep
    BY <1>1, <2>1, <2>2, <2>8, FaultStepParts
  <2> QED BY <2>3, <2>4, <2>5, <2>6, <2>7, <2>8 DEF Next
<1> QED BY <1>2, <1>3

LEMMA IInvStutter ==
  ASSUME IInv, UNCHANGED vars
  PROVE  IInv'
<1>1. UNCHANGED <<orch, pc, stdin, stdout, cpu, payloadIndex, run, sent, handler, connected,
                  subscribed, suback, uplink, downlink>>
  BY DEF vars, orchVars, pipeVars, endVars, loopVars, sendVars, netVars, brokerVars
<1> QED
  BY <1>1 DEF IInv, Alive, OrchInv, PublisherInv, SubscriberInv, TransitInv, CountInv, WindowInv, Between,
     Told, PublisherBefore, PublisherActive, Opening, Open, Closed, Handed, Fresh, Quiet, Counted,
     SameRound, Ahead, Round, IsWarmup, RoundOf

LEMMA IInvInit == Init => IInv
<1> SUFFICES ASSUME Init PROVE Parts
  BY DEF IInv, Parts
<1>1. /\ orch = "startSubscriber" /\ pc = [e \in Endpoint |-> "absent"]
      /\ stdin = [e \in Endpoint |-> <<>>] /\ stdout = [e \in Endpoint |-> <<>>]
      /\ uplink = <<>> /\ downlink = <<>> /\ handler = NoHandler /\ suback = "idle" /\ subscribed = FALSE
  BY DEF Init
<1> USE DEF Parts, Between, Told, PublisherBefore, PublisherActive, Opening, Open, Closed, Quiet
<1>2. OrchInv
  BY <1>1 DEF OrchInv
<1>3. PublisherInv
  BY <1>1 DEF PublisherInv
<1>4. SubscriberInv
  BY <1>1 DEF SubscriberInv
<1>5. TransitInv
  BY <1>1 DEF TransitInv
<1>6. CountInv
  BY <1>1 DEF CountInv, NoHandler
<1>7. WindowInv
  BY <1>1 DEF WindowInv
<1> QED BY <1>2, <1>3, <1>4, <1>5, <1>6, <1>7

LEMMA Invariance ==
  ASSUME EndpointsAgree
  PROVE  Spec => [](TypeInv /\ IInv)
<1>1. Init => TypeInv /\ StartInv /\ IInv
  BY TypeInit, IInvInit DEF TypeInv, Init, StartInv
<1>2. (TypeInv /\ StartInv /\ IInv) /\ [Next]_vars => (TypeInv /\ StartInv /\ IInv)'
  BY TypeStep, TypeStutter, IInvStep, IInvStutter
<1> QED BY <1>1, <1>2, PTL DEF Spec
----------------------------------------------------------------------------
(* The properties *)

\* No message of one run ever reaches the handler of another, whatever fails
\* and however the processes, the handler and the broker interleave.
THEOREM RunsAreIsolated ==
  ASSUME EndpointsAgree
  PROVE  Spec => []RunIsolation
<1>1. TypeInv /\ IInv => RunIsolation
  <2> SUFFICES ASSUME TypeInv, Parts, NEW id \in InTransit
               PROVE  RoundOf(id) = handler.round /\ RoundOf(id) = Round(Subscriber)
    BY DEF IInv, Parts, RunIsolation
  <2>1. uplink \in Seq(AnyID) /\ downlink \in Seq(AnyID)
    BY DEF TypeInv, TypeOver, NetType
  <2>2. RoundOf(id) = Round(Subscriber) /\ ~Quiet
    <3>1. CASE \E i \in DOMAIN uplink : id = uplink[i]
      BY <2>1, <3>1, LenProperties DEF Parts, TransitInv, Quiet
    <3>2. CASE \E i \in DOMAIN downlink : id = downlink[i]
      BY <2>1, <3>2, LenProperties DEF Parts, TransitInv, Quiet
    <3> QED BY <3>1, <3>2 DEF InTransit
  <2>3. handler.round = Round(Subscriber)
    BY <2>2 DEF Parts, TransitInv, Open
  <2> QED BY <2>2, <2>3
<1> QED BY <1>1, Invariance, PTL

\* The publisher publishes only into a round the subscriber is ready for: it
\* waits, is subscribed and, in a measured run, its counter counts.
THEOREM PublisherWaitsForReady ==
  ASSUME EndpointsAgree
  PROVE  Spec => []PublishOnlyWhenReady
<1>1. TypeInv /\ IInv => PublishOnlyWhenReady
  <2> SUFFICES ASSUME TypeInv, Parts, pc[Publisher] = "publish", sent < MessageCount[Publisher]
               PROVE  /\ pc[Subscriber] = "wait"
                      /\ handler.round = Round(Publisher)
                      /\ connected[Subscriber] => subscribed
                      /\ IsWarmup(Publisher) \/ cpu[Subscriber] = "enabled"
    BY DEF IInv, Parts, PublishOnlyWhenReady
  <2>1. MessageCount[Publisher] \in Nat /\ MessageCount[Subscriber] = MessageCount[Publisher]
    BY ConfigAssumption DEF EndpointsAgree
  <2>2. handler.index <= sent /\ handler.index \in Nat /\ sent \in Nat
    BY Shapes DEF Parts, CountInv, Counted
  <2>3. handler.index # MessageCount[Subscriber]
    BY <2>1, <2>2
  <2>4. SameRound /\ Open
    <3>1. PublisherActive
      BY DEF PublisherActive
    <3> QED BY <2>3, <3>1 DEF Parts, PublisherInv, CountInv
  <2>5. pc[Subscriber] = "wait"
    BY <2>3, <2>4 DEF Parts, CountInv, Open
  <2>6. Round(Publisher) = Round(Subscriber) /\ (IsWarmup(Publisher) <=> IsWarmup(Subscriber))
    BY <2>4 DEF SameRound, Round, IsWarmup, EndpointsAgree
  <2> QED BY <2>5, <2>6 DEF Parts, TransitInv, WindowInv
<1> QED BY <1>1, Invariance, PTL

----------------------------------------------------------------------------
(* The signals *)

\* The subscriber's pipe never holds two signals: with no message left over from
\* an earlier run, its round lasts until READY was read and the publisher was told.
OneSignal == stdout[Subscriber] \in {<<>>, <<"READY">>, <<"DONE">>}

LEMMA OneSignalStep ==
  ASSUME TypeInv, IInv, OneSignal, Next
  PROVE  OneSignal'
<1> USE Shapes DEF OneSignal
<1>1. ASSUME NEW e \in Endpoint, NEW at, FailAt(e, at) PROVE OneSignal'
  BY <1>1 DEF FailAt, ExitFrame
<1>2. ASSUME NEW e \in Endpoint, EndpointStep(e) PROVE OneSignal'
  <2>1. CASE e = Subscriber /\ WriteDone(e) /\ ~FailAt(e, "done")
    <3>1. pc[Subscriber] = "done" /\ stdout' = [stdout EXCEPT ![Subscriber] = Append(@, "DONE")]
      BY <2>1 DEF WriteDone
    <3>2. stdout[Subscriber] = <<>>
      BY <3>1 DEF IInv, Parts, SubscriberInv, Alive, Closed, Between
    <3>3. Append(<<>>, "DONE") = <<"DONE">>
      OBVIOUS
    <3> QED BY <3>1, <3>2, <3>3
  <2>2. CASE ~(e = Subscriber /\ WriteDone(e) /\ ~FailAt(e, "done"))
    BY <1>1, <1>2, <2>2 DEF EndpointStep, Connect, ReadGo, Read, NewCPU, Enable, Stop, WriteDone, ReadFinish,
       Disconnect, WriteResults, StepFrame, pipeVars
  <2> QED BY <2>1, <2>2
<1>3. CASE Publish \/ WaitTokens \/ Subscribe \/ WaitSuback \/ WaitMessages
  BY <1>1, <1>3 DEF Publish, WaitTokens, MessageFrame, StepFrame, Subscribe, WaitSuback, WaitMessages, pipeVars
<1>4. CASE WriteReady
  <2>1. CASE ~FailAt(Subscriber, "ready")
    <3>1. pc[Subscriber] = "ready" /\ stdout' = [stdout EXCEPT ![Subscriber] = Append(@, "READY")]
      BY <1>4, <2>1 DEF WriteReady
    <3>2. stdout[Subscriber] = <<>>
      BY <3>1 DEF IInv, Parts, SubscriberInv, Alive
    <3>3. Append(<<>>, "READY") = <<"READY">>
      OBVIOUS
    <3> QED BY <3>1, <3>2, <3>3
  <2> QED BY <1>1, <2>1
<1>5. CASE HandlerStep \/ BrokerStep \/ FaultStep
  BY <1>1, <1>5 DEF HandlerStep, HandleMessage, IndexPanic, BrokerStep, GrantSubscription, Route, FaultStep,
     Interrupt, Drop, HandleUnreadable, Crash, ConnectionLost, pipeVars
<1>6. CASE Orchestrator
  <2>1. Tail(<<"READY">>) = <<>> /\ Tail(<<"DONE">>) = <<>>
    OBVIOUS
  <2> QED
    BY <1>6, <2>1 DEF Orchestrator, StartSubscriber, StartPublisher, Start, WriteSubscriberGo, ReadReady,
       WritePublisherGo, ReadPublisherDone, ReadSubscriberDone, WritePublisherFinish, WriteSubscriberFinish,
       WaitPublisher, WaitSubscriber, OrchWrite, OrchRead, OrchWait, pipeVars
<1> QED BY <1>2, <1>3, <1>4, <1>5, <1>6 DEF Next, PublisherStep, SubscriberStep

LEMMA LastRound ==
  ASSUME TypeInv, NEW e \in Endpoint
  PROVE  /\ Completed(e) < Rounds(e) => payloadIndex[e] < PayloadCount[e]
         /\ Completed(e) = Rounds(e) => ~(payloadIndex[e] < PayloadCount[e])
<1> DEFINE n == WarmupRuns[e] + Runs[e]
<1>1. /\ payloadIndex[e] \in Nat /\ PayloadCount[e] \in Nat /\ payloadIndex[e] <= PayloadCount[e]
      /\ n \in Nat /\ run[e] \in 0 .. n - 1
  BY ConfigAssumption DEF TypeInv, TypeOver, ProcessType
<1>2. CASE payloadIndex[e] = PayloadCount[e]
  <2>1. PayloadCount[e] * n \in Nat
    BY <1>1
  <2> QED BY <1>1, <1>2, <2>1 DEF Completed, Rounds
<1>3. CASE payloadIndex[e] < PayloadCount[e]
  <2>1. PICK d \in Nat : PayloadCount[e] = (payloadIndex[e] + 1) + d
    <3>1. PayloadCount[e] - (payloadIndex[e] + 1) \in Nat
      BY <1>1, <1>3
    <3> QED BY <1>1, <3>1
  <2>2. PayloadCount[e] * n = payloadIndex[e] * n + n + d * n
    BY <1>1, <2>1
  <2>3. d * n >= 0 /\ payloadIndex[e] * n \in Int
    BY <1>1
  <2> QED BY <1>1, <1>3, <2>2, <2>3 DEF Completed, Rounds
<1> QED BY <1>1, <1>2, <1>3

\* No process meets a signal it does not expect and the three loops stay in step,
\* for every configuration that the three processes agree on and every failure.
THEOREM ProcessesStayInStep ==
  ASSUME Agreement
  PROVE  Spec => []InStep
<1>1. EndpointsAgree /\ \A e \in Endpoint : Repetitions = Rounds(e)
  <2>1. EndpointsAgree
    BY DEF Agreement, EndpointsAgree
  <2>2. Rounds(Publisher) = Rounds(Subscriber)
    BY <2>1 DEF Rounds, EndpointsAgree
  <2> QED BY <2>1, <2>2 DEF Agreement
<1>2. Init => OneSignal
  BY DEF Init, OneSignal
<1>3. TypeInv /\ IInv /\ OneSignal /\ [Next]_vars => OneSignal'
  BY OneSignalStep DEF vars, pipeVars, OneSignal
<1>4. TypeInv /\ HandshakeInv /\ IInv /\ OneSignal => InStep
  <2> SUFFICES ASSUME TypeInv, HandshakeInv, OneSignal PROVE InStep
    OBVIOUS
  <2>1. \A e \in Endpoint : (Alive(e) /\ stdin[e] # <<>>) =>
          stdin[e] = <<Awaited(e)>> /\ pc[e] \in {"connect", "readGo", "readFinish"}
    <3> SUFFICES ASSUME NEW e \in Endpoint, Alive(e), stdin[e] # <<>>
                 PROVE  stdin[e] = <<Awaited(e)>> /\ pc[e] \in {"connect", "readGo", "readFinish"}
      OBVIOUS
    <3>1. /\ Between(e)
          /\ \/ stdin[e] = <<"GO">> /\ Completed(e) < Rounds(e)
             \/ stdin[e] = <<"FINISH">> /\ Completed(e) = Rounds(e)
      BY <1>1 DEF HandshakeInv, ReadInv
    <3>2. stdin[e] = <<Awaited(e)>>
      BY <3>1, LastRound DEF Awaited
    <3> QED BY <3>1, <3>2 DEF Between
  <2>2. ~OrchEnded => (stdout[Publisher] # <<>> => stdout[Publisher] = <<"DONE">> /\ orch = "publisherDone")
    <3>1. Append(<<>>, "DONE") = <<"DONE">>
      OBVIOUS
    <3> QED
      BY <3>1 DEF OrchEnded, HandshakeInv, PlaceInv, Awaits, Released, InRound, Answered, Announced, Waiting, Leaving
  <2>3. ~OrchEnded => (stdout[Subscriber] # <<>> =>
          \/ stdout[Subscriber] = <<"READY">> /\ orch = "subscriberReady"
          \/ stdout[Subscriber] = <<"DONE">> /\ orch \in {"publisherGo", "publisherDone", "subscriberDone"})
    <3>1. /\ Append(<<>>, "DONE") = <<"DONE">>
          /\ Append(<<"READY">>, "DONE") \notin {<<>>, <<"READY">>, <<"DONE">>}
      <4>1. <<"READY">> \in Seq({"READY", "DONE"}) /\ Len(<<"READY">>) = 1
        OBVIOUS
      <4>2. Len(Append(<<"READY">>, "DONE")) = 2
        BY <4>1, AppendProperties
      <4>3. Len(<<>>) = 0 /\ Len(<<"DONE">>) = 1
        OBVIOUS
      <4>4. Append(<<>>, "DONE") = <<"DONE">>
        OBVIOUS
      <4> QED BY <4>1, <4>2, <4>3, <4>4
    <3> QED
      BY <3>1 DEF OrchEnded, HandshakeInv, PlaceInv, Awaits, Released, InRound, Answered, Announced, Waiting,
         Leaving, OneSignal
  <2>4. Lockstep
    BY DEF HandshakeInv, ReadInv, Lockstep
  <2> QED BY <2>1, <2>2, <2>3, <2>4 DEF InStep, SignalDiscipline
<1>5. Spec => [](TypeInv /\ IInv)
  BY <1>1, Invariance
<1> QED BY <1>2, <1>3, <1>4, <1>5, Handshake, PTL DEF Spec

----------------------------------------------------------------------------
(* The places of the tables *)

\* The slot of a run determines its payload and its place among the runs.
LEMMA SlotOfRun ==
  ASSUME NEW n \in Nat \ {0}, NEW p \in Nat, NEW r \in 0 .. n - 1
  PROVE  (p * n + r) \div n = p /\ (p * n + r) % n = r
<1> DEFINE k == p * n + r
<1>1. p * n \in Nat /\ k \in Nat
  OBVIOUS
<1>2. k \div n \in Int /\ k % n \in 0 .. n - 1 /\ k = n * (k \div n) + (k % n)
  OBVIOUS
<1> DEFINE d == k \div n
           m == k % n
<1>3. d \in Int /\ m \in 0 .. n - 1 /\ p * n + r = n * d + m
  BY <1>2
<1> HIDE DEF d, m, k
<1>4. p = d
  <2>1. CASE p < d
    <3>1. PICK x \in Nat : d = p + 1 + x
      <4>1. d - (p + 1) \in Nat
        BY <1>3, <2>1
      <4> QED BY <1>3, <4>1
    <3>2. n * d = p * n + n + n * x /\ n * x \in Nat
      BY <3>1
    <3> QED BY <1>1, <1>3, <3>2
  <2>2. CASE d < p
    <3>1. PICK x \in Nat : p = d + 1 + x
      <4>1. p - (d + 1) \in Nat
        BY <1>3, <2>2
      <4> QED BY <1>3, <4>1
    <3>2. p * n = n * d + n + n * x /\ n * x \in Nat
      BY <1>3, <3>1
    <3>3. n * d \in Int
      BY <1>3
    <3> QED BY <1>1, <1>3, <3>2, <3>3
  <2> QED BY <1>3, <2>1, <2>2
<1>5. m = r
  <2>1. n * d = p * n
    BY <1>3, <1>4
  <2> QED BY <1>1, <1>3, <2>1
<1> QED BY <1>4, <1>5 DEF d, m, k

LEMMA FilledNat ==
  ASSUME TypeInv, NEW e \in Endpoint
  PROVE  /\ Filled(e) \in Nat
         /\ ~IsWarmup(e) => Filled(e) = Slot(e)
<1>1. /\ payloadIndex[e] \in Nat /\ Runs[e] \in Nat \ {0} /\ WarmupRuns[e] \in Nat
      /\ run[e] \in 0 .. WarmupRuns[e] + Runs[e] - 1
  BY ConfigAssumption DEF TypeInv, TypeOver, ProcessType
<1>2. payloadIndex[e] * Runs[e] \in Nat
  BY <1>1
<1> QED BY <1>1, <1>2 DEF Filled, Slot, ResultIndex, IsWarmup

\* A measured round that is over fills one more slot, a warm-up none.
LEMMA FilledNext ==
  ASSUME TypeInv, NEW e \in Endpoint, NextRound(e)
  PROVE  Filled(e)' = IF IsWarmup(e) THEN Filled(e) ELSE Filled(e) + 1
<1> DEFINE n == WarmupRuns[e] + Runs[e]
<1>1. /\ payloadIndex[e] \in Nat /\ run[e] \in 0 .. n - 1
      /\ WarmupRuns[e] \in Nat /\ Runs[e] \in Nat \ {0}
      /\ payloadIndex \in [Endpoint -> Nat] /\ run \in [Endpoint -> Nat]
  BY ConfigAssumption DEF TypeInv, TypeOver, ProcessType
<1>2. payloadIndex[e] * Runs[e] \in Nat
  BY <1>1
<1>3. CASE run[e] + 1 < n
  <2>1. payloadIndex'[e] = payloadIndex[e] /\ run'[e] = run[e] + 1
    BY <1>1, <1>3 DEF NextRound
  <2> QED BY <1>1, <1>2, <2>1 DEF Filled, IsWarmup
<1>4. CASE ~(run[e] + 1 < n)
  <2>1. payloadIndex'[e] = payloadIndex[e] + 1 /\ run'[e] = 0 /\ run[e] + 1 = n
    BY <1>1, <1>4 DEF NextRound
  <2>2. (payloadIndex[e] + 1) * Runs[e] = payloadIndex[e] * Runs[e] + Runs[e]
    BY <1>1
  <2> QED BY <1>1, <1>2, <2>1, <2>2 DEF Filled, IsWarmup
<1> QED BY <1>3, <1>4

LEMMA SlotsNat ==
  ASSUME NEW e \in Endpoint, NEW k \in SlotsOf(e)
  PROVE  k \in Nat
BY DEF SlotsOf, Slots

LEMMA CountsInt ==
  ASSUME TypeInv
  PROVE  Missing \in Int /\ Counted \in Nat /\ handler.index \in Nat /\ sent \in Nat
         /\ \A e \in Endpoint : Slack(e) \in Int /\ Recorded(e) \in Nat /\ MessageCount[e] \in Nat \ {0}
<1>1. \A e \in Endpoint : MessageCount[e] \in Nat \ {0}
  BY ConfigAssumption
<1>2. handler.index \in Nat /\ sent \in Nat /\ Len(uplink) \in Nat /\ Len(downlink) \in Nat
  BY Shapes
<1>3. Counted \in Nat
  BY <1>2 DEF Counted
<1>4. Missing \in Int
  BY <1>1, <1>2, <1>3 DEF Missing
<1>5. ASSUME NEW e \in Endpoint PROVE Slack(e) \in Int /\ Recorded(e) \in Nat
  <2>1. CASE e = Publisher
    BY <1>2, <2>1 DEF Slack, Recorded
  <2>2. CASE e # Publisher
    BY <1>2, <1>4, <2>2 DEF Slack, Recorded
  <2> QED BY <2>1, <2>2
<1> QED BY <1>1, <1>2, <1>3, <1>4, <1>5

LEMMA MissingNext ==
  ASSUME TypeInv'
  PROVE  Missing' \in Int /\ \A e \in Endpoint : Slack(e)' \in Int
<1>1. /\ MessageCount[Publisher] \in Nat /\ sent' \in Nat
      /\ uplink' \in Seq(AnyID) /\ downlink' \in Seq(AnyID)
  BY ConfigAssumption DEF TypeInv, TypeOver, ProcessType, NetType
<1>2. handler'.index \in Nat /\ Len(uplink') \in Nat /\ Len(downlink') \in Nat
  BY <1>1, LenProperties DEF TypeInv, TypeOver, NetType, HandlerType
<1>3. Missing' \in Int
  BY <1>1, <1>2 DEF Missing, Counted
<1> QED BY <1>3 DEF Slack

\* One entry of one table is written.
Writes(e, slot, n, id) ==
  /\ \A k \in SlotsOf(e), i \in 0 .. MessageCount[e] - 1 :
       results'[e][k][i] = IF k = slot /\ i = n THEN id ELSE results[e][k][i]
  /\ \A d \in Endpoint \ {e} : results'[d] = results[d]

LEMMA EntryWritten ==
  ASSUME TypeInv, NEW e \in Endpoint, NEW slot, NEW n, NEW id,
         slot \in SlotsOf(e), n \in 0 .. MessageCount[e] - 1,
         results' = [results EXCEPT ![e][slot][n] = id]
  PROVE  Writes(e, slot, n, id)
<1> DEFINE row == 0 .. MessageCount[e] - 1
           value == AnyID \union {Untouched}
<1>1. results[e] \in [SlotsOf(e) -> [row -> value]] /\ DOMAIN results = Endpoint
  BY DEF TypeInv, TypeOver, TableType
<1>2. n \in row
  OBVIOUS
<1> HIDE DEF row, value
<1>3. results'[e] = [results[e] EXCEPT ![slot] = [@ EXCEPT ![n] = id]]
  BY <1>1
<1>4. results'[e][slot] = [results[e][slot] EXCEPT ![n] = id] /\ results[e][slot] \in [row -> value]
  BY <1>1, <1>3
<1>5. results'[e][slot][n] = id /\ \A i \in row \ {n} : results'[e][slot][i] = results[e][slot][i]
  BY <1>2, <1>4
<1>6. \A k \in SlotsOf(e) \ {slot} : results'[e][k] = results[e][k]
  BY <1>1, <1>3
<1>7. \A d \in Endpoint \ {e} : results'[d] = results[d]
  BY <1>1
<1> QED BY <1>5, <1>6, <1>7 DEF row, Writes

\* Nothing is written, and the round has as many entries as before.
LEMMA TablesFrame ==
  ASSUME TypeInv, TypeInv', NEW e \in Endpoint, TablesInv(e), pc[e] # "failed",
         results'[e] = results[e], payloadIndex'[e] = payloadIndex[e], run'[e] = run[e],
         \/ (Filling(e) => Recorded(e) = 0) /\ (Filling(e)' => Recorded(e)' = 0)
         \/ Filling(e) /\ Filling(e)' /\ Recorded(e)' = Recorded(e) /\ Slack(e)' >= Slack(e)
  PROVE  TablesInv(e)'
<1> SUFFICES ASSUME NEW k \in SlotsOf(e), NEW i \in 0 .. MessageCount[e] - 1
             PROVE  EntryInv(e, k, i)'
  BY DEF TablesInv
<1>1. UNCHANGED <<Filled(e), IsWarmup(e)>> /\ \A index : MessageID(e, index)' = MessageID(e, index)
  BY DEF Filled, IsWarmup, MessageID
<1>2. EntryInv(e, k, i)
  BY DEF TablesInv
<1>3. /\ Slack(e) \in Int /\ Recorded(e) \in Nat /\ MessageCount[e] \in Nat \ {0}
      /\ Slack(e)' \in Int /\ i \in Nat
  BY CountsInt, MissingNext
<1>4. Slack(e)' >= Slack(e) => i .. i + Slack(e) \subseteq i .. i + Slack(e)'
  BY <1>3
<1>5. Recorded(e) = 0 => ~(i < Recorded(e))
  BY <1>3
<1>6. Recorded(e)' = 0 => ~(i < Recorded(e)')
  BY <1>3
<1>7. CASE (Filling(e) => Recorded(e) = 0) /\ (Filling(e)' => Recorded(e)' = 0)
  <2>1. ~(Filling(e) /\ i < Recorded(e)) /\ ~(Filling(e)' /\ i < Recorded(e)')
    BY <1>5, <1>6, <1>7
  <2> QED BY <1>1, <1>2, <2>1 DEF EntryInv
<1>8. CASE Filling(e) /\ Filling(e)' /\ Recorded(e)' = Recorded(e) /\ Slack(e)' >= Slack(e)
  BY <1>1, <1>2, <1>4, <1>8 DEF EntryInv
<1> QED BY <1>7, <1>8

\* The place that a message takes next has not been written.
LEMMA NextIsUntouched ==
  ASSUME TypeInv, NEW e \in Endpoint, TablesInv(e), Filling(e), Recorded(e) < MessageCount[e]
  PROVE  /\ Slot(e) \in SlotsOf(e) /\ Recorded(e) \in 0 .. MessageCount[e] - 1
         /\ results[e][Slot(e)][Recorded(e)] = Untouched
<1>1. ~IsWarmup(e) /\ payloadIndex[e] < PayloadCount[e] /\ pc[e] # "failed"
  BY DEF Filling, Working, TypeInv, LoopInv, Endpoint
<1>2. Slot(e) \in SlotsOf(e)
  BY <1>1, SlotInEndpointTable DEF TypeInv, TypeOver, Slot
<1>3. Slot(e) = Filled(e) /\ Filled(e) \in Nat
  BY <1>1, FilledNat
<1>4. Recorded(e) \in 0 .. MessageCount[e] - 1
  BY CountsInt
<1>5. EntryInv(e, Slot(e), Recorded(e))
  BY <1>1, <1>2, <1>4 DEF TablesInv
<1>6. ~(Recorded(e) < Recorded(e)) /\ ~(Slot(e) < Filled(e))
  BY <1>3, <1>4
<1> QED BY <1>2, <1>4, <1>5, <1>6 DEF EntryInv

\* The next message of the round is recorded.
LEMMA TablesWritten ==
  ASSUME TypeInv, TypeInv', NEW e \in Endpoint, TablesInv(e), Filling(e), Recorded(e) < MessageCount[e],
         pc'[e] = pc[e], payloadIndex'[e] = payloadIndex[e], run'[e] = run[e],
         NEW index \in Recorded(e) .. Recorded(e) + Slack(e)',
         Recorded(e)' = Recorded(e) + 1, Slack(e)' >= Slack(e),
         results' = [results EXCEPT ![e][Slot(e)][Recorded(e)] = MessageID(e, index)]
  PROVE  TablesInv(e)'
<1> SUFFICES ASSUME NEW k \in SlotsOf(e), NEW i \in 0 .. MessageCount[e] - 1
             PROVE  EntryInv(e, k, i)'
  BY DEF TablesInv
<1>1. ~IsWarmup(e) /\ pc[e] # "failed" /\ Slot(e) = Filled(e)
  BY FilledNat DEF Filling, Working
<1>2. UNCHANGED <<Filled(e), IsWarmup(e), Filling(e)>> /\ \A n : MessageID(e, n)' = MessageID(e, n)
  BY DEF Filled, IsWarmup, Filling, Working, MessageID
<1>3. EntryInv(e, k, i)
  BY <1>1 DEF TablesInv
<1>4. /\ Slack(e) \in Int /\ Recorded(e) \in Nat /\ Slack(e)' \in Int /\ i \in Nat
      /\ k \in Nat /\ Filled(e) \in Nat
  BY CountsInt, MissingNext, FilledNat, SlotsNat
<1>5. results'[e][k][i] = IF k = Slot(e) /\ i = Recorded(e) THEN MessageID(e, index) ELSE results[e][k][i]
  <2>1. Slot(e) \in SlotsOf(e) /\ Recorded(e) \in 0 .. MessageCount[e] - 1
    BY NextIsUntouched
  <2>2. Writes(e, Slot(e), Recorded(e), MessageID(e, index))
    BY <2>1, EntryWritten
  <2> QED BY <2>2 DEF Writes
<1>6. CASE k = Filled(e) /\ i = Recorded(e)
  <2>1. results'[e][k][i] = MessageID(e, index)
    BY <1>1, <1>5, <1>6
  <2>2. i < Recorded(e)' /\ ~(k < Filled(e)) /\ index \in i .. i + Slack(e)'
    BY <1>4, <1>6
  <2> QED BY <1>2, <1>6, <2>1, <2>2 DEF EntryInv
<1>7. CASE ~(k = Filled(e) /\ i = Recorded(e))
  <2>1. results'[e][k][i] = results[e][k][i]
    BY <1>1, <1>5, <1>7
  <2>2. k = Filled(e) => (i < Recorded(e)' <=> i < Recorded(e))
    BY <1>4, <1>7
  <2>3. i .. i + Slack(e) \subseteq i .. i + Slack(e)'
    BY <1>4
  <2> QED BY <1>2, <1>3, <2>1, <2>2, <2>3 DEF EntryInv
<1> QED BY <1>6, <1>7

\* A run is over: its slot holds its messages, each at its place.
LEMMA TablesOver ==
  ASSUME TypeInv, NEW e \in Endpoint, TablesInv(e), pc[e] = "done", NextRound(e), results' = results,
         ~Filling(e)', Filling(e) => Recorded(e) = MessageCount[e] /\ Slack(e) = 0
  PROVE  TablesInv(e)'
<1> SUFFICES ASSUME NEW k \in SlotsOf(e), NEW i \in 0 .. MessageCount[e] - 1
             PROVE  EntryInv(e, k, i)'
  BY DEF TablesInv
<1>1. Filling(e) <=> ~IsWarmup(e)
  BY DEF Filling, Working
<1>2. Filled(e)' = IF IsWarmup(e) THEN Filled(e) ELSE Filled(e) + 1
  BY FilledNext
<1>3. EntryInv(e, k, i)
  BY DEF TablesInv
<1>4. Filled(e) \in Nat /\ k \in Nat /\ i \in Nat
  BY FilledNat, SlotsNat, CountsInt
<1>5. CASE ~IsWarmup(e) /\ k = Filled(e)
  <2>1. i < Recorded(e) /\ i .. i + Slack(e) = {i} /\ ~(k < Filled(e))
    BY <1>1, <1>4, <1>5, CountsInt
  <2>2. results[e][k][i] = MessageID(e, i)
    BY <1>1, <1>3, <1>5, <2>1 DEF EntryInv
  <2>3. /\ payloadIndex[e] \in Nat /\ Runs[e] \in Nat \ {0} /\ WarmupRuns[e] \in Nat
        /\ run[e] \in 0 .. WarmupRuns[e] + Runs[e] - 1
    BY ConfigAssumption DEF TypeInv, TypeOver, ProcessType
  <2> DEFINE r == run[e] - WarmupRuns[e]
  <2>4. r \in 0 .. Runs[e] - 1 /\ k = payloadIndex[e] * Runs[e] + r
    BY <1>5, <2>3 DEF Filled, IsWarmup
  <2> HIDE DEF r
  <2> DEFINE n == Runs[e]
             p == payloadIndex[e]
  <2>8. n \in Nat \ {0} /\ p \in Nat /\ r \in 0 .. n - 1 /\ k = p * n + r
    BY <2>3, <2>4
  <2> HIDE DEF n, p
  <2>9. k \div n = p /\ k % n = r
    BY <2>8, SlotOfRun
  <2>5. k \div Runs[e] = payloadIndex[e] /\ k % Runs[e] = r
    BY <2>9 DEF n, p
  <2>6. WarmupRuns[e] + r = run[e]
    BY <2>3 DEF r
  <2>7. k < Filled(e)'
    BY <1>2, <1>4, <1>5
  <2> QED BY <2>2, <2>5, <2>6, <2>7 DEF EntryInv, MessageID
<1>6. CASE IsWarmup(e) \/ k # Filled(e)
  <2>1. k < Filled(e)' <=> k < Filled(e)
    BY <1>2, <1>4, <1>6
  <2>2. ~(k = Filled(e) /\ Filling(e))
    BY <1>1, <1>6
  <2> QED BY <1>3, <2>1, <2>2 DEF EntryInv
<1> QED BY <1>5, <1>6

----------------------------------------------------------------------------
(* The order of the messages *)

LEMMA QueueTypes ==
  ASSUME TypeInv
  PROVE  /\ uplink \in Seq(AnyID) /\ downlink \in Seq(AnyID)
         /\ Len(uplink) \in Nat /\ Len(downlink) \in Nat /\ handler.index \in Nat
         /\ \A i \in 1 .. Len(uplink) : uplink[i][3] \in Int
         /\ \A i \in 1 .. Len(downlink) : downlink[i][3] \in Int
<1>1. uplink \in Seq(AnyID) /\ downlink \in Seq(AnyID)
  BY DEF TypeInv, TypeOver, NetType
<1>2. \A id \in AnyID : id[3] \in Int
  BY DEF AnyID
<1>3. Len(uplink) \in Nat /\ Len(downlink) \in Nat /\ handler.index \in Nat
  BY Shapes
<1>4. /\ \A i \in 1 .. Len(uplink) : uplink[i] \in AnyID
      /\ \A i \in 1 .. Len(downlink) : downlink[i] \in AnyID
  BY <1>1, ElementOfSeq
<1> QED BY <1>1, <1>2, <1>3, <1>4

LEMMA QueueTypesNext ==
  ASSUME TypeInv'
  PROVE  Len(uplink') \in Nat /\ Len(downlink') \in Nat /\ handler'.index \in Nat
<1>1. uplink' \in Seq(AnyID) /\ downlink' \in Seq(AnyID)
  BY DEF TypeInv, TypeOver, NetType
<1>2. handler'.index \in Nat
  BY DEF TypeInv, TypeOver, NetType, HandlerType
<1> QED BY <1>1, <1>2, LenProperties

\* r is q without its first s elements, and perhaps without some at its end.
Shortened(q, r, s) == \A i \in 1 .. Len(r) : i + s \in 1 .. Len(q) /\ r[i] = q[i + s]

\* Messages leave the queues at their heads or at their ends.
LEMMA OrderShift ==
  ASSUME TypeInv, TypeInv', OrderInv, NEW s \in Nat, NEW t \in Nat,
         Shortened(uplink, uplink', s), Shortened(downlink, downlink', t),
         handler'.index <= handler.index + t,
         handler.index + t + Missing <= handler'.index + Missing',
         handler'.index + Len(downlink') <= handler.index + Len(downlink) + s,
         handler.index + Len(downlink) + s + Missing <= handler'.index + Len(downlink') + Missing'
  PROVE  OrderInv'
<1>1. Missing \in Int /\ Missing' \in Int
  BY CountsInt, MissingNext
<1>4. /\ Len(uplink) \in Nat /\ Len(downlink) \in Nat /\ handler.index \in Nat
      /\ Len(uplink') \in Nat /\ Len(downlink') \in Nat /\ handler'.index \in Nat
  BY QueueTypes, QueueTypesNext
<1>2. ASSUME NEW i \in 1 .. Len(downlink')
      PROVE  Near(handler.index + i - 1, downlink[i])'
  <2> DEFINE a == handler.index
             b == handler'.index
             x == downlink[i + t][3]
             m == Missing
             n == Missing'
  <2>1. i + t \in 1 .. Len(downlink) /\ downlink'[i] = downlink[i + t]
    BY DEF Shortened
  <2>2. \A j \in 1 .. Len(downlink) : Near(handler.index + j - 1, downlink[j]) /\ downlink[j][3] \in Int
    BY QueueTypes DEF OrderInv
  <2>3. a + (i + t) - 1 <= x /\ x <= a + (i + t) - 1 + m /\ x \in Int
    BY <2>1, <2>2 DEF Near
  <2>4. /\ a \in Int /\ b \in Int /\ i \in Int /\ t \in Int /\ m \in Int /\ n \in Int
        /\ b <= a + t /\ a + t + m <= b + n
    <3>1. m \in Int /\ n \in Int /\ t \in Int /\ i \in Int
      BY <1>1, <1>4
    <3>2. b <= a + t /\ a + t + m <= b + n
      OBVIOUS
    <3>3. a \in Int /\ b \in Int
      BY <1>4
    <3> QED BY <3>1, <3>2, <3>3
  <2> HIDE DEF a, b, x, m, n
  <2>5. b + i - 1 <= x
    BY <2>3, <2>4
  <2>6. x <= b + i - 1 + n
    BY <2>3, <2>4
  <2> QED BY <2>1, <2>5, <2>6 DEF a, b, x, n, Near
<1>3. ASSUME NEW i \in 1 .. Len(uplink')
      PROVE  Near(handler.index + Len(downlink) + i - 1, uplink[i])'
  <2> DEFINE a == handler.index + Len(downlink)
             b == handler'.index + Len(downlink')
             x == uplink[i + s][3]
             m == Missing
             n == Missing'
  <2>1. i + s \in 1 .. Len(uplink) /\ uplink'[i] = uplink[i + s]
    BY DEF Shortened
  <2>2. \A j \in 1 .. Len(uplink) : Near(handler.index + Len(downlink) + j - 1, uplink[j]) /\ uplink[j][3] \in Int
    BY QueueTypes DEF OrderInv
  <2>3. a + (i + s) - 1 <= x /\ x <= a + (i + s) - 1 + m /\ x \in Int
    BY <2>1, <2>2 DEF Near
  <2>4. /\ a \in Int /\ b \in Int /\ i \in Int /\ s \in Int /\ m \in Int /\ n \in Int
        /\ b <= a + s /\ a + s + m <= b + n
    <3>1. m \in Int /\ n \in Int /\ s \in Int /\ i \in Int
      BY <1>1, <1>4
    <3>2. b <= a + s /\ a + s + m <= b + n
      OBVIOUS
    <3>3. a \in Int /\ b \in Int
      BY <1>4
    <3> QED BY <3>1, <3>2, <3>3
  <2> HIDE DEF a, b, x, m, n
  <2>5. b + i - 1 <= x
    BY <2>3, <2>4
  <2>6. x <= b + i - 1 + n
    BY <2>3, <2>4
  <2> QED BY <2>1, <2>5, <2>6 DEF a, b, x, n, Near
<1> QED BY <1>2, <1>3 DEF OrderInv

LEMMA OrderQuiet ==
  ASSUME Quiet'
  PROVE  OrderInv'
<1>1. Len(uplink') = 0 /\ Len(downlink') = 0
  BY DEF Quiet
<1> QED BY <1>1 DEF OrderInv

LEMMA OrderFrame ==
  ASSUME TypeInv, TypeInv', OrderInv, uplink' = uplink, downlink' = downlink,
         handler'.index = handler.index, Missing' >= Missing
  PROVE  OrderInv'
<1>1. Shortened(uplink, uplink', 0) /\ Shortened(downlink, downlink', 0)
  BY QueueTypes DEF Shortened
<1>2. Missing \in Int /\ Missing' \in Int /\ handler.index \in Nat /\ Len(downlink) \in Nat
  BY CountsInt, MissingNext, QueueTypes
<1>3. /\ handler'.index <= handler.index + 0
      /\ handler.index + 0 + Missing <= handler'.index + Missing'
      /\ handler'.index + Len(downlink') <= handler.index + Len(downlink) + 0
      /\ handler.index + Len(downlink) + 0 + Missing <= handler'.index + Len(downlink') + Missing'
  BY <1>2
<1> QED BY <1>1, <1>3, OrderShift

LEMMA CyclesFrame ==
  ASSUME NEW f \in Endpoint, CyclesInv(f), pc'[f] = pc[f], payloadIndex'[f] = payloadIndex[f], run'[f] = run[f],
         cycles'[f] = cycles[f], csv'[f] = csv[f]
  PROVE  CyclesInv(f)'
BY DEF CyclesInv, Filled, IsWarmup

LEMMA TailShortens ==
  ASSUME NEW S, NEW q \in Seq(S), q # <<>>
  PROVE  Shortened(q, Tail(q), 1) /\ Len(q) \in Nat /\ Len(Tail(q)) = Len(q) - 1 /\ Head(q) = q[1] /\ 1 \in 1 .. Len(q)
<1>1. /\ Len(q) \in Nat /\ Len(Tail(q)) = Len(q) - 1 /\ Len(q) > 0 /\ Head(q) = q[1]
      /\ \A i \in 1 .. Len(Tail(q)) : Tail(q)[i] = q[i + 1]
  BY HeadTailProperties, LenProperties, EmptySeq
<1> QED BY <1>1 DEF Shortened

LEMMA SuffixShortens ==
  ASSUME NEW S, NEW q \in Seq(S), NEW r, r = q \/ LosesSuffix(q, r)
  PROVE  Shortened(q, r, 0) /\ Len(q) \in Nat /\ Len(r) \in Nat /\ Len(r) <= Len(q)
<1>1. CASE r = q
  BY <1>1, LenProperties DEF Shortened
<1>2. CASE LosesSuffix(q, r)
  <2>1. /\ r \in Seq(S) /\ Len(r) \in Nat /\ Len(r) <= Len(q)
        /\ \A i \in 1 .. Len(r) : i \in 1 .. Len(q) /\ r[i] = q[i]
    BY <1>2, ShorterQueue
  <2> QED BY <2>1, LenProperties DEF Shortened
<1> QED BY <1>1, <1>2

\* What the publisher and the broker lose, at the ends of the queues.
LEMMA OrderLost ==
  ASSUME TypeInv, TypeInv', handler'.index = handler.index,
         uplink' = uplink \/ LosesSuffix(uplink, uplink'),
         downlink' = downlink \/ LosesSuffix(downlink, downlink'),
         \/ sent' = sent /\ pc'[Publisher] = pc[Publisher]
         \/ sent' = sent /\ pc'[Publisher] # "publish"
         \/ pc[Publisher] # "publish" /\ pc'[Publisher] # "publish"
  PROVE  Missing' >= Missing /\ (OrderInv => OrderInv')
<1> DEFINE h == handler.index
           h2 == handler'.index
           u == Len(uplink)
           d == Len(downlink)
           u2 == Len(uplink')
           d2 == Len(downlink')
           m == Missing
           m2 == Missing'
           s == sent
           all == MessageCount[Publisher]
           pub == pc[Publisher] = "publish"
           pub2 == pc'[Publisher] = "publish"
           s2 == sent'
<1>1. Shortened(uplink, uplink', 0) /\ Shortened(downlink, downlink', 0)
  BY SuffixShortens, QueueTypes
<1>2. u2 <= u /\ d2 <= d
  BY SuffixShortens, QueueTypes
<1>3. m \in Int /\ m2 \in Int
  BY CountsInt, MissingNext
<1>4. h \in Nat /\ u \in Nat /\ d \in Nat /\ u2 \in Nat /\ d2 \in Nat /\ h2 = h
  BY QueueTypes, QueueTypesNext
<1>5. s \in Nat /\ all \in Nat /\ s <= all
  BY ConfigAssumption DEF TypeInv, TypeOver, ProcessType
<1>6. /\ m = (IF pub THEN s ELSE all) - (h + u + d)
      /\ m2 = (IF pub2 THEN s2 ELSE all) - (h2 + u2 + d2)
  BY DEF Missing, Counted
<1>7. \/ s2 = s /\ (pub2 <=> pub)
      \/ s2 = s /\ ~pub2
      \/ ~pub /\ ~pub2
  OBVIOUS
<1> HIDE DEF h, h2, u, d, u2, d2, m, m2, s, s2, all, pub, pub2
<1>8. m2 >= m + (u - u2) + (d - d2)
  BY <1>4, <1>5, <1>6, <1>7
<1>9. /\ h2 <= h + 0 /\ h + 0 + m <= h2 + m2
      /\ h2 + d2 <= h + d + 0 /\ h + d + 0 + m <= h2 + d2 + m2 /\ m2 >= m
  BY <1>2, <1>3, <1>4, <1>8
<1>10. /\ handler'.index <= handler.index + 0
       /\ handler.index + 0 + Missing <= handler'.index + Missing'
       /\ handler'.index + Len(downlink') <= handler.index + Len(downlink) + 0
       /\ handler.index + Len(downlink) + 0 + Missing <= handler'.index + Len(downlink') + Missing'
       /\ Missing' >= Missing
  BY <1>9 DEF h, h2, d, d2, m, m2
<1> QED BY <1>1, <1>10, OrderShift

\* A message is counted, or is found unreadable and will be missed.
LEMMA OrderHandled ==
  ASSUME TypeInv, TypeInv', downlink # <<>>, downlink' = Tail(downlink), uplink' = uplink, sent' = sent,
         pc'[Publisher] = pc[Publisher],
         handler'.index = handler.index + 1 \/ handler'.index = handler.index
  PROVE  Missing' >= Missing /\ (OrderInv => OrderInv')
<1> DEFINE h == handler.index
           h2 == handler'.index
           d == Len(downlink)
           d2 == Len(downlink')
           u == Len(uplink)
           m == Missing
           m2 == Missing'
           base == IF pc[Publisher] = "publish" THEN sent ELSE MessageCount[Publisher]
<1>1. Shortened(downlink, downlink', 1) /\ Shortened(uplink, uplink', 0)
  BY TailShortens, SuffixShortens, QueueTypes
<1>2. d2 = d - 1
  BY TailShortens, QueueTypes
<1>3. m \in Int /\ m2 \in Int /\ base \in Int
  BY CountsInt, MissingNext
<1>4. h \in Nat /\ u \in Nat /\ d \in Nat /\ h2 \in Nat /\ (h2 = h + 1 \/ h2 = h)
  BY QueueTypes, QueueTypesNext
<1>5. m = base - (h + u + d) /\ m2 = base - (h2 + u + d2)
  BY DEF Missing, Counted
<1> HIDE DEF h, h2, u, d, d2, m, m2, base
<1>6. /\ h2 <= h + 1 /\ h + 1 + m <= h2 + m2
      /\ h2 + d2 <= h + d + 0 /\ h + d + 0 + m <= h2 + d2 + m2 /\ m2 >= m
  BY <1>2, <1>3, <1>4, <1>5
<1>7. /\ handler'.index <= handler.index + 1
      /\ handler.index + 1 + Missing <= handler'.index + Missing'
      /\ handler'.index + Len(downlink') <= handler.index + Len(downlink) + 0
      /\ handler.index + Len(downlink) + 0 + Missing <= handler'.index + Len(downlink') + Missing'
      /\ Missing' >= Missing
  BY <1>6 DEF h, h2, d, d2, m, m2
<1> QED BY <1>1, <1>7, OrderShift

\* A message is dropped, or finds no subscription.
LEMMA OrderDropped ==
  ASSUME TypeInv, TypeInv', uplink # <<>>, uplink' = Tail(uplink), UNCHANGED <<downlink, handler, sent, pc>>
  PROVE  Missing' >= Missing /\ (OrderInv => OrderInv')
<1> DEFINE h == handler.index
           d == Len(downlink)
           u == Len(uplink)
           u2 == Len(uplink')
           m == Missing
           m2 == Missing'
           base == IF pc[Publisher] = "publish" THEN sent ELSE MessageCount[Publisher]
<1>1. Shortened(downlink, downlink', 0) /\ Shortened(uplink, uplink', 1)
  BY TailShortens, SuffixShortens, QueueTypes
<1>2. u2 = u - 1
  BY TailShortens, QueueTypes
<1>3. m \in Int /\ m2 \in Int /\ base \in Int
  BY CountsInt, MissingNext
<1>4. h \in Nat /\ u \in Nat /\ d \in Nat
  BY QueueTypes
<1>5. m = base - (h + u + d) /\ m2 = base - (h + u2 + d)
  BY DEF Missing, Counted
<1> HIDE DEF h, u, d, u2, m, m2, base
<1>6. /\ h <= h + 0 /\ h + 0 + m <= h + m2
      /\ h + d <= h + d + 1 /\ h + d + 1 + m <= h + d + m2 /\ m2 >= m
  BY <1>2, <1>3, <1>4, <1>5
<1>7. /\ handler'.index <= handler.index + 0
      /\ handler.index + 0 + Missing <= handler'.index + Missing'
      /\ handler'.index + Len(downlink') <= handler.index + Len(downlink) + 1
      /\ handler.index + Len(downlink) + 1 + Missing <= handler'.index + Len(downlink') + Missing'
      /\ Missing' >= Missing
  BY <1>6 DEF h, d, m, m2
<1> QED BY <1>1, <1>7, OrderShift

\* A message is routed to the end of the downlink.
LEMMA OrderForwarded ==
  ASSUME TypeInv, TypeInv', uplink # <<>>, uplink' = Tail(uplink),
         downlink' = Append(downlink, Head(uplink)), UNCHANGED <<handler, sent, pc>>
  PROVE  Missing' = Missing /\ (OrderInv => OrderInv')
<1>1. /\ Shortened(uplink, uplink', 1) /\ Len(uplink') = Len(uplink) - 1 /\ Head(uplink) = uplink[1]
      /\ 1 \in 1 .. Len(uplink)
  BY TailShortens, QueueTypes
<1>2. /\ Len(downlink') = Len(downlink) + 1 /\ downlink'[Len(downlink) + 1] = uplink[1]
      /\ \A i \in 1 .. Len(downlink) : downlink'[i] = downlink[i]
  <2>1. uplink[1] \in AnyID
    BY <1>1, ElementOfSeq, QueueTypes
  <2> QED BY <1>1, <2>1, AppendProperties, QueueTypes
<1>3. Len(uplink) \in Nat /\ Len(downlink) \in Nat /\ handler.index \in Nat
  BY QueueTypes
<1>4. Counted' = Counted
  <2> DEFINE h == handler.index
             u == Len(uplink)
             u2 == Len(uplink')
             d == Len(downlink)
             d2 == Len(downlink')
  <2>1. u2 = u - 1 /\ d2 = d + 1 /\ u \in Nat /\ d \in Nat /\ h \in Nat
    BY <1>1, <1>2, <1>3
  <2>2. Counted = h + u + d /\ Counted' = h + u2 + d2
    BY DEF Counted
  <2> HIDE DEF h, u, u2, d, d2
  <2> QED BY <2>1, <2>2
<1>5. Missing' = Missing
  BY <1>4 DEF Missing
<1>6. ASSUME OrderInv, NEW i \in 1 .. Len(downlink')
      PROVE  Near(handler.index + i - 1, downlink[i])'
  <2>1. i \in 1 .. Len(downlink) \/ i = Len(downlink) + 1
    BY <1>2, <1>3
  <2>2. CASE i \in 1 .. Len(downlink)
    <3>1. Near(handler.index + i - 1, downlink[i])
      BY <1>6, <2>2 DEF OrderInv
    <3>2. downlink'[i] = downlink[i]
      BY <1>2, <2>2
    <3> QED BY <1>5, <3>1, <3>2 DEF Near
  <2>3. CASE i = Len(downlink) + 1
    <3>1. Near(handler.index + Len(downlink) + 1 - 1, uplink[1])
      BY <1>1, <1>6 DEF OrderInv
    <3>2. handler.index + Len(downlink) + 1 - 1 = handler.index + i - 1
      BY <1>3, <2>3
    <3>3. Near(handler.index + i - 1, uplink[1])
      BY <3>1, <3>2
    <3>4. downlink'[i] = uplink[1]
      BY <1>2, <2>3
    <3> QED BY <1>5, <3>3, <3>4 DEF Near
  <2> QED BY <2>1, <2>2, <2>3
<1>7. ASSUME OrderInv, NEW i \in 1 .. Len(uplink')
      PROVE  Near(handler.index + Len(downlink) + i - 1, uplink[i])'
  <2>1. i + 1 \in 1 .. Len(uplink) /\ uplink'[i] = uplink[i + 1] /\ i \in Int
    BY <1>1 DEF Shortened
  <2>2. Near(handler.index + Len(downlink) + (i + 1) - 1, uplink[i + 1])
    BY <1>7, <2>1 DEF OrderInv
  <2>3. handler.index + Len(downlink) + (i + 1) - 1 = handler.index + Len(downlink') + i - 1
    <3> DEFINE h == handler.index
               d == Len(downlink)
               d2 == Len(downlink')
    <3>1. h \in Nat /\ d \in Nat /\ d2 = d + 1 /\ i \in Int
      BY <1>2, <1>3, <2>1
    <3> HIDE DEF h, d, d2
    <3>2. h + d + (i + 1) - 1 = h + d2 + i - 1
      BY <3>1
    <3> QED BY <3>2 DEF h, d, d2
  <2>4. Near(handler.index + Len(downlink') + i - 1, uplink[i + 1])
    BY <2>2, <2>3
  <2> QED BY <1>5, <2>1, <2>4 DEF Near
<1>8. OrderInv => OrderInv'
  BY <1>6, <1>7 DEF OrderInv
<1> QED BY <1>5, <1>8

LEMMA OrderRouted ==
  ASSUME TypeInv, TypeInv', Route \/ Drop
  PROVE  Missing' >= Missing /\ (OrderInv => OrderInv')
<1>1. /\ uplink # <<>> /\ uplink' = Tail(uplink)
      /\ downlink' = downlink \/ downlink' = Append(downlink, Head(uplink))
      /\ UNCHANGED <<handler, sent, pc>>
  BY DEF Route, Drop, endVars, sendVars
<1>2. CASE downlink' = downlink
  BY <1>1, <1>2, OrderDropped
<1>3. CASE downlink' = Append(downlink, Head(uplink))
  BY <1>1, <1>3, OrderForwarded, CountsInt
<1> QED BY <1>1, <1>2, <1>3

----------------------------------------------------------------------------
(* What a step is to an endpoint *)

\* A step of somebody else leaves what e has measured alone, and how it does so.
Stays(e) ==
  /\ UNCHANGED <<pc[e], payloadIndex[e], run[e], cpu[e], results[e], cycles[e], csv[e]>>
  /\ IF e = Publisher THEN sent' = sent ELSE UNCHANGED <<handler.slot, handler.warmup, handler.index>>

Starts(e) ==
  /\ pc[e] = "absent" /\ pc'[e] = "connect"
  /\ UNCHANGED <<payloadIndex, run, cpu, results, cycles, csv, sent, handler>>

Acts(e) ==
  \/ EndpointStep(e)
  \/ e = Publisher /\ (Publish \/ WaitTokens)
  \/ e = Subscriber /\ (Subscribe \/ WaitSuback \/ WriteReady \/ WaitMessages \/ HandleMessage)

LEMMA FailStays ==
  ASSUME TypeInv, NEW e \in Endpoint, NEW d \in Endpoint, NEW at, FailAt(d, at)
  PROVE  IF d = e THEN pc'[e] = "failed" ELSE Stays(e)
<1>1. /\ pc' = [pc EXCEPT ![d] = "failed"] /\ cpu' = [cpu EXCEPT ![d] = "none"]
      /\ UNCHANGED <<payloadIndex, run, results, cycles, csv, sent, handler>>
  BY DEF FailAt, Fail, Exit, Goto, ExitFrame, loopVars, sendVars
<1>2. pc \in [Endpoint -> Steps] /\ DOMAIN cpu = Endpoint
  BY DEF TypeInv, TypeOver, ProcessType
<1> QED BY <1>1, <1>2 DEF Stays

LEMMA EndpointStays ==
  ASSUME TypeInv, NEW e \in Endpoint, NEW d \in Endpoint, d # e, EndpointStep(d)
  PROVE  Stays(e)
<1> USE DEF TypeInv, TypeOver, ProcessType, TableType, Goto, Exit, Fail, loopVars, sendVars, tableVars
<1>1. CASE \E at : FailAt(d, at)
  BY <1>1, FailStays
<1>2. CASE Connect(d) /\ ~FailAt(d, "connect")
  BY <1>2 DEF Connect, Stays
<1>3. CASE ReadGo(d)
  BY <1>3 DEF ReadGo, Read, Stays
<1>4. CASE ReadFinish(d)
  BY <1>4 DEF ReadFinish, Read, Stays
<1>5. CASE NewCPU(d) /\ ~FailAt(d, "newCPU")
  BY <1>5 DEF NewCPU, StepFrame, Stays
<1>6. CASE Enable(d) /\ ~FailAt(d, "enable")
  BY <1>6 DEF Enable, StepFrame, Stays
<1>7. CASE Stop(d) /\ ~FailAt(d, "stop")
  BY <1>7 DEF Stop, Stays
<1>8. CASE WriteDone(d) /\ ~FailAt(d, "done")
  BY <1>8 DEF WriteDone, NextRound, Stays
<1>9. CASE Disconnect(d)
  BY <1>9 DEF Disconnect, Stays
<1>10. CASE WriteResults(d) /\ ~FailAt(d, "writeResults")
  BY <1>10 DEF WriteResults, Stays
<1> QED
  BY <1>1, <1>2, <1>3, <1>4, <1>5, <1>6, <1>7, <1>8, <1>9, <1>10 DEF EndpointStep

LEMMA OrchestratorStays ==
  ASSUME TypeInv, StartInv, NEW e \in Endpoint, Orchestrator
  PROVE  Stays(e) \/ Starts(e)
<1>1. CASE StartSubscriber \/ StartPublisher
  BY <1>1, Shapes DEF StartSubscriber, StartPublisher, Start, StartInv, Stays, Starts, loopVars, sendVars, tableVars
<1>2. CASE ~(StartSubscriber \/ StartPublisher)
  BY <1>2 DEF Orchestrator, WriteSubscriberGo, ReadReady,
     WritePublisherGo, ReadPublisherDone, ReadSubscriberDone, WritePublisherFinish, WriteSubscriberFinish,
     WaitPublisher, WaitSubscriber, OrchWrite, OrchRead, OrchWait, endVars, Stays, loopVars, sendVars, tableVars
<1> QED BY <1>1, <1>2

\* What a step of the session is to an endpoint.
LEMMA StepOf ==
  ASSUME TypeInv, StartInv, NEW e \in Endpoint, Next
  PROVE  Stays(e) \/ Starts(e) \/ pc'[e] = "failed" \/ Acts(e)
<1> USE DEF TypeInv, TypeOver, ProcessType, TableType
<1>1. CASE \E d \in Endpoint : \E at : FailAt(d, at)
  BY <1>1, FailStays
<1>2. CASE \E d \in Endpoint : EndpointStep(d)
  BY <1>2, EndpointStays DEF Acts
<1>3. CASE Orchestrator
  BY <1>3, OrchestratorStays
<1>4. CASE (Publish \/ WaitTokens) /\ ~FailAt(Publisher, "publish")
  <2>1. CASE e = Publisher
    BY <1>4, <2>1 DEF Acts
  <2>2. CASE e = Subscriber
    BY <1>4, <2>2 DEF Publish, WaitTokens, Goto, StepFrame, MessageFrame, Stays, loopVars
  <2> QED BY <2>1, <2>2
<1>5. CASE (Subscribe \/ WaitSuback \/ WriteReady \/ WaitMessages \/ HandleMessage)
             /\ ~\E at : FailAt(Subscriber, at)
  <2>1. CASE e = Subscriber
    BY <1>5, <2>1 DEF Acts
  <2>2. CASE e = Publisher
    BY <1>5, <2>2 DEF Subscribe, WaitSuback, WriteReady, WaitMessages, HandleMessage, Goto, Stays,
       loopVars, sendVars, tableVars
  <2> QED BY <2>1, <2>2
<1>6. CASE GrantSubscription \/ Route \/ Drop \/ Interrupt \/ \E d \in Endpoint : ConnectionLost(d)
  BY <1>6 DEF GrantSubscription, Route, Drop, Interrupt, ConnectionLost, endVars, Stays, loopVars, sendVars, tableVars
<1>7. CASE HandleUnreadable
  <2>1. handler' = [handler EXCEPT !.channel = <<"error">>] /\ handler \in HandlerType
    BY <1>7 DEF HandleUnreadable, NetType
  <2> QED BY <1>7, <2>1 DEF HandleUnreadable, HandlerType, Stays, loopVars, sendVars, tableVars
<1> QED
  BY <1>1, <1>2, <1>3, <1>4, <1>5, <1>6, <1>7
  DEF Next, PublisherStep, SubscriberStep, HandlerStep, IndexPanic, BrokerStep, FaultStep, Crash

----------------------------------------------------------------------------
(* The run and its cycles *)

LEMMA SendStep ==
  ASSUME TypeInv, StartInv, SendInv, Next
  PROVE  SendInv'
<1> USE DEF SendInv, Goto, IsWarmup
<1>1. pc \in [Endpoint -> Steps] /\ cpu \in [Endpoint -> {"none", "created", "enabled"}]
  BY DEF TypeInv, TypeOver, ProcessType
<1>2. CASE Stays(Publisher) \/ Starts(Publisher) \/ pc'[Publisher] = "failed"
  BY <1>2 DEF Stays, Starts
<1>3. CASE EndpointStep(Publisher) /\ pc'[Publisher] # "failed"
  <2>1. CASE Connect(Publisher) \/ ReadFinish(Publisher) \/ Disconnect(Publisher) \/ WriteResults(Publisher)
    BY <1>1, <1>3, <2>1 DEF Connect, ReadFinish, Read, Disconnect, WriteResults, Exit, Fail, FailAt
  <2>2. CASE ReadGo(Publisher)
    BY <1>1, <1>3, <2>2 DEF ReadGo, Read, FirstStep, Exit, Fail, loopVars
  <2>3. CASE NewCPU(Publisher) \/ Enable(Publisher)
    BY <1>1, <1>3, <2>3 DEF NewCPU, Enable, FailAt, Exit, Fail, StepFrame, loopVars, sendVars
  <2>4. CASE Stop(Publisher)
    BY <1>1, <1>3, <2>4 DEF Stop, FailAt, Exit, Fail, loopVars, sendVars
  <2>5. CASE WriteDone(Publisher)
    BY <1>1, <1>3, <2>5 DEF WriteDone, NextRound, FailAt, Exit, Fail
  <2> QED BY <1>3, <2>1, <2>2, <2>3, <2>4, <2>5 DEF EndpointStep
<1>4. CASE (Publish \/ WaitTokens) /\ pc'[Publisher] # "failed"
  BY <1>1, <1>4 DEF Publish, WaitTokens, FailAt, Exit, Fail, MessageFrame, StepFrame, loopVars, sendVars
<1> QED BY <1>2, <1>3, <1>4, StepOf DEF Acts

LEMMA ClosureStep ==
  ASSUME TypeInv, StartInv, ClosureInv, Next
  PROVE  ClosureInv'
<1> USE DEF ClosureInv, Goto, IsWarmup, Slot
<1>1. pc \in [Endpoint -> Steps] /\ handler \in HandlerType
  BY DEF TypeInv, TypeOver, ProcessType, NetType
<1>2. CASE Stays(Subscriber) \/ Starts(Subscriber) \/ pc'[Subscriber] = "failed"
  BY <1>2 DEF Stays, Starts
<1>3. CASE EndpointStep(Subscriber) /\ pc'[Subscriber] # "failed"
  <2>1. CASE Connect(Subscriber) \/ ReadFinish(Subscriber) \/ Disconnect(Subscriber) \/ WriteResults(Subscriber)
    BY <1>1, <1>3, <2>1 DEF Connect, ReadFinish, Read, Disconnect, WriteResults, Exit, Fail, FailAt
  <2>2. CASE ReadGo(Subscriber)
    BY <1>1, <1>3, <2>2 DEF ReadGo, Read, FirstStep, Exit, Fail, loopVars
  <2>3. CASE NewCPU(Subscriber) \/ Enable(Subscriber)
    BY <1>1, <1>3, <2>3 DEF NewCPU, Enable, FailAt, Exit, Fail, StepFrame, loopVars, sendVars
  <2>4. CASE Stop(Subscriber)
    BY <1>1, <1>3, <2>4 DEF Stop, FailAt, Exit, Fail, loopVars, sendVars
  <2>5. CASE WriteDone(Subscriber)
    BY <1>1, <1>3, <2>5 DEF WriteDone, NextRound, FailAt, Exit, Fail
  <2> QED BY <1>3, <2>1, <2>2, <2>3, <2>4, <2>5 DEF EndpointStep
<1>4. CASE (Subscribe \/ WaitSuback \/ WriteReady) /\ pc'[Subscriber] # "failed"
  BY <1>1, <1>4 DEF Subscribe, NewHandler, WaitSuback, WriteReady, FailAt, Exit, Fail, loopVars
<1>5. CASE (WaitMessages \/ HandleMessage) /\ pc'[Subscriber] # "failed"
  <2>1. /\ \/ pc'[Subscriber] = pc[Subscriber]
           \/ pc[Subscriber] = "wait" /\ pc'[Subscriber] \in {"stop", "done"}
        /\ payloadIndex' = payloadIndex /\ run' = run
        /\ handler'.slot = handler.slot /\ handler'.warmup = handler.warmup
    <3>1. handler'.slot = handler.slot /\ handler'.warmup = handler.warmup
      BY <1>1, <1>5 DEF WaitMessages, HandleMessage, HandlerType, FailAt, Fail, ExitFrame
    <3>2. CASE HandleMessage
      <4>1. UNCHANGED <<pc, loopVars>>
        BY <3>2 DEF HandleMessage
      <4> QED BY <3>1, <4>1 DEF loopVars
    <3>3. CASE WaitMessages
      BY <1>1, <1>5, <3>1, <3>3 DEF WaitMessages, FailAt, Fail, Exit, loopVars
    <3> QED BY <1>5, <3>2, <3>3
  <2> QED BY <1>1, <2>1
<1> QED BY <1>2, <1>3, <1>4, <1>5, StepOf DEF Acts

LEMMA CyclesStep ==
  ASSUME TypeInv, StartInv, NEW e \in Endpoint, CyclesInv(e), Next
  PROVE  CyclesInv(e)'
<1>1. pc \in [Endpoint -> Steps] /\ DOMAIN cycles = Endpoint /\ csv \in [Endpoint -> BOOLEAN]
  BY DEF TypeInv, TypeOver, ProcessType, TableType
<1>2. CASE pc'[e] = "failed"
  BY <1>2 DEF CyclesInv
<1>3. CASE Stays(e)
  BY <1>3, CyclesFrame DEF Stays
\* Every other step but the end of a run leaves the runs that are over.
<1>4. ASSUME pc[e] # "failed", UNCHANGED <<payloadIndex, run>>, cycles[e] \subseteq cycles'[e],
             pc'[e] = "succeeded" => csv'[e],
             pc'[e] = "done" /\ ~IsWarmup(e) => Filled(e) \in cycles'[e]
      PROVE  CyclesInv(e)'
  BY <1>4 DEF CyclesInv, Filled, IsWarmup
<1>5. CASE Starts(e)
  BY <1>4, <1>5 DEF Starts
<1>6. CASE EndpointStep(e) /\ pc'[e] # "failed"
  <2> USE DEF Goto
  <2>1. CASE Connect(e) \/ ReadGo(e) \/ ReadFinish(e) \/ Disconnect(e) \/ NewCPU(e) \/ Enable(e)
    <3>1. /\ pc[e] # "failed" /\ UNCHANGED <<payloadIndex, run, cycles>>
          /\ pc'[e] \in {"readGo", "newCPU", "publish", "subscribe", "disconnect", "writeResults", "enable", "ready"}
      BY <1>1, <1>6, <2>1 DEF Connect, ReadGo, ReadFinish, Read, FirstStep, Disconnect, NewCPU, Enable, FailAt, Exit,
         Fail, StepFrame, loopVars, tableVars
    <3> QED BY <1>4, <3>1
  <2>2. CASE WriteResults(e)
    <3>1. /\ pc[e] # "failed" /\ UNCHANGED <<payloadIndex, run, cycles>> /\ csv'[e] /\ pc'[e] # "done"
      BY <1>1, <1>6, <2>2 DEF WriteResults, FailAt, Exit, Fail, loopVars
    <3> QED BY <1>4, <3>1
  <2>3. CASE Stop(e)
    <3>1. /\ pc[e] # "failed" /\ UNCHANGED <<payloadIndex, run>> /\ pc'[e] = "done"
          /\ cycles'[e] = cycles[e] \union {Slot(e)}
      BY <1>1, <1>6, <2>3 DEF Stop, FailAt, Exit, Fail, loopVars
    <3>2. ~IsWarmup(e) => Filled(e) = Slot(e)
      BY FilledNat
    <3> QED BY <1>4, <3>1, <3>2
  <2>4. CASE WriteDone(e)
    <3>1. /\ pc[e] = "done" /\ NextRound(e) /\ UNCHANGED <<cycles, csv>> /\ pc'[e] \in {"readGo", "readFinish"}
      BY <1>1, <1>6, <2>4 DEF WriteDone, NextRound, FailAt, Exit, Fail, tableVars
    <3>2. Filled(e)' = IF IsWarmup(e) THEN Filled(e) ELSE Filled(e) + 1
      BY <3>1, FilledNext
    <3>3. \A k \in SlotsOf(e) : k \in Nat
      BY SlotsNat
    <3>4. \A k \in SlotsOf(e) : k < Filled(e)' => k < Filled(e) \/ (k = Filled(e) /\ ~IsWarmup(e))
      BY <3>2, <3>3, FilledNat
    <3> QED BY <3>1, <3>4 DEF CyclesInv
  <2> QED BY <1>6, <2>1, <2>2, <2>3, <2>4 DEF EndpointStep
<1>7. CASE (Publish \/ WaitTokens \/ Subscribe \/ WaitSuback \/ WriteReady \/ WaitMessages \/ HandleMessage) /\ pc'[e] # "failed"
             /\ Acts(e) /\ ~EndpointStep(e)
  <2>1. CASE pc'[e] = pc[e] /\ UNCHANGED <<payloadIndex, run, cycles, csv>>
    BY <2>1, CyclesFrame
  <2>2. CASE ~(pc'[e] = pc[e])
    <3>1. /\ pc[e] # "failed" /\ UNCHANGED <<payloadIndex, run, cycles>>
          /\ pc'[e] # "succeeded" /\ (pc'[e] = "done" => IsWarmup(e))
      BY <1>1, <1>7, <2>2 DEF Acts, Publish, WaitTokens, Subscribe, WaitSuback, WriteReady, WaitMessages, HandleMessage,
         Goto, FailAt, Exit, Fail, MessageFrame, StepFrame, loopVars, tableVars
    <3> QED BY <1>4, <3>1
  <2>3. pc'[e] = pc[e] => UNCHANGED <<payloadIndex, run, cycles, csv>>
    BY <1>1, <1>7 DEF Acts, Publish, WaitTokens, Subscribe, WaitSuback, WriteReady, WaitMessages, HandleMessage,
       Goto, FailAt, Exit, Fail, MessageFrame, StepFrame, loopVars, tableVars
  <2> QED BY <2>1, <2>2, <2>3
<1> QED BY <1>2, <1>3, <1>5, <1>6, <1>7, StepOf DEF Acts

----------------------------------------------------------------------------
(* The messages that are missing *)

\* No message is sent, counted or routed; some at the ends of the queues may be lost.
OnlyLoses ==
  /\ handler'.index = handler.index
  /\ uplink' = uplink \/ LosesSuffix(uplink, uplink')
  /\ downlink' = downlink \/ LosesSuffix(downlink, downlink')
  /\ \/ sent' = sent /\ pc'[Publisher] = pc[Publisher]
     \/ sent' = sent /\ pc'[Publisher] # "publish"
     \/ pc[Publisher] # "publish" /\ pc'[Publisher] # "publish"

\* The publisher begins to send.
BeginsToSend ==
  /\ pc[Publisher] \in {"readGo", "enable"} /\ pc'[Publisher] = "publish"
  /\ pc[Publisher] = "readGo" => ReadGo(Publisher) /\ ~Fail(Publisher)
  /\ pc[Publisher] = "enable" => sent' = sent
  /\ UNCHANGED <<uplink, downlink, handler>> /\ pc'[Subscriber] = pc[Subscriber]

LEMMA AllLost ==
  ASSUME NEW S, NEW q \in Seq(S)
  PROVE  LosesSuffix(q, <<>>)
<1>1. Len(q) \in Nat /\ SubSeq(q, 1, 0) = <<>>
  BY LenProperties
<1> QED BY <1>1 DEF LosesSuffix

LEMMA FailLoses ==
  ASSUME TypeInv, NEW e \in Endpoint, NEW status \in {"succeeded", "failed"}, Exit(e, status), UNCHANGED handler,
         sent' = sent \/ pc[Publisher] # "publish"
  PROVE  OnlyLoses
<1>1. pc \in [Endpoint -> Steps] /\ uplink \in Seq(AnyID) /\ downlink \in Seq(AnyID)
  BY DEF TypeInv, TypeOver, ProcessType, NetType
<1>2. LosesSuffix(downlink, <<>>)
  BY <1>1, AllLost
<1>3. pc' = [pc EXCEPT ![e] = status]
  BY DEF Exit, Goto
<1>4. /\ uplink' = uplink \/ LosesSuffix(uplink, uplink')
      /\ downlink' = downlink \/ LosesSuffix(downlink, downlink')
  BY <1>2 DEF Exit
<1> QED BY <1>1, <1>3, <1>4 DEF OnlyLoses

LEMMA FailAtLoses ==
  ASSUME TypeInv, NEW e \in Endpoint, NEW at, FailAt(e, at)
  PROVE  OnlyLoses
<1>1. Exit(e, "failed") /\ UNCHANGED <<handler, sent>>
  BY DEF FailAt, Fail, ExitFrame, sendVars
<1> QED BY <1>1, FailLoses

LEMMA MoveLoses ==
  ASSUME TypeInv, NEW e \in Endpoint, NEW step, Goto(e, step), UNCHANGED <<uplink, downlink, sent>>,
         handler'.index = handler.index, e = Publisher => step # "publish"
  PROVE  OnlyLoses
<1>1. pc \in [Endpoint -> Steps]
  BY DEF TypeInv, TypeOver, ProcessType
<1> QED BY <1>1 DEF OnlyLoses, Goto

LEMMA QuietLoses ==
  ASSUME UNCHANGED <<pc, uplink, downlink, sent, handler>>
  PROVE  OnlyLoses
BY DEF OnlyLoses

LEMMA EndpointLoses ==
  ASSUME TypeInv, NEW e \in Endpoint, EndpointStep(e)
  PROVE  OnlyLoses \/ BeginsToSend
<1> USE DEF netVars, sendVars
<1>1. CASE \E at : FailAt(e, at)
  BY <1>1, FailAtLoses
<1>2. CASE Connect(e) /\ ~FailAt(e, "connect")
  BY <1>2, MoveLoses DEF Connect
<1>3. CASE ReadGo(e)
  <2>1. /\ pc[e] = "readGo" /\ UNCHANGED handler
        /\ Fail(e) \/ (~Fail(e) /\ Goto(e, FirstStep(e)) /\ UNCHANGED <<uplink, downlink>>)
        /\ e = Subscriber => sent' = sent
    BY <1>3 DEF ReadGo, Read
  <2>2. pc \in [Endpoint -> Steps]
    BY DEF TypeInv, TypeOver, ProcessType
  <2>3. CASE Fail(e)
    BY <2>1, <2>3, FailLoses DEF Fail
  <2>4. CASE ~Fail(e) /\ e = Subscriber
    BY <2>1, <2>4, MoveLoses
  <2>5. CASE ~Fail(e) /\ e = Publisher
    <3>1. CASE FirstStep(e) = "publish"
      BY <1>3, <2>1, <2>2, <2>5, <3>1 DEF BeginsToSend, Goto
    <3>2. CASE FirstStep(e) # "publish"
      BY <2>1, <2>2, <2>5, <3>2 DEF OnlyLoses, Goto
    <3> QED BY <3>1, <3>2
  <2> QED BY <2>3, <2>4, <2>5
<1>4. CASE ReadFinish(e)
  <2>1. /\ UNCHANGED <<handler, sent>>
        /\ Fail(e) \/ (Goto(e, "disconnect") /\ UNCHANGED <<uplink, downlink>>)
    BY <1>4 DEF ReadFinish, Read
  <2> QED BY <2>1, FailLoses, MoveLoses DEF Fail
<1>5. CASE NewCPU(e) /\ ~FailAt(e, "newCPU")
  BY <1>5, MoveLoses DEF NewCPU, StepFrame
<1>6. CASE Enable(e) /\ ~FailAt(e, "enable")
  <2>1. /\ pc[e] = "enable" /\ Goto(e, IF e = Publisher THEN "publish" ELSE "ready")
        /\ UNCHANGED <<uplink, downlink, sent, handler>>
    BY <1>6 DEF Enable, StepFrame
  <2>2. CASE e = Subscriber
    BY <2>1, <2>2, MoveLoses
  <2>3. CASE e = Publisher
    BY <2>1, <2>3, Shapes DEF BeginsToSend, Goto
  <2> QED BY <2>2, <2>3
<1>7. CASE Stop(e) /\ ~FailAt(e, "stop")
  BY <1>7, MoveLoses DEF Stop
<1>8. CASE WriteDone(e) /\ ~FailAt(e, "done")
  <2>1. UNCHANGED <<uplink, downlink, sent, handler>> /\ (Goto(e, "readGo") \/ Goto(e, "readFinish"))
    BY <1>8 DEF WriteDone, NextRound
  <2> QED BY <2>1, MoveLoses
<1>9. CASE Disconnect(e)
  <2>1. /\ Goto(e, "writeResults") /\ UNCHANGED <<uplink, sent, handler>>
        /\ downlink' = downlink \/ LosesSuffix(downlink, downlink')
    BY <1>9 DEF Disconnect
  <2> QED BY <2>1, Shapes DEF OnlyLoses, Goto
<1>10. CASE WriteResults(e) /\ ~FailAt(e, "writeResults")
  <2>1. Exit(e, "succeeded") /\ UNCHANGED <<handler, sent>>
    BY <1>10 DEF WriteResults
  <2> QED BY <2>1, FailLoses
<1> QED
  BY <1>1, <1>2, <1>3, <1>4, <1>5, <1>6, <1>7, <1>8, <1>9, <1>10 DEF EndpointStep

\* What a step of the session does to the messages.
LEMMA MessagesOf ==
  ASSUME TypeInv, Next
  PROVE  \/ OnlyLoses \/ BeginsToSend
         \/ Publish /\ ~FailAt(Publisher, "publish")
         \/ Subscribe /\ ~FailAt(Subscriber, "subscribe")
         \/ HandleMessage \/ HandleUnreadable \/ Route \/ Drop
<1>1. CASE \E d \in Endpoint : \E at : FailAt(d, at)
  BY <1>1, FailAtLoses
<1>2. CASE \E d \in Endpoint : EndpointStep(d)
  BY <1>2, EndpointLoses
<1>3. CASE StartSubscriber \/ StartPublisher
  <2>1. UNCHANGED <<uplink, downlink, sent, handler>> /\ (pc' = pc \/ \E e \in Endpoint : Goto(e, "connect"))
    BY <1>3 DEF StartSubscriber, StartPublisher, Start, Goto, netVars, sendVars
  <2> QED BY <2>1, MoveLoses, QuietLoses
<1>4. CASE Orchestrator /\ ~(StartSubscriber \/ StartPublisher)
  <2>1. UNCHANGED <<pc, uplink, downlink, sent, handler>>
    BY <1>4 DEF Orchestrator, WriteSubscriberGo, ReadReady,
     WritePublisherGo, ReadPublisherDone, ReadSubscriberDone, WritePublisherFinish, WriteSubscriberFinish,
     WaitPublisher, WaitSubscriber, OrchWrite, OrchRead, OrchWait, endVars, netVars, sendVars
  <2> QED BY <2>1, QuietLoses
<1>5. CASE WaitTokens /\ ~FailAt(Publisher, "publish")
  BY <1>5, MoveLoses DEF WaitTokens, StepFrame, netVars, sendVars
<1>6. CASE (WaitSuback \/ WriteReady) /\ ~\E at : FailAt(Subscriber, at)
  BY <1>6, MoveLoses DEF WaitSuback, WriteReady, netVars, sendVars
<1>7. CASE WaitMessages /\ ~FailAt(Subscriber, "wait")
  <2>1. handler'.index = handler.index
    BY <1>7 DEF WaitMessages, TypeInv, TypeOver, NetType, HandlerType
  <2> QED BY <1>7, <2>1, MoveLoses DEF WaitMessages, netVars, sendVars
<1>8. CASE GrantSubscription \/ Interrupt
  BY <1>8, QuietLoses DEF GrantSubscription, Interrupt, endVars, netVars, sendVars
<1>9. CASE \E d \in Endpoint : ConnectionLost(d)
  <2>1. /\ UNCHANGED <<pc, sent, handler>>
        /\ uplink' = uplink \/ LosesSuffix(uplink, uplink')
        /\ downlink' = downlink \/ LosesSuffix(downlink, downlink')
    BY <1>9 DEF ConnectionLost, endVars, sendVars
  <2> QED BY <2>1 DEF OnlyLoses
<1> QED
  BY <1>1, <1>2, <1>3, <1>4, <1>5, <1>6, <1>7, <1>8, <1>9
  DEF Next, PublisherStep, SubscriberStep, HandlerStep, IndexPanic, BrokerStep, FaultStep, Crash

\* A message is sent, or finds the connection lost.
LEMMA OrderPublished ==
  ASSUME TypeInv, TypeInv', Publish, ~FailAt(Publisher, "publish")
  PROVE  /\ Missing' >= Missing
         /\ OrderInv /\ Counted <= sent => OrderInv'
<1>1. /\ pc[Publisher] = "publish" /\ sent' = sent + 1 /\ UNCHANGED <<pc, downlink, handler>>
      /\ uplink' = uplink \/ uplink' = Append(uplink, MessageID(Publisher, sent))
  BY DEF Publish, MessageFrame
<1> DEFINE h == handler.index
           d == Len(downlink)
           u == Len(uplink)
           u2 == Len(uplink')
           m == Missing
           m2 == Missing'
           s == sent
<1>2. m \in Int /\ m2 \in Int /\ s \in Nat
  BY CountsInt, MissingNext
<1>3. h \in Nat /\ u \in Nat /\ d \in Nat
  BY QueueTypes
<1>4. m = s - (h + u + d) /\ m2 = (s + 1) - (h + u2 + d) /\ Counted = h + u + d
  BY <1>1 DEF Missing, Counted
<1>5. CASE uplink' = uplink
  <2>1. u2 = u
    BY <1>5
  <2> HIDE DEF h, u, d, u2, m, m2, s
  <2>2. m2 >= m
    BY <1>2, <1>3, <1>4, <2>1
  <2> QED BY <1>1, <1>5, <2>2, OrderFrame DEF m, m2
<1>6. CASE uplink' = Append(uplink, MessageID(Publisher, sent))
  <2>1. MessageID(Publisher, sent)[3] = sent
    BY DEF MessageID
  <2>2. uplink' \in Seq(AnyID) /\ u2 \in Nat
    <3>1. uplink' \in Seq(AnyID)
      BY DEF TypeInv, TypeOver, NetType
    <3> QED BY <3>1, LenProperties
  <2>3. /\ u2 = u + 1 /\ uplink'[u + 1] = MessageID(Publisher, sent)
        /\ \A i \in 1 .. u : uplink'[i] = uplink[i]
    <3>1. PICK any \in AnyID \union {MessageID(Publisher, sent)} : any = MessageID(Publisher, sent)
      OBVIOUS
    <3> DEFINE S == AnyID \union {MessageID(Publisher, sent)}
    <3>2. uplink \in Seq(S) /\ any \in S
      BY <3>1, QueueTypes
    <3> HIDE DEF S
    <3> QED BY <1>6, <3>1, <3>2, AppendProperties
  <2>4. m2 = m
    <3> HIDE DEF h, u, d, u2, m, m2, s
    <3> QED BY <1>2, <1>3, <1>4, <2>3
  <2>5. ASSUME OrderInv, Counted <= sent
        PROVE  OrderInv'
    <3>1. ASSUME NEW i \in 1 .. Len(downlink')
          PROVE  Near(handler.index + i - 1, downlink[i])'
      <4>1. Near(handler.index + i - 1, downlink[i]) /\ downlink'[i] = downlink[i] /\ handler' = handler
        BY <1>1, <2>5, <3>1 DEF OrderInv
      <4> QED BY <2>4, <4>1 DEF Near
    <3>2. ASSUME NEW i \in 1 .. Len(uplink')
          PROVE  Near(handler.index + Len(downlink) + i - 1, uplink[i])'
      <4>1. CASE i \in 1 .. Len(uplink)
        <5>1. Near(handler.index + Len(downlink) + i - 1, uplink[i]) /\ uplink'[i] = uplink[i]
              /\ handler' = handler /\ downlink' = downlink
          BY <1>1, <2>3, <2>5, <4>1 DEF OrderInv
        <5> QED BY <2>4, <5>1 DEF Near
      <4>2. CASE i = Len(uplink) + 1
        <5>1. uplink'[i][3] = s /\ i = u + 1 /\ h + u + d <= s
          BY <1>4, <2>1, <2>3, <2>5, <4>2
        <5>2. h + d + i - 1 <= s /\ s <= h + d + i - 1 + m2
          <6> HIDE DEF h, u, d, u2, m, m2, s
          <6> QED BY <1>2, <1>3, <1>4, <2>3, <5>1
        <5>3. handler' = handler /\ downlink' = downlink
          BY <1>1
        <5> QED BY <5>1, <5>2, <5>3 DEF Near
      <4>3. i \in 1 .. Len(uplink) \/ i = Len(uplink) + 1
        <5>1. i \in 1 .. u2
          BY <3>2
        <5>2. i \in 1 .. u \/ i = u + 1
          <6> HIDE DEF u, u2
          <6> QED BY <1>3, <2>3, <5>1
        <5> QED BY <5>2
      <4> QED BY <4>1, <4>2, <4>3
    <3> QED BY <3>1, <3>2 DEF OrderInv
  <2> QED BY <1>2, <2>4, <2>5 DEF m, m2
<1> QED BY <1>1, <1>5, <1>6

LEMMA SubscribedMisses ==
  ASSUME TypeInv, TypeInv', Subscribe, ~FailAt(Subscriber, "subscribe")
  PROVE  Missing' >= Missing /\ UNCHANGED <<uplink, downlink>> /\ pc[Subscriber] = "subscribe"
<1>1. /\ handler' = NewHandler /\ UNCHANGED <<sent, uplink, downlink>> /\ pc[Subscriber] = "subscribe"
      /\ pc' = [pc EXCEPT ![Subscriber] = "suback"]
  BY DEF Subscribe, Goto, sendVars
<1>2. handler'.index = 0 /\ pc'[Publisher] = pc[Publisher]
  BY <1>1, Shapes DEF NewHandler
<1> DEFINE h == handler.index
           d == Len(downlink)
           u == Len(uplink)
           m == Missing
           m2 == Missing'
           base == IF pc[Publisher] = "publish" THEN sent ELSE MessageCount[Publisher]
<1>3. m \in Int /\ m2 \in Int /\ base \in Int /\ h \in Nat /\ u \in Nat /\ d \in Nat
  BY CountsInt, MissingNext, QueueTypes
<1>4. m = base - (h + u + d) /\ m2 = base - (0 + u + d)
  BY <1>1, <1>2 DEF Missing, Counted
<1> HIDE DEF h, u, d, m, m2, base
<1>5. m2 >= m
  BY <1>3, <1>4
<1> QED BY <1>1, <1>5 DEF m, m2

LEMMA HandlerMoves ==
  ASSUME TypeInv, HandleMessage \/ HandleUnreadable
  PROVE  /\ downlink # <<>> /\ downlink' = Tail(downlink) /\ UNCHANGED <<uplink, sent, pc>>
         /\ handler'.index = handler.index + 1 \/ handler'.index = handler.index
<1>1. downlink # <<>> /\ downlink' = Tail(downlink) /\ UNCHANGED <<uplink, sent, pc>>
  BY DEF HandleMessage, HandleUnreadable, sendVars
<1>2. handler'.index = handler.index + 1 \/ handler'.index = handler.index
  BY DEF HandleMessage, HandleUnreadable, TypeInv, TypeOver, NetType, HandlerType
<1> QED BY <1>1, <1>2

\* More is missing than before, unless a round begins.
LEMMA MissingStep ==
  ASSUME TypeInv, TypeInv', Next
  PROVE  BeginsToSend \/ Missing' >= Missing
<1>1. CASE OnlyLoses
  BY <1>1, OrderLost DEF OnlyLoses
<1>2. CASE HandleMessage \/ HandleUnreadable
  BY <1>2, HandlerMoves, OrderHandled
<1>3. CASE Route \/ Drop
  BY <1>3, OrderRouted
<1> QED BY <1>1, <1>2, <1>3, MessagesOf, OrderPublished, SubscribedMisses

\* Nothing is in transit outside an open round.
LEMMA OpenOrQuiet ==
  ASSUME TransitInv, ~Quiet
  PROVE  Open /\ pc[Subscriber] \in {"wait", "stop", "done"}
BY DEF TransitInv, Open

\* The publisher begins to send into a fresh round.
LEMMA FreshRound ==
  ASSUME TypeInv, Parts, BeginsToSend
  PROVE  Fresh
<1>1. PublisherBefore
  <2>1. CASE pc[Publisher] = "enable"
    BY <2>1 DEF PublisherBefore
  <2>2. CASE pc[Publisher] = "readGo"
    <3>1. stdin[Publisher] # <<>> /\ Head(stdin[Publisher]) = "GO"
      BY <2>2 DEF BeginsToSend, ReadGo, Read
    <3>2. stdin[Publisher] \in {<<>>, <<"GO">>, <<"FINISH">>}
      BY DEF Parts, PublisherInv
    <3>3. stdin[Publisher] = <<"GO">>
      BY <3>1, <3>2
    <3> QED BY <2>2, <3>3 DEF PublisherBefore, Told, Between
  <2> QED BY <2>1, <2>2 DEF BeginsToSend
<1> QED BY <1>1 DEF Parts, PublisherInv

LEMMA OrderStep ==
  ASSUME TypeInv, TypeInv', Parts, OrderInv, Next
  PROVE  OrderInv'
<1>1. CASE OnlyLoses
  BY <1>1, OrderLost DEF OnlyLoses
<1>2. CASE HandleMessage \/ HandleUnreadable
  BY <1>2, HandlerMoves, OrderHandled
<1>3. CASE Route \/ Drop
  BY <1>3, OrderRouted
<1>4. CASE Publish /\ ~FailAt(Publisher, "publish")
  <2>1. pc[Publisher] = "publish"
    BY <1>4 DEF Publish
  <2>2. Counted <= sent
    BY <2>1 DEF Parts, CountInv
  <2> QED BY <1>4, <2>2, OrderPublished
<1>5. CASE Subscribe /\ ~FailAt(Subscriber, "subscribe")
  <2>1. UNCHANGED <<uplink, downlink>> /\ Quiet
    BY <1>5, SubscribedMisses, OpenOrQuiet DEF Parts
  <2> QED BY <2>1, OrderQuiet DEF Quiet
<1>6. CASE BeginsToSend
  <2>1. Fresh
    BY <1>6, FreshRound
  <2>2. Quiet /\ UNCHANGED <<uplink, downlink>>
    BY <1>6, <2>1 DEF Fresh, BeginsToSend
  <2> QED BY <2>2, OrderQuiet DEF Quiet
<1> QED BY <1>1, <1>2, <1>3, <1>4, <1>5, <1>6, MessagesOf

----------------------------------------------------------------------------
(* The tables, step by step *)

\* Nothing is recorded before or after a step outside the work of a round.
LEMMA TablesIdle ==
  ASSUME TypeInv, TypeInv', NEW e \in Endpoint, TablesInv(e), pc[e] # "failed",
         results'[e] = results[e], payloadIndex'[e] = payloadIndex[e], run'[e] = run[e],
         ~Filling(e), ~Filling(e)' \/ Recorded(e)' = 0
  PROVE  TablesInv(e)'
BY TablesFrame

LEMMA TablesGoOn ==
  ASSUME TypeInv, TypeInv', NEW e \in Endpoint, TablesInv(e), pc[e] # "failed",
         results'[e] = results[e], payloadIndex'[e] = payloadIndex[e], run'[e] = run[e],
         Working(e), Working(e)', Recorded(e)' = Recorded(e), Filling(e) => Slack(e)' >= Slack(e)
  PROVE  TablesInv(e)'
<1>1. Filling(e)' = Filling(e)
  BY DEF Filling, IsWarmup
<1>2. CASE Filling(e)
  BY <1>1, <1>2, TablesFrame
<1>3. CASE ~Filling(e)
  BY <1>1, <1>3, TablesIdle
<1> QED BY <1>2, <1>3

LEMMA EndpointTables ==
  ASSUME TypeInv, TypeInv', RunInv, NEW e \in Endpoint, TablesInv(e), EndpointStep(e), pc'[e] # "failed",
         pc[e] = "stop" => Slack(e)' >= Slack(e),
         pc[e] = "done" => Recorded(e) = MessageCount[e] /\ Slack(e) = 0
  PROVE  TablesInv(e)'
<1> USE DEF Goto
<1>1. pc \in [Endpoint -> Steps]
  BY DEF TypeInv, TypeOver, ProcessType
<1>2. CASE Connect(e) \/ ReadGo(e) \/ ReadFinish(e) \/ Disconnect(e) \/ NewCPU(e) \/ WriteResults(e)
  <2>1. /\ pc[e] \in {"connect", "readGo", "readFinish", "disconnect", "newCPU", "writeResults"}
        /\ pc'[e] \in {"readGo", "newCPU", "subscribe", "disconnect", "writeResults", "enable", "succeeded"}
             \/ (pc'[e] = "publish" /\ IsWarmup(e))
    BY <1>1, <1>2 DEF Connect, ReadGo, ReadFinish, Read, FirstStep, Disconnect, NewCPU, WriteResults, FailAt, Exit, Fail
  <2>2. UNCHANGED <<payloadIndex, run, results>>
    BY <1>2 DEF Connect, ReadGo, ReadFinish, Read, Disconnect, NewCPU, WriteResults, FailAt, ExitFrame,
       StepFrame, loopVars, tableVars
  <2>3. ~Filling(e) /\ ~Filling(e)' /\ pc[e] # "failed"
    BY <2>1, <2>2 DEF Filling, Working, IsWarmup
  <2> QED BY <2>2, <2>3, TablesIdle
<1>3. CASE Enable(e)
  <2>1. /\ pc[e] = "enable" /\ pc'[e] = IF e = Publisher THEN "publish" ELSE "ready"
        /\ UNCHANGED <<payloadIndex, run, results, sent>>
    BY <1>1, <1>3 DEF Enable, FailAt, Exit, Fail, StepFrame, ExitFrame, loopVars, sendVars
  <2>2. e = Publisher => Recorded(e)' = 0
    BY <2>1 DEF RunInv, SendInv, ClosureInv, Recorded
  <2>3. ~Filling(e) /\ (~Filling(e)' \/ Recorded(e)' = 0) /\ pc[e] # "failed"
    BY <2>1, <2>2 DEF Filling, Working
  <2> QED BY <2>1, <2>3, TablesIdle
<1>4. CASE Stop(e)
  <2>1. /\ pc[e] = "stop" /\ pc'[e] = "done" /\ UNCHANGED <<payloadIndex, run, results, sent, handler>>
    BY <1>1, <1>4 DEF Stop, FailAt, Exit, Fail, ExitFrame, loopVars, sendVars
  <2>2. Working(e) /\ Working(e)' /\ Recorded(e)' = Recorded(e)
    BY <2>1 DEF Working, Recorded
  <2> QED BY <2>1, <2>2, TablesGoOn
<1>5. CASE WriteDone(e)
  <2>1. /\ pc[e] = "done" /\ NextRound(e) /\ results' = results /\ pc'[e] \in {"readGo", "readFinish"}
    BY <1>1, <1>5 DEF WriteDone, NextRound, FailAt, Exit, Fail, ExitFrame, tableVars
  <2>2. ~Filling(e)'
    BY <2>1 DEF Filling, Working
  <2> QED BY <2>1, <2>2, TablesOver
<1> QED BY <1>2, <1>3, <1>4, <1>5 DEF EndpointStep

\* A step of somebody else.
LEMMA StaysTables ==
  ASSUME TypeInv, TypeInv', NEW e \in Endpoint, TablesInv(e), Stays(e) \/ Starts(e),
         Filling(e) => Slack(e)' >= Slack(e) \/ Recorded(e) = 0
  PROVE  TablesInv(e)'
<1>1. CASE Stays(e)
  <2>1. /\ pc'[e] = pc[e] /\ results'[e] = results[e] /\ payloadIndex'[e] = payloadIndex[e] /\ run'[e] = run[e]
    BY <1>1 DEF Stays
  <2>2. Recorded(e)' = Recorded(e)
    BY <1>1 DEF Stays, Recorded
  <2>3. Filling(e)' = Filling(e)
    BY <2>1 DEF Filling, Working, IsWarmup
  <2>4. CASE pc[e] = "failed"
    BY <2>1, <2>4 DEF TablesInv
  <2>5. CASE pc[e] # "failed"
    BY <2>1, <2>2, <2>3, <2>5, TablesFrame
  <2> QED BY <2>4, <2>5
<1>2. CASE Starts(e)
  <2>1. ~Filling(e) /\ ~Filling(e)' /\ pc[e] # "failed" /\ UNCHANGED <<results, payloadIndex, run>>
    BY <1>2 DEF Starts, Filling, Working
  <2> QED BY <2>1, TablesIdle
<1> QED BY <1>1, <1>2

LEMMA PublisherTables ==
  ASSUME TypeInv, TypeInv', StartInv, RunInv, TablesInv(Publisher), Next
  PROVE  TablesInv(Publisher)'
<1>1. pc \in [Endpoint -> Steps]
  BY DEF TypeInv, TypeOver, ProcessType
<1>2. Slack(Publisher) = 0 /\ Slack(Publisher)' = 0
  BY DEF Slack
<1>3. CASE pc'[Publisher] = "failed"
  BY <1>3 DEF TablesInv
<1>4. CASE Stays(Publisher) \/ Starts(Publisher)
  BY <1>2, <1>4, StaysTables
<1>5. CASE EndpointStep(Publisher) /\ pc'[Publisher] # "failed"
  <2>1. pc[Publisher] = "done" => Recorded(Publisher) = MessageCount[Publisher]
    BY DEF RunInv, SendInv, ClosureInv, Recorded
  <2> QED BY <1>2, <1>5, <2>1, EndpointTables
<1>6. CASE WaitTokens /\ pc'[Publisher] # "failed"
  <2>1. /\ pc[Publisher] = "publish" /\ pc'[Publisher] \in {"stop", "done"}
        /\ UNCHANGED <<payloadIndex, run, results, sent>>
    BY <1>1, <1>6 DEF WaitTokens, Goto, FailAt, Exit, Fail, StepFrame, ExitFrame, loopVars, sendVars
  <2>2. Working(Publisher) /\ Working(Publisher)' /\ Recorded(Publisher)' = Recorded(Publisher)
    BY <2>1 DEF Working, Recorded
  <2> QED BY <1>2, <2>1, <2>2, TablesGoOn
<1>7. CASE Publish /\ pc'[Publisher] # "failed"
  <2>1. /\ pc[Publisher] = "publish" /\ UNCHANGED <<pc, payloadIndex, run>> /\ sent' = sent + 1
        /\ sent < MessageCount[Publisher]
        /\ results' = IF IsWarmup(Publisher) THEN results
                      ELSE [results EXCEPT ![Publisher][Slot(Publisher)][sent] = MessageID(Publisher, sent)]
    BY <1>1, <1>7 DEF Publish, Goto, FailAt, Exit, Fail, MessageFrame, loopVars
  <2>2. CASE IsWarmup(Publisher)
    <3>1. ~Filling(Publisher) /\ ~Filling(Publisher)' /\ results' = results
      BY <2>1, <2>2 DEF Filling, IsWarmup
    <3> QED BY <2>1, <3>1, TablesIdle
  <2>3. CASE ~IsWarmup(Publisher)
    <3>1. Filling(Publisher) /\ Recorded(Publisher) = sent /\ Recorded(Publisher)' = sent'
      BY <2>1, <2>3 DEF Filling, Working, Recorded
    <3>2. sent \in sent .. sent + Slack(Publisher)' /\ 0 >= 0 /\ sent \in Nat
      BY <1>2, CountsInt
    <3> QED BY <1>2, <2>1, <2>3, <3>1, <3>2, TablesWritten
  <2> QED BY <2>2, <2>3
<1> QED BY <1>3, <1>4, <1>5, <1>6, <1>7, StepOf DEF Acts

\* The message handled next is one of the round, no earlier than its place.
LEMMA HandledIsNear ==
  ASSUME TypeInv, TransitInv, OrderInv, downlink # <<>>
  PROVE  /\ Head(downlink) = MessageID(Subscriber, Head(downlink)[3])
         /\ Near(handler.index, Head(downlink)) /\ Head(downlink)[3] \in Int
<1>1. /\ downlink \in Seq(AnyID) /\ Head(downlink) = downlink[1] /\ 1 \in 1 .. Len(downlink)
      /\ handler.index \in Nat
  BY QueueTypes, TailShortens
<1>2. Head(downlink) \in AnyID
  BY <1>1
<1>3. Near(handler.index + 1 - 1, downlink[1])
  BY <1>1 DEF OrderInv
<1>4. handler.index + 1 - 1 = handler.index
  BY <1>1
<1>5. RoundOf(Head(downlink)) = Round(Subscriber)
  BY <1>1 DEF TransitInv
<1>6. Head(downlink) = <<Head(downlink)[1], Head(downlink)[2], Head(downlink)[3]>> /\ Head(downlink)[3] \in Int
  <2>1. \A id \in AnyID : id = <<id[1], id[2], id[3]>> /\ id[3] \in Int
    BY DEF AnyID
  <2> QED BY <1>2, <2>1
<1>7. Head(downlink)[1] = payloadIndex[Subscriber] /\ Head(downlink)[2] = run[Subscriber]
  BY <1>5 DEF RoundOf, Round
<1> QED BY <1>1, <1>3, <1>4, <1>6, <1>7 DEF MessageID

\* The handler finds a message only while the subscriber waits for it.
LEMMA HandledInWait ==
  ASSUME TypeInv, Parts, downlink # <<>>
  PROVE  pc[Subscriber] = "wait"
<1>1. Open /\ pc[Subscriber] \in {"wait", "stop", "done"}
  BY OpenOrQuiet DEF Parts, Quiet
<1>2. Counted <= MessageCount[Subscriber] /\ MessageCount[Subscriber] \in Nat
  BY <1>1, ConfigAssumption DEF Parts, CountInv
<1>3. handler.index \in Nat /\ Len(uplink) \in Nat /\ Len(downlink) \in Nat /\ Len(downlink) # 0
  BY Shapes
<1>4. handler.index # MessageCount[Subscriber]
  BY <1>2, <1>3 DEF Counted
<1> QED BY <1>1, <1>4 DEF Parts, CountInv

\* A subscriber that is done has counted all messages: none was lost.
LEMMA AllCounted ==
  ASSUME EndpointsAgree, TypeInv, Parts, pc[Subscriber] = "done"
  PROVE  handler.index = MessageCount[Subscriber] /\ Missing = 0
<1>1. Open
  BY Shapes DEF Parts, SubscriberInv, Open, Closed, Between
<1>2. Counted <= MessageCount[Subscriber] /\ handler.index = MessageCount[Subscriber]
  BY <1>1 DEF Parts, CountInv
<1>3. pc[Publisher] = "publish" => Counted <= sent /\ sent <= MessageCount[Publisher]
  BY DEF Parts, CountInv, TypeInv, TypeOver, ProcessType
<1>4. /\ handler.index \in Nat /\ Len(uplink) \in Nat /\ Len(downlink) \in Nat /\ sent \in Nat
      /\ MessageCount[Publisher] \in Nat
  BY Shapes, ConfigAssumption
<1>5. Counted = MessageCount[Publisher]
  BY <1>2, <1>4 DEF Counted, EndpointsAgree
<1> QED BY <1>2, <1>3, <1>4, <1>5 DEF Missing

LEMMA HandleTables ==
  ASSUME TypeInv, TypeInv', Parts, RunInv, OrderInv, TablesInv(Subscriber), HandleMessage, Missing' >= Missing
  PROVE  TablesInv(Subscriber)'
<1>1. /\ downlink # <<>> /\ UNCHANGED <<pc, payloadIndex, run>>
      /\ handler.warmup \/ handler.index < MessageCount[Subscriber]
  BY DEF HandleMessage, loopVars
<1>2. results' = IF handler.warmup THEN results
                 ELSE [results EXCEPT ![Subscriber][handler.slot][handler.index] = Head(downlink)]
  BY DEF HandleMessage
<1>3. handler'.index = handler.index + 1
  <2>1. handler \in HandlerType
    BY DEF TypeInv, TypeOver, NetType
  <2> QED BY <2>1 DEF HandleMessage, HandlerType
<1>4. pc[Subscriber] = "wait"
  BY <1>1, HandledInWait
<1>5. handler.slot = Slot(Subscriber) /\ handler.warmup = IsWarmup(Subscriber)
  BY <1>4 DEF RunInv, SendInv, ClosureInv
<1>6. CASE IsWarmup(Subscriber)
  <2>1. ~Filling(Subscriber) /\ ~Filling(Subscriber)' /\ results' = results
    BY <1>1, <1>2, <1>5, <1>6 DEF Filling, IsWarmup
  <2> QED BY <1>1, <1>4, <2>1, TablesIdle
<1>7. CASE ~IsWarmup(Subscriber)
  <2>1. Filling(Subscriber) /\ Recorded(Subscriber) = handler.index /\ Recorded(Subscriber)' = handler'.index
    BY <1>4, <1>7 DEF Filling, Working, Recorded
  <2>2. Recorded(Subscriber) < MessageCount[Subscriber]
    BY <1>1, <1>5, <1>7, <2>1
  <2>3. Slack(Subscriber) = Missing /\ Slack(Subscriber)' = Missing' /\ Missing \in Int /\ Missing' \in Int
    BY CountsInt, MissingNext DEF Slack
  <2> DEFINE n == Head(downlink)[3]
  <2>4. Head(downlink) = MessageID(Subscriber, n) /\ Near(handler.index, Head(downlink)) /\ n \in Int
    BY <1>1, HandledIsNear DEF Parts
  <2>5. handler.index <= n /\ n <= handler.index + Missing /\ handler.index \in Nat
    BY <2>4, CountsInt DEF Near
  <2> HIDE DEF n
  <2>6. n \in Recorded(Subscriber) .. Recorded(Subscriber) + Slack(Subscriber)'
    BY <2>1, <2>3, <2>4, <2>5
  <2>7. results' = [results EXCEPT ![Subscriber][Slot(Subscriber)][Recorded(Subscriber)]
                                     = MessageID(Subscriber, n)]
    BY <1>2, <1>5, <1>7, <2>1, <2>4
  <2>8. Recorded(Subscriber)' = Recorded(Subscriber) + 1 /\ Slack(Subscriber)' >= Slack(Subscriber)
    BY <1>3, <2>1, <2>3
  <2>9. UNCHANGED <<pc[Subscriber], payloadIndex[Subscriber], run[Subscriber]>>
    BY <1>1
  <2> QED BY <2>1, <2>2, <2>6, <2>7, <2>8, <2>9, TablesWritten
<1> QED BY <1>6, <1>7

LEMMA SubscriberTables ==
  ASSUME EndpointsAgree, TypeInv, TypeInv', StartInv, RunInv, Parts, OrderInv, TablesInv(Subscriber), Next
  PROVE  TablesInv(Subscriber)'
<1>1. pc \in [Endpoint -> Steps]
  BY DEF TypeInv, TypeOver, ProcessType
<1>2. Slack(Subscriber) = Missing /\ Slack(Subscriber)' = Missing' /\ Recorded(Subscriber) = handler.index
      /\ Recorded(Subscriber)' = handler'.index
  BY DEF Slack, Recorded
<1>3. BeginsToSend \/ Missing' >= Missing
  BY MissingStep
<1>4. BeginsToSend => pc'[Subscriber] = pc[Subscriber] /\ handler.index = 0 /\ handler'.index = handler.index
  <2> SUFFICES ASSUME BeginsToSend PROVE pc'[Subscriber] = pc[Subscriber] /\ handler.index = 0 /\ handler'.index = handler.index
    OBVIOUS
  <2> QED BY FreshRound DEF Fresh, BeginsToSend
<1>5. CASE pc'[Subscriber] = "failed"
  BY <1>5 DEF TablesInv
<1>6. CASE Stays(Subscriber) \/ Starts(Subscriber)
  <2>1. Slack(Subscriber)' >= Slack(Subscriber) \/ Recorded(Subscriber) = 0
    BY <1>2, <1>3, <1>4
  <2> QED BY <1>6, <2>1, StaysTables
<1>7. CASE EndpointStep(Subscriber) /\ pc'[Subscriber] # "failed"
  <2>1. pc[Subscriber] = "stop" => pc'[Subscriber] # pc[Subscriber]
    BY <1>1, <1>7 DEF EndpointStep, Connect, ReadGo, Read, NewCPU, Enable, Stop, WriteDone, ReadFinish,
       Disconnect, WriteResults, FailAt, Fail, Exit, Goto
  <2>2. pc[Subscriber] = "stop" => Slack(Subscriber)' >= Slack(Subscriber)
    BY <1>2, <1>3, <1>4, <2>1
  <2>3. pc[Subscriber] = "done" => Recorded(Subscriber) = MessageCount[Subscriber] /\ Slack(Subscriber) = 0
    BY AllCounted, <1>2
  <2> QED BY <1>7, <2>2, <2>3, EndpointTables
<1>8. CASE (Subscribe \/ WaitSuback \/ WriteReady) /\ pc'[Subscriber] # "failed"
  <2>1. /\ pc[Subscriber] \in {"subscribe", "suback", "ready"}
        /\ pc'[Subscriber] \in {"suback", "ready", "enable"} \/ (pc'[Subscriber] = "wait" /\ WriteReady /\ pc[Subscriber] = "ready")
        /\ UNCHANGED <<payloadIndex, run, results>>
    BY <1>1, <1>8 DEF Subscribe, WaitSuback, WriteReady, FailAt, Fail, Exit, Goto, loopVars, tableVars, ExitFrame
  <2>2. pc[Subscriber] = "ready" => handler.index = 0
    BY DEF Parts, CountInv, Fresh
  <2>3. WriteReady => UNCHANGED handler
    BY DEF WriteReady, FailAt, ExitFrame
  <2>4. ~Filling(Subscriber) /\ (~Filling(Subscriber)' \/ Recorded(Subscriber)' = 0)
    BY <1>2, <2>1, <2>2, <2>3 DEF Filling, Working
  <2> QED BY <2>1, <2>4, TablesIdle
<1>9. CASE WaitMessages /\ pc'[Subscriber] # "failed"
  <2>1. /\ pc[Subscriber] = "wait" /\ pc'[Subscriber] \in {"stop", "done"}
        /\ UNCHANGED <<payloadIndex, run, results>> /\ handler' = [handler EXCEPT !.channel = <<>>]
    BY <1>1, <1>9 DEF WaitMessages, FailAt, Fail, Exit, Goto, loopVars, tableVars
  <2>2. handler'.index = handler.index
    BY <2>1 DEF TypeInv, TypeOver, NetType, HandlerType
  <2>3. Working(Subscriber) /\ Working(Subscriber)' /\ Recorded(Subscriber)' = Recorded(Subscriber)
    BY <1>2, <2>1, <2>2 DEF Working
  <2>4. Slack(Subscriber)' >= Slack(Subscriber)
    BY <1>2, <1>3, <1>4, <2>1
  <2> QED BY <2>1, <2>3, <2>4, TablesGoOn
<1>10. CASE HandleMessage /\ pc'[Subscriber] # "failed"
  <2>1. ~BeginsToSend
    BY <1>10 DEF HandleMessage, BeginsToSend
  <2> QED BY <1>3, <1>10, <2>1, HandleTables
<1> QED BY <1>5, <1>6, <1>7, <1>8, <1>9, <1>10, StepOf DEF Acts

----------------------------------------------------------------------------
(* The inductive step *)

\* A subscriber that has exited records nothing.
LEMMA EndedTables ==
  ASSUME TypeInv, TypeInv', StartInv, TablesInv(Subscriber), Ended(Subscriber), Next
  PROVE  TablesInv(Subscriber)'
<1>1. pc \in [Endpoint -> Steps]
  BY DEF TypeInv, TypeOver, ProcessType
<1>2. ~Filling(Subscriber)
  BY DEF Ended, Filling, Working
<1>3. CASE pc'[Subscriber] = "failed"
  BY <1>3 DEF TablesInv
<1>4. CASE Stays(Subscriber) \/ Starts(Subscriber)
  BY <1>2, <1>4, StaysTables
<1>5. CASE Acts(Subscriber) /\ pc'[Subscriber] # "failed"
  BY <1>5 DEF Acts, Ended, EndpointStep, Connect, ReadGo, Read, NewCPU, Enable, Stop, WriteDone, ReadFinish,
     Disconnect, WriteResults, FailAt, Fail, Exit, Goto, Subscribe, WaitSuback, WriteReady, WaitMessages,
     HandleMessage, Alive
<1> QED BY <1>3, <1>4, <1>5, StepOf

LEMMA RecordStep ==
  ASSUME EndpointsAgree, TypeInv, TypeInv', StartInv, IInv, RecordInv, Next
  PROVE  RecordInv'
<1>3. RunInv'
  BY SendStep, ClosureStep DEF RecordInv, RunInv
<1>4. ASSUME NEW e \in Endpoint PROVE CyclesInv(e)'
  BY CyclesStep DEF RecordInv
<1>5. TablesInv(Publisher)'
  BY PublisherTables DEF RecordInv
<1>6. CASE Ended(Subscriber)
  <2>1. ~Alive(Subscriber)'
    BY <1>6, EndedStays DEF Ended, Alive
  <2>2. TablesInv(Subscriber)'
    BY <1>6, EndedTables DEF RecordInv
  <2> QED BY <1>3, <1>4, <1>5, <2>1, <2>2 DEF RecordInv
<1>7. CASE ~Ended(Subscriber)
  <2>1. Parts
    BY <1>7 DEF IInv, Parts, Ended, Alive
  <2>2. OrderInv
    <3>1. CASE Alive(Subscriber)
      BY <3>1 DEF RecordInv
    <3>2. CASE pc[Subscriber] = "absent"
      <4>1. Quiet
        BY <2>1, <3>2, OpenOrQuiet DEF Parts
      <4> QED BY <4>1 DEF Quiet, OrderInv
    <3> QED BY <1>7, <3>1, <3>2 DEF Ended, Alive
  <2>3. OrderInv'
    BY <2>1, <2>2, OrderStep
  <2>4. TablesInv(Subscriber)'
    BY <2>1, <2>2, SubscriberTables DEF RecordInv
  <2> QED BY <1>3, <1>4, <1>5, <2>3, <2>4 DEF RecordInv
<1> QED BY <1>6, <1>7

LEMMA RecordStutter ==
  ASSUME TypeInv, TypeInv', RecordInv, UNCHANGED vars
  PROVE  RecordInv'
<1>1. UNCHANGED <<pc, payloadIndex, run, cpu, results, cycles, csv, sent, handler, uplink, downlink>>
  BY DEF vars, endVars, loopVars, tableVars, sendVars, netVars
<1>2. RunInv'
  BY <1>1 DEF RecordInv, RunInv, SendInv, ClosureInv, IsWarmup, Slot
<1>3. Missing' = Missing
  BY <1>1 DEF Missing, Counted
<1>4. ASSUME NEW e \in Endpoint PROVE TablesInv(e)'
  <2>1. Stays(e)
    BY <1>1 DEF Stays
  <2>2. Slack(e)' = Slack(e) /\ Slack(e) \in Int
    BY <1>3, CountsInt DEF Slack
  <2> QED BY <2>1, <2>2, StaysTables DEF RecordInv
<1>5. ASSUME NEW e \in Endpoint PROVE CyclesInv(e)'
  BY <1>1 DEF RecordInv, CyclesInv, Filled, IsWarmup
<1>6. Alive(Subscriber)' => OrderInv'
  BY <1>1, <1>3 DEF RecordInv, Alive, OrderInv, Near
<1> QED BY <1>2, <1>4, <1>5, <1>6 DEF RecordInv

LEMMA RecordInit == Init => RecordInv
<1> SUFFICES ASSUME Init PROVE RecordInv
  OBVIOUS
<1>1. /\ pc = [e \in Endpoint |-> "absent"] /\ uplink = <<>> /\ downlink = <<>>
      /\ payloadIndex = [e \in Endpoint |-> 0] /\ run = [e \in Endpoint |-> 0]
      /\ results = [e \in Endpoint |-> Prepared(PayloadCount[e], Runs[e], MessageCount[e])]
  BY DEF Init
<1>2. TypeInv
  BY TypeInit DEF TypeInv
<1>3. RunInv
  BY <1>1 DEF RunInv, SendInv, ClosureInv
<1>4. OrderInv
  BY <1>1 DEF OrderInv
<1>5. ASSUME NEW e \in Endpoint PROVE TablesInv(e) /\ CyclesInv(e)
  <2>1. Filled(e) = 0 /\ Filled(e) \in Nat
    <3>1. /\ Runs[e] \in Nat /\ WarmupRuns[e] \in Nat /\ payloadIndex[e] = 0 /\ run[e] = 0
      BY <1>1, ConfigAssumption
    <3>2. payloadIndex[e] * Runs[e] = 0
      BY <3>1
    <3> QED BY <3>1, <3>2 DEF Filled, IsWarmup
  <2>2. \A k \in SlotsOf(e) : ~(k < Filled(e))
    BY <2>1, SlotsNat
  <2>3. pc[e] = "absent" /\ ~Filling(e)
    BY <1>1 DEF Filling, Working
  <2>4. \A k \in SlotsOf(e), i \in 0 .. MessageCount[e] - 1 : results[e][k][i] = Untouched
    BY <1>1 DEF Prepared, SlotsOf
  <2> QED BY <2>2, <2>3, <2>4 DEF TablesInv, CyclesInv, EntryInv
<1> QED BY <1>3, <1>4, <1>5 DEF RecordInv

LEMMA RecordInvariance ==
  ASSUME EndpointsAgree
  PROVE  Spec => [](TypeInv /\ StartInv /\ IInv /\ RecordInv)
<1>1. Init => TypeInv /\ StartInv /\ IInv /\ RecordInv
  BY TypeInit, IInvInit, RecordInit DEF TypeInv, Init, StartInv
<1>2. (TypeInv /\ StartInv /\ IInv /\ RecordInv) /\ [Next]_vars => (TypeInv /\ StartInv /\ IInv /\ RecordInv)'
  <2> SUFFICES ASSUME TypeInv, StartInv, IInv, RecordInv, [Next]_vars
               PROVE  (TypeInv /\ StartInv /\ IInv /\ RecordInv)'
    OBVIOUS
  <2>1. TypeInv' /\ StartInv'
    BY TypeStep, TypeStutter
  <2>2. IInv'
    BY IInvStep, IInvStutter
  <2>3. RecordInv'
    BY <2>1, RecordStep, RecordStutter
  <2> QED BY <2>1, <2>2, <2>3
<1> QED BY <1>1, <1>2, PTL DEF Spec

----------------------------------------------------------------------------
(* The properties of the tables *)

\* Only the loop of the publisher and the handler write a table.
LEMMA OnlyMeasuring ==
  ASSUME Next
  PROVE  results' = results \/ (Publish /\ ~FailAt(Publisher, "publish")) \/ HandleMessage
<1>1. ASSUME NEW e \in Endpoint, NEW at, FailAt(e, at) PROVE results' = results
  BY <1>1 DEF FailAt, ExitFrame
<1>2. ASSUME NEW e \in Endpoint, EndpointStep(e) PROVE results' = results
  <2>1. CASE \E at : FailAt(e, at)
    BY <1>1, <2>1
  <2>2. CASE ~\E at : FailAt(e, at)
    BY <1>2, <2>2 DEF EndpointStep, Connect, ReadGo, Read, NewCPU, Enable, Stop, WriteDone, ReadFinish,
       Disconnect, WriteResults, StepFrame, tableVars
  <2> QED BY <2>1, <2>2
<1>3. CASE Publish \/ WaitTokens
  BY <1>1, <1>3 DEF Publish, WaitTokens, StepFrame
<1>4. CASE Subscribe \/ WaitSuback \/ WriteReady \/ WaitMessages
  BY <1>1, <1>4 DEF Subscribe, WaitSuback, WriteReady, WaitMessages, tableVars
<1>5. CASE IndexPanic \/ BrokerStep \/ FaultStep
  BY <1>1, <1>5 DEF IndexPanic, BrokerStep, GrantSubscription, Route, FaultStep,
     Interrupt, Drop, HandleUnreadable, Crash, ConnectionLost, endVars, tableVars
<1>6. CASE Orchestrator
  BY <1>6 DEF Orchestrator, StartSubscriber, StartPublisher, Start, WriteSubscriberGo, ReadReady,
     WritePublisherGo, ReadPublisherDone, ReadSubscriberDone, WritePublisherFinish, WriteSubscriberFinish,
     WaitPublisher, WaitSubscriber, OrchWrite, OrchRead, OrchWait, endVars, tableVars
<1> QED BY <1>2, <1>3, <1>4, <1>5, <1>6 DEF Next, PublisherStep, SubscriberStep, HandlerStep

----------------------------------------------------------------------------
(* Type correctness of the messages *)

OwnQueues == uplink \in Seq(IDs(Publisher)) /\ downlink \in Seq(IDs(Publisher))
OwnTables ==
  \A e \in Endpoint : \A k \in SlotsOf(e) : \A i \in 0 .. MessageCount[e] - 1 :
    results[e][k][i] \in IDs(Publisher) \union {Untouched}

LEMMA OwnTypes == TypeInv /\ OwnQueues /\ OwnTables => TypeOK
<1> SUFFICES ASSUME TypeInv, OwnQueues, OwnTables PROVE TypeOK
  OBVIOUS
<1> DEFINE ids == IDs(Publisher)
           row(e) == 0 .. MessageCount[e] - 1
<1>1. NetType(ids)
  BY DEF TypeInv, TypeOver, NetType, OwnQueues
<1>2. ASSUME NEW e \in Endpoint
      PROVE  results[e] \in [SlotsOf(e) -> [row(e) -> ids \union {Untouched}]]
  <2>1. results[e] \in [SlotsOf(e) -> [row(e) -> AnyID \union {Untouched}]]
    BY DEF TypeInv, TypeOver, TableType
  <2>2. \A k \in SlotsOf(e) : \A i \in row(e) : results[e][k][i] \in ids \union {Untouched}
    BY DEF OwnTables
  <2> HIDE DEF ids, row
  <2>3. \A k \in SlotsOf(e) : results[e][k] \in [row(e) -> ids \union {Untouched}]
    BY <2>1, <2>2
  <2> QED BY <2>1, <2>3
<1>3. TableType(ids)
  BY <1>2 DEF TypeInv, TypeOver, TableType
<1> QED BY <1>1, <1>3 DEF TypeInv, TypeOver, TypeOK

LEMMA OwnQueuesStep ==
  ASSUME TypeInv, OwnQueues, Next
  PROVE  OwnQueues'
<1> DEFINE ids == IDs(Publisher)
<1>1. uplink \in Seq(ids) /\ downlink \in Seq(ids)
  BY DEF OwnQueues
<1>2. CASE OnlyLoses \/ BeginsToSend
  BY <1>1, <1>2, SuffixLost DEF OnlyLoses, BeginsToSend, OwnQueues
<1>3. CASE Publish /\ ~FailAt(Publisher, "publish")
  <2>1. /\ pc[Publisher] = "publish" /\ sent < MessageCount[Publisher] /\ downlink' = downlink
        /\ uplink' = uplink \/ uplink' = Append(uplink, MessageID(Publisher, sent))
    BY <1>3 DEF Publish
  <2>2. MessageID(Publisher, sent) \in ids
    BY <2>1, NewMessageIsOwn
  <2> HIDE DEF ids
  <2>3. uplink' \in Seq(ids)
    BY <1>1, <2>1, <2>2, AppendProperties
  <2> QED BY <1>1, <2>1, <2>3 DEF OwnQueues, ids
<1>4. CASE Subscribe /\ ~FailAt(Subscriber, "subscribe")
  BY <1>1, <1>4 DEF Subscribe, OwnQueues
<1>5. CASE HandleMessage \/ HandleUnreadable
  <2>1. downlink # <<>> /\ downlink' = Tail(downlink) /\ uplink' = uplink
    BY <1>5 DEF HandleMessage, HandleUnreadable
  <2> QED BY <1>1, <2>1, HeadTailProperties DEF OwnQueues
<1>6. CASE Route \/ Drop
  <2>1. /\ uplink # <<>> /\ uplink' = Tail(uplink)
        /\ downlink' = downlink \/ downlink' = Append(downlink, Head(uplink))
    BY <1>6 DEF Route, Drop
  <2>2. Tail(uplink) \in Seq(ids) /\ Head(uplink) \in ids
    BY <1>1, <2>1, HeadTailProperties
  <2> HIDE DEF ids
  <2>3. downlink' \in Seq(ids)
    BY <1>1, <2>1, <2>2, AppendProperties
  <2> QED BY <2>1, <2>2, <2>3 DEF OwnQueues, ids
<1> QED BY <1>2, <1>3, <1>4, <1>5, <1>6, MessagesOf

LEMMA OwnTablesStep ==
  ASSUME TypeInv, TypeInv', OwnQueues, OwnTables, Next
  PROVE  OwnTables'
<1>1. CASE results' = results
  BY <1>1 DEF OwnTables
<1>2. ASSUME NEW d \in Endpoint, NEW slot, NEW index, NEW id \in IDs(Publisher),
             results' = [results EXCEPT ![d][slot][index] = id]
      PROVE  OwnTables'
  <2> SUFFICES ASSUME NEW e \in Endpoint, NEW k \in SlotsOf(e), NEW i \in 0 .. MessageCount[e] - 1
               PROVE  results'[e][k][i] \in IDs(Publisher) \union {Untouched}
    BY DEF OwnTables
  <2>1. results[e][k][i] \in IDs(Publisher) \union {Untouched}
    BY DEF OwnTables
  <2>2. /\ DOMAIN results = Endpoint
        /\ results[e] \in [SlotsOf(e) -> [0 .. MessageCount[e] - 1 -> AnyID \union {Untouched}]]
    BY DEF TypeInv, TypeOver, TableType
  <2>3. /\ DOMAIN results[e] = SlotsOf(e)
        /\ DOMAIN results[e][k] = 0 .. MessageCount[e] - 1
    BY <2>2
  <2>4. CASE <<e, k, i>> = <<d, slot, index>>
    <3>1. results'[e][k][i] = id
      BY <1>2, <2>2, <2>3, <2>4
    <3> QED BY <3>1
  <2>5. CASE <<e, k, i>> # <<d, slot, index>>
    <3>1. results'[e][k][i] = results[e][k][i]
      BY <1>2, <2>2, <2>3, <2>5
    <3> QED BY <2>1, <3>1
  <2> QED BY <2>4, <2>5
<1>3. CASE Publish /\ ~FailAt(Publisher, "publish") /\ results' # results
  <2>1. /\ pc[Publisher] = "publish" /\ sent < MessageCount[Publisher]
        /\ results' = [results EXCEPT ![Publisher][Slot(Publisher)][sent] = MessageID(Publisher, sent)]
    BY <1>3 DEF Publish
  <2> QED BY <1>2, <2>1, NewMessageIsOwn
<1>4. CASE HandleMessage /\ results' # results
  <2>1. /\ downlink # <<>>
        /\ results' = [results EXCEPT ![Subscriber][handler.slot][handler.index] = Head(downlink)]
    BY <1>4 DEF HandleMessage
  <2>2. Head(downlink) \in IDs(Publisher)
    BY <2>1, HeadTailProperties DEF OwnQueues
  <2> QED BY <1>2, <2>1, <2>2
<1> QED BY <1>1, <1>3, <1>4, OnlyMeasuring

\* Type correctness of the session, for every configuration (the endpoints
\* need not even agree on it) and every set of faults.
THEOREM SessionTypeCorrect == Spec => []TypeOK
<1>1. Init => OwnQueues /\ OwnTables
  BY DEF Init, OwnQueues, OwnTables, Prepared, SlotsOf
<1>2. TypeInv /\ StartInv /\ (OwnQueues /\ OwnTables) /\ [Next]_vars => (OwnQueues /\ OwnTables)'
  <2>1. TypeInv /\ StartInv /\ (OwnQueues /\ OwnTables) /\ Next => (OwnQueues /\ OwnTables)'
    BY TypeStep, OwnQueuesStep, OwnTablesStep
  <2>2. (OwnQueues /\ OwnTables) /\ UNCHANGED vars => (OwnQueues /\ OwnTables)'
    BY DEF OwnQueues, OwnTables, vars, endVars, tableVars, netVars
  <2> QED BY <2>1, <2>2
<1> QED BY <1>1, <1>2, TypeInvariance, OwnTypes, PTL DEF Spec

----------------------------------------------------------------------------
(* What is measured *)

\* What is written is the next place of the slot that is being filled.
LEMMA NextIsWritten ==
  ASSUME TypeInv, NEW e \in Endpoint, TablesInv(e), Filling(e), Recorded(e) < MessageCount[e], NEW id,
         results' = [results EXCEPT ![e][Slot(e)][Recorded(e)] = id]
  PROVE  /\ \A d \in Endpoint \ {e} : results'[d] = results[d]
         /\ \A k \in DOMAIN results[e] : \A i \in DOMAIN results[e][k] :
              results[e][k][i] # Untouched => results'[e][k][i] = results[e][k][i]
<1>1. /\ Slot(e) \in SlotsOf(e) /\ Recorded(e) \in 0 .. MessageCount[e] - 1
      /\ results[e][Slot(e)][Recorded(e)] = Untouched
  BY NextIsUntouched
<1>2. Writes(e, Slot(e), Recorded(e), id)
  BY <1>1, EntryWritten
<1>3. DOMAIN results[e] = SlotsOf(e) /\ \A k \in SlotsOf(e) : DOMAIN results[e][k] = 0 .. MessageCount[e] - 1
  BY DEF TypeInv, TypeOver, TableType
<1> QED BY <1>1, <1>2, <1>3 DEF Writes

LEMMA MeasuredStep ==
  ASSUME TypeInv, IInv, RecordInv, Next, NEW e \in Endpoint, results'[e] # results[e]
  PROVE  /\ cpu[e] = "enabled"
         /\ \A k \in DOMAIN results[e] : \A i \in DOMAIN results[e][k] :
              results[e][k][i] # Untouched => results'[e][k][i] = results[e][k][i]
<1>1. CASE Publish /\ ~FailAt(Publisher, "publish")
  <2>1. /\ pc[Publisher] = "publish" /\ sent < MessageCount[Publisher]
        /\ results' = IF IsWarmup(Publisher) THEN results
                      ELSE [results EXCEPT ![Publisher][Slot(Publisher)][sent] = MessageID(Publisher, sent)]
    BY <1>1 DEF Publish
  <2>2. ~IsWarmup(Publisher)
    BY <2>1
  <2>3. Filling(Publisher) /\ Recorded(Publisher) = sent /\ cpu[Publisher] = "enabled"
    BY <2>1, <2>2 DEF Filling, Working, Recorded, RecordInv, RunInv, SendInv, ClosureInv
  <2>4. results' = [results EXCEPT ![Publisher][Slot(Publisher)][Recorded(Publisher)]
                                     = MessageID(Publisher, sent)]
    BY <2>1, <2>2, <2>3
  <2>5. /\ \A d \in Endpoint \ {Publisher} : results'[d] = results[d]
        /\ \A k \in DOMAIN results[Publisher] : \A i \in DOMAIN results[Publisher][k] :
             results[Publisher][k][i] # Untouched => results'[Publisher][k][i] = results[Publisher][k][i]
    BY <2>1, <2>3, <2>4, NextIsWritten DEF RecordInv
  <2>6. e = Publisher
    BY <2>5
  <2> QED BY <2>3, <2>5, <2>6
<1>2. CASE HandleMessage
  <2>1. /\ Alive(Subscriber) /\ downlink # <<>>
        /\ handler.warmup \/ handler.index < MessageCount[Subscriber]
        /\ results' = IF handler.warmup THEN results
                      ELSE [results EXCEPT ![Subscriber][handler.slot][handler.index] = Head(downlink)]
    BY <1>2 DEF HandleMessage
  <2>2. ~handler.warmup
    BY <2>1
  <2>3. Parts
    BY <2>1 DEF IInv, Parts
  <2>4. pc[Subscriber] = "wait"
    BY <2>1, <2>3, HandledInWait
  <2>5. handler.slot = Slot(Subscriber) /\ ~IsWarmup(Subscriber)
    BY <2>2, <2>4 DEF RecordInv, RunInv, SendInv, ClosureInv
  <2>6. Filling(Subscriber) /\ Recorded(Subscriber) = handler.index /\ cpu[Subscriber] = "enabled"
    BY <2>3, <2>4, <2>5 DEF Filling, Working, Recorded, Parts, WindowInv
  <2>7. results' = [results EXCEPT ![Subscriber][Slot(Subscriber)][Recorded(Subscriber)] = Head(downlink)]
    BY <2>1, <2>2, <2>5, <2>6
  <2>8. /\ \A d \in Endpoint \ {Subscriber} : results'[d] = results[d]
        /\ \A k \in DOMAIN results[Subscriber] : \A i \in DOMAIN results[Subscriber][k] :
             results[Subscriber][k][i] # Untouched => results'[Subscriber][k][i] = results[Subscriber][k][i]
    BY <2>1, <2>2, <2>6, <2>7, NextIsWritten DEF RecordInv
  <2>9. e = Subscriber
    BY <2>8
  <2> QED BY <2>6, <2>8, <2>9
<1> QED BY <1>1, <1>2, OnlyMeasuring

\* In every run, whatever fails: a message is measured only while the counter
\* of its endpoint counts, and what was measured is never written again, for any
\* number of payloads, runs and messages.
THEOREM MessagesMeasuredOnce ==
  ASSUME EndpointsAgree
  PROVE  Spec => MeasuredOnceWhileCounting
<1>1. TypeInv /\ StartInv /\ IInv /\ RecordInv /\ [Next]_vars =>
        [\A e \in Endpoint : results'[e] # results[e] =>
           /\ cpu[e] = "enabled"
           /\ \A k \in DOMAIN results[e] : \A i \in DOMAIN results[e][k] :
                results[e][k][i] # Untouched => results'[e][k][i] = results[e][k][i]]_vars
  BY MeasuredStep
<1> QED BY <1>1, RecordInvariance, PTL DEF Spec, MeasuredOnceWhileCounting

----------------------------------------------------------------------------

\* A table that holds every message of every measured run at its place has the
\* rows that the report joins on.
LEMMA TableRows ==
  ASSUME TypeInv, NEW e \in Endpoint, Runs[e] = Runs[Publisher], PayloadCount[e] = PayloadCount[Publisher],
         WarmupRuns[e] = WarmupRuns[Publisher], MessageCount[e] = MessageCount[Publisher],
         \A k \in SlotsOf(e), i \in 0 .. MessageCount[e] - 1 :
           results[e][k][i] = <<k \div Runs[e], WarmupRuns[e] + (k % Runs[e]), i>>
  PROVE  RowsComplete(e)
<1> DEFINE n == Runs[Publisher]
           w == WarmupRuns[Publisher]
           c == PayloadCount[Publisher]
           m == MessageCount[Publisher]
           row(p, r, i) == [payload |-> p, repetition |-> r, id |-> <<p, w + r - 1, i>>]
<1>1. n \in Nat \ {0} /\ w \in Nat /\ c \in Nat \ {0} /\ m \in Nat \ {0}
  BY ConfigAssumption
<1>2. SlotsOf(e) = 0 .. c * n - 1 /\ c * n \in Nat
  BY <1>1 DEF SlotsOf, Slots
<1>3. DOMAIN results[e] = SlotsOf(e) /\ \A k \in SlotsOf(e) : DOMAIN results[e][k] = 0 .. m - 1
  BY DEF TypeInv, TypeOver, TableType
<1>4. ASSUME NEW k \in SlotsOf(e), NEW i \in 0 .. m - 1
      PROVE  /\ CsvRow(results[e], n, k, i) = row(k \div n, (k % n) + 1, i)
             /\ k \div n \in 0 .. c - 1 /\ (k % n) + 1 \in 1 .. n
  <2> HIDE DEF n, w, c, m
  <2>1. k \in Nat /\ k < c * n
    BY <1>1, <1>2
  <2>2. k % n \in 0 .. n - 1 /\ k \div n \in Int /\ k = n * (k \div n) + (k % n)
    BY <1>1, <2>1
  <2> DEFINE d == k \div n
             r == k % n
  <2> HIDE DEF d, r
  <2>3. r \in 0 .. n - 1 /\ d \in Int /\ k = n * d + r
    BY <2>2 DEF d, r
  <2>4. d >= 0
    <3>1. CASE d < 0
      <4>1. PICK x \in Nat : d = -1 - x
        <5>1. -1 - d \in Nat
          BY <2>3, <3>1
        <5> QED BY <2>3, <5>1
      <4>2. n * d = -n - n * x /\ n * x \in Nat
        BY <1>1, <4>1
      <4> QED BY <1>1, <2>1, <2>3, <4>2
    <3> QED BY <2>3, <3>1
  <2>5. d <= c - 1
    <3>1. CASE d >= c
      <4>1. PICK x \in Nat : d = c + x
        <5>1. d - c \in Nat
          BY <1>1, <2>3, <3>1
        <5> QED BY <1>1, <2>3, <5>1
      <4>2. n * d = c * n + n * x /\ n * x \in Nat /\ c * n \in Nat
        BY <1>1, <4>1
      <4> QED BY <1>1, <2>1, <2>3, <4>2
    <3> QED BY <1>1, <2>3, <3>1
  <2>6. w + (r + 1) - 1 = w + r
    BY <1>1, <2>3
  <2>7. results[e][k][i] = <<d, w + r, i>>
    BY DEF d, r, n, w, m
  <2>8. CsvRow(results[e], n, k, i) = [payload |-> d, repetition |-> r + 1, id |-> <<d, w + r, i>>]
    BY <2>7 DEF CsvRow, d, r
  <2>9. d \in 0 .. c - 1 /\ r + 1 \in 1 .. n
    BY <1>1, <2>3, <2>4, <2>5
  <2> QED BY <2>6, <2>8, <2>9 DEF d, r
<1>5. ASSUME NEW p \in 0 .. c - 1, NEW r \in 1 .. n, NEW i \in 0 .. m - 1
      PROVE  \E k \in SlotsOf(e) : row(p, r, i) = CsvRow(results[e], n, k, i)
  <2> DEFINE k == p * n + (r - 1)
  <2> HIDE DEF n, w, c, m
  <2>1. k \in Nat /\ k < c * n
    <3>1. PICK x \in Nat : c = p + 1 + x
      <4>1. c - (p + 1) \in Nat
        BY <1>1
      <4> QED BY <1>1, <4>1
    <3>2. c * n = p * n + n + n * x /\ n * x \in Nat /\ p * n \in Nat
      BY <1>1, <3>1
    <3> QED BY <1>1, <3>2
  <2>2. k \in SlotsOf(e)
    BY <1>2, <2>1
  <2>3. k \div n = p /\ k % n = r - 1
    <3>1. p \in Nat /\ r - 1 \in 0 .. n - 1
      BY <1>1
    <3> QED BY <1>1, <3>1, SlotOfRun
  <2>4. r - 1 + 1 = r
    BY <1>1
  <2> QED BY <1>4, <2>2, <2>3, <2>4
<1> HIDE DEF row
<1>6. CsvRows(results[e], n) = {CsvRow(results[e], n, k, i) : k \in SlotsOf(e), i \in 0 .. m - 1}
  <2> DEFINE rows(k) == {CsvRow(results[e], n, k, i) : i \in DOMAIN results[e][k]}
  <2>1. CsvRows(results[e], n) = UNION {rows(k) : k \in SlotsOf(e)}
    BY <1>3 DEF CsvRows
  <2>2. \A k \in SlotsOf(e) : rows(k) = {CsvRow(results[e], n, k, i) : i \in 0 .. m - 1}
    BY <1>3
  <2> HIDE DEF rows
  <2> QED BY <2>1, <2>2
<1>7. CsvRows(results[e], n) = {row(p, r, i) : p \in 0 .. c - 1, r \in 1 .. n, i \in 0 .. m - 1}
  BY <1>4, <1>5, <1>6
<1> QED BY <1>7 DEF RowsComplete, row

\* When the orchestrator reports success an endpoint has measured the cycles of
\* every run and filled its table.
LEMMA FinishedCycles ==
  ASSUME TypeInv, HandshakeInv, NEW e \in Endpoint, CyclesInv(e), orch = "succeeded"
  PROVE  /\ pc[e] = "succeeded" /\ csv[e] /\ cycles[e] = SlotsOf(e)
         /\ \A k \in SlotsOf(e) : k < Filled(e)
<1>1. pc[e] = "succeeded" /\ payloadIndex[e] = PayloadCount[e] /\ run[e] = 0
  BY DEF HandshakeInv, RepetitionInv, ReadInv, Finishing
<1>2. \A k \in SlotsOf(e) : k < Filled(e)
  <2>1. /\ PayloadCount[e] \in Nat /\ Runs[e] \in Nat /\ WarmupRuns[e] \in Nat
    BY ConfigAssumption
  <2>2. PayloadCount[e] * Runs[e] \in Nat
    BY <2>1
  <2>3. Filled(e) = PayloadCount[e] * Runs[e]
    BY <1>1, <2>1, <2>2 DEF Filled, IsWarmup
  <2> QED BY <2>2, <2>3 DEF SlotsOf, Slots
<1>3. csv[e] /\ SlotsOf(e) \subseteq cycles[e]
  BY <1>1, <1>2 DEF CyclesInv
<1>4. cycles[e] \subseteq SlotsOf(e)
  BY DEF TypeInv, TypeOver, TableType
<1> QED BY <1>1, <1>2, <1>3, <1>4

LEMMA FinishedRows ==
  ASSUME TypeInv, EndpointsAgree, NEW e \in Endpoint, TablesInv(e), pc[e] = "succeeded",
         \A k \in SlotsOf(e) : k < Filled(e)
  PROVE  /\ \A k \in SlotsOf(e), i \in 0 .. MessageCount[e] - 1 :
              results[e][k][i] = <<k \div Runs[e], WarmupRuns[e] + (k % Runs[e]), i>>
         /\ RowsComplete(e)
<1>1. \A k \in SlotsOf(e), i \in 0 .. MessageCount[e] - 1 :
        results[e][k][i] = <<k \div Runs[e], WarmupRuns[e] + (k % Runs[e]), i>>
  BY DEF TablesInv, EntryInv
<1>2. RowsComplete(e)
  BY <1>1, TableRows DEF EndpointsAgree
<1> QED BY <1>1, <1>2

\* Whatever failed on the way: when orchestrateMacro reports success, both files
\* hold every message of every measured run under its payload, repetition and id,
\* and the cycles of every run, for any number of payloads, runs and messages.
THEOREM SuccessFilesComplete ==
  ASSUME EndpointsAgree
  PROVE  Spec => []SuccessIsComplete
<1>1. TypeInv /\ HandshakeInv /\ RecordInv => SuccessIsComplete
  <2> SUFFICES ASSUME TypeInv, HandshakeInv, RecordInv, orch = "succeeded", NEW e \in Endpoint
               PROVE  csv[e] /\ cycles[e] = SlotsOf(e) /\ RowsComplete(e)
    BY DEF SuccessIsComplete
  <2> QED BY FinishedCycles, FinishedRows DEF RecordInv
<1> QED BY <1>1, RecordInvariance, Handshake, PTL

----------------------------------------------------------------------------
(* A session beside an old publisher (MacroRerun): what it keeps of the       *)
(* invariants above, which speak of the messages of the session only.         *)

RerunInv ==
  /\ TypeInv /\ StartInv /\ HandshakeInv /\ RunInv /\ TablesInv(Publisher)
  /\ \A e \in Endpoint : CyclesInv(e)

LEMMA OldIsAny ==
  ASSUME NEW k \in Int
  PROVE  OldID(k) \in AnyID /\ IsOld(OldID(k))
BY DEF OldID, AnyID, IsOld, Untouched

LEMMA OldPublishesFrame ==
  ASSUME OldPublishes
  PROVE  /\ UNCHANGED <<orchVars, pipeVars, endVars, connected, brokerVars, uplink>>
         /\ downlink' = downlink \/ (subscribed /\ downlink' = Append(downlink, OldID(left)))
         /\ left > 0 /\ left' = left - 1
BY DEF OldPublishes

LEMMA RerunTypeStep ==
  ASSUME TypeInv, left \in Int, OldPublishes
  PROVE  TypeInv'
<1>1. UNCHANGED <<orchVars, pipeVars, endVars, connected, brokerVars, uplink>>
  BY OldPublishesFrame
<1>2. SessionType' /\ ProcessType' /\ LoopInv' /\ TableType(AnyID)'
  <2>1. UNCHANGED <<pc, loopVars, cpu, tableVars, sendVars>>
    BY <1>1 DEF endVars
  <2> QED BY <1>1, <2>1, SessionFrame, ProcessFrame, LoopFrame, TableFrame DEF TypeInv, TypeOver
<1>3. downlink' \in Seq(AnyID)
  <2>1. downlink \in Seq(AnyID)
    BY DEF TypeInv, TypeOver, NetType
  <2>2. OldID(left) \in AnyID
    BY OldIsAny
  <2> QED BY <2>1, <2>2, OldPublishesFrame, AppendProperties
<1>4. NetType(AnyID)'
  BY <1>1, <1>3 DEF TypeInv, TypeOver, NetType, endVars, brokerVars
<1> QED BY <1>2, <1>4 DEF TypeInv, TypeOver

LEMMA RerunInvStep ==
  ASSUME RerunInv, left \in Int, [RerunNext]_rerunVars
  PROVE  RerunInv'
<1> USE DEF RerunInv
<1>1. CASE Next
  <2>1. TypeInv' /\ StartInv'
    BY <1>1, TypeStep
  <2>2. HandshakeInv' /\ RunInv'
    BY <1>1, HandshakeStep, SendStep, ClosureStep DEF RunInv
  <2>3. TablesInv(Publisher)' /\ \A e \in Endpoint : CyclesInv(e)'
    BY <1>1, <2>1, PublisherTables, CyclesStep
  <2> QED BY <2>1, <2>2, <2>3
<1>2. CASE OldPublishes \/ UNCHANGED vars
  <2>1. UNCHANGED <<orchVars, pipeVars, endVars, connected, brokerVars, uplink>>
    BY <1>2, OldPublishesFrame DEF vars, netVars
  <2>2. TypeInv'
    BY <1>2, RerunTypeStep, TypeStutter
  <2>3. /\ UNCHANGED <<orch, pc, payloadIndex, run, cpu, sent, handler>>
        /\ \A e \in Endpoint : Stays(e)
    BY <2>1 DEF orchVars, endVars, loopVars, sendVars, tableVars, Stays
  <2>4. StartInv' /\ RunInv'
    BY <2>3 DEF StartInv, RunInv, SendInv, ClosureInv, IsWarmup, Slot
  <2>5. HandshakeInv'
    <3>1. UNCHANGED <<orchVars, pipeVars, pc, loopVars>>
      BY <2>1 DEF endVars
    <3> QED BY <3>1, HandshakeFrame
  <2>6. TablesInv(Publisher)'
    <3>1. Slack(Publisher) = 0 /\ Slack(Publisher)' = 0
      BY DEF Slack
    <3> QED BY <2>2, <2>3, <3>1, StaysTables
  <2>7. ASSUME NEW e \in Endpoint PROVE CyclesInv(e)'
    BY <2>3, CyclesFrame DEF Stays
  <2> QED BY <2>2, <2>4, <2>5, <2>6, <2>7
<1> QED BY <1>1, <1>2 DEF RerunNext, SessionSteps, rerunVars

----------------------------------------------------------------------------
(* The messages of the old publisher *)

NoOld(q) == \A i \in DOMAIN q : ~IsOld(q[i])

LEMMA NoOldSuffix ==
  ASSUME NEW S, NEW q \in Seq(S), NoOld(q), NEW r, r = q \/ LosesSuffix(q, r)
  PROVE  NoOld(r)
<1>1. CASE LosesSuffix(q, r)
  BY <1>1, SuffixLost DEF NoOld
<1> QED BY <1>1

LEMMA NoOldTail ==
  ASSUME NEW S, NEW q \in Seq(S), q # <<>>, NoOld(q)
  PROVE  NoOld(Tail(q)) /\ ~IsOld(Head(q))
<1>1. /\ Len(q) \in Nat /\ DOMAIN q = 1 .. Len(q) /\ Len(q) > 0
  BY LenProperties, EmptySeq
<1>2. /\ Tail(q) \in Seq(S) /\ Len(Tail(q)) = Len(q) - 1 /\ Head(q) = q[1]
      /\ \A i \in 1 .. Len(Tail(q)) : Tail(q)[i] = q[i + 1]
  BY HeadTailProperties
<1>3. DOMAIN Tail(q) = 1 .. Len(Tail(q))
  BY <1>2, LenProperties
<1>4. ASSUME NEW i \in DOMAIN Tail(q) PROVE ~IsOld(Tail(q)[i])
  <2>1. i + 1 \in DOMAIN q /\ Tail(q)[i] = q[i + 1]
    BY <1>1, <1>2, <1>3
  <2> QED BY <2>1 DEF NoOld
<1>5. ~IsOld(Head(q))
  BY <1>1, <1>2 DEF NoOld
<1> QED BY <1>4, <1>5 DEF NoOld

LEMMA NoOldAppend ==
  ASSUME NEW S, NEW q \in Seq(S), NEW id \in S, NoOld(q), ~IsOld(id)
  PROVE  NoOld(Append(q, id))
<1>1. /\ Append(q, id) \in Seq(S) /\ Len(q) \in Nat /\ Len(Append(q, id)) = Len(q) + 1
      /\ \A i \in 1 .. Len(q) : Append(q, id)[i] = q[i]
      /\ Append(q, id)[Len(q) + 1] = id
  BY AppendProperties, LenProperties
<1>2. DOMAIN Append(q, id) = 1 .. Len(q) + 1 /\ DOMAIN q = 1 .. Len(q)
  BY <1>1, LenProperties
<1> QED BY <1>1, <1>2 DEF NoOld

LEMMA QueuesAny ==
  ASSUME TypeInv
  PROVE  /\ uplink \in Seq(AnyID) /\ downlink \in Seq(AnyID)
         /\ DOMAIN uplink = 1 .. Len(uplink) /\ DOMAIN downlink = 1 .. Len(downlink)
<1>1. uplink \in Seq(AnyID) /\ downlink \in Seq(AnyID)
  BY DEF TypeInv, TypeOver, NetType
<1> QED BY <1>1, LenProperties

LEMMA NewMessageIsNotOld ==
  ASSUME TypeInv, pc[Publisher] = "publish", sent < MessageCount[Publisher]
  PROVE  ~IsOld(MessageID(Publisher, sent)) /\ MessageID(Publisher, sent) \in AnyID
<1>1. MessageID(Publisher, sent) \in IDs(Publisher)
  BY NewMessageIsOwn
<1>2. PayloadCount[Publisher] \in Nat
  BY ConfigAssumption
<1>3. MessageID(Publisher, sent)[1] # -1
  BY <1>1, <1>2 DEF IDs
<1> QED BY <1>3, NewMessageIsOwn DEF IsOld

\* The session itself brings no old message into a queue.
LEMMA QueuesStayOwn ==
  ASSUME TypeInv, Next, NoOld(uplink)
  PROVE  NoOld(uplink') /\ (NoOld(downlink) => NoOld(downlink'))
<1>1. uplink \in Seq(AnyID) /\ downlink \in Seq(AnyID)
  BY QueuesAny
<1>2. CASE OnlyLoses \/ BeginsToSend
  BY <1>1, <1>2, NoOldSuffix DEF OnlyLoses, BeginsToSend
<1>3. CASE Publish /\ ~FailAt(Publisher, "publish")
  <2>1. /\ pc[Publisher] = "publish" /\ sent < MessageCount[Publisher] /\ downlink' = downlink
        /\ uplink' = uplink \/ uplink' = Append(uplink, MessageID(Publisher, sent))
    BY <1>3 DEF Publish
  <2> QED BY <1>1, <2>1, NewMessageIsNotOld, NoOldAppend
<1>4. CASE Subscribe /\ ~FailAt(Subscriber, "subscribe")
  BY <1>4 DEF Subscribe
<1>5. CASE HandleMessage \/ HandleUnreadable
  <2>1. downlink # <<>> /\ downlink' = Tail(downlink) /\ uplink' = uplink
    BY <1>5 DEF HandleMessage, HandleUnreadable
  <2> QED BY <1>1, <2>1, NoOldTail
<1>6. CASE Route \/ Drop
  <2>1. /\ uplink # <<>> /\ uplink' = Tail(uplink)
        /\ downlink' = downlink \/ downlink' = Append(downlink, Head(uplink))
    BY <1>6 DEF Route, Drop
  <2>2. Head(uplink) \in AnyID /\ ~IsOld(Head(uplink)) /\ NoOld(Tail(uplink))
    BY <1>1, <2>1, HeadTailProperties, NoOldTail
  <2> QED BY <1>1, <2>1, <2>2, NoOldAppend
<1> QED BY <1>2, <1>3, <1>4, <1>5, <1>6, MessagesOf

LEMMA TakeoverStep ==
  ASSUME SessionSteps, left \in Nat
  PROVE  left' = 0 \/ (left' = left /\ (connected[Publisher] \/ ~connected'[Publisher]))
BY DEF SessionSteps, Takeover

LEMMA BeforeTakeoverStep ==
  ASSUME TypeInv, StartInv, BeforeTakeover, SessionSteps, left \in Nat
  PROVE  BeforeTakeover'
<1> SUFFICES ASSUME left' > 0
             PROVE  pc'[Publisher] \in {"absent", "connect", "failed"} /\ ~connected'[Publisher] /\ uplink' = <<>>
  BY DEF BeforeTakeover
<1>1. /\ Next /\ left > 0 /\ pc[Publisher] \in {"absent", "connect", "failed"} /\ uplink = <<>>
      /\ ~connected[Publisher] /\ ~connected'[Publisher]
  BY TakeoverStep DEF BeforeTakeover, SessionSteps
<1>2. pc'[Publisher] \in {"absent", "connect", "failed"}
  <2>1. CASE Stays(Publisher) \/ Starts(Publisher) \/ pc'[Publisher] = "failed"
    BY <1>1, <2>1 DEF Stays, Starts
  <2>2. CASE Acts(Publisher)
    <3>1. pc \in [Endpoint -> Steps] /\ connected \in [Endpoint -> BOOLEAN]
      BY DEF TypeInv, TypeOver, ProcessType, NetType
    <3> QED
      BY <1>1, <2>2, <3>1 DEF Acts, EndpointStep, Connect, ReadGo, Read, NewCPU, Enable, Stop, WriteDone, ReadFinish,
         Disconnect, WriteResults, Publish, WaitTokens, FailAt, Fail, Exit, Goto
  <2> QED BY <1>1, <2>1, <2>2, StepOf
<1>3. uplink' = <<>>
  <2>1. uplink' = uplink \/ LosesSuffix(uplink, uplink')
    BY <1>1, MessagesOf DEF OnlyLoses, BeginsToSend, Publish, Subscribe, HandleMessage, HandleUnreadable, Route, Drop
  <2>2. CASE LosesSuffix(uplink, uplink')
    <3>1. uplink' \in Seq(AnyID) /\ Len(uplink') <= Len(uplink)
      BY <2>2, QueuesAny, SuffixLost
    <3>2. Len(uplink) = 0
      BY <1>1
    <3> QED BY <3>1, <3>2, LenProperties, EmptySeq
  <2> QED BY <1>1, <2>1, <2>2
<1> QED BY <1>1, <1>2, <1>3

\* What the steps of the others, and of the connection, do to the subscriber.
Elsewhere ==
  /\ pc'[Subscriber] = pc[Subscriber] \/ (pc[Subscriber] = "absent" /\ pc'[Subscriber] = "connect")
  /\ UNCHANGED <<payloadIndex[Subscriber], run[Subscriber], handler, suback>>
  /\ subscribed' = subscribed \/ ~subscribed'
  /\ downlink' = downlink \/ LosesSuffix(downlink, downlink')

LEMMA ExitOfPublisher ==
  ASSUME TypeInv, NEW status, Exit(Publisher, status), UNCHANGED <<loopVars, handler>>
  PROVE  Elsewhere
<1>1. pc \in [Endpoint -> Steps]
  BY DEF TypeInv, TypeOver, ProcessType
<1> QED BY <1>1 DEF Exit, Goto, brokerVars, loopVars, Elsewhere

LEMMA PublisherIsElsewhere ==
  ASSUME TypeInv, PublisherStep
  PROVE  Elsewhere
<1>1. pc \in [Endpoint -> Steps] /\ payloadIndex \in [Endpoint -> Nat] /\ run \in [Endpoint -> Nat]
  BY DEF TypeInv, TypeOver, ProcessType
<1> USE DEF Elsewhere, Goto, loopVars, brokerVars, netVars
<1>2. CASE \E at : FailAt(Publisher, at)
  BY <1>2, ExitOfPublisher DEF FailAt, Fail, ExitFrame
<1>3. CASE Connect(Publisher) /\ ~FailAt(Publisher, "connect")
  BY <1>1, <1>3 DEF Connect
<1>4. CASE ReadGo(Publisher) \/ ReadFinish(Publisher)
  <2>1. CASE Fail(Publisher)
    BY <1>4, <2>1, ExitOfPublisher DEF ReadGo, ReadFinish, Read, Fail
  <2>2. CASE ~Fail(Publisher)
    BY <1>1, <1>4, <2>2 DEF ReadGo, ReadFinish, Read
  <2> QED BY <2>1, <2>2
<1>5. CASE NewCPU(Publisher) /\ ~FailAt(Publisher, "newCPU")
  BY <1>1, <1>5 DEF NewCPU, StepFrame
<1>6. CASE Enable(Publisher) /\ ~FailAt(Publisher, "enable")
  BY <1>1, <1>6 DEF Enable, StepFrame
<1>7. CASE Stop(Publisher) /\ ~FailAt(Publisher, "stop")
  BY <1>1, <1>7 DEF Stop
<1>8. CASE WriteDone(Publisher) /\ ~FailAt(Publisher, "done")
  BY <1>1, <1>8 DEF WriteDone, NextRound
<1>9. CASE Disconnect(Publisher)
  BY <1>1, <1>9 DEF Disconnect
<1>10. CASE WriteResults(Publisher) /\ ~FailAt(Publisher, "writeResults")
  BY <1>10, ExitOfPublisher DEF WriteResults
<1>11. CASE (Publish \/ WaitTokens) /\ ~FailAt(Publisher, "publish")
  BY <1>1, <1>11 DEF Publish, WaitTokens, StepFrame, MessageFrame
<1> QED
  BY <1>2, <1>3, <1>4, <1>5, <1>6, <1>7, <1>8, <1>9, <1>10, <1>11 DEF PublisherStep, EndpointStep

\* What can happen to the subscriber in one step.
LEMMA SubscriberMoves ==
  ASSUME TypeInv, StartInv, Next
  PROVE  \/ Elsewhere \/ pc'[Subscriber] = "failed"
         \/ EndpointStep(Subscriber)
         \/ (Subscribe \/ WaitSuback \/ WriteReady \/ WaitMessages) /\ ~\E at : FailAt(Subscriber, at)
         \/ HandleMessage \/ HandleUnreadable \/ Route \/ GrantSubscription
<1>1. pc \in [Endpoint -> Steps]
  BY DEF TypeInv, TypeOver, ProcessType
<1>2. CASE \E at : FailAt(Subscriber, at)
  BY <1>1, <1>2 DEF FailAt, Fail, Exit, Goto
<1>3. CASE PublisherStep \/ \E at : FailAt(Publisher, at)
  BY <1>3, PublisherIsElsewhere, ExitOfPublisher DEF FailAt, Fail, ExitFrame
<1>4. CASE Orchestrator
  <2>1. UNCHANGED <<pipeVars, loopVars, handler, suback, subscribed, downlink>> \/ UNCHANGED <<endVars, netVars>>
    BY <1>4 DEF Orchestrator, StartSubscriber, StartPublisher, Start, WriteSubscriberGo, ReadReady,
       WritePublisherGo, ReadPublisherDone, ReadSubscriberDone, WritePublisherFinish, WriteSubscriberFinish,
       WaitPublisher, WaitSubscriber, OrchWrite, OrchRead, OrchWait, netVars, brokerVars
  <2>2. Stays(Subscriber) \/ Starts(Subscriber)
    BY <1>4, OrchestratorStays
  <2> QED BY <2>1, <2>2 DEF Elsewhere, Stays, Starts, loopVars, endVars, netVars, brokerVars
<1>5. CASE Drop \/ Interrupt \/ \E d \in Endpoint : ConnectionLost(d)
  BY <1>5 DEF Drop, Interrupt, ConnectionLost, endVars, loopVars, netVars, brokerVars, Elsewhere
<1> QED
  BY <1>2, <1>3, <1>4, <1>5
  DEF Next, SubscriberStep, HandlerStep, IndexPanic, BrokerStep, FaultStep, Crash

LEMMA EmptyLoses ==
  ASSUME TypeInv, downlink = <<>>, LosesSuffix(downlink, downlink')
  PROVE  downlink' = <<>>
<1>1. downlink' \in Seq(AnyID) /\ Len(downlink') <= Len(downlink)
  BY QueuesAny, SuffixLost
<1>2. Len(downlink) = 0
  OBVIOUS
<1> QED BY <1>1, <1>2, LenProperties, EmptySeq

\* Until the first callback is installed nothing reaches the subscriber.
LEMMA UnopenedStep ==
  ASSUME TypeInv, StartInv, Unopened, Next, WarmupRuns[Subscriber] > 0,
         left' \in Nat, left' <= MessageCount[Subscriber]
  PROVE  Unopened' \/ Counting' \/ Ended(Subscriber)'
<1>1. pc \in [Endpoint -> Steps] /\ IsWarmup(Subscriber)
  BY DEF TypeInv, TypeOver, ProcessType, Unopened, FirstRound, IsWarmup
<1>2. CASE pc'[Subscriber] = "failed"
  BY <1>2 DEF Ended
<1>3. CASE Elsewhere
  BY <1>3, EmptyLoses DEF Elsewhere, Unopened, FirstRound
<1>4. CASE EndpointStep(Subscriber) /\ pc'[Subscriber] # "failed"
  <2>1. CASE Connect(Subscriber)
    BY <1>1, <1>4, <2>1 DEF Connect, FailAt, Fail, Exit, Goto, Unopened, FirstRound, loopVars, brokerVars
  <2>2. CASE ReadGo(Subscriber)
    <3>1. FirstStep(Subscriber) = "subscribe"
      BY <1>1 DEF FirstStep
    <3> QED
      BY <1>1, <1>4, <2>2, <3>1 DEF ReadGo, Read, Fail, Exit, Goto, Unopened, FirstRound, loopVars, brokerVars, netVars
  <2>3. CASE ~Connect(Subscriber) /\ ~ReadGo(Subscriber)
    BY <1>4, <2>3 DEF EndpointStep, NewCPU, Enable, Stop, WriteDone, ReadFinish, Read, Disconnect, WriteResults,
       FailAt, Unopened
  <2> QED BY <2>1, <2>2, <2>3
<1>5. CASE Subscribe /\ ~\E at : FailAt(Subscriber, at)
  <2>1. /\ handler' = NewHandler /\ pc' = [pc EXCEPT ![Subscriber] = "suback"] /\ UNCHANGED <<loopVars, downlink>>
    BY <1>5 DEF Subscribe, Goto
  <2>2. handler'.warmup = TRUE /\ handler'.channel = <<>> /\ handler'.index = 0
    BY <1>1, <2>1 DEF NewHandler
  <2>3. downlink' = <<>> /\ Len(downlink') = 0 /\ DOMAIN downlink' = {}
    BY <2>1 DEF Unopened
  <2>4. pc'[Subscriber] = "suback" /\ FirstRound'
    BY <1>1, <2>1 DEF Unopened, FirstRound, loopVars
  <2> QED BY <2>2, <2>3, <2>4 DEF Counting
<1>6. CASE (WaitSuback \/ WriteReady \/ WaitMessages) /\ ~\E at : FailAt(Subscriber, at)
  BY <1>6 DEF WaitSuback, WriteReady, WaitMessages, Unopened
<1>7. CASE HandleMessage \/ HandleUnreadable \/ GrantSubscription
  BY <1>7 DEF HandleMessage, HandleUnreadable, GrantSubscription, Unopened
<1>8. CASE Route
  BY <1>8 DEF Route, endVars, loopVars, brokerVars, Unopened, FirstRound
<1> QED BY <1>2, <1>3, <1>4, <1>5, <1>6, <1>7, <1>8, SubscriberMoves

\* The first callback counts on: what is in transit loses its end or its head.
LEMMA CountingGoesOn ==
  ASSUME TypeInv, TypeInv', Counting, left \in Nat, left' = 0 \/ left' = left,
         pc'[Subscriber] \in {"suback", "ready", "wait"}, FirstRound',
         handler'.warmup, handler'.channel # <<"nil">>, NEW s \in Nat,
         Shortened(downlink, downlink', s), Len(downlink') + s <= Len(downlink),
         handler'.index <= handler.index + s
  PROVE  Counting'
<1> DEFINE h == handler.index
           h2 == handler'.index
           d == Len(downlink)
           d2 == Len(downlink')
           m == MessageCount[Subscriber]
<1>1. /\ h \in Nat /\ h2 \in Nat /\ d \in Nat /\ d2 \in Nat /\ m \in Nat
      /\ DOMAIN downlink' = 1 .. d2 /\ DOMAIN downlink = 1 .. d
  <2>1. downlink' \in Seq(AnyID)
    BY DEF TypeInv, TypeOver, NetType
  <2> QED BY <2>1, QueueTypes, QueueTypesNext, ConfigAssumption, LenProperties, QueuesAny
<1>2. h2 <= h + s /\ d2 + s <= d
  OBVIOUS
<1>3. ASSUME NEW i \in DOMAIN downlink', IsOld(downlink'[i]) PROVE h2 + i <= m
  <2>1. i \in 1 .. d2 /\ i + s \in 1 .. d /\ downlink'[i] = downlink[i + s]
    BY <1>1 DEF Shortened
  <2>2. h + (i + s) <= m
    BY <1>1, <1>3, <2>1 DEF Counting
  <2> HIDE DEF h, h2, d, d2, m
  <2> QED BY <1>1, <1>2, <2>1, <2>2
<1>4. left' > 0 => h2 + d2 + left' <= m
  <2>1. left > 0 => h + d + left <= m
    BY DEF Counting
  <2> HIDE DEF h, h2, d, d2, m
  <2> QED BY <1>1, <1>2, <2>1
<1> QED BY <1>3, <1>4 DEF Counting

\* The last message that the first callback counts leaves none of the old publisher.
LEMMA CountingEnds ==
  ASSUME TypeInv, TypeInv', Counting, left \in Nat, left' = 0 \/ left' = left,
         downlink # <<>>, downlink' = Tail(downlink), handler.index + 1 = MessageCount[Subscriber]
  PROVE  Cleared'
<1> DEFINE h == handler.index
           d == Len(downlink)
           d2 == Len(downlink')
           m == MessageCount[Subscriber]
<1>1. downlink \in Seq(AnyID) /\ downlink' \in Seq(AnyID)
  BY DEF TypeInv, TypeOver, NetType
<1>2. Shortened(downlink, downlink', 1) /\ d \in Nat /\ d2 = d - 1
  BY <1>1, TailShortens
<1>3. /\ h \in Nat /\ m \in Nat /\ d2 \in Nat /\ DOMAIN downlink' = 1 .. d2 /\ DOMAIN downlink = 1 .. d
  BY <1>1, QueueTypes, ConfigAssumption, LenProperties
<1>4. h + 1 = m
  OBVIOUS
<1>5. ASSUME NEW i \in DOMAIN downlink', IsOld(downlink'[i]) PROVE FALSE
  <2>1. i \in 1 .. d2 /\ i + 1 \in 1 .. d /\ downlink'[i] = downlink[i + 1]
    BY <1>2, <1>3 DEF Shortened
  <2>2. h + (i + 1) <= m
    BY <1>3, <1>5, <2>1 DEF Counting
  <2> HIDE DEF h, d, d2, m
  <2> QED BY <1>3, <1>4, <2>1, <2>2
<1>6. left' = 0
  <2>1. left > 0 => h + d + left <= m
    BY DEF Counting
  <2> HIDE DEF h, d, d2, m
  <2> QED BY <1>2, <1>3, <1>4, <2>1
<1> QED BY <1>5, <1>6 DEF Cleared

LEMMA CountingRouted ==
  ASSUME TypeInv, TypeInv', Counting, left = 0, left' = 0, Route, NoOld(uplink)
  PROVE  Counting'
<1>1. /\ uplink # <<>> /\ UNCHANGED <<pc, payloadIndex, run, handler>>
      /\ downlink' = downlink \/ downlink' = Append(downlink, Head(uplink))
  BY DEF Route, endVars, loopVars
<1>2. Head(uplink) \in AnyID /\ ~IsOld(Head(uplink))
  BY <1>1, QueuesAny, NoOldTail, HeadTailProperties
<1>3. \A i \in DOMAIN downlink' : IsOld(downlink'[i]) => i \in DOMAIN downlink /\ downlink'[i] = downlink[i]
  <2>1. CASE downlink' = Append(downlink, Head(uplink))
    <3>1. /\ Len(downlink') = Len(downlink) + 1 /\ Len(downlink) \in Nat /\ downlink' \in Seq(AnyID)
          /\ \A i \in 1 .. Len(downlink) : downlink'[i] = downlink[i]
          /\ downlink'[Len(downlink) + 1] = Head(uplink)
      BY <1>2, <2>1, QueuesAny, AppendProperties, LenProperties
    <3>2. DOMAIN downlink' = 1 .. Len(downlink) + 1 /\ DOMAIN downlink = 1 .. Len(downlink)
      BY <3>1, QueuesAny, LenProperties
    <3>3. ASSUME NEW i \in DOMAIN downlink', IsOld(downlink'[i])
          PROVE  i \in DOMAIN downlink /\ downlink'[i] = downlink[i]
      <4>1. i # Len(downlink) + 1
        BY <1>2, <3>1, <3>3
      <4>2. i \in 1 .. Len(downlink)
        BY <3>1, <3>2, <4>1
      <4> QED BY <3>1, <3>2, <4>2
    <3> QED BY <3>3
  <2> QED BY <1>1, <2>1
<1> QED BY <1>1, <1>3 DEF Counting, FirstRound

LEMMA CountingStep ==
  ASSUME TypeInv, TypeInv', StartInv, Counting, NoOld(uplink), BeforeTakeover, Next, WarmupRuns[Subscriber] > 0,
         left \in Nat, left' = 0 \/ left' = left
  PROVE  Cleared' \/ Counting' \/ Ended(Subscriber)'
<1>1. /\ pc \in [Endpoint -> Steps] /\ IsWarmup(Subscriber) /\ handler \in HandlerType
      /\ pc[Subscriber] \in {"suback", "ready", "wait"} /\ FirstRound /\ handler.warmup /\ handler.channel # <<"nil">>
  BY DEF TypeInv, TypeOver, ProcessType, NetType, Counting, FirstRound, IsWarmup
<1>2. CASE pc'[Subscriber] = "failed"
  BY <1>2 DEF Ended
<1>3. ASSUME handler'.warmup, handler'.channel # <<"nil">>, handler'.index = handler.index,
             downlink' = downlink \/ LosesSuffix(downlink, downlink'),
             pc'[Subscriber] \in {"suback", "ready", "wait"}, FirstRound'
      PROVE  Counting'
  <2>1. Shortened(downlink, downlink', 0) /\ Len(downlink) \in Nat /\ Len(downlink') \in Nat /\ Len(downlink') <= Len(downlink)
    BY <1>3, QueuesAny, SuffixShortens
  <2>2. Len(downlink') + 0 <= Len(downlink) /\ handler'.index <= handler.index + 0
    BY <1>3, <2>1, QueueTypes
  <2> QED BY <1>3, <2>1, <2>2, CountingGoesOn
<1>4. CASE Elsewhere
  BY <1>1, <1>3, <1>4 DEF Elsewhere, FirstRound
<1>5. CASE EndpointStep(Subscriber) /\ pc'[Subscriber] # "failed"
  BY <1>1, <1>5 DEF EndpointStep, Connect, ReadGo, Read, NewCPU, Enable, Stop, WriteDone, ReadFinish,
     Disconnect, WriteResults, FailAt
<1>6. CASE (Subscribe \/ WaitMessages) /\ ~\E at : FailAt(Subscriber, at)
  BY <1>1, <1>6 DEF Subscribe, WaitMessages
<1>7. CASE (WaitSuback \/ WriteReady) /\ ~\E at : FailAt(Subscriber, at)
  <2>1. UNCHANGED <<handler, downlink, loopVars>> /\ (Goto(Subscriber, "ready") \/ Goto(Subscriber, "wait"))
    BY <1>1, <1>7 DEF WaitSuback, WriteReady, netVars
  <2> QED BY <1>1, <1>3, <2>1 DEF Goto, FirstRound, loopVars
<1>8. CASE GrantSubscription
  BY <1>1, <1>3, <1>8 DEF GrantSubscription, endVars, loopVars, FirstRound
<1>9. CASE HandleMessage \/ HandleUnreadable
  <2>1. /\ downlink # <<>> /\ downlink' = Tail(downlink) /\ UNCHANGED <<pc, payloadIndex, run>>
    BY <1>9 DEF HandleMessage, HandleUnreadable, loopVars
  <2>2. /\ Shortened(downlink, downlink', 1) /\ Len(downlink) \in Nat /\ Len(downlink') = Len(downlink) - 1
    BY <2>1, QueuesAny, TailShortens
  <2>3. CASE HandleMessage /\ handler.index + 1 = MessageCount[Subscriber]
    BY <2>1, <2>3, CountingEnds
  <2>4. CASE HandleUnreadable \/ (HandleMessage /\ handler.index + 1 # MessageCount[Subscriber])
    <3>1. handler' = [handler EXCEPT !.channel = <<"error">>] \/ handler' = [handler EXCEPT !.index = @ + 1]
      BY <2>4 DEF HandleMessage, HandleUnreadable
    <3>2. /\ handler'.warmup = handler.warmup /\ handler'.channel # <<"nil">>
          /\ handler'.index = handler.index \/ handler'.index = handler.index + 1
      <4>1. <<"error">> # <<"nil">> /\ handler.channel # <<"nil">> /\ handler \in HandlerType
        BY <1>1
      <4>2. CASE handler' = [handler EXCEPT !.channel = <<"error">>]
        <5>1. handler'.warmup = handler.warmup /\ handler'.channel = <<"error">> /\ handler'.index = handler.index
          BY <4>1, <4>2 DEF HandlerType
        <5> QED BY <4>1, <5>1
      <4>3. CASE handler' = [handler EXCEPT !.index = @ + 1]
        <5>1. /\ handler'.warmup = handler.warmup /\ handler'.channel = handler.channel
              /\ handler'.index = handler.index + 1
          BY <4>1, <4>3 DEF HandlerType
        <5> QED BY <4>1, <5>1
      <4> QED BY <3>1, <4>2, <4>3
    <3>3. Len(downlink') + 1 <= Len(downlink) /\ handler'.index <= handler.index + 1
      BY <2>2, <3>2, QueueTypes
    <3>4. FirstRound'
      BY <1>1, <2>1 DEF FirstRound
    <3> QED BY <1>1, <2>1, <2>2, <3>2, <3>3, <3>4, CountingGoesOn
  <2> QED BY <1>9, <2>3, <2>4
<1>10. CASE Route
  <2>1. left = 0
    BY <1>10 DEF Route, BeforeTakeover
  <2> QED BY <1>10, <2>1, CountingRouted
<1> QED BY <1>2, <1>4, <1>5, <1>6, <1>7, <1>8, <1>9, <1>10, SubscriberMoves

----------------------------------------------------------------------------
(* What the subscriber measures beside an old publisher *)

LEMMA OldPublishesStep ==
  ASSUME TypeInv, TypeInv', OldInv, left \in Int, OldPublishes
  PROVE  OldInv'
<1>1. /\ UNCHANGED <<pc, payloadIndex, run, results, handler, connected, subscribed, suback, uplink>>
      /\ left > 0 /\ left' = left - 1
      /\ downlink' = IF subscribed THEN Append(downlink, OldID(left)) ELSE downlink
  BY DEF OldPublishes, endVars, loopVars, tableVars, brokerVars
<1>2. left' \in 0 .. MaxLeft
  BY <1>1, RerunAssumption, ConfigAssumption DEF OldInv
<1>3. BeforeTakeover' /\ \A i \in DOMAIN uplink' : ~IsOld(uplink'[i])
  BY <1>1 DEF OldInv, BeforeTakeover
<1>4. OldIsNeverMeasured'
  BY <1>1 DEF OldInv, OldIsNeverMeasured, Measured
<1>5. Unopened \/ Counting \/ Ended(Subscriber)
  BY <1>1 DEF OldInv, Cleared
<1>6. CASE Unopened
  <2>1. Unopened'
    BY <1>1, <1>6 DEF Unopened, FirstRound
  <2> QED BY <1>2, <1>3, <1>4, <2>1 DEF OldInv
<1>7. CASE Ended(Subscriber)
  <2>1. Ended(Subscriber)'
    BY <1>1, <1>7 DEF Ended
  <2> QED BY <1>2, <1>3, <1>4, <2>1 DEF OldInv
<1>8. CASE Counting
  <2> DEFINE h == handler.index
             d == Len(downlink)
             d2 == Len(downlink')
             m == MessageCount[Subscriber]
  <2>1. /\ h \in Nat /\ d \in Nat /\ m \in Nat /\ DOMAIN downlink = 1 .. d /\ downlink \in Seq(AnyID)
    BY QueueTypes, ConfigAssumption, QueuesAny
  <2>2. h + d + left <= m
    BY <1>1, <1>8 DEF Counting
  <2>3. /\ d2 \in {d, d + 1} /\ DOMAIN downlink' = 1 .. d2
        /\ \A i \in 1 .. d : downlink'[i] = downlink[i]
    <3>1. CASE downlink' = downlink
      BY <2>1, <3>1
    <3>2. CASE downlink' = Append(downlink, OldID(left))
      <4>1. OldID(left) \in AnyID
        BY OldIsAny
      <4> QED BY <2>1, <3>2, <4>1, AppendProperties, LenProperties
    <3> QED BY <1>1, <3>1, <3>2
  <2>4. ASSUME NEW i \in DOMAIN downlink', IsOld(downlink'[i]) PROVE h + i <= m
    <3>1. CASE i \in 1 .. d
      BY <1>8, <2>1, <2>3, <2>4, <3>1 DEF Counting
    <3>2. CASE i \notin 1 .. d
      <4> HIDE DEF h, d, d2, m
      <4>1. i = d + 1
        BY <2>1, <2>3, <3>2
      <4> QED BY <1>1, <2>1, <2>2, <4>1
    <3> QED BY <3>1, <3>2
  <2>5. h + d2 + left' <= m
    <3> HIDE DEF h, d, d2, m
    <3> QED BY <1>1, <2>1, <2>2, <2>3
  <2>6. Counting'
    BY <1>1, <1>8, <2>4, <2>5 DEF Counting, FirstRound
  <2> QED BY <1>2, <1>3, <1>4, <2>6 DEF OldInv
<1> QED BY <1>5, <1>6, <1>7, <1>8

\* A message is measured behind the first callback only, with all old messages gone.
LEMMA MeasuredIsOwn ==
  ASSUME TypeInv, TypeInv', OldInv, Next
  PROVE  OldIsNeverMeasured'
<1>1. CASE results'[Subscriber] = results[Subscriber]
  BY <1>1 DEF OldInv, OldIsNeverMeasured, Measured
<1>2. CASE HandleMessage /\ results' # results
  <2>1. /\ Alive(Subscriber) /\ downlink # <<>> /\ ~handler.warmup
        /\ results' = [results EXCEPT ![Subscriber][handler.slot][handler.index] = Head(downlink)]
    BY <1>2 DEF HandleMessage
  <2>2. Cleared
    BY <2>1 DEF OldInv, Unopened, Counting, Ended, Alive
  <2>3. ~IsOld(Head(downlink))
    BY <2>1, <2>2, QueuesAny, NoOldTail DEF Cleared, NoOld
  <2> SUFFICES ASSUME NEW k \in DOMAIN results'[Subscriber], NEW i \in DOMAIN results'[Subscriber][k]
               PROVE  ~IsOld(results'[Subscriber][k][i])
    BY DEF OldIsNeverMeasured, Measured
  <2>4. /\ DOMAIN results = Endpoint
        /\ results[Subscriber] \in [SlotsOf(Subscriber) -> [0 .. MessageCount[Subscriber] - 1 -> AnyID \union {Untouched}]]
    BY DEF TypeInv, TypeOver, TableType
  <2>5. /\ k \in DOMAIN results[Subscriber] /\ i \in DOMAIN results[Subscriber][k]
        /\ results'[Subscriber][k][i] = results[Subscriber][k][i] \/ results'[Subscriber][k][i] = Head(downlink)
    BY <2>1, <2>4
  <2>6. ~IsOld(results[Subscriber][k][i])
    BY <2>5 DEF OldInv, OldIsNeverMeasured, Measured
  <2> QED BY <2>3, <2>5, <2>6
<1>3. CASE Publish /\ ~FailAt(Publisher, "publish")
  <2>1. results' = results \/ results' = [results EXCEPT ![Publisher][Slot(Publisher)][sent] = MessageID(Publisher, sent)]
    BY <1>3 DEF Publish
  <2>2. results'[Subscriber] = results[Subscriber]
    BY <2>1 DEF TypeInv, TypeOver, TableType
  <2> QED BY <1>1, <2>2
<1> QED BY <1>1, <1>2, <1>3, OnlyMeasuring

LEMMA OldInvStep ==
  ASSUME EndpointsAgree, TypeInv, TypeInv', StartInv, OldInv, [RerunNext]_rerunVars
  PROVE  OldInv'
<1>1. left \in Nat /\ left <= MessageCount[Subscriber] /\ WarmupRuns[Subscriber] > 0
  BY RerunAssumption, ConfigAssumption DEF OldInv, EndpointsAgree
<1>2. CASE SessionSteps
  <2>1. Next /\ (left' = 0 \/ left' = left)
    BY <1>1, <1>2, TakeoverStep DEF SessionSteps
  <2>2. NoOld(uplink)
    BY DEF OldInv, NoOld
  <2>3. left' \in 0 .. MaxLeft /\ left' \in Nat /\ left' <= MessageCount[Subscriber]
    BY <1>1, <2>1, RerunAssumption, ConfigAssumption DEF OldInv
  <2>4. BeforeTakeover'
    BY <1>1, <1>2, BeforeTakeoverStep DEF OldInv
  <2>5. \A i \in DOMAIN uplink' : ~IsOld(uplink'[i])
    BY <2>1, <2>2, QueuesStayOwn DEF NoOld
  <2>6. Cleared' \/ Unopened' \/ Counting' \/ Ended(Subscriber)'
    <3>1. CASE Cleared
      <4>1. left' = 0 /\ NoOld(downlink)
        BY <2>1, <3>1 DEF Cleared, NoOld
      <4> QED BY <2>1, <2>2, <4>1, QueuesStayOwn DEF Cleared, NoOld
    <3>2. CASE Unopened
      BY <1>1, <2>1, <2>3, <3>2, UnopenedStep
    <3>3. CASE Counting
      BY <1>1, <2>1, <2>2, <3>3, CountingStep DEF OldInv
    <3>4. CASE Ended(Subscriber)
      BY <2>1, <3>4, EndedStays
    <3> QED BY <3>1, <3>2, <3>3, <3>4 DEF OldInv
  <2>7. OldIsNeverMeasured'
    BY <2>1, MeasuredIsOwn
  <2> QED BY <2>3, <2>4, <2>5, <2>6, <2>7 DEF OldInv
<1>3. CASE OldPublishes
  BY <1>1, <1>3, OldPublishesStep
<1>4. CASE UNCHANGED rerunVars
  BY <1>4 DEF rerunVars, vars, endVars, loopVars, tableVars, netVars, brokerVars, OldInv, BeforeTakeover,
     Cleared, Unopened, Counting, FirstRound, Ended, OldIsNeverMeasured, Measured
<1> QED BY <1>2, <1>3, <1>4 DEF RerunNext

LEMMA OldInvInit == RerunInit => OldInv
<1> SUFFICES ASSUME RerunInit PROVE OldInv
  OBVIOUS
<1>1. Init /\ left \in 0 .. MaxLeft
  BY DEF RerunInit
<1>2. BeforeTakeover /\ Unopened /\ uplink = <<>>
  BY <1>1 DEF Init, BeforeTakeover, Unopened, FirstRound
<1>3. OldIsNeverMeasured
  BY <1>1 DEF Init, Prepared, OldIsNeverMeasured, Measured, IsOld
<1> QED BY <1>1, <1>2, <1>3 DEF OldInv

----------------------------------------------------------------------------
(* A session that its report can join is complete                             *)

\* The first n values of g are different; each of the first n values of g is one of f.
Different(g, n)    == \A i, j \in 0 .. n - 1 : g[i] = g[j] => i = j
TakenFrom(g, f, n) == \A i \in 0 .. n - 1 : \E j \in 0 .. n - 1 : g[i] = f[j]

\* If g takes n different values from the n of f, it takes them all.
LEMMA EveryValueIsTaken ==
  ASSUME NEW n \in Nat, NEW f, NEW g, Different(g, n), TakenFrom(g, f, n)
  PROVE  TakenFrom(f, g, n)
<1> DEFINE S == 0 .. n - 1
           h == [i \in S |-> CHOOSE j \in S : g[i] = f[j]]
<1>1. \A i \in S : h[i] \in S /\ g[i] = f[h[i]]
  BY DEF TakenFrom
<1>2. h \in Injection(S, S)
  <2>1. h \in [S -> S]
    BY <1>1
  <2>2. \A a, b \in S : h[a] = h[b] => a = b
    BY <1>1 DEF Different
  <2> QED BY <2>1, <2>2 DEF Injection, IsInjective
<1>3. IsFiniteSet(S)
  BY FS_Interval
<1> HIDE DEF h, S
<1>4. h \in Surjection(S, S)
  BY <1>2, <1>3, FS_Injection
<1>5. ASSUME NEW j \in S PROVE \E i \in S : f[j] = g[i]
  <2>1. PICK i \in S : h[i] = j
    BY <1>4 DEF Surjection
  <2> QED BY <1>1, <2>1
<1> QED BY <1>5 DEF S, TakenFrom

\* The messages that the publisher sent in a slot are different.
LEMMA JoinedSlot ==
  ASSUME TypeInv, EndpointsAgree, Joins, NEW k \in SlotsOf(Publisher),
         \A i \in 0 .. MessageCount[Publisher] - 1 :
           results[Publisher][k][i] = <<k \div Runs[Publisher], WarmupRuns[Publisher] + (k % Runs[Publisher]), i>>
  PROVE  Measured(Subscriber, k) = Measured(Publisher, k)
<1> DEFINE m == MessageCount[Publisher]
           own == results[Publisher][k]
           seen == results[Subscriber][k]
<1>1. m \in Nat /\ MessageCount[Subscriber] = m /\ SlotsOf(Subscriber) = SlotsOf(Publisher)
  BY ConfigAssumption DEF EndpointsAgree, SlotsOf
<1>2. DOMAIN own = 0 .. m - 1 /\ DOMAIN seen = 0 .. m - 1 /\ k \in DOMAIN results[Publisher]
  BY <1>1 DEF TypeInv, TypeOver, TableType
<1>3. Different(own, m)
  BY DEF Different
<1>4. Measured(Publisher, k) = {own[i] : i \in 0 .. m - 1} /\ Measured(Subscriber, k) = {seen[i] : i \in 0 .. m - 1}
  BY <1>2 DEF Measured
<1>5. Measured(Publisher, k) \subseteq Measured(Subscriber, k)
  BY <1>2 DEF Joins
<1> HIDE DEF own, seen, m
<1>6. TakenFrom(own, seen, m)
  BY <1>4, <1>5 DEF TakenFrom
<1>7. TakenFrom(seen, own, m)
  BY <1>1, <1>3, <1>6, EveryValueIsTaken
<1> QED BY <1>4, <1>5, <1>7 DEF TakenFrom

\* The rows of a slot are known by the messages measured in it.
LEMMA SlotRows ==
  ASSUME NEW e \in Endpoint, NEW n
  PROVE  CsvRows(results[e], n) =
           UNION {{[payload |-> k \div n, repetition |-> (k % n) + 1, id |-> id] : id \in Measured(e, k)}
                    : k \in DOMAIN results[e]}
<1> DEFINE rows(k) == {CsvRow(results[e], n, k, i) : i \in DOMAIN results[e][k]}
           named(k) == {[payload |-> k \div n, repetition |-> (k % n) + 1, id |-> id] : id \in Measured(e, k)}
<1>1. ASSUME NEW k PROVE rows(k) = named(k)
  BY DEF CsvRow, Measured
<1>2. CsvRows(results[e], n) = UNION {rows(k) : k \in DOMAIN results[e]}
  BY DEF CsvRows
<1> HIDE DEF rows, named
<1>3. CsvRows(results[e], n) = UNION {named(k) : k \in DOMAIN results[e]}
  BY <1>1, <1>2
<1> QED BY <1>3 DEF named

LEMMA JoinedIsComplete ==
  ASSUME RerunInv, EndpointsAgree
  PROVE  ReportedRerunIsComplete
<1> SUFFICES ASSUME Joins, orch = "succeeded"
             PROVE  \A e \in Endpoint : csv[e] /\ cycles[e] = SlotsOf(e) /\ RowsComplete(e)
  BY DEF ReportedRerunIsComplete, SuccessIsComplete
<1>1. \A e \in Endpoint : csv[e] /\ cycles[e] = SlotsOf(e)
  BY FinishedCycles DEF RerunInv
<1>2. /\ RowsComplete(Publisher)
      /\ \A k \in SlotsOf(Publisher), i \in 0 .. MessageCount[Publisher] - 1 : results[Publisher][k][i] =
           <<k \div Runs[Publisher], WarmupRuns[Publisher] + (k % Runs[Publisher]), i>>
  BY FinishedCycles, FinishedRows DEF RerunInv
<1>3. \A k \in SlotsOf(Publisher) : Measured(Subscriber, k) = Measured(Publisher, k)
  BY <1>2, JoinedSlot DEF RerunInv
<1>4. /\ DOMAIN results[Publisher] = SlotsOf(Publisher) /\ DOMAIN results[Subscriber] = SlotsOf(Publisher)
      /\ Runs[Subscriber] = Runs[Publisher] /\ WarmupRuns[Subscriber] = WarmupRuns[Publisher]
  BY DEF RerunInv, TypeInv, TypeOver, TableType, EndpointsAgree, SlotsOf
<1>5. CsvRows(results[Subscriber], Runs[Publisher]) = CsvRows(results[Publisher], Runs[Publisher])
  <2> DEFINE n == Runs[Publisher]
             named(e, k) == {[payload |-> k \div n, repetition |-> (k % n) + 1, id |-> id] : id \in Measured(e, k)}
  <2>1. \A e \in Endpoint : CsvRows(results[e], n) = UNION {named(e, k) : k \in SlotsOf(Publisher)}
    BY <1>4, SlotRows
  <2>2. \A k \in SlotsOf(Publisher) : named(Subscriber, k) = named(Publisher, k)
    BY <1>3
  <2> HIDE DEF named, n
  <2> QED BY <2>1, <2>2 DEF n
<1>6. RowsComplete(Subscriber)
  BY <1>2, <1>4, <1>5 DEF RowsComplete
<1> QED BY <1>1, <1>2, <1>6

\* Beside the publisher of a killed campaign, whatever fails in either and however
\* many messages the old one has left of its run: no row of the new subscriber's
\* file is the old campaign's, and if every message of the publisher is found in
\* it, as macro_latency_statistics demands, success means two complete files.
THEOREM RerunsMeasureThemselves ==
  ASSUME EndpointsAgree
  PROVE  RerunSpec => []RerunMeasuresItself
<1>1. RerunInit => RerunInv /\ OldInv
  <2> SUFFICES ASSUME RerunInit PROVE RerunInv /\ OldInv
    OBVIOUS
  <2>1. Init /\ OldInv
    BY OldInvInit DEF RerunInit
  <2>2. TypeInv /\ HandshakeInv /\ RecordInv
    BY <2>1, TypeInit, HandshakeInit, RecordInit
  <2>3. StartInv
    BY <2>1 DEF Init, StartInv
  <2> QED BY <2>1, <2>2, <2>3 DEF RerunInv, RecordInv
<1>2. (RerunInv /\ OldInv) /\ [RerunNext]_rerunVars => (RerunInv /\ OldInv)'
  <2> SUFFICES ASSUME RerunInv, OldInv, [RerunNext]_rerunVars PROVE (RerunInv /\ OldInv)'
    OBVIOUS
  <2>1. left \in Int
    BY RerunAssumption, ConfigAssumption DEF OldInv
  <2>2. RerunInv'
    BY <2>1, RerunInvStep
  <2>3. TypeInv /\ TypeInv' /\ StartInv
    BY <2>2 DEF RerunInv
  <2>4. OldInv'
    BY <2>3, OldInvStep
  <2> QED BY <2>2, <2>4
<1>3. RerunInv /\ OldInv => RerunMeasuresItself
  BY JoinedIsComplete DEF OldInv, RerunMeasuresItself
<1> QED BY <1>1, <1>2, <1>3, PTL DEF RerunSpec
====
