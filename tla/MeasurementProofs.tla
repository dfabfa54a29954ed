---- MODULE MeasurementProofs ----
(***************************************************************************)
(* Theorems of the three instruments: the cycle counter behind perf, the    *)
(* meter's window, and the throttle watch with the cooldown before it.      *)
(***************************************************************************)
EXTENDS PerfControl, EnergyCase, EnergyWindowInv, TLAPS, SequenceTheorems

(***************************************************************************)
(* PerfControl: NothingLeaks and KeepsCPUPromise, for every number of runs, *)
(* every amount of work and every set of faults.                            *)
(*                                                                         *)
(* The invariant says, for each place the benchmark can be in, which pipe   *)
(* ends are open, whether a child is unreaped, and what has passed through  *)
(* the pipes: perf counts from the moment the acknowledgement of "enable"   *)
(* can be read, and "disable" can be written only to a perf that lived, and *)
(* so counted, through all of the work.                                     *)
(***************************************************************************)

\* The places of the benchmark.
PerfSteps == {"idle", "openAck", "start", "created", "enableAck", "enabled", "disableAck",
              "interrupt", "wait", "abort", "abortWait", "failed"}

\* The pipe ends and the child of each place.
ResourceInv ==
  /\ at \in PerfSteps
  /\ at \in {"idle", "failed"} => fds = {}
  /\ at = "openAck" => fds = ControlPipe
  /\ at = "start" => fds = ControlPipe \union AckPipe
  /\ at \in {"created", "enableAck", "enabled", "disableAck", "interrupt", "wait", "abort"} =>
       fds = {"controlWriter", "ackReader"}
  /\ at = "abortWait" => fds = {"ackReader"}
  /\ at \in {"idle", "failed", "openAck", "start"} => child \in {"none", "reaped"}
  /\ at \notin {"idle", "failed", "openAck", "start"} => child \in {"running", "exited"}

\* The dialogue with perf, and its count.
CountInv ==
  /\ at \in {"idle", "openAck", "start", "created", "enabled"} => control = <<>> /\ acks = <<>>
  /\ at \in {"idle", "openAck", "start", "created"} => counting = FALSE
  /\ at = "created" => count = 0 /\ work = 0
  /\ at = "enableAck" =>
       /\ count = 0 /\ work = 0
       /\ control \in {<<>>, <<"enable">>}
       /\ acks # <<>> => control = <<>>
       /\ acks # <<>> /\ Head(acks) = "ack" /\ child = "running" => counting = TRUE
       /\ acks # <<>> => acks = <<"ack">> \/ acks = <<"no">>
  /\ at = "enabled" /\ child = "running" => counting = TRUE /\ count = work
  /\ at = "disableAck" =>
       /\ control \in {<<>>, <<"disable">>}
       /\ acks # <<>> => control = <<>>
       /\ acks # <<>> => acks = <<"ack">> \/ acks = <<"no">>
  /\ at \in {"disableAck", "interrupt", "wait"} => count = work
  /\ child # "running" => counting = FALSE
  /\ work \in Nat /\ count \in Nat

\* When an error is on its way, and how many runs there have been.
RunInv ==
  /\ errored \in BOOLEAN
  /\ errored = TRUE => at \in {"abort", "abortWait", "failed"}
  /\ at \in {"abort", "abortWait"} => errored = TRUE
  /\ cycles \in Seq(Nat)
  /\ at \in {"openAck", "start"} => Len(cycles) < MaxRuns

PInv == ResourceInv /\ CountInv /\ RunInv

\* Pipes hold one item at most.
LEMMA OneItem ==
  ASSUME NEW c
  PROVE  Append(<<>>, c) = <<c>> /\ Tail(<<c>>) = <<>> /\ Head(<<c>>) = c /\ <<c>> # <<>>
OBVIOUS

LEMMA PInvInit == PerfInit => PInv
<1> SUFFICES ASSUME PerfInit PROVE PInv
  OBVIOUS
<1>1. ResourceInv
  BY DEF PerfInit, ResourceInv, PerfSteps
<1>2. CountInv
  BY DEF PerfInit, CountInv
<1>3. RunInv
  BY EmptySeq DEF PerfInit, RunInv
<1> QED BY <1>1, <1>2, <1>3 DEF PInv

\* A run is set up.
LEMMA OpenSteps ==
  ASSUME PInv, OpenControlPipe \/ OpenAckPipe \/ StartPerf
  PROVE  PInv'
<1> USE DEF PInv, ResourceInv, CountInv, RunInv, PerfSteps, Goto, MainFrame, childVars, ControlPipe, AckPipe
<1>1. CASE OpenControlPipe
  BY <1>1 DEF OpenControlPipe
<1>2. CASE OpenAckPipe
  BY <1>2 DEF OpenAckPipe
<1>3. CASE StartPerf
  <2>1. /\ at = "start" /\ UNCHANGED <<cycles, errored, control, acks, counting>>
        /\ \/ /\ at' = "created" /\ fds' = fds \ {"controlReader", "ackWriter"} /\ child' = "running"
              /\ count' = 0 /\ work' = 0
           \/ /\ at' = "failed" /\ fds' = fds \ (ControlPipe \union AckPipe)
              /\ UNCHANGED <<child, count, work>>
    BY <1>3 DEF StartPerf
  <2>2. ResourceInv'
    BY <2>1
  <2>3. CountInv'
    BY <2>1
  <2>4. RunInv'
    BY <2>1
  <2> QED BY <2>2, <2>3, <2>4
<1> QED BY <1>1, <1>2, <1>3

\* A command is written; it fails when perf is gone.
LEMMA WriteSteps ==
  ASSUME PInv, WriteEnable \/ WriteDisable
  PROVE  PInv'
<1> USE DEF PInv, ResourceInv, CountInv, RunInv, PerfSteps, Goto, childVars, WriteControl, ReaderThere
<1>1. CASE WriteEnable
  <2>1. /\ at = "created" /\ UNCHANGED <<work, cycles, fds, acks, child, counting, count>>
        /\ \/ child = "running" /\ control' = Append(control, "enable") /\ at' = "enableAck" /\ errored' = errored
           \/ at' = "abort" /\ errored' = TRUE
    BY <1>1 DEF WriteEnable
  <2>2. at' = "enableAck" => control' = <<"enable">> /\ acks' = <<>>
    BY <2>1, OneItem
  <2>3. ResourceInv'
    BY <2>1, <2>2
  <2>4. CountInv'
    BY <2>1, <2>2
  <2>5. RunInv'
    BY <2>1, <2>2
  <2> QED BY <2>3, <2>4, <2>5
<1>2. CASE WriteDisable
  <2>1. /\ at = "enabled" /\ UNCHANGED <<work, cycles, fds, acks, child, counting, count>>
        /\ \/ child = "running" /\ control' = Append(control, "disable") /\ at' = "disableAck" /\ errored' = errored
           \/ at' = "abort" /\ errored' = TRUE
    BY <1>2 DEF WriteDisable
  <2>2. at' = "disableAck" => control' = <<"disable">> /\ acks' = <<>>
    BY <2>1, OneItem
  <2>3. ResourceInv'
    BY <2>1, <2>2
  <2>4. CountInv'
    BY <2>1, <2>2
  <2>5. RunInv'
    BY <2>1, <2>2
  <2> QED BY <2>3, <2>4, <2>5
<1> QED BY <1>1, <1>2

\* An answer is read, or the end of the pipe.
LEMMA ReadSteps ==
  ASSUME PInv, ReadEnableAck \/ ReadDisableAck
  PROVE  PInv'
<1> USE DEF PInv, ResourceInv, CountInv, RunInv, PerfSteps, Goto, childVars, ReadAck, WriterThere
<1>1. CASE ReadEnableAck
  <2>1. /\ at = "enableAck" /\ UNCHANGED <<work, cycles, fds, control, child, counting, count>>
        /\ \/ /\ acks # <<>> /\ Head(acks) = "ack" /\ acks' = Tail(acks)
              /\ at' = "enabled" /\ errored' = errored
           \/ at' = "abort" /\ errored' = TRUE
    BY <1>1 DEF ReadEnableAck
  <2>2. at' = "enabled" => acks' = <<>> /\ control' = <<>>
    BY <2>1, OneItem
  <2>3. ResourceInv'
    BY <2>1, <2>2
  <2>4. CountInv'
    BY <2>1, <2>2
  <2>5. RunInv'
    BY <2>1, <2>2
  <2> QED BY <2>3, <2>4, <2>5
<1>2. CASE ReadDisableAck
  <2>1. /\ at = "disableAck" /\ UNCHANGED <<work, cycles, fds, control, child, counting, count>>
        /\ \/ at' = "interrupt" /\ errored' = errored
           \/ at' = "abort" /\ errored' = TRUE
    BY <1>2 DEF ReadDisableAck
  <2>2. ResourceInv'
    BY <2>1
  <2>3. CountInv'
    BY <2>1
  <2>4. RunInv'
    BY <2>1
  <2> QED BY <2>2, <2>3, <2>4
<1> QED BY <1>1, <1>2

\* The benchmark works or fails.
LEMMA BenchmarkSteps ==
  ASSUME PInv, Work \/ BenchmarkFails
  PROVE  PInv'
<1> USE DEF PInv, ResourceInv, CountInv, RunInv, PerfSteps, Goto, pipeVars, childVars
<1>1. CASE Work
  BY <1>1 DEF Work
<1>2. CASE BenchmarkFails
  BY <1>2 DEF BenchmarkFails
<1> QED BY <1>1, <1>2

\* perf is interrupted or killed, waited for, and the pipes are closed.
LEMMA EndSteps ==
  ASSUME PInv, InterruptPerf \/ WaitPerf \/ AbortKill \/ AbortWait
  PROVE  PInv'
<1> USE DEF PInv, ResourceInv, CountInv, RunInv, PerfSteps, Goto, MainFrame, pipeVars
<1>1. CASE InterruptPerf
  BY <1>1 DEF InterruptPerf
<1>2. CASE WaitPerf
  <2>1. cycles' \in Seq(Nat)
    BY <1>2, AppendProperties DEF WaitPerf
  <2> QED BY <1>2, <2>1 DEF WaitPerf
<1>3. CASE AbortKill
  BY <1>3 DEF AbortKill
<1>4. CASE AbortWait
  BY <1>4 DEF AbortWait
<1> QED BY <1>1, <1>2, <1>3, <1>4

\* perf moves in a run only.
LEMMA PerfMoves ==
  ASSUME PInv, Perf \/ PerfExits
  PROVE  PInv'
<1> USE DEF PInv, ResourceInv, CountInv, RunInv, PerfSteps, mainVars, pipeVars, Dies
<1>1. CASE PerfObeys
  <2>1. /\ child = "running" /\ control # <<>> /\ control' = Tail(control)
        /\ \/ acks' = Append(acks, "ack") /\ counting' = (Head(control) = "enable")
           \/ acks' = Append(acks, "no") /\ counting' = counting
        /\ UNCHANGED <<at, errored, work, cycles, fds, child, count>>
    BY <1>1 DEF PerfObeys
  <2>2. CASE at \in {"enableAck", "disableAck"}
    <3>1. acks = <<>> /\ control \in {<<"enable">>, <<"disable">>}
             /\ (at = "enableAck" => control = <<"enable">>)
      BY <2>1, <2>2
    <3>2. control' = <<>> /\ (acks' = <<"ack">> \/ acks' = <<"no">>)
      BY <2>1, <3>1, OneItem
    <3>3. at = "enableAck" /\ acks' = <<"ack">> => counting' = TRUE
      <4>1. <<"ack">> # <<"no">> /\ Append(acks, "no") = <<"no">> /\ Append(acks, "ack") = <<"ack">>
        BY <3>1
      <4> QED BY <2>1, <3>1, <4>1, OneItem
    <3> QED BY <2>1, <2>2, <3>2, <3>3, OneItem
  <2>3. CASE at \notin {"enableAck", "disableAck"}
    BY <2>1, <2>3
  <2> QED BY <2>2, <2>3
<1>2. CASE PerfInterrupted
  BY <1>2 DEF PerfInterrupted
<1>3. CASE PerfKilled
  BY <1>3 DEF PerfKilled
<1>4. CASE PerfExits
  BY <1>4 DEF PerfExits
<1> QED BY <1>1, <1>2, <1>3, <1>4 DEF Perf

LEMMA PInvStep ==
  ASSUME PInv, [PerfNext]_perfVars
  PROVE  PInv'
<1>1. CASE UNCHANGED perfVars
  BY <1>1 DEF perfVars, mainVars, pipeVars, childVars, PInv, ResourceInv, CountInv, RunInv
<1> QED
  BY <1>1, OpenSteps, WriteSteps, ReadSteps, BenchmarkSteps, EndSteps, PerfMoves DEF PerfNext, Main

LEMMA PInvariance == PerfSpec => []PInv
BY PInvInit, PInvStep, PTL DEF PerfSpec

\* No perf process and no pipe end outlives the run that opened it, whatever
\* fails in NewCPUPerf, Enable, the benchmark, Stop or Abort.
THEOREM PerfNeverLeaks == PerfSpec => []NothingLeaks
<1>1. PInv => NothingLeaks
  BY DEF PInv, ResourceInv, NothingLeaks
<1> QED BY <1>1, PInvariance, PTL

\* perf behind its pipes implements the interface CPU: the cycles that Stop
\* returns are those of all the work of the run and of nothing else.
THEOREM PerfKeepsCPUPromise == PerfSpec => KeepsCPUPromise
<1> DEFINE counter == IF errored \/ at \in {"idle", "openAck", "start", "failed"} THEN "none"
                      ELSE IF at \in {"created", "enableAck"} THEN "created"
                      ELSE "enabled"
           failed == errored \/ at = "failed"
<1>1. PerfInit => Counter!Init
  BY DEF PerfInit, Counter!Init
<1>2. ASSUME PInv, [PerfNext]_perfVars PROVE [Counter!Next]_(Counter!counterVars)
  <2> USE DEF PInv, ResourceInv, CountInv, RunInv, PerfSteps, Goto, MainFrame
  <2>1. CASE OpenControlPipe \/ OpenAckPipe
    BY <1>2, <2>1 DEF OpenControlPipe, OpenAckPipe, Counter!counterVars, Counter!Next, Counter!Fail
  <2>2. CASE StartPerf
    BY <1>2, <2>2 DEF StartPerf, Counter!counterVars, Counter!Next, Counter!Fail, Counter!New
  <2>3. CASE WriteEnable \/ WriteDisable
    BY <1>2, <2>3 DEF WriteEnable, WriteDisable, WriteControl, Counter!counterVars, Counter!Next, Counter!Fail
  <2>4. CASE ReadEnableAck \/ ReadDisableAck
    BY <1>2, <2>4 DEF ReadEnableAck, ReadDisableAck, ReadAck, Counter!counterVars, Counter!Next, Counter!Fail,
       Counter!Enable
  <2>5. CASE Work
    BY <1>2, <2>5 DEF Work, Counter!counterVars, Counter!Next, Counter!Work
  <2>6. CASE BenchmarkFails
    BY <1>2, <2>6 DEF BenchmarkFails, Counter!counterVars, Counter!Next, Counter!Fail
  <2>7. CASE InterruptPerf \/ AbortKill \/ AbortWait
    BY <1>2, <2>7 DEF InterruptPerf, AbortKill, AbortWait, Counter!counterVars
  <2>8. CASE WaitPerf
    BY <1>2, <2>8 DEF WaitPerf, Counter!counterVars, Counter!Next, Counter!Fail, Counter!Stop
  <2>9. CASE Perf \/ PerfExits
    <3>1. UNCHANGED <<at, errored, work, cycles>>
      BY <2>9 DEF Perf, PerfExits, PerfObeys, PerfInterrupted, PerfKilled, mainVars
    <3> QED BY <3>1 DEF Counter!counterVars
  <2>10. CASE UNCHANGED perfVars
    BY <2>10 DEF perfVars, mainVars, Counter!counterVars
  <2> QED BY <1>2, <2>1, <2>2, <2>3, <2>4, <2>5, <2>6, <2>7, <2>8, <2>9, <2>10 DEF PerfNext, Main
<1> QED BY <1>1, <1>2, PInvariance, PTL DEF PerfSpec, KeepsCPUPromise, Counter!Spec

----------------------------------------------------------------------------
(***************************************************************************)
(* EnergyWindow and EnergyCase.  That the rows of energy.csv are of the     *)
(* loop follows from the durations alone, for every RUNS and every          *)
(* duration, as long as start-up and late sleeps are within them.           *)
(* The steps of EnergyCase are steps of EnergyWindow, so the rows are of    *)
(* the loop with the cooldown in between as well; and the heat is what the  *)
(* rows and the wait say, for every threshold, timeout and number of        *)
(* repetitions.                                                             *)
(***************************************************************************)

USE EnergyWindowAssumption

LEMMA DurationIsNat == Duration \in Nat
BY DEF Duration

LEMMA InitTypeOK == Init => TypeOK
BY DEF Init, TypeOK, Times, Sample

\* The answer's reading is a Sample.
LEMMA ReadingIsSample ==
  ASSUME TypeOK PROVE [asked |-> asked, answered |-> now] \in Sample
BY DEF TypeOK, Sample

\* What WaitReturns appends to energy.csv are rows.
LEMMA NewRowsAreRows ==
  ASSUME TypeOK
  PROVE {[sample |-> s, loop |-> loop] : s \in samples} \in SUBSET [sample : Sample, loop : Times]
<1>1. ASSUME NEW s \in samples PROVE [sample |-> s, loop |-> loop] \in [sample : Sample, loop : Times]
  BY <1>1 DEF TypeOK
<1>2. QED BY <1>1

LEMMA TypeStep == TypeOK /\ [Next]_vars => TypeOK'
<1> SUFFICES ASSUME TypeOK, [Next]_vars PROVE TypeOK'
  OBVIOUS
<1>0. CASE CooldownRaises BY <1>0 DEF TypeOK, CooldownRaises, watch, program
<1>1. CASE Launch BY <1>1 DEF TypeOK, Launch, Times
<1>2. CASE OpenWindow BY <1>2 DEF TypeOK, OpenWindow, program
<1>3. CASE Answer
  <2>1. samples' \in SUBSET Sample BY <1>3, ReadingIsSample DEF TypeOK, Answer
  <2>2. asked' \in Nat /\ laptop' \in {"Reading", "Waiting"} BY <1>3 DEF TypeOK, Answer
  <2>3. UNCHANGED <<now, run, start, meter, device, loop, rows>> BY <1>3 DEF Answer, program
  <2>4. QED BY <2>1, <2>2, <2>3 DEF TypeOK
<1>4. CASE MeterDies BY <1>4 DEF TypeOK, MeterDies, watch, program
<1>5. CASE Timeout BY <1>5 DEF TypeOK, Timeout, watch, program
<1>6. CASE WaitReturns
  <2>1. rows' \in SUBSET [sample : Sample, loop : Times]
    BY <1>6, NewRowsAreRows DEF TypeOK, WaitReturns
  <2>2. run' \in 1..Runs /\ laptop' \in {"Cool", "Done"} BY <1>6 DEF TypeOK, WaitReturns
  <2>3. UNCHANGED <<now, start, asked, samples, meter, device, loop>>
    BY <1>6 DEF WaitReturns, watch, program
  <2>4. QED BY <2>1, <2>2, <2>3 DEF TypeOK
<1>7. CASE WaitRaises BY <1>7 DEF TypeOK, WaitRaises, watch, program
<1>8. CASE BeginLoop BY <1>8 DEF TypeOK, BeginLoop, watch, Times
<1>9. CASE EndLoop BY <1>9 DEF TypeOK, EndLoop, watch, Times
<1>10. CASE Fail BY <1>10 DEF TypeOK, Fail, watch, Times
<1>11. CASE Tick BY <1>11 DEF TypeOK, Tick, watch, program
<1>12. CASE UNCHANGED vars BY <1>12 DEF TypeOK, vars, watch, program
<1>13. QED
  BY <1>0, <1>1, <1>2, <1>3, <1>4, <1>5, <1>6, <1>7, <1>8, <1>9, <1>10, <1>11, <1>12 DEF Next

\* The variables keep their types: the run among RUNS and every time a natural number.
THEOREM TypeCorrect == Spec => []TypeOK
<1>1. QED BY InitTypeOK, TypeStep, PTL DEF Spec

LEMMA InitIInv == Init => IInv
BY InitTypeOK DEF Init, IInv, OnTime, LoopKnown, WindowKnown, Active, RowsAreOfTheLoop

LEMMA OnTimeStep == TypeOK /\ OnTime /\ [Next]_vars => OnTime'
<1> SUFFICES ASSUME TypeOK, OnTime, [Next]_vars PROVE OnTime'
  OBVIOUS
<1> USE DEF TypeOK, OnTime
<1>0. CASE CooldownRaises BY <1>0 DEF CooldownRaises, watch, program
<1>1. CASE Launch BY <1>1 DEF Launch
<1>2. CASE OpenWindow BY <1>2 DEF OpenWindow, program
<1>3. CASE Answer BY <1>3 DEF Answer, program
<1>4. CASE MeterDies BY <1>4 DEF MeterDies, watch, program
<1>5. CASE Timeout BY <1>5 DEF Timeout, watch, program
<1>6. CASE WaitReturns BY <1>6 DEF WaitReturns, watch, program
<1>7. CASE WaitRaises BY <1>7 DEF WaitRaises, watch, program
<1>8. CASE BeginLoop BY <1>8 DEF BeginLoop, watch
<1>9. CASE EndLoop BY <1>9 DEF EndLoop, watch
<1>10. CASE Fail BY <1>10 DEF Fail, watch
<1>11. CASE Tick BY <1>11 DEF Tick, Overdue, watch, program
<1>12. CASE UNCHANGED vars BY <1>12 DEF vars, watch, program
<1>13. QED
  BY <1>0, <1>1, <1>2, <1>3, <1>4, <1>5, <1>6, <1>7, <1>8, <1>9, <1>10, <1>11, <1>12 DEF Next

LEMMA LoopKnownStep == TypeOK /\ OnTime /\ LoopKnown /\ [Next]_vars => LoopKnown'
<1> SUFFICES ASSUME TypeOK, OnTime, LoopKnown, [Next]_vars PROVE LoopKnown'
  OBVIOUS
<1> USE DurationIsNat DEF TypeOK, OnTime, LoopKnown, Active, Times
<1>0. CASE CooldownRaises BY <1>0 DEF CooldownRaises, watch, program
<1>1. CASE Launch BY <1>1 DEF Launch
<1>2. CASE OpenWindow BY <1>2 DEF OpenWindow, program
<1>3. CASE Answer BY <1>3 DEF Answer, program
<1>4. CASE MeterDies BY <1>4 DEF MeterDies, watch, program
<1>5. CASE Timeout BY <1>5 DEF Timeout, watch, program
<1>6. CASE WaitReturns BY <1>6 DEF WaitReturns, watch, program
<1>7. CASE WaitRaises BY <1>7 DEF WaitRaises, watch, program
<1>8. CASE BeginLoop BY <1>8 DEF BeginLoop, watch
<1>9. CASE EndLoop BY <1>9 DEF EndLoop, watch
<1>10. CASE Fail BY <1>10 DEF Fail, watch
<1>11. CASE Tick BY <1>11 DEF Tick, watch, program
<1>12. CASE UNCHANGED vars BY <1>12 DEF vars, watch, program
<1>13. QED
  BY <1>0, <1>1, <1>2, <1>3, <1>4, <1>5, <1>6, <1>7, <1>8, <1>9, <1>10, <1>11, <1>12 DEF Next
LEMMA WindowKnownStep == TypeOK /\ OnTime /\ WindowKnown /\ [Next]_vars => WindowKnown'
<1> SUFFICES ASSUME TypeOK, OnTime, WindowKnown, [Next]_vars PROVE WindowKnown'
  OBVIOUS
<1> USE DEF TypeOK, OnTime, WindowKnown
<1>0. CASE CooldownRaises BY <1>0 DEF CooldownRaises, watch, program
<1>1. CASE Launch BY <1>1 DEF Launch
<1>2. CASE OpenWindow BY <1>2 DEF OpenWindow, program
<1>3. CASE Answer
  <2>1. start <= asked' BY <1>3 DEF Answer
  <2>2. \A s \in samples' : start <= s.asked /\ s.answered < start + MeasurementDuration
    BY <1>3 DEF Answer, Sample
  <2>3. laptop' \in {"Reading", "Waiting"} /\ start' = start /\ laptop = "Reading"
    BY <1>3 DEF Answer
  <2>4. QED BY <2>1, <2>2, <2>3
<1>4. CASE MeterDies BY <1>4 DEF MeterDies, watch, program
<1>5. CASE Timeout BY <1>5 DEF Timeout, watch, program
<1>6. CASE WaitReturns BY <1>6 DEF WaitReturns, watch, program
<1>7. CASE WaitRaises BY <1>7 DEF WaitRaises, watch, program
<1>8. CASE BeginLoop BY <1>8 DEF BeginLoop, watch
<1>9. CASE EndLoop BY <1>9 DEF EndLoop, watch
<1>10. CASE Fail BY <1>10 DEF Fail, watch
<1>11. CASE Tick BY <1>11 DEF Tick, watch, program
<1>12. CASE UNCHANGED vars BY <1>12 DEF vars, watch, program
<1>13. QED
  BY <1>0, <1>1, <1>2, <1>3, <1>4, <1>5, <1>6, <1>7, <1>8, <1>9, <1>10, <1>11, <1>12 DEF Next

\* The argument of the design: the window opens after the start-up and ends before the
\* deadline, so what the laptop writes when the program ended well is of the loop.
LEMMA NewRowsAreOfTheLoop ==
  ASSUME Timely, TypeOK, LoopKnown, WindowKnown, laptop = "Waiting", device = "Ended",
         NEW s \in samples
  PROVE  /\ loop.from <= s.asked /\ s.answered <= loop.to
         /\ loop.to - loop.from >= Duration
<1>1. /\ start \in Nat /\ s.asked \in Nat /\ s.answered \in Nat
      /\ loop.from \in Nat /\ loop.to \in Nat
  BY DEF TypeOK, Sample, Times
<1>2. loop.from <= MaxStartup /\ loop.to >= loop.from + Duration BY DEF LoopKnown
<1>3. WarmupDuration <= start /\ start <= WarmupDuration + MaxLate BY DEF WindowKnown
<1>4. start <= s.asked /\ s.answered < start + MeasurementDuration BY DEF WindowKnown
<1>5. QED BY <1>1, <1>2, <1>3, <1>4 DEF Timely, Duration

LEMMA RowsStep ==
  ASSUME Timely, TypeOK, LoopKnown, WindowKnown, RowsAreOfTheLoop, [Next]_vars
  PROVE  RowsAreOfTheLoop'
<1>1. CASE WaitReturns
  <2>1. laptop = "Waiting" /\ device = "Ended" BY <1>1 DEF WaitReturns
  <2>2. rows' = rows \cup {[sample |-> s, loop |-> loop] : s \in samples}
    BY <1>1 DEF WaitReturns
  <2>3. QED BY <2>1, <2>2, NewRowsAreOfTheLoop DEF RowsAreOfTheLoop
<1>2. CASE ~WaitReturns
  <2>1. rows' = rows
    BY <1>2 DEF Next, vars, CooldownRaises, Launch, OpenWindow, Answer, MeterDies, Timeout, WaitRaises,
       BeginLoop, EndLoop, Fail, Tick
  <2>2. QED BY <2>1 DEF RowsAreOfTheLoop
<1>3. QED BY <1>1, <1>2

\* Every row of energy.csv is a reading asked for and answered in the loop of its own
\* program, which ran to its deadline, whatever the durations, if they are Timely.
THEOREM RowsAreMeasured == ASSUME Timely PROVE Spec => []RowsAreOfTheLoop
<1>1. IInv /\ [Next]_vars => IInv'
  BY TypeStep, OnTimeStep, LoopKnownStep, WindowKnownStep, RowsStep DEF IInv
<1>2. IInv => RowsAreOfTheLoop BY DEF IInv
<1>3. QED BY InitIInv, <1>1, <1>2, PTL DEF Spec

----------------------------------------------------------------------------
(* The case: the window, the cooldown before it and the heat *)

LEMMA StepIsAWindowStep == [CaseNext]_caseVars => [Next]_vars
<1> SUFFICES ASSUME [CaseNext]_caseVars PROVE [Next]_vars
  OBVIOUS
<1>1. CASE CoolsDown BY <1>1 DEF CoolsDown
<1>2. CASE Launches BY <1>2 DEF Launches, Next
<1>3. CASE WatchBegins BY <1>3 DEF WatchBegins
<1>4. CASE WatchEnds BY <1>4 DEF WatchEnds
<1>5. CASE LoopBegins BY <1>5 DEF LoopBegins, Next
<1>6. CASE LoopEnds BY <1>6 DEF LoopEnds, Next
<1>7. CASE Fails BY <1>7 DEF Fails, Next
<1>8. CASE Writes BY <1>8 DEF Writes, Next
<1>9. CASE Waits BY <1>9 DEF Waits, Next
<1>10. CASE FirmwareActs BY <1>10 DEF FirmwareActs
<1>11. CASE UNCHANGED caseVars BY <1>11 DEF caseVars
<1>12. QED
  BY <1>1, <1>2, <1>3, <1>4, <1>5, <1>6, <1>7, <1>8, <1>9, <1>10, <1>11
  DEF CaseNext, CaseStep

\* The rows of a case that cools down before each repetition are readings of their own
\* program's loop, whatever the durations, if they are Timely (run_energy_case).
THEOREM CaseRowsAreMeasured == ASSUME Timely PROVE CaseSpec => []RowsAreOfTheLoop
<1>1. CaseInit => IInv BY InitIInv DEF CaseInit
<1>2. IInv /\ [CaseNext]_caseVars => IInv'
  BY StepIsAWindowStep, TypeStep, OnTimeStep, LoopKnownStep, WindowKnownStep, RowsStep DEF IInv
<1>3. IInv => RowsAreOfTheLoop BY DEF IInv
<1>4. QED BY <1>1, <1>2, <1>3, PTL DEF CaseSpec

----
\* Where the program is, for the laptop, for its seconds and for its heat.
StepsAgree ==
  /\ laptop = "Cool" => device \notin {"Starting", "Looping"}
  /\ device = "Starting" => step \in {"begin", "measure"}
  /\ device = "Looping" => step = "measure"

\* Steps of the heat that only the seconds or the firmware take.
LEMMA WaitsKeepProgram ==
  ASSUME Waits PROVE UNCHANGED <<device, heat, written>> /\ (laptop' = "Cool" => laptop = "Cool")
BY DEF Waits, program, CooldownRaises, OpenWindow, Answer, MeterDies, Timeout, WaitRaises, Tick

LEMMA StepsAgreeStep == StepsAgree /\ [CaseNext]_caseVars => StepsAgree'
<1> SUFFICES ASSUME StepsAgree, [CaseNext]_caseVars PROVE StepsAgree'
  OBVIOUS
<1> USE DEF StepsAgree
<1>1. CASE CoolsDown BY <1>1 DEF CoolsDown, vars, program
<1>2. CASE Launches BY <1>2 DEF Launches, Launch, heat
<1>3. CASE WatchBegins BY <1>3 DEF WatchBegins, T!Begin, vars, program
<1>4. CASE WatchEnds BY <1>4 DEF WatchEnds, vars, program
<1>5. CASE LoopBegins BY <1>5 DEF LoopBegins, BeginLoop, heat
<1>6. CASE LoopEnds BY <1>6 DEF LoopEnds, EndLoop, heat
<1>7. CASE Fails BY <1>7 DEF Fails, Fail
<1>8. CASE Writes BY <1>8 DEF Writes, WaitReturns, program
<1>9. CASE Waits BY <1>9, WaitsKeepProgram DEF heat
<1>10. CASE FirmwareActs BY <1>10 DEF FirmwareActs, T!LimitChanges, vars, program
<1>11. CASE UNCHANGED caseVars BY <1>11 DEF caseVars, vars, program, heat
<1>12. QED
  BY <1>1, <1>2, <1>3, <1>4, <1>5, <1>6, <1>7, <1>8, <1>9, <1>10, <1>11
  DEF CaseNext, CaseStep

\* A cool reading is not hot, and neither is one that failed.
LEMMA CoolIsNotHot ==
  ASSUME NEW r \in T!Readings, ~r.ok \/ T!IsCool(r) PROVE ~(r.ok /\ r.temp >= Threshold)
<1>1. CASE r = T!NoReading BY <1>1 DEF T!NoReading
<1>2. CASE r \in [ok : {TRUE}, temp : 0 .. MaxTemp]
  <2>1. r.temp \in Int BY <1>2, ThermalAssumption
  <2>2. Threshold \in Int BY ThermalAssumption
  <2>3. QED BY <2>1, <2>2 DEF T!IsCool
<1>3. QED BY <1>1, <1>2 DEF T!Readings

\* The wait ends cool, unread or at its timeout.
LEMMA WaitEndsCool ==
  ASSUME HotOnlyAfterTheTimeout, T!WaitForCooldown PROVE HotOnlyAfterTheTimeout'
<1> USE DEF HotOnlyAfterTheTimeout
<1>1. CASE T!FirstReading BY <1>1, CoolIsNotHot DEF T!FirstReading
<1>2. CASE T!Poll BY <1>2, CoolIsNotHot DEF T!Poll
<1>3. CASE T!TimesOut BY <1>3 DEF T!TimesOut, T!wait
<1>4. QED BY <1>1, <1>2, <1>3 DEF T!WaitForCooldown

LEMMA HotStep ==
  StepsAgree /\ HotOnlyAfterTheTimeout /\ [CaseNext]_caseVars => HotOnlyAfterTheTimeout'
<1> SUFFICES ASSUME StepsAgree, HotOnlyAfterTheTimeout, [CaseNext]_caseVars
             PROVE HotOnlyAfterTheTimeout'
  OBVIOUS
<1> USE DEF HotOnlyAfterTheTimeout
<1>1. CASE CoolsDown BY <1>1, WaitEndsCool DEF CoolsDown
<1>2. CASE Launches BY <1>2 DEF Launches, heat
<1>3. CASE WatchBegins BY <1>3 DEF WatchBegins, T!Begin, T!NoReading
<1>4. CASE WatchEnds BY <1>4 DEF WatchEnds, T!End, T!wait
<1>5. CASE LoopBegins BY <1>5 DEF LoopBegins, heat
<1>6. CASE LoopEnds BY <1>6 DEF LoopEnds, heat
<1>7. CASE Fails BY <1>7 DEF Fails, Fail, StepsAgree
<1>8. CASE Writes BY <1>8 DEF Writes, T!Restart, heat
<1>9. CASE Waits BY <1>9 DEF Waits, heat
<1>10. CASE FirmwareActs BY <1>10 DEF FirmwareActs, T!LimitChanges, T!wait
<1>11. CASE UNCHANGED caseVars BY <1>11 DEF caseVars, heat
<1>12. QED
  BY <1>1, <1>2, <1>3, <1>4, <1>5, <1>6, <1>7, <1>8, <1>9, <1>10, <1>11
  DEF CaseNext, CaseStep

\* No workload begins on a device whose sensor shows the threshold or more, unless the
\* whole timeout has been waited, for every threshold and timeout (WaitForCooldown).
THEOREM HotIsTimedOut == CaseSpec => []HotOnlyAfterTheTimeout
<1>1. CaseInit => StepsAgree /\ HotOnlyAfterTheTimeout
  BY DEF CaseInit, Init, T!Init, StepsAgree, HotOnlyAfterTheTimeout
<1>2. QED BY <1>1, StepsAgreeStep, HotStep, PTL DEF CaseSpec

----
\* The mark of a loop stands for a limit that was noted around it.
MarkIsNoted ==
  /\ step = "measure" /\ T!SoftLimit \in bits => TRUE \in limited
  /\ step = "measure" /\ T!Limit(word) => TRUE \in limited
  /\ throttled => step = "done" /\ TRUE \in limited

\* Index 3 of the padded and reversed digits is bit 3 of the word.
LEMMA BitsShowTheLimit == T!SoftLimit \in T!Bits => T!Limit(word)
BY DEF T!SoftLimit, T!Bits, T!Digit, T!Limit

\* A word that the firmware shows has been noted, whichever of its bits have changed.
LEMMA NotedIfLimited ==
  ASSUME NEW number, NEW S, T!Limit(number) PROVE TRUE \in S \cup {T!Limit(number)}
<1>1. T!Limit(number) = TRUE BY DEF T!Limit, T!IsOn
<1>2. QED BY <1>1

LEMMA MarkIsNotedStep ==
  StepsAgree /\ MarkIsNoted /\ [CaseNext]_caseVars => MarkIsNoted'
<1> SUFFICES ASSUME StepsAgree, MarkIsNoted, [CaseNext]_caseVars PROVE MarkIsNoted'
  OBVIOUS
<1> USE DEF MarkIsNoted
<1>1. CASE CoolsDown
  <2>1. step' # "measure" /\ UNCHANGED <<limited, throttled>> /\ step \in {"start", "wait"}
    BY <1>1 DEF CoolsDown, T!WaitForCooldown, T!FirstReading, T!Poll, T!TimesOut, T!marks
  <2>2. QED BY <2>1
<1>2. CASE Launches BY <1>2 DEF Launches, heat
<1>3. CASE WatchBegins
  <2>1. /\ step = "begin" /\ step' = "measure" /\ bits' \in {T!Bits, T!Unreadable}
        /\ limited' = {} \cup {T!Limit(word)} /\ UNCHANGED <<word, throttled>>
    BY <1>3 DEF WatchBegins, T!Begin, T!ReadBits
  <2>2. T!SoftLimit \notin T!Unreadable BY DEF T!SoftLimit, T!Unreadable
  <2>3. T!Limit(word) => TRUE \in limited' BY <2>1, NotedIfLimited
  <2>4. QED BY <2>1, <2>2, <2>3, BitsShowTheLimit
<1>4. CASE WatchEnds
  <2>1. PICK end \in T!ReadBits : throttled' = T!IsThrottled(bits, end)
    BY <1>4 DEF WatchEnds, T!End
  <2>2. step = "measure" /\ step' = "done" /\ UNCHANGED <<word, bits, limited>>
    BY <1>4 DEF WatchEnds, T!End
  <2>3. T!SoftLimit \in end => T!Limit(word)
    BY <2>1, BitsShowTheLimit DEF T!ReadBits, T!SoftLimit, T!Unreadable
  <2>4. throttled' => TRUE \in limited BY <2>1, <2>2, <2>3 DEF T!IsThrottled
  <2>5. QED BY <2>2, <2>4
<1>5. CASE LoopBegins BY <1>5 DEF LoopBegins, heat
<1>6. CASE LoopEnds BY <1>6 DEF LoopEnds, heat
<1>7. CASE Fails
  <2>1. step # "done" BY <1>7 DEF Fails, Fail, StepsAgree
  <2>2. QED BY <1>7, <2>1 DEF Fails
<1>8. CASE Writes BY <1>8 DEF Writes, T!Restart, heat
<1>9. CASE Waits BY <1>9 DEF Waits, heat
<1>10. CASE FirmwareActs
  <2>1. /\ step \in {"begin", "measure"} /\ UNCHANGED <<step, bits, throttled>>
        /\ step = "measure" => limited' = limited \cup {T!Limit(word')}
    BY <1>10 DEF FirmwareActs, T!LimitChanges
  <2>2. step = "measure" /\ T!Limit(word') => TRUE \in limited' BY <2>1, NotedIfLimited
  <2>3. QED BY <2>1, <2>2 DEF T!Limit
<1>11. CASE UNCHANGED caseVars BY <1>11 DEF caseVars, heat
<1>12. QED
  BY <1>1, <1>2, <1>3, <1>4, <1>5, <1>6, <1>7, <1>8, <1>9, <1>10, <1>11
  DEF CaseNext, CaseStep

LEMMA NoFalseMarkStep ==
  MarkIsNoted /\ NoFalseMark /\ [CaseNext]_caseVars => NoFalseMark'
<1> SUFFICES ASSUME MarkIsNoted, NoFalseMark, [CaseNext]_caseVars PROVE NoFalseMark'
  OBVIOUS
<1>1. CASE Writes
  <2> DEFINE row == [throttled |-> throttled, limited |-> limited, readable |-> readable]
  <2>1. written' = written \cup {row} BY <1>1 DEF Writes
  <2>2. row.throttled = throttled /\ row.limited = limited OBVIOUS
  <2>3. throttled => TRUE \in limited BY DEF MarkIsNoted
  <2>4. row.throttled => TRUE \in row.limited BY <2>2, <2>3, Zenon
  <2> HIDE DEF row
  <2>5. QED BY <2>1, <2>4 DEF NoFalseMark
<1>2. CASE ~Writes
  <2>1. UNCHANGED written
    BY <1>2 DEF CaseNext, CaseStep, CoolsDown, Launches, WatchBegins, LoopBegins, LoopEnds,
       WatchEnds, Fails, Waits, FirmwareActs, caseVars
  <2>2. QED BY <2>1 DEF NoFalseMark
<1>3. QED BY <1>1, <1>2

----
\* The word never leaves its twenty bits: a bit that comes was off, so nothing carries.
WordInRange == word \in Nat /\ word < 2 ^ 20

LEMMA BitComes ==
  ASSUME NEW w \in Nat, w < 2 ^ 20, NEW b \in 0 .. 3, ~T!IsOn(b, w)
  PROVE  w + 2 ^ b + (IF T!IsOn(b + T!Since, w) THEN 0 ELSE 2 ^ (b + T!Since)) < 2 ^ 20
<1>1. CASE b = 0 BY <1>1, SMT DEF T!IsOn, T!Since
<1>2. CASE b = 1 BY <1>2, SMT DEF T!IsOn, T!Since
<1>3. CASE b = 2 BY <1>3, SMT DEF T!IsOn, T!Since
<1>4. CASE b = 3 BY <1>4, SMT DEF T!IsOn, T!Since
<1>5. QED BY <1>1, <1>2, <1>3, <1>4, SMT

LEMMA BitGoes ==
  ASSUME NEW w \in Nat, w < 2 ^ 20, NEW b \in 0 .. 3, T!IsOn(b, w)
  PROVE  w - 2 ^ b \in Nat /\ w - 2 ^ b < 2 ^ 20
<1>1. CASE b = 0 BY <1>1, SMT DEF T!IsOn
<1>2. CASE b = 1 BY <1>2, SMT DEF T!IsOn
<1>3. CASE b = 2 BY <1>3, SMT DEF T!IsOn
<1>4. CASE b = 3 BY <1>4, SMT DEF T!IsOn
<1>5. QED BY <1>1, <1>2, <1>3, <1>4, SMT

LEMMA PowersAreNat ==
  ASSUME NEW b \in 0 .. 3 PROVE 2 ^ b \in Nat /\ 2 ^ (b + T!Since) \in Nat
<1>1. CASE b = 0 BY <1>1, SMT DEF T!Since
<1>2. CASE b = 1 BY <1>2, SMT DEF T!Since
<1>3. CASE b = 2 BY <1>3, SMT DEF T!Since
<1>4. CASE b = 3 BY <1>4, SMT DEF T!Since
<1>5. QED BY <1>1, <1>2, <1>3, <1>4, SMT

LEMMA WordInRangeStep == WordInRange /\ [CaseNext]_caseVars => WordInRange'
<1> SUFFICES ASSUME WordInRange, [CaseNext]_caseVars PROVE WordInRange'
  OBVIOUS
<1>1. CASE FirmwareActs
  <2>1. PICK b \in Live :
          word' = IF T!IsOn(b, word) THEN word - 2 ^ b
                  ELSE word + 2 ^ b
                       + IF T!IsOn(b + T!Since, word) THEN 0 ELSE 2 ^ (b + T!Since)
    BY <1>1 DEF FirmwareActs, T!LimitChanges
  <2>2. b \in 0 .. 3 BY ThermalAssumption
  <2>3. CASE T!IsOn(b, word) BY <2>1, <2>2, <2>3, BitGoes DEF WordInRange
  <2>4. CASE ~T!IsOn(b, word)
    <3> DEFINE since == IF T!IsOn(b + T!Since, word) THEN 0 ELSE 2 ^ (b + T!Since)
    <3>1. word' = word + 2 ^ b + since BY <2>1, <2>4
    <3>2. word + 2 ^ b + since < 2 ^ 20 BY <2>2, <2>4, BitComes DEF WordInRange
    <3>3. 2 ^ b \in Nat /\ since \in Nat BY <2>2, PowersAreNat
    <3> HIDE DEF since
    <3>4. word + 2 ^ b + since \in Nat BY <3>3 DEF WordInRange
    <3>5. QED BY <3>1, <3>2, <3>4 DEF WordInRange
  <2>5. QED BY <2>3, <2>4
<1>2. CASE ~FirmwareActs
  <2>1. UNCHANGED word
    BY <1>2 DEF CaseNext, CaseStep, CoolsDown, Launches, WatchBegins, LoopBegins, LoopEnds,
       WatchEnds, Fails, Writes, Waits, caseVars, heat, T!WaitForCooldown, T!FirstReading,
       T!Poll, T!TimesOut, T!Begin, T!End, T!Restart
  <2>2. QED BY <2>1 DEF WordInRange
<1>3. QED BY <1>1, <1>2

\* Bit 3 of the word is among the indices, however many digits the word is written with:
\* it is written with four or more, so the zeroes before them do not reach it.
LEMMA LimitIsShown ==
  ASSUME WordInRange, T!Limit(word) PROVE T!SoftLimit \in T!Bits
<1> DEFINE width == T!Width(word)
<1>1. T!IsOn(3, word) BY DEF T!Limit, T!SoftLimit
<1>2. word >= 2 ^ 3 BY <1>1, SMT DEF T!IsOn, WordInRange
<1>3. \E w \in 1 .. 20 : word < 2 ^ w /\ (w = 1 \/ word >= 2 ^ (w - 1))
  <2>1. \E w \in 1 .. 20 : word < 2 ^ w /\ word >= 2 ^ (w - 1)
    BY <1>2, SMT DEF WordInRange
  <2>2. QED BY <2>1
<1>4. width \in 1 .. 20 /\ word < 2 ^ width BY <1>3 DEF T!Width
<1> HIDE DEF width
<1>5. width >= 4
  <2>1. CASE width = 1 BY <1>2, <1>4, <2>1, SMT DEF WordInRange
  <2>2. CASE width = 2 BY <1>2, <1>4, <2>2, SMT DEF WordInRange
  <2>3. CASE width = 3 BY <1>2, <1>4, <2>3, SMT DEF WordInRange
  <2>4. QED BY <1>4, <2>1, <2>2, <2>3
<1>6. T!Digit(word, width, 20 - 3)
  <2>1. 20 - 3 > 20 - width BY <1>4, <1>5
  <2>2. 20 - (20 - 3) = 3 OBVIOUS
  <2>3. QED BY <1>1, <2>1, <2>2 DEF T!Digit
<1>7. QED BY <1>6 DEF T!SoftLimit, T!Bits, width

\* Bits that were read and do not show the limit stand for a moment without it.
MarkIsKept ==
  /\ step # "done" => ~readable
  /\ step = "measure" => bits = T!Unreadable \/ T!SoftLimit \in bits \/ FALSE \in limited
  /\ readable /\ limited = {TRUE} => throttled

LEMMA MarkIsKeptStep ==
  StepsAgree /\ WordInRange /\ MarkIsKept /\ [CaseNext]_caseVars => MarkIsKept'
<1> SUFFICES ASSUME StepsAgree, WordInRange, MarkIsKept, [CaseNext]_caseVars
             PROVE  MarkIsKept'
  OBVIOUS
<1> USE DEF MarkIsKept
<1>1. CASE CoolsDown
  <2>1. /\ step \in {"start", "wait"} /\ step' \in {"wait", "begin"}
        /\ UNCHANGED <<bits, readable, limited, throttled>>
    BY <1>1 DEF CoolsDown, T!WaitForCooldown, T!FirstReading, T!Poll, T!TimesOut, T!marks
  <2>2. QED BY <2>1
<1>2. CASE Launches BY <1>2 DEF Launches, heat
<1>3. CASE WatchBegins
  <2>1. /\ step = "begin" /\ step' = "measure" /\ bits' \in {T!Bits, T!Unreadable}
        /\ limited' = {T!Limit(word)} /\ UNCHANGED <<word, readable, throttled>>
    BY <1>3 DEF WatchBegins, T!Begin, T!ReadBits
  <2>2. CASE T!Limit(word)
    <3>1. T!SoftLimit \in T!Bits BY <2>2, LimitIsShown
    <3>2. QED BY <2>1, <3>1
  <2>3. CASE ~T!Limit(word)
    <3>1. T!Limit(word) = FALSE BY <2>3 DEF T!Limit, T!IsOn
    <3>2. FALSE \in limited' BY <2>1, <3>1
    <3>3. QED BY <2>1, <3>2
  <2>4. QED BY <2>2, <2>3
<1>4. CASE WatchEnds
  <2>1. PICK end \in T!ReadBits :
          /\ readable' = (T!Unreadable \notin {bits, end})
          /\ throttled' = T!IsThrottled(bits, end)
    BY <1>4 DEF WatchEnds, T!End
  <2>2. step = "measure" /\ step' = "done" /\ UNCHANGED <<bits, limited>>
    BY <1>4 DEF WatchEnds, T!End
  <2>3. readable' /\ limited' = {TRUE} => throttled'
    BY <2>1, <2>2 DEF T!IsThrottled
  <2>4. QED BY <2>2, <2>3
<1>5. CASE LoopBegins BY <1>5 DEF LoopBegins, heat
<1>6. CASE LoopEnds BY <1>6 DEF LoopEnds, heat
<1>7. CASE Fails
  <2>1. step # "done" BY <1>7 DEF Fails, Fail, StepsAgree
  <2>2. QED BY <1>7, <2>1 DEF Fails
<1>8. CASE Writes BY <1>8 DEF Writes, T!Restart, heat
<1>9. CASE Waits BY <1>9 DEF Waits, heat
<1>10. CASE FirmwareActs
  <2>1. /\ step \in {"begin", "measure"} /\ UNCHANGED <<step, bits, readable, throttled>>
        /\ limited \subseteq limited'
    BY <1>10 DEF FirmwareActs, T!LimitChanges
  <2>2. QED BY <2>1
<1>11. CASE UNCHANGED caseVars BY <1>11 DEF caseVars, heat
<1>12. QED
  BY <1>1, <1>2, <1>3, <1>4, <1>5, <1>6, <1>7, <1>8, <1>9, <1>10, <1>11
  DEF CaseNext, CaseStep

LEMMA NoLostMarkStep ==
  MarkIsKept /\ NoLostMark /\ [CaseNext]_caseVars => NoLostMark'
<1> SUFFICES ASSUME MarkIsKept, NoLostMark, [CaseNext]_caseVars PROVE NoLostMark'
  OBVIOUS
<1>1. CASE Writes
  <2> DEFINE row == [throttled |-> throttled, limited |-> limited, readable |-> readable]
  <2>1. written' = written \cup {row} BY <1>1 DEF Writes
  <2>2. row.throttled = throttled /\ row.limited = limited /\ row.readable = readable OBVIOUS
  <2>3. readable /\ limited = {TRUE} => throttled BY DEF MarkIsKept
  <2>4. row.limited = {TRUE} /\ row.readable => row.throttled BY <2>2, <2>3, Zenon
  <2> HIDE DEF row
  <2>5. QED BY <2>1, <2>4 DEF NoLostMark
<1>2. CASE ~Writes
  <2>1. UNCHANGED written
    BY <1>2 DEF CaseNext, CaseStep, CoolsDown, Launches, WatchBegins, LoopBegins, LoopEnds,
       WatchEnds, Fails, Waits, FirmwareActs, caseVars
  <2>2. QED BY <2>1 DEF NoLostMark
<1>3. QED BY <1>1, <1>2

\* The throttled column of energy.csv says what it should: no row is marked as throttled
\* by a limit that was not on between its own program's two looks, and none that was limited
\* all that time goes unmarked if vcgencmd answered both; whichever bits the firmware sets
\* and remembers, in whichever order, for every number of repetitions.
THEOREM MarksAreTrue == CaseSpec => []MarkIsTrue
<1> DEFINE Inv == /\ StepsAgree /\ MarkIsNoted /\ NoFalseMark
                  /\ WordInRange /\ MarkIsKept /\ NoLostMark
<1>1. CaseInit => Inv
  <2> SUFFICES ASSUME CaseInit PROVE Inv
    OBVIOUS
  <2>1. StepsAgree /\ MarkIsNoted /\ NoFalseMark /\ NoLostMark /\ MarkIsKept
    BY DEF CaseInit, Init, T!Init, StepsAgree, MarkIsNoted, NoFalseMark, NoLostMark, MarkIsKept
  <2>2. WordInRange BY SMT DEF CaseInit, T!Init, WordInRange, T!Since
  <2>3. QED BY <2>1, <2>2
<1>2. Inv /\ [CaseNext]_caseVars => Inv'
  BY StepsAgreeStep, MarkIsNotedStep, NoFalseMarkStep, WordInRangeStep, MarkIsKeptStep,
     NoLostMarkStep
<1>3. Inv => MarkIsTrue BY DEF MarkIsTrue
<1>4. QED BY <1>1, <1>2, <1>3, PTL DEF CaseSpec
====
