---- MODULE PerfControl ----
(***************************************************************************)
(* CPUPerf: the cycle counter of a benchmark is a perf child process that   *)
(* is told to enable and disable over a control pipe, answers over an       *)
(* acknowledgement pipe, and prints its count when it is interrupted.       *)
(*                                                                         *)
(* Actors: the goroutine of the benchmark (one action per system call of    *)
(* NewCPUPerf, Enable, Stop and Abort, and the work in between) and perf,   *)
(* which may exit on its own at any point.                                  *)
(***************************************************************************)
EXTENDS Naturals, Sequences

CONSTANTS
  MaxRuns,  \* the measured runs of the benchmark
  MaxWork,  \* bound on the work of one run
  Faults    \* the kinds of failure that may happen

FaultKinds == {"pipe", "start", "perfExits", "refused", "uncounted", "benchmark"}

ASSUME PerfAssumption ==
  /\ MaxRuns \in Nat /\ MaxWork \in Nat
  /\ Faults \subseteq FaultKinds

VARIABLES
  at,       \* where the benchmark is
  fds,      \* the ends of the two pipes open in the benchmark's process
  child,    \* "none", "running", "exited" (a zombie) or "reaped"
  status,   \* how it exited
  control,  \* commands perf has not read
  acks,     \* answers the benchmark has not read
  signal,   \* a SIGINT or SIGKILL perf has not died of
  counting, \* perf counts
  count,    \* what perf counted in this run
  output,   \* what perf printed: "", "cycles", or nothing that parses
  work,     \* the work done in this run since Enable returned
  cycles,   \* what Stop returned, run by run
  errored   \* the call under way returns an error

mainVars  == <<at, errored, work, cycles>>
pipeVars  == <<fds, control, acks>>
childVars == <<child, status, signal, counting, count, output>>
perfVars == <<mainVars, pipeVars, childVars>>

PerfInit ==
  /\ at = "idle"
  /\ fds = {}
  /\ child = "none"
  /\ status = "none"
  /\ control = <<>> /\ acks = <<>>
  /\ signal = "none"
  /\ counting = FALSE
  /\ count = 0
  /\ output = ""
  /\ work = 0
  /\ cycles = <<>>
  /\ errored = FALSE

Goto(step) == at' = step
MainFrame  == UNCHANGED <<work, cycles, errored>>

----------------------------------------------------------------------------
(* NewCPUPerf *)

ControlPipe == {"controlReader", "controlWriter"}
AckPipe     == {"ackReader", "ackWriter"}

\* The benchmark begins a measured run.
OpenControlPipe ==
  /\ at = "idle"
  /\ Len(cycles) < MaxRuns
  /\ \/ Goto("openAck") /\ fds' = fds \union ControlPipe
     \/ "pipe" \in Faults /\ Goto("failed") /\ UNCHANGED fds
  /\ MainFrame
  /\ UNCHANGED <<control, acks, childVars>>

OpenAckPipe ==
  /\ at = "openAck"
  /\ \/ Goto("start") /\ fds' = fds \union AckPipe
     \/ "pipe" \in Faults /\ Goto("failed") /\ fds' = fds \ ControlPipe
  /\ MainFrame
  /\ UNCHANGED <<control, acks, childVars>>

\* Mutation: the parent keeps its copy of the end that perf writes to.
StartPerfKeepsWriter ==
  /\ at = "start"
  /\ Goto("created")
  /\ fds' = fds \ {"controlReader"}
  /\ child' = "running" /\ status' = "none" /\ count' = 0 /\ output' = "" /\ work' = 0
  /\ UNCHANGED <<cycles, errored, control, acks, signal, counting>>

\* Start, and the parent closes the ends that belong to the child.
StartPerf ==
  /\ at = "start"
  /\ \/ /\ Goto("created")
        /\ fds' = fds \ {"controlReader", "ackWriter"}
        /\ child' = "running" /\ status' = "none" /\ count' = 0 /\ output' = "" /\ work' = 0
     \/ /\ "start" \in Faults
        /\ Goto("failed")
        /\ fds' = fds \ (ControlPipe \union AckPipe)
        /\ UNCHANGED <<child, status, count, output, work>>
  /\ UNCHANGED <<cycles, errored, control, acks, signal, counting>>

----------------------------------------------------------------------------
(* sendControl *)

ReaderThere == child = "running" \/ "controlReader" \in fds
WriterThere == child = "running" \/ "ackWriter" \in fds

\* A write to a pipe without a reader fails.
WriteControl(from, command, onSuccess, onError) ==
  /\ at = from
  /\ \/ /\ ReaderThere
        /\ control' = Append(control, command)
        /\ Goto(onSuccess)
        /\ UNCHANGED errored
     \/ /\ ~ReaderThere
        /\ Goto(onError) /\ errored' = TRUE
        /\ UNCHANGED control
  /\ UNCHANGED <<work, cycles, fds, acks, childVars>>

\* ReadString blocks until an answer is there or every writer has closed.
ReadAck(from, onSuccess, onError) ==
  /\ at = from
  /\ \/ /\ acks # <<>>
        /\ acks' = Tail(acks)
        /\ \/ Head(acks) = "ack" /\ Goto(onSuccess) /\ UNCHANGED errored
           \/ Head(acks) # "ack" /\ Goto(onError) /\ errored' = TRUE
     \/ /\ acks = <<>>
        /\ ~WriterThere
        /\ Goto(onError) /\ errored' = TRUE
        /\ UNCHANGED acks
  /\ UNCHANGED <<work, cycles, fds, control, childVars>>

----------------------------------------------------------------------------
(* Enable, the benchmark, Stop and Abort *)

\* Mutation: Enable does not wait for the answer, which Stop then reads first.
WriteEnableOnly == WriteControl("created", "enable", "enabled", "abort")

\* The benchmark calls Abort when Enable returned an error.
WriteEnable == WriteControl("created", "enable", "enableAck", "abort")
ReadEnableAck == ReadAck("enableAck", "enabled", "abort")

\* A message is sent or handled.
Work ==
  /\ at = "enabled"
  /\ work < MaxWork
  /\ work' = work + 1
  /\ count' = IF counting THEN count + 1 ELSE count
  /\ UNCHANGED <<at, errored, cycles, pipeVars, child, status, signal, counting, output>>

\* Subscribe (before Enable), or WriteReady, PublishMessages or WaitMessages
\* (after it) returned an error.
BenchmarkFails ==
  /\ "benchmark" \in Faults
  /\ at \in {"created", "enabled"}
  /\ Goto("abort") /\ errored' = TRUE
  /\ UNCHANGED <<work, cycles, pipeVars, childVars>>

\* Mutation: Stop gives up without Abort.
WriteDisableNoAbort == WriteControl("enabled", "disable", "disableAck", "failed")

WriteDisable == WriteControl("enabled", "disable", "disableAck", "abort")
ReadDisableAck == ReadAck("disableAck", "interrupt", "abort")

\* Signal(os.Interrupt): nothing happens to a child that is gone.
InterruptPerf ==
  /\ at = "interrupt"
  /\ signal' = IF child = "running" THEN "SIGINT" ELSE signal
  /\ Goto("wait")
  /\ MainFrame
  /\ UNCHANGED <<pipeVars, child, status, counting, count, output>>

\* Mutation: an exit by the interrupt is taken for an error.
IsPerfInterruptNever(s) == FALSE

\* perf handled SIGINT and exited with 130, or was terminated by it.
isPerfInterrupt(s) == s \in {"exit130", "SIGINT"}

\* Wait reaps the child; then both pipes are closed and the output is parsed.
WaitPerf ==
  /\ at = "wait"
  /\ child = "exited"
  /\ child' = "reaped"
  /\ signal' = "none"
  /\ fds' = fds \ {"controlWriter", "ackReader"}
  /\ control' = <<>> /\ acks' = <<>>
  /\ \/ /\ status = "ok" \/ isPerfInterrupt(status)
        /\ output = "cycles"
        /\ Goto("idle")
        /\ cycles' = Append(cycles, count)
     \/ /\ (status # "ok" /\ ~isPerfInterrupt(status)) \/ output # "cycles"
        /\ Goto("failed")
        /\ UNCHANGED cycles
  /\ UNCHANGED <<errored, work, status, counting, count, output>>

AbortKill ==
  /\ at = "abort"
  /\ fds' = fds \ {"controlWriter"}
  /\ signal' = IF child = "running" THEN "SIGKILL" ELSE signal
  /\ Goto("abortWait")
  /\ MainFrame
  /\ UNCHANGED <<control, acks, child, status, counting, count, output>>

AbortWait ==
  /\ at = "abortWait"
  /\ child = "exited"
  /\ child' = "reaped"
  /\ signal' = "none"
  /\ fds' = fds \ {"ackReader"}
  /\ control' = <<>> /\ acks' = <<>>
  /\ Goto("failed")
  /\ MainFrame
  /\ UNCHANGED <<status, counting, count, output>>

Main ==
  \/ OpenControlPipe \/ OpenAckPipe \/ StartPerf
  \/ WriteEnable \/ ReadEnableAck \/ Work \/ BenchmarkFails
  \/ WriteDisable \/ ReadDisableAck \/ InterruptPerf \/ WaitPerf
  \/ AbortKill \/ AbortWait

----------------------------------------------------------------------------
(* perf *)

Dies(how) ==
  /\ child' = "exited"
  /\ status' = how
  /\ counting' = FALSE

\* perf carries out a command and answers, or refuses it.
PerfObeys ==
  /\ child = "running"
  /\ control # <<>>
  /\ control' = Tail(control)
  /\ \/ acks' = Append(acks, "ack") /\ counting' = (Head(control) = "enable")
     \/ "refused" \in Faults /\ acks' = Append(acks, "no") /\ UNCHANGED counting
  /\ UNCHANGED <<mainVars, fds, child, status, signal, count, output>>

\* perf prints on SIGINT; an event that never ran is printed as not counted.
PerfInterrupted ==
  /\ child = "running"
  /\ signal = "SIGINT"
  /\ \E how \in {"ok", "exit130", "SIGINT"} : Dies(how)
  /\ \/ output' = "cycles"
     \/ "uncounted" \in Faults /\ output' = "not counted"
  /\ UNCHANGED <<mainVars, pipeVars, signal, count>>

PerfKilled ==
  /\ child = "running"
  /\ signal = "SIGKILL"
  /\ Dies("SIGKILL")
  /\ UNCHANGED <<mainVars, pipeVars, signal, count, output>>

\* perf exits on its own: the event cannot be opened, or it is killed.  What it
\* prints may hold the cycles it had counted until then.
PerfExits ==
  /\ "perfExits" \in Faults
  /\ child = "running"
  /\ Dies("error")
  /\ output' \in {"", "cycles"}
  /\ UNCHANGED <<mainVars, pipeVars, signal, count>>

Perf == PerfObeys \/ PerfInterrupted \/ PerfKilled

PerfNext == Main \/ Perf \/ PerfExits

PerfSpec == PerfInit /\ [][PerfNext]_perfVars

\* The benchmark and perf keep running while they can.
FairSpec == PerfSpec /\ WF_perfVars(Main) /\ WF_perfVars(Perf)

----------------------------------------------------------------------------
(* Properties *)

\* Whatever failed in between: outside of a run no perf process is left, not
\* even as a zombie, and no end of a pipe is left open.
NothingLeaks ==
  at \in {"idle", "failed"} => child \in {"none", "reaped"} /\ fds = {}

\* CPUPerf keeps the promise of the interface CPU: seen from the benchmark,
\* each call is one step, and the cycles it returns are those of the work done
\* between Enable and Stop, all of it and nothing else.
Counter == INSTANCE CPUCounter WITH
  counter <- IF errored \/ at \in {"idle", "openAck", "start", "failed"} THEN "none"
             ELSE IF at \in {"created", "enableAck"} THEN "created"
             ELSE "enabled",
  failed  <- errored \/ at = "failed"

KeepsCPUPromise == Counter!Spec

\* Every call returns: no read of an answer and no wait for the child blocks
\* for ever, even when perf exits on its own.
CallsReturn == []<>(at \in {"idle", "enabled", "failed"})
====
