---- MODULE CPUCounter ----
(***************************************************************************)
(* What the interface CPU promises the benchmarks that use it: a counter    *)
(* that counts, between Enable and Stop, exactly the work done there, and   *)
(* is gone after Stop, Abort or a failed call.  Every call is one step.     *)
(*                                                                         *)
(* MacroSession models the counters of its endpoints at this level; the     *)
(* perf child process behind it is PerfControl.                             *)
(***************************************************************************)
EXTENDS Naturals, Sequences

CONSTANT MaxRuns, MaxWork   \* measured runs; units of work in one of them

VARIABLES
  counter,  \* "none", "created" or "enabled"
  work,     \* the work done since Enable
  cycles,   \* what Stop returned, run by run
  failed    \* a call returned an error: the benchmark gives up

counterVars == <<counter, work, cycles, failed>>

Init ==
  /\ counter = "none"
  /\ work = 0
  /\ cycles = <<>>
  /\ failed = FALSE

New ==
  /\ counter = "none" /\ ~failed
  /\ Len(cycles) < MaxRuns
  /\ counter' = "created"
  /\ work' = 0
  /\ UNCHANGED <<cycles, failed>>

Enable ==
  /\ counter = "created"
  /\ counter' = "enabled"
  /\ UNCHANGED <<work, cycles, failed>>

Work ==
  /\ counter = "enabled"
  /\ work < MaxWork
  /\ work' = work + 1
  /\ UNCHANGED <<counter, cycles, failed>>

Stop ==
  /\ counter = "enabled"
  /\ counter' = "none"
  /\ cycles' = Append(cycles, work)
  /\ UNCHANGED <<work, failed>>

\* New, Enable, Stop or the benchmark itself failed; the counter was aborted.
Fail ==
  /\ ~failed
  /\ counter' = "none"
  /\ failed' = TRUE
  /\ UNCHANGED <<work, cycles>>

Next == New \/ Enable \/ Work \/ Stop \/ Fail

Spec == Init /\ [][Next]_counterVars
====
