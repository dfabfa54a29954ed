---- MODULE PerfControlMC ----
(* PerfControl with few runs and little work, and a history of its failures. *)
EXTENDS PerfControl

AllFaults == FaultKinds

\* PerfControl where nothing fails.
Faultless == INSTANCE PerfControl WITH Faults <- {}

VARIABLE spotless   \* whether nothing has failed

MCInit == PerfInit /\ spotless = TRUE

MCSpec ==
  /\ MCInit
  /\ [][PerfNext /\ spotless' = (spotless /\ Faultless!PerfNext)]_<<perfVars, spotless>>
  /\ WF_perfVars(Main) /\ WF_perfVars(Perf)

\* Every run is measured unless something fails: the exit that Stop itself asks perf for,
\* which shows as a code, as a signal or not at all, is never taken for a failure.
AllRunsMeasured == <>(Len(cycles) = MaxRuns \/ ~spotless)
====
