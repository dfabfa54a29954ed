---- MODULE MacroSessionMC ----
(***************************************************************************)
(* Instances of MacroSession for TLC.                                       *)
(***************************************************************************)
EXTENDS MacroSessionInv

\* The same number for both endpoints.
Both(n) == [e \in Endpoint |-> n]

\* Different numbers: benchmark.env is sourced on each machine.
Each(p, s) == [e \in Endpoint |-> IF e = Publisher THEN p ELSE s]

Zero == Both(0)
One == Both(1)
Two == Both(2)
Three == Both(3)
TwoAndThree == Each(2, 3)
ThreeAndTwo == Each(3, 2)

AllFaults == FaultKinds
====
