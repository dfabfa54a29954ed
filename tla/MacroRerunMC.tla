---- MODULE MacroRerunMC ----
(* Instances of MacroRerun for TLC. *)
EXTENDS MacroRerun

\* The same number for both endpoints.
Both(n) == [e \in Endpoint |-> n]
One == Both(1)
Two == Both(2)

\* The failures that end a process or a call, and lose no message.
LocalFaults == FaultKinds \ {"loss", "connection"}
====
