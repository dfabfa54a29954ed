---- MODULE MicroEnvironmentMC ----
EXTENDS MicroEnvironment

Base ==
  [runs |-> [s \in Scenarios |-> 2], payloads |-> <<16, 64>>, schemaPayloads |-> <<256>>,
   attributes |-> <<1, 2>>, subscribers |-> <<1, 2>>, keyBits |-> <<2, 3>>, fixed |-> 3]

\* The file of the repository in small, and one edit of it each: another fixed key
\* size, one that is not in the list, counts that do not ascend, and other lists.
MCEnvironments ==
  {Base, [Base EXCEPT !.fixed = 2], [Base EXCEPT !.fixed = 4],
   [Base EXCEPT !.subscribers = <<2, 1>>],
   [Base EXCEPT !.payloads = <<16, 256>>, !.schemaPayloads = <<256, 512>>,
                !.keyBits = <<3, 4>>, !.runs = [s \in Scenarios |-> 1]]}
====
