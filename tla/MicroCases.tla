---- MODULE MicroCases ----
(***************************************************************************)
(* What the four microbenchmark scenarios have in common: a case is what a *)
(* row of a result file is about, a plan is the order of the cases in an   *)
(* orchestrator's loops, and a command is what it sends to the device.     *)
(* AESASCON, JSONCBOR, CPABERSA and FullSchema define one scenario each,   *)
(* under the same names, and gather in Scenario what the environment file  *)
(* of one machine makes of it.                                             *)
(***************************************************************************)
EXTENDS Integers, Sequences

Case(algorithm, operation, value) ==
  [algorithm |-> algorithm, operation |-> operation, value |-> value]

\* The runtime alone, as the memory stage runs and labels it.
Baseline == Case("Runtime", "MemoryBaseline", 0)

Elements(seq) == {seq[i] : i \in DOMAIN seq}

\* The lists of sizes and counts in an environment file name each of them once.
Distinct(seq) == \A i, j \in DOMAIN seq : i # j => seq[i] # seq[j]
IsList(list) == list \in Seq(Nat) /\ Distinct(list)
NamesOnce(env) ==
  /\ IsList(env.payloads) /\ IsList(env.schemaPayloads) /\ IsList(env.keyBits)
  /\ IsList(env.attributes) /\ Len(env.attributes) > 1
  /\ IsList(env.subscribers) /\ Len(env.subscribers) > 1

\* for value in values: the kinds <<algorithm, operation>> in order.
Grid(values, kinds) ==
  [i \in 1..(Len(values) * Len(kinds)) |->
     LET value == values[((i - 1) \div Len(kinds)) + 1]
         kind == kinds[((i - 1) % Len(kinds)) + 1]
     IN Case(kind[1], kind[2], value)]

\* The cases of the given kinds with each of the values, in no order.
Cases(kinds, values) == {Case(k[1], k[2], v) : k \in kinds, v \in values}

\* A command: the directory it is run in, the binary, the case it asks for, and
\* how many repetitions one process makes.
Command(directory, binary, case, repetitions) ==
  [directory |-> directory, binary |-> binary, case |-> case, repetitions |-> repetitions]

\* A number in a report: the place where it stands, the case that its heading, axis or
\* label names, the measure, the index of the analyzed values that it is read from,
\* and the throttle flags that mark it.
Placement(place, case, measure, index, flags) ==
  [place |-> place, case |-> case, measure |-> measure, index |-> index, flags |-> flags]
Unmarked == "unmarked"

\* The values of one kind set beside the list of their headings.
Column(place, kind, headings, measure, flags) ==
  {Placement(place, Case(kind[1], kind[2], headings[i]), measure, i, flags) : i \in DOMAIN headings}

\* A measure of a benchmark besides its latency: the metric in the output, and whether
\* the report takes the first repetition for all.
Extra(measure, metric, firstOnly) == [measure |-> measure, metric |-> metric, firstOnly |-> firstOnly]

\* A fixture file: what it holds, and the size, count or index in its name.
Fixture(name, number) == <<name, number>>
====
