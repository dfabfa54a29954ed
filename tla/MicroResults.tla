---- MODULE MicroResults ----
(***************************************************************************)
(* From the output of the benchmarks to what the report knows: csv.py      *)
(* turns each text file into a table, load_summary.py reads the three      *)
(* tables row by row, and statistics.py computes from the rows of a case.  *)
(* A measured number is the record of what was measured, of which case and *)
(* in which repetition, so that a statistic is the data it is computed     *)
(* from and a mix-up shows.  MicroReports adds the scenarios' tables.      *)
(***************************************************************************)
EXTENDS MicroCases, FiniteSets

\* A measured number.
Datum(metric, case, n) == <<metric, case, n>>

\* A line of a text file: a benchmark's result, or what else the binary prints.
Line(name, measurements) == [kind |-> "result", name |-> name, measurements |-> measurements]
OtherLine == [kind |-> "other"]

----
(* csv.py *)

\* The prefix Memory of a memory benchmark's operation is dropped.
Operation(operation) ==
  CASE operation = "MemoryEncrypt" -> "Encrypt"
    [] operation = "MemoryDecrypt" -> "Decrypt"
    [] OTHER -> operation

Parameter(scenario, algorithm) ==
  IF scenario # "cpabe_rsa" THEN "payload_size"
  ELSE CASE algorithm = "CPABEAttributes" -> "attribute_count"
         [] algorithm = "RSASubscribers" -> "subscriber_count"
         [] OTHER -> "rsa_key_bits"

IsBaseline(name) == name.algorithm = "Runtime" /\ name.operation = "MemoryBaseline"

\* Who a row is about; the parameter goes with the algorithm.
Identity(scenario, name) ==
  [algorithm |-> name.algorithm, operation |-> Operation(name.operation),
   parameter |-> IF IsBaseline(name) THEN "" ELSE Parameter(scenario, name.algorithm),
   value |-> name.value]

\* Repetitions are counted per identity, in the order of the file.
Run(rows, identity) == Cardinality({i \in DOMAIN rows : rows[i].of = identity}) + 1

\* The measurements that the timing table keeps of a row.
TimingColumns(scenario, of) ==
  {"ns/op", "throttled"} \cup
    CASE scenario = "aes_ascon" -> {"MB/s"}
      [] scenario = "json_cbor" ->
           IF of.operation # "Serialize" THEN {}
           ELSE IF of.algorithm = "JSON" THEN {"serialized_bytes", "raw_bytes"}
           ELSE {"serialized_bytes"}
      [] scenario = "cpabe_rsa" ->
           IF of.operation = "Encrypt"
           THEN {"ciphertext_bytes"} \cup
                  (IF of.algorithm = "RSASubscribers" THEN {"total_ciphertext_bytes"} ELSE {})
           ELSE IF of.algorithm = "CPABEAttributes" THEN {"stored_key_bytes"} ELSE {}
      [] scenario = "full_schema" ->
           IF of.operation = "Encrypt" THEN {"serialized_bytes"} ELSE {}

Columns(table, scenario, of) ==
  IF table = "memory" THEN {"peak_rss_bytes"} ELSE TimingColumns(scenario, of)

\* A result line without a measurement the table needs raises.
Convertible(table, scenario, line) ==
  line.kind = "result" =>
    Columns(table, scenario, Identity(scenario, line.name)) \subseteq DOMAIN line.measurements

\* The table after one more line.
Convert(table, scenario, rows, line) ==
  IF line.kind = "other" THEN rows
  ELSE LET of == Identity(scenario, line.name) IN
       Append(rows, [of |-> of, baseline |-> IsBaseline(line.name), run |-> Run(rows, of),
                     measurements |-> [m \in Columns(table, scenario, of) |-> line.measurements[m]]])

\* Mutant: a window without a reading has a row of zeros.
WriteSamplesAlways(of, baseline, run, throttled, samples) ==
  [i \in 1..(IF samples = <<>> THEN 1 ELSE Len(samples)) |->
     [of |-> of, baseline |-> baseline, run |-> run, throttled |-> throttled,
      sample |-> IF samples = <<>> THEN <<"power", of, 0>> ELSE samples[i]]]

\* write_samples: the rows of one window of the meter, a row per reading.
WriteSamples(of, baseline, run, throttled, samples) ==
  [i \in DOMAIN samples |->
     [of |-> of, baseline |-> baseline, run |-> run, throttled |-> throttled, sample |-> samples[i]]]

----
(* load_summary.py: a row joins the first aggregation of its identity. *)

NoSummary ==
  [timing |-> <<>>, memory |-> <<>>, energy |-> <<>>,
   memoryBaseline |-> <<>>, energyBaseline |-> <<>>]

\* The place of the first aggregation of an identity, or 0.
Find(aggregations, of) ==
  LET found == {i \in DOMAIN aggregations : aggregations[i].of = of}
  IN IF found = {} THEN 0 ELSE CHOOSE i \in found : \A j \in found : i <= j

\* The same list with one more case in the aggregation of the identity.
AddCase(aggregations, of, case) ==
  LET at == Find(aggregations, of) IN
  IF at = 0 THEN Append(aggregations, [of |-> of, cases |-> <<case>>])
  ELSE [aggregations EXCEPT ![at].cases = Append(@, case)]

MeasuredCase(row) == [run |-> row.run, measurements |-> row.measurements]

LoadTimingRow(summary, row) ==
  [summary EXCEPT !.timing = AddCase(@, row.of, MeasuredCase(row))]

LoadMemoryRow(summary, row) ==
  IF row.baseline
  THEN [summary EXCEPT !.memoryBaseline = Append(@, MeasuredCase(row))]
  ELSE [summary EXCEPT !.memory = AddCase(@, row.of, MeasuredCase(row))]

\* The samples of a window come together in the case of their run, whose throttling
\* is that of its first row.
AddSample(cases, row) ==
  LET found == {i \in DOMAIN cases : cases[i].run = row.run} IN
  IF found = {}
  THEN Append(cases, [run |-> row.run, throttled |-> row.throttled, samples |-> <<row.sample>>])
  ELSE [cases EXCEPT ![CHOOSE i \in found : TRUE].samples = Append(@, row.sample)]

LoadEnergyRow(summary, row) ==
  LET at == Find(summary.energy, row.of) IN
  IF row.baseline THEN [summary EXCEPT !.energyBaseline = AddSample(@, row)]
  ELSE IF at = 0
       THEN [summary EXCEPT !.energy = Append(@, [of |-> row.of, cases |-> AddSample(<<>>, row)])]
       ELSE [summary EXCEPT !.energy[at].cases = AddSample(@, row)]

----
(* statistics.py and metrics.py *)

Values(aggregation, metric) ==
  [i \in DOMAIN aggregation.cases |-> aggregation.cases[i].measurements[metric]]

Windows(cases) == [i \in DOMAIN cases |-> cases[i].samples]

\* Mutant: the timing of the first value.
MatchingTimingFirst(aggregation, timings) == timings[1]

\* The timing cases whose mean latency turns an aggregation's power into energy.
MatchingTiming(aggregation, timings) ==
  timings[CHOOSE i \in DOMAIN timings : timings[i].of = aggregation.of]

\* Energy per operation, computed from the power of the windows above that of the
\* idle device, and the mean latency of the same case.
EnergyPerOperation(aggregation, baselines, timings) ==
  [load |-> Windows(aggregation.cases), idle |-> Windows(baselines),
   latency |-> Values(MatchingTiming(aggregation, timings), "ns/op")]

\* Mutant: the first repetition stands for all.
TimingThrottledAtFirst(aggregation) == aggregation.cases[1].measurements["throttled"] > 0

TimingThrottled(aggregation) ==
  \E i \in DOMAIN aggregation.cases : aggregation.cases[i].measurements["throttled"] > 0

EnergyThrottled(aggregation) ==
  \E i \in DOMAIN aggregation.cases : aggregation.cases[i].throttled
====
