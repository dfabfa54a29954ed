---- MODULE MicroReports ----
(***************************************************************************)
(* A scenario's results on their way to its report: the text files of a    *)
(* campaign in which every command succeeded are converted line by line,   *)
(* the tables are loaded row by row, the cases of the report are analyzed, *)
(* and html.py sets them into its tables.  MicroCampaign has the campaigns *)
(* that fail and MicroEnvironment those whose machines disagree.           *)
(***************************************************************************)
EXTENDS MicroResults

CONSTANTS
  Environment,  \* the environment file, the same on both machines
  Runs,         \* the number of repetitions it asks for
  Troubles      \* bound: how many cases have repetitions in which something went wrong

ASSUME MicroReportsAssumption ==
  /\ Runs \in Nat \ {0} /\ Troubles \in Nat
  /\ NamesOnce(Environment)

A == INSTANCE AESASCON
J == INSTANCE JSONCBOR
C == INSTANCE CPABERSA
F == INSTANCE FullSchema

Scenarios == {"aes_ascon", "json_cbor", "cpabe_rsa", "full_schema"}
WithMemory(s) == s # "json_cbor"

VARIABLES
  scenario,   \* the scenario of the campaign
  world,      \* what happened in it: throttling, silent windows, unreadable peaks
  stage,      \* what is being done
  next,       \* the next line or row
  table,      \* energy.csv, and memory.csv and timing.csv so far
  summary,    \* what load_summary has loaded
  results,    \* by kind: the sequences of what analyze_case computes for its values
  report      \* the numbers of the report, and whether its legends warn of throttling

vars == <<scenario, world, stage, next, table, summary, results, report>>

----
(* The files of the campaign. *)

MemoryPlan(s) ==
  CASE s = "aes_ascon" -> A!MemoryPlan(Environment)
    [] s = "cpabe_rsa" -> C!MemoryPlan(Environment)
    [] s = "full_schema" -> F!MemoryPlan(Environment)
    [] s = "json_cbor" -> <<>>

EnergyPlan(s) ==
  CASE s = "aes_ascon" -> A!EnergyPlan(Environment)
    [] s = "json_cbor" -> J!EnergyPlan(Environment)
    [] s = "cpabe_rsa" -> C!EnergyPlan(Environment)
    [] s = "full_schema" -> F!EnergyPlan(Environment)

TimingPlan(s) ==
  CASE s = "aes_ascon" -> A!TimingPlan(Environment)
    [] s = "json_cbor" -> J!TimingPlan(Environment)
    [] s = "cpabe_rsa" -> C!TimingPlan(Environment)
    [] s = "full_schema" -> F!TimingPlan(Environment)

MemoryPlans == [s \in Scenarios |-> MemoryPlan(s)]
EnergyPlans == [s \in Scenarios |-> EnergyPlan(s)]
TimingPlans == [s \in Scenarios |-> TimingPlan(s)]

\* Each case Runs times in a row: <<case, repetition>>.
Repeated(plan) ==
  [i \in 1..(Len(plan) * Runs) |-> <<plan[((i - 1) \div Runs) + 1], ((i - 1) % Runs) + 1>>]

\* The measurements that the benchmark of a case reports.
Reported(s, case) ==
  {"ns/op"} \cup
    CASE s = "aes_ascon" -> {"MB/s"}
      [] s = "json_cbor" -> IF case.operation = "Serialize" THEN {"serialized_bytes", "raw_bytes"} ELSE {}
      [] s = "full_schema" -> IF case.operation = "Encrypt" THEN {"serialized_bytes"} ELSE {}
      [] s = "cpabe_rsa" ->
           (IF case.operation = "Encrypt" THEN {"ciphertext_bytes"} ELSE {})
             \cup (IF case.algorithm = "RSASubscribers" THEN {"total_ciphertext_bytes"} ELSE {})
             \cup (IF case.algorithm = "CPABEAttributes" /\ case.operation = "Decrypt"
                   THEN {"stored_key_bytes"} ELSE {})

TimingLine(rep) ==
  LET metrics == Reported(scenario, rep[1]) IN
  Line(rep[1], [m \in metrics \cup {"throttled"} |->
                  IF m # "throttled" THEN Datum(m, rep[1], rep[2])
                  ELSE IF <<"timing", rep>> \in world.throttled THEN 1 ELSE 0])

\* What the Memory benchmarks are called in the output.
MemoryName(case) ==
  IF case = Baseline THEN case
  ELSE [case EXCEPT !.operation = IF @ = "Encrypt" THEN "MemoryEncrypt" ELSE "MemoryDecrypt"]

MemoryLine(rep) ==
  Line(MemoryName(rep[1]),
       [m \in {"ns/op"} \cup (IF rep \in world.unreadable THEN {} ELSE {"peak_rss_bytes"}) |->
          Datum(m, rep[1], rep[2])])

\* Every process prints a header and a trailer around its results: here a line.
Text(t) ==
  LET reps == IF t = "memory" THEN Repeated(MemoryPlans[scenario]) ELSE Repeated(TimingPlans[scenario])
  IN [i \in 1..(2 * Len(reps)) |->
        IF i % 2 = 1 THEN OtherLine
        ELSE IF t = "memory" THEN MemoryLine(reps[i \div 2]) ELSE TimingLine(reps[i \div 2])]

\* What the meter reads in a window; a window in which it did not answer has no row.
Readings(rep) == <<Datum("power", rep[1], rep[2]), Datum("power later", rep[1], rep[2])>>
Samples(rep) == IF rep \in world.silent THEN <<>> ELSE Readings(rep)

\* The energy stage: the windows of the idle device, then those of the workloads,
\* labelled with their algorithm's parameter (run_energy_case).
Idle == Case("", "", 0)
EnergyLabel(case) ==
  [algorithm |-> case.algorithm, operation |-> case.operation,
   parameter |-> Parameter(scenario, case.algorithm), value |-> case.value]
EnergyWindows == Repeated(<<Idle>> \o EnergyPlans[scenario])
Label(case) == IF case = Idle THEN Idle ELSE EnergyLabel(case)
EnergyRows(window) ==
  WriteSamples(Label(window[1]), window[1] = Idle, window[2], <<"energy", window>> \in world.throttled,
               Samples(window))

NoReport == [shown |-> {}, timingLegend |-> FALSE, energyLegend |-> FALSE]

----
(* What may happen in a campaign that succeeds. *)

\* A repetition is throttled, its window silent or its peak unreadable.
MayHappen ==
  ({"timing"} \X Elements(Repeated(TimingPlans[scenario])))
    \cup ({"energy"} \X {w \in Elements(EnergyWindows) : w[1] # Idle})
    \cup ({"silent"} \X Elements(EnergyWindows))
    \cup ({"unreadable"} \X Elements(Repeated(MemoryPlans[scenario])))

\* What went wrong, and in which case.
Trouble(event) == <<event[1], event[2][1]>>

\* Any of the repetitions of at most that many cases.
Happened ==
  LET troubles == {Trouble(e) : e \in MayHappen}
  IN UNION {SUBSET {e \in MayHappen : \E i \in 1..Troubles : Trouble(e) = chosen[i]} :
              chosen \in [1..Troubles -> troubles]}

World(events) ==
  [throttled |-> {e \in events : e[1] \in {"timing", "energy"}},
   silent |-> {e[2] : e \in {x \in events : x[1] = "silent"}},
   unreadable |-> {e[2] : e \in {x \in events : x[1] = "unreadable"}}]

Init ==
  /\ scenario \in Scenarios /\ world \in {World(events) : events \in Happened}
  /\ stage = (IF WithMemory(scenario) THEN "ConvertMemory" ELSE "MeasureEnergy") /\ next = 1
  /\ table = [memory |-> <<>>, timing |-> <<>>, energy |-> <<>>]
  /\ summary = NoSummary /\ results = <<>> /\ report = NoReport

----
(* csv.py, a line at a time, and between its two calls the energy stage, a window at a time. *)

ConvertLine(t, following) ==
  /\ IF next > Len(Text(t)) THEN table' = table /\ stage' = following /\ next' = 1
     ELSE LET line == Text(t)[next] IN
          IF Convertible(t, scenario, line)
          THEN /\ table' = [table EXCEPT ![t] = Convert(t, scenario, @, line)]
               /\ stage' = stage /\ next' = next + 1
          ELSE table' = table /\ stage' = "Raised" /\ next' = next
  /\ UNCHANGED <<scenario, world, summary, results, report>>

ConvertMemory == stage = "ConvertMemory" /\ ConvertLine("memory", "MeasureEnergy")

MeasureEnergy ==
  /\ stage = "MeasureEnergy"
  /\ IF next > Len(EnergyWindows) THEN table' = table /\ stage' = "ConvertTiming" /\ next' = 1
     ELSE /\ table' = [table EXCEPT !.energy = @ \o EnergyRows(EnergyWindows[next])]
          /\ stage' = stage /\ next' = next + 1
  /\ UNCHANGED <<scenario, world, summary, results, report>>

ConvertTiming == stage = "ConvertTiming" /\ ConvertLine("timing", "LoadTiming")

----
(* load_summary.py, a row at a time. *)

LoadRow(rows, loaded, following) ==
  /\ IF next > Len(rows) THEN summary' = summary /\ stage' = following /\ next' = 1
     ELSE summary' = loaded /\ stage' = stage /\ next' = next + 1
  /\ UNCHANGED <<scenario, world, table, results, report>>

LoadTiming ==
  /\ stage = "LoadTiming"
  /\ LoadRow(table.timing, LoadTimingRow(summary, table.timing[next]),
             IF WithMemory(scenario) THEN "LoadMemory" ELSE "LoadEnergy")
LoadMemory ==
  /\ stage = "LoadMemory"
  /\ LoadRow(table.memory, LoadMemoryRow(summary, table.memory[next]), "LoadEnergy")
LoadEnergy ==
  /\ stage = "LoadEnergy"
  /\ LoadRow(table.energy, LoadEnergyRow(summary, table.energy[next]), "Analyze")

----
(* The report's main. *)

ReportKinds(s) ==
  CASE s = "aes_ascon" -> A!ShownKinds
    [] s = "json_cbor" -> J!ShownKinds
    [] s = "cpabe_rsa" -> C!CASE_ORDER
    [] s = "full_schema" -> F!ShownKinds

\* The values whose timing is looked up for a kind.
TimingValues(s, kind) ==
  CASE s = "cpabe_rsa" -> C!TimingValues(Environment, kind[1])
    [] s = "full_schema" -> Environment.schemaPayloads
    [] OTHER -> Environment.payloads

EnergyValues(s, kind) ==
  IF s = "cpabe_rsa" THEN C!EnergyMemoryValues(Environment, kind) ELSE TimingValues(s, kind)

MemoryValues(s, kind) == IF WithMemory(s) THEN EnergyValues(s, kind) ELSE <<>>

Extras(s, kind) ==
  CASE s = "aes_ascon" -> A!Extras(kind)
    [] s = "json_cbor" -> J!Extras(kind)
    [] s = "cpabe_rsa" -> C!Extras(kind)
    [] s = "full_schema" -> F!Extras(kind)

\* find_*_aggregation for each of the values; 0 where it returns None.
Lookups(aggregations, kind, values) ==
  [i \in DOMAIN values |->
     Find(aggregations, Identity(scenario, Case(kind[1], kind[2], values[i])))]

Found(aggregations, kind, values) == \A i \in DOMAIN values : Lookups(aggregations, kind, values)[i] # 0

\* An absent aggregation has no cases, the mean of no windows is an error, and so is
\* a fixed key size that the list does not have.
Analysable ==
  /\ scenario = "cpabe_rsa" => C!Analysable(Environment)
  /\ \A kind \in ReportKinds(scenario) :
       /\ Found(summary.timing, kind, TimingValues(scenario, kind))
       /\ Found(summary.energy, kind, EnergyValues(scenario, kind))
       /\ Found(summary.memory, kind, MemoryValues(scenario, kind))
  /\ summary.energyBaseline # <<>>
  /\ WithMemory(scenario) => summary.memoryBaseline # <<>>

ExtraOf(s, kind, measure) == CHOOSE x \in Extras(s, kind) : x.measure = measure

\* analyze_case: a sequence per measure, in the order of the values.
Analyzed(kind) ==
  LET Aggregations(all, values) == [i \in DOMAIN values |-> all[Lookups(all, kind, values)[i]]]
      timings == Aggregations(summary.timing, TimingValues(scenario, kind))
      energies == Aggregations(summary.energy, EnergyValues(scenario, kind))
      memories == Aggregations(summary.memory, MemoryValues(scenario, kind))
      OfExtra(x) == [i \in DOMAIN timings |->
                       IF x.firstOnly THEN <<Values(timings[i], x.metric)[1]>>
                       ELSE Values(timings[i], x.metric)]
  IN [measure \in {"latency", "energy", "memory", "timing_throttled", "energy_throttled"}
                     \cup {x.measure : x \in Extras(scenario, kind)} |->
        CASE measure = "latency" -> [i \in DOMAIN timings |-> Values(timings[i], "ns/op")]
          [] measure = "energy" -> [i \in DOMAIN energies |->
                                      EnergyPerOperation(energies[i], summary.energyBaseline, timings)]
          [] measure = "memory" -> [i \in DOMAIN memories |-> Values(memories[i], "peak_rss_bytes")]
          [] measure = "timing_throttled" -> [i \in DOMAIN timings |-> TimingThrottled(timings[i])]
          [] measure = "energy_throttled" -> [i \in DOMAIN energies |-> EnergyThrottled(energies[i])]
          [] OTHER -> OfExtra(ExtraOf(scenario, kind, measure))]

BaselineKind == <<Baseline.algorithm, Baseline.operation>>

Analyze ==
  /\ stage = "Analyze"
  /\ IF Analysable
     THEN /\ results' = [kind \in ReportKinds(scenario) \cup {BaselineKind} |->
                          IF kind \in ReportKinds(scenario) THEN Analyzed(kind)
                          ELSE [memory |-> <<Values([cases |-> summary.memoryBaseline], "peak_rss_bytes")>>]]
          /\ stage' = "Write"
     ELSE results' = results /\ stage' = "Raised"
  /\ UNCHANGED <<scenario, world, next, table, summary, report>>

Placements(s) ==
  CASE s = "aes_ascon" -> A!Placements(Environment)
    [] s = "json_cbor" -> J!Placements(Environment)
    [] s = "cpabe_rsa" -> C!Placements(Environment)
    [] s = "full_schema" -> F!Placements(Environment)

\* What stands in a place: its numbers, and whether it is marked as throttled.
Shown(analyzed, p) ==
  LET values == analyzed[<<p.case.algorithm, p.case.operation>>] IN
  [place |-> p.place, case |-> p.case, measure |-> p.measure, data |-> values[p.measure][p.index],
   flags |-> p.flags, marked |-> p.flags # Unmarked /\ values[p.flags][p.index]]

\* build_thermal_legend warns when any of the flags is set.
Legend(s, analyzed, flags) ==
  \E kind \in ReportKinds(s) : \E i \in DOMAIN analyzed[kind][flags] : analyzed[kind][flags][i]

ReportOf(s, analyzed) ==
  [shown |-> {Shown(analyzed, p) : p \in Placements(s)},
   timingLegend |-> Legend(s, analyzed, "timing_throttled"),
   energyLegend |-> Legend(s, analyzed, "energy_throttled")]

Write ==
  /\ stage = "Write"
  /\ report' = ReportOf(scenario, results) /\ stage' = "Written"
  /\ UNCHANGED <<scenario, world, next, table, summary, results>>

Next ==
  \/ ConvertMemory \/ MeasureEnergy \/ ConvertTiming \/ LoadTiming \/ LoadMemory \/ LoadEnergy
  \/ Analyze \/ Write

Spec == Init /\ [][Next]_vars /\ WF_vars(Next)

----
(* Properties. *)

\* The windows are those of a case in which the meter answered, in their order.
AreHeard(silent, windows, case) ==
  LET heard == {n \in 1..Runs : <<case, n>> \notin silent} IN
  \E run \in [DOMAIN windows -> heard] :
    /\ \A i \in DOMAIN windows : windows[i] = Readings(<<case, run[i]>>)
    /\ \A i, j \in DOMAIN windows : i < j => run[i] < run[j]
    /\ heard = {run[i] : i \in DOMAIN windows}

\* What was measured of a case, in the order of the repetitions.
Measured(case, metric) == [n \in 1..Runs |-> Datum(metric, case, n)]

IsTrue(s) ==
  CASE s.measure = "latency" -> s.data = Measured(s.case, "ns/op")
    [] s.measure = "memory" -> s.data = Measured(s.case, "peak_rss_bytes")
    [] s.measure = "energy" -> /\ AreHeard(world.silent, s.data.load, s.case)
                               /\ AreHeard(world.silent, s.data.idle, Idle)
                               /\ s.data.latency = Measured(s.case, "ns/op")
    [] OTHER -> LET x == ExtraOf(scenario, <<s.case.algorithm, s.case.operation>>, s.measure) IN
                s.data = IF x.firstOnly THEN <<Datum(x.metric, s.case, 1)>> ELSE Measured(s.case, x.metric)

\* Every number of a report, in a table, a chart or a sentence, comes from all the
\* repetitions of the one case that its heading or label names, in their order; a
\* case's energy from its own windows, its own latency and the idle device's windows.
\* Nothing but positions in lists ties a number to its heading (html.py, the zips of
\* the reports, rsa_key_bits.index and the [0] and [-1] of cpabe_rsa_report.py).
NumbersBelongToTheirHeadings == \A s \in report.shown : IsTrue(s)

\* The repetitions of a case are numbered from one in the order they were made, in
\* both tables that csv.py makes.
RepetitionsAreNumbered ==
  \A t \in {"memory", "timing"} :
    LET of(i) == table[t][i].of IN
    \A i \in DOMAIN table[t] :
      LET before == {j \in 1..i : of(j) = of(i)} IN
      /\ table[t][i].run = Cardinality(before)
      /\ \A m \in DOMAIN table[t][i].measurements :
           m # "throttled" => table[t][i].measurements[m][3] = table[t][i].run

\* Every number is where it belongs, in the tables and in the report made from them.
NumbersAreInPlace == RepetitionsAreNumbered /\ NumbersBelongToTheirHeadings

\* A number is marked exactly if a repetition it is made of was throttled, and a
\* legend warns exactly if a number it stands over is marked (html.py).  A window that
\* the meter did not answer in has no row to be marked in (write_samples).
Throttled(w, t, case) ==
  \E n \in 1..Runs : <<t, <<case, n>>>> \in w.throttled /\ (t = "energy" => <<case, n>> \notin w.silent)
MarksAreTrue ==
  /\ \A s \in report.shown :
       /\ s.flags = "timing_throttled" => (s.marked <=> Throttled(world, "timing", s.case))
       /\ s.flags = "energy_throttled" => (s.marked <=> Throttled(world, "energy", s.case))
  /\ report.timingLegend <=> \E s \in report.shown : s.flags = "timing_throttled" /\ s.marked
  /\ report.energyLegend <=> \E s \in report.shown : s.flags = "energy_throttled" /\ s.marked

\* What the campaign measured is in its report: the latency of every timing case, the
\* energy of every energy case and the memory of every memory case.
EverythingIsShown ==
  LET InReport(plan, measure) ==
        Elements(plan) \subseteq {s.case : s \in {x \in report.shown : x.measure = measure}}
  IN /\ InReport(TimingPlans[scenario], "latency")
     /\ InReport(EnergyPlans[scenario], "energy")
     /\ InReport(MemoryPlans[scenario], "memory")

\* A case whose every window is silent has no row, nor has the idle device.
Incomplete ==
  \/ world.unreadable # {}
  \/ \E case \in {Idle} \cup Elements(EnergyPlans[scenario]) :
       \A n \in 1..Runs : <<case, n>> \in world.silent

\* A report is made, with everything that was measured, unless something that it shows
\* never was: a throttled or partly silent campaign has one, and one with a gap raises
\* instead of showing it (measurements["peak_rss_bytes"] of csv.py, the None of
\* find_*_aggregation).
ReportIsWhole ==
  []<>(IF Incomplete THEN stage = "Raised" ELSE stage = "Written" /\ EverythingIsShown)
====
