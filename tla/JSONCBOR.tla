---- MODULE JSONCBOR ----
(***************************************************************************)
(* Scenario 2, JSON against CBOR: orchestrate_json_cbor.py with the        *)
(* programs it starts on the device and json_cbor_report.py.  It has no    *)
(* fixtures and measures no memory.                                        *)
(***************************************************************************)
EXTENDS MicroCases

RepeatsOf(env) == env.runs["json_cbor"]

Builds == {"benchmark", "energy", "cooldown"}

Kinds == << <<"JSON", "Serialize">>, <<"JSON", "Deserialize">>,
            <<"CBOR", "Serialize">>, <<"CBOR", "Deserialize">>,
            <<"CBORKeyAsInt", "Serialize">>, <<"CBORKeyAsInt", "Deserialize">> >>

EnergyPlan(env) == Grid(env.payloads, Kinds)
EnergyCommand(env, case) == Command("project", "energy", case, 1)

TimingPlan(env) == Grid(env.payloads, Kinds)
TimingCommand(env, case) == Command("home", "benchmark", case, RepeatsOf(env))

----
(* On the device. *)

Registered(env) ==
  [memory |-> {}, timing |-> Cases(Elements(Kinds), Elements(env.payloads))]

Accepted == Elements(Kinds)

----
(* The report. *)

ShownKinds == {"JSON", "CBOR", "CBORKeyAsInt"} \X {"Serialize", "Deserialize"}

Shows(env) ==
  [memory |-> {},
   energy |-> Cases(ShownKinds, Elements(env.payloads)),
   timing |-> Cases(ShownKinds, Elements(env.payloads))]

\* The sizes are those of the first repetition; JSON's has the size of the raw message.
Extras(kind) ==
  IF kind[2] # "Serialize" THEN {}
  ELSE {Extra("size", "serialized_bytes", TRUE)}
         \cup (IF kind[1] = "JSON" THEN {Extra("raw size", "raw_bytes", TRUE)} ELSE {})

Formats == {"JSON", "CBOR", "CBORKeyAsInt"}

MeasurementTable(env, name, measure, flags) ==
  UNION {Column(<<k[2], name>>, k, env.payloads, measure, flags) : k \in ShownKinds}

TimingTables(env) == MeasurementTable(env, "TimingTable", "latency", "timing_throttled")
EnergyTables(env) == MeasurementTable(env, "EnergyTable", "energy", "energy_throttled")

RawSizes(env, place) == Column(place, <<"JSON", "Serialize">>, env.payloads, "raw size", Unmarked)
Sizes(env, place) ==
  UNION {Column(place, <<f, "Serialize">>, env.payloads, "size", Unmarked) : f \in Formats}

SizeTable(env) == RawSizes(env, "SizeComparisonTable") \cup Sizes(env, "SizeComparisonTable")

\* A size above the raw size of the same payload.
WireOverheads(env) == RawSizes(env, "wire_overhead") \cup Sizes(env, "wire_overhead")

ResultsChart(env, name, measure) ==
  UNION {Column(<<name, k[2]>>, k, env.payloads, measure, Unmarked) : k \in ShownKinds}

\* The sides of the points that compare the two CBOR formats with JSON.
Effects(env) ==
  ResultsChart(env, "latency_speedup", "latency") \cup ResultsChart(env, "energy_reduction", "energy")

Placements(env) ==
  TimingTables(env) \cup EnergyTables(env) \cup SizeTable(env) \cup WireOverheads(env)
    \cup ResultsChart(env, "latency", "latency") \cup ResultsChart(env, "energy", "energy")
    \cup Sizes(env, "size.png") \cup Effects(env)

----
Scenario(env) ==
  [runs |-> RepeatsOf(env), builds |-> Builds, provisions |-> {},
   memory |-> <<>>,
   energy |-> LET plan == EnergyPlan(env) IN [i \in DOMAIN plan |-> EnergyCommand(env, plan[i])],
   timing |-> LET plan == TimingPlan(env) IN [i \in DOMAIN plan |-> TimingCommand(env, plan[i])],
   registered |-> Registered(env), shows |-> Shows(env), analysable |-> TRUE]
====
