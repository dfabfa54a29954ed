---- MODULE AESASCON ----
(***************************************************************************)
(* Scenario 1, AES-GCM against ASCON: orchestrate_aes_ascon.py with the    *)
(* programs it starts on the device and aes_ascon_report.py.  Every        *)
(* operator takes the environment file of the machine that evaluates it.   *)
(***************************************************************************)
EXTENDS MicroCases

RepeatsOf(env) == env.runs["aes_ascon"]

Builds == {"benchmark", "provision", "energy", "cooldown"}

\* The loop over PAYLOAD_SIZES, the same in the three stages.
Kinds == << <<"AES-GCM", "Encrypt">>, <<"AES-GCM", "Decrypt">>,
            <<"ASCON", "Encrypt">>, <<"ASCON", "Decrypt">> >>

MemoryPlan(env) == <<Baseline>> \o Grid(env.payloads, Kinds)
MemoryCommand(env, case) == Command("project", "benchmark", case, 1)

EnergyPlan(env) == Grid(env.payloads, Kinds)
EnergyCommand(env, case) == Command("project", "energy", case, 1)

TimingPlan(env) == Grid(env.payloads, Kinds)

TimingCommand(env, case) == Command("home", "benchmark", case, RepeatsOf(env))

----
(* On the device. *)

\* The timing and the memory benchmarks that the test binary registers.
Registered(env) ==
  [memory |-> Cases(Elements(Kinds), Elements(env.payloads)) \cup {Baseline},
   timing |-> Cases(Elements(Kinds), Elements(env.payloads))]

\* The kinds the energy program's main knows.
Accepted == Elements(Kinds)

Provisioned(env) ==
  {Fixture(f, 0) : f \in {"AESKey", "AESNonce", "ASCONKey", "ASCONNonce"}}
    \cup {Fixture(f, n) : f \in {"Plaintext", "AESCiphertext", "ASCONCiphertext"},
                          n \in Elements(env.payloads)}

\* What a memory benchmark loads before it measures.
MemoryLoads(case) ==
  IF case = Baseline THEN {}
  ELSE IF case.algorithm = "AES-GCM"
       THEN {Fixture("AESKey", 0), Fixture("AESNonce", 0),
             Fixture(IF case.operation = "Encrypt" THEN "Plaintext" ELSE "AESCiphertext", case.value)}
       ELSE {Fixture("ASCONKey", 0), Fixture("ASCONNonce", 0),
             Fixture(IF case.operation = "Encrypt" THEN "Plaintext" ELSE "ASCONCiphertext", case.value)}

----
(* The report: the cases it looks up in each table, and what else it needs. *)

ShownKinds == {"AES-GCM", "ASCON"} \X {"Encrypt", "Decrypt"}

Shows(env) ==
  [memory |-> Cases(ShownKinds, Elements(env.payloads)) \cup {Baseline},
   energy |-> Cases(ShownKinds, Elements(env.payloads)),
   timing |-> Cases(ShownKinds, Elements(env.payloads))]

\* Throughput is read from the timing table.
Extras(kind) == {Extra("throughput", "MB/s", FALSE)}

\* A table has a row per payload size and a column per algorithm.
MeasurementTable(env, name, measure, flags) ==
  UNION {Column(<<k[2], name>>, k, env.payloads, measure, flags) : k \in ShownKinds}

TimingTables(env) == MeasurementTable(env, "TimingTable", "latency", "timing_throttled")
EnergyTables(env) == MeasurementTable(env, "EnergyTable", "energy", "energy_throttled")
MemoryTables(env) == MeasurementTable(env, "MemoryTable", "memory", Unmarked)

\* A curve per algorithm and operation over the payload sizes.
ResultsChart(env, name, measure) ==
  UNION {Column(<<name, k[2]>>, k, env.payloads, measure, Unmarked) : k \in ShownKinds}

\* The two sides of a point that compares ASCON with AES-GCM.
Effects(env) ==
  ResultsChart(env, "latency_speedup", "latency") \cup ResultsChart(env, "energy_reduction", "energy")

Placements(env) ==
  TimingTables(env) \cup EnergyTables(env) \cup MemoryTables(env)
    \cup {Placement("BaselineRss", Baseline, "memory", 1, Unmarked)}
    \cup (UNION {ResultsChart(env, m, m) : m \in {"latency", "throughput", "energy", "memory"}})
    \cup Effects(env)

----
Scenario(env) ==
  [runs |-> RepeatsOf(env), builds |-> Builds, provisions |-> Provisioned(env),
   memory |-> LET plan == MemoryPlan(env) IN [i \in DOMAIN plan |-> MemoryCommand(env, plan[i])],
   energy |-> LET plan == EnergyPlan(env) IN [i \in DOMAIN plan |-> EnergyCommand(env, plan[i])],
   timing |-> LET plan == TimingPlan(env) IN [i \in DOMAIN plan |-> TimingCommand(env, plan[i])],
   registered |-> Registered(env), shows |-> Shows(env), analysable |-> TRUE]
====
