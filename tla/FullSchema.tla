---- MODULE FullSchema ----
(***************************************************************************)
(* Scenario 4, the full message pipelines: orchestrate_full_schema.py with *)
(* the programs it starts on the device and full_schema_report.py.         *)
(***************************************************************************)
EXTENDS MicroCases

RepeatsOf(env) == env.runs["full_schema"]

Builds == {"benchmark", "provision", "energy", "cooldown"}

Kinds == << <<"PSKStandard", "Encrypt">>, <<"PSKStandard", "Decrypt">>,
            <<"PSKLightweight", "Encrypt">>, <<"PSKLightweight", "Decrypt">>,
            <<"RSAStandard", "Encrypt">>, <<"RSAStandard", "Decrypt">>,
            <<"RSALightweight", "Encrypt">>, <<"RSALightweight", "Decrypt">>,
            <<"CPABEStandard", "Encrypt">>, <<"CPABEStandard", "Decrypt">>,
            <<"CPABELightweight", "Encrypt">>, <<"CPABELightweight", "Decrypt">> >>

MemoryPlan(env) == <<Baseline>> \o Grid(env.schemaPayloads, Kinds)
MemoryCommand(env, case) == Command("project", "benchmark", case, 1)

EnergyPlan(env) == Grid(env.schemaPayloads, Kinds)
EnergyCommand(env, case) == Command("project", "energy", case, 1)

TimingPlan(env) == Grid(env.schemaPayloads, Kinds)
TimingCommand(env, case) == Command("home", "benchmark", case, RepeatsOf(env))

----
(* On the device. *)

Registered(env) ==
  [memory |-> Cases(Elements(Kinds), Elements(env.schemaPayloads)) \cup {Baseline},
   timing |-> Cases(Elements(Kinds), Elements(env.schemaPayloads))]

Accepted == Elements(Kinds)

Configurations == {k[1] : k \in Elements(Kinds)}

Provisioned(env) ==
  {Fixture(f, 0) : f \in {"AESKey", "ASCONKey", "RSAPrivateKey", "RSAPublicKey",
                          "CPABEPublicKey", "CPABEPolicy", "CPABEPrivateKey"}}
    \cup {Fixture(f, n) : f \in Configurations \cup {"Plaintext"}, n \in Elements(env.schemaPayloads)}

\* Encryption loads the public keys, and a symmetric key for the size of its nonce;
\* decryption the private keys and the configuration's envelope.
SymmetricKey(configuration) ==
  IF configuration \in {"PSKStandard", "RSAStandard", "CPABEStandard"} THEN "AESKey" ELSE "ASCONKey"

MemoryLoads(case) ==
  LET rsa == case.algorithm \in {"RSAStandard", "RSALightweight"}
      cpabe == case.algorithm \in {"CPABEStandard", "CPABELightweight"}
      keys == IF case.operation = "Encrypt"
              THEN {SymmetricKey(case.algorithm)}
                     \cup (IF rsa THEN {"RSAPublicKey"} ELSE {})
                     \cup (IF cpabe THEN {"CPABEPublicKey", "CPABEPolicy"} ELSE {})
              ELSE IF rsa THEN {"RSAPrivateKey"}
              ELSE IF cpabe THEN {"CPABEPrivateKey"} ELSE {SymmetricKey(case.algorithm)}
      data == IF case.operation = "Encrypt" THEN "Plaintext" ELSE case.algorithm
  IN IF case = Baseline THEN {}
     ELSE {Fixture(k, 0) : k \in keys} \cup {Fixture(data, case.value)}

----
(* The report. *)

CONFIGURATIONS == {"PSKStandard", "PSKLightweight", "RSAStandard", "RSALightweight",
                   "CPABEStandard", "CPABELightweight"}
ShownKinds == CONFIGURATIONS \X {"Encrypt", "Decrypt"}

Shows(env) ==
  [memory |-> Cases(ShownKinds, Elements(env.schemaPayloads)) \cup {Baseline},
   energy |-> Cases(ShownKinds, Elements(env.schemaPayloads)),
   timing |-> Cases(ShownKinds, Elements(env.schemaPayloads))]

\* The size of an envelope is that of the first repetition.
Extras(kind) == IF kind[2] = "Encrypt" THEN {Extra("size", "serialized_bytes", TRUE)} ELSE {}

\* A table has a row per configuration and a column per payload size.
MeasurementTable(env, name, measure, flags) ==
  UNION {Column(<<k[2], name>>, k, env.schemaPayloads, measure, flags) : k \in ShownKinds}

TimingTables(env) == MeasurementTable(env, "TimingTable", "latency", "timing_throttled")
EnergyTables(env) == MeasurementTable(env, "EnergyTable", "energy", "energy_throttled")
MemoryTables(env) == MeasurementTable(env, "MemoryTable", "memory", Unmarked)

SizeTable(env) ==
  UNION {Column("SerializedEnvelopeSizeTable", <<c, "Encrypt">>, env.schemaPayloads, "size", Unmarked)
           : c \in CONFIGURATIONS}

\* The charts put the configurations together from family and profile.
Named ==
  [PSK |-> [Standard |-> "PSKStandard", Lightweight |-> "PSKLightweight"],
   RSA |-> [Standard |-> "RSAStandard", Lightweight |-> "RSALightweight"],
   CPABE |-> [Standard |-> "CPABEStandard", Lightweight |-> "CPABELightweight"]]
Series == {Named[f][p] : f \in {"PSK", "RSA", "CPABE"}, p \in {"Standard", "Lightweight"}}
Overview(env, measure) ==
  UNION {Column(<<measure, o>>, <<c, o>>, env.schemaPayloads, measure, Unmarked)
           : c \in Series, o \in {"Encrypt", "Decrypt"}}
SizeChart(env) ==
  UNION {Column("serialized_envelope_size.png", <<c, "Encrypt">>, env.schemaPayloads, "size", Unmarked)
           : c \in Series}

Placements(env) ==
  TimingTables(env) \cup EnergyTables(env) \cup MemoryTables(env) \cup SizeTable(env)
    \cup {Placement("BaselineRss", Baseline, "memory", 1, Unmarked)}
    \cup (UNION {Overview(env, m) : m \in {"latency", "energy", "memory"}}) \cup SizeChart(env)

----
Scenario(env) ==
  [runs |-> RepeatsOf(env), builds |-> Builds, provisions |-> Provisioned(env),
   memory |-> LET plan == MemoryPlan(env) IN [i \in DOMAIN plan |-> MemoryCommand(env, plan[i])],
   energy |-> LET plan == EnergyPlan(env) IN [i \in DOMAIN plan |-> EnergyCommand(env, plan[i])],
   timing |-> LET plan == TimingPlan(env) IN [i \in DOMAIN plan |-> TimingCommand(env, plan[i])],
   registered |-> Registered(env), shows |-> Shows(env), analysable |-> TRUE]
====
