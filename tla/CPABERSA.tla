---- MODULE CPABERSA ----
(***************************************************************************)
(* Scenario 3, CP-ABE against RSA: orchestrate_cpabe_rsa.py with the       *)
(* programs it starts on the device and cpabe_rsa_report.py.  It grows     *)
(* three lists, of attributes, subscribers and key sizes, and compares     *)
(* them at one fixed RSA key size.                                         *)
(***************************************************************************)
EXTENDS MicroCases

RepeatsOf(env) == env.runs["cpabe_rsa"]

Builds == {"benchmark", "provision", "energy", "cooldown"}

CPABE == << <<"CPABEAttributes", "Encrypt">>, <<"CPABEAttributes", "Decrypt">> >>
Subscribers == << <<"RSASubscribers", "Encrypt">> >>
KeyBits == << <<"RSAKeyBits", "Encrypt">>, <<"RSAKeyBits", "Decrypt">> >>
FixedDecrypt(env) == Case("RSAKeyBits", "Decrypt", env.fixed)

Scaling(env) == Grid(env.attributes, CPABE) \o Grid(env.subscribers, Subscribers)

MemoryPlan(env) == <<Baseline>> \o Scaling(env) \o <<FixedDecrypt(env)>>
MemoryCommand(env, case) == Command("project", "benchmark", case, 1)

EnergyPlan(env) == Scaling(env) \o <<FixedDecrypt(env)>>
EnergyCommand(env, case) == Command("project", "energy", case, 1)

TimingPlan(env) == Scaling(env) \o Grid(env.keyBits, KeyBits)
TimingCommand(env, case) == Command("project", "benchmark", case, RepeatsOf(env))

----
(* On the device. *)

\* A memory benchmark has a decryption for the fixed key size only.
Registered(env) ==
  LET scaling == Cases(Elements(CPABE), Elements(env.attributes))
                   \cup Cases(Elements(Subscribers), Elements(env.subscribers))
  IN [memory |-> scaling \cup {FixedDecrypt(env), Baseline},
      timing |-> scaling \cup Cases(Elements(KeyBits), Elements(env.keyBits))]

\* The energy program takes no key size: it measures the one of its environment.
Accepted == Elements(CPABE) \cup Elements(Subscribers) \cup {<<"RSAKeyBits", "Decrypt">>}
EnergyValue(env, case) == IF case.algorithm = "RSAKeyBits" THEN env.fixed ELSE case.value

PerAttribute == {"CPABEPolicy", "CPABEPrivateKey", "CPABECiphertext"}

\* Mutant: a key less than the last count asks for.
ProvisionedTooFew(env) ==
  LET last == env.subscribers[Len(env.subscribers)] IN
  {Fixture("AESKey", 0), Fixture("CPABEPublicKey", 0)}
    \cup {Fixture(f, n) : f \in PerAttribute, n \in Elements(env.attributes)}
    \cup {Fixture("RSAPublicKey", i) : i \in 0..(last - 2)}
    \cup {Fixture(f, 0) : f \in {"RSAPrivateKey", "RSACiphertext"}}

\* A key for every subscriber of the last count, which need not be the largest; the
\* first subscriber also stores its private key and a ciphertext.
Provisioned(env) ==
  LET last == env.subscribers[Len(env.subscribers)] IN
  {Fixture("AESKey", 0), Fixture("CPABEPublicKey", 0)}
    \cup {Fixture(f, n) : f \in PerAttribute, n \in Elements(env.attributes)}
    \cup {Fixture("RSAPublicKey", i) : i \in 0..(last - 1)}
    \cup (IF last = 0 THEN {} ELSE {Fixture(f, 0) : f \in {"RSAPrivateKey", "RSACiphertext"}})

PublicKeys(count) == {Fixture("RSAPublicKey", i) : i \in 0..(count - 1)}

MemoryLoads(case) ==
  CASE case.algorithm = "Runtime" -> {}
    [] case.algorithm = "RSASubscribers" -> {Fixture("AESKey", 0)} \cup PublicKeys(case.value)
    [] case.algorithm = "RSAKeyBits" -> {Fixture("RSAPrivateKey", 0), Fixture("RSACiphertext", 0)}
    [] case.algorithm = "CPABEAttributes" /\ case.operation = "Encrypt" ->
         {Fixture("AESKey", 0), Fixture("CPABEPublicKey", 0), Fixture("CPABEPolicy", case.value)}
    [] case.algorithm = "CPABEAttributes" /\ case.operation = "Decrypt" ->
         {Fixture("CPABEPrivateKey", case.value), Fixture("CPABECiphertext", case.value)}

EnergyLoads(case) ==
  IF case.algorithm = "RSASubscribers" THEN PublicKeys(case.value) ELSE {}

----
(* The report. *)

CASE_ORDER == {<<"CPABEAttributes", "Encrypt">>, <<"CPABEAttributes", "Decrypt">>,
               <<"RSASubscribers", "Encrypt">>, <<"RSAKeyBits", "Encrypt">>,
               <<"RSAKeyBits", "Decrypt">>}

TimingValues(env, algorithm) ==
  CASE algorithm = "CPABEAttributes" -> env.attributes
    [] algorithm = "RSASubscribers" -> env.subscribers
    [] algorithm = "RSAKeyBits" -> env.keyBits

\* Energy and memory use only the fixed RSA decrypt reference.
EnergyMemoryValues(env, kind) ==
  IF kind[1] # "RSAKeyBits" THEN TimingValues(env, kind[1])
  ELSE IF kind[2] = "Decrypt" THEN <<env.fixed>> ELSE <<>>

\* Mutant: the report looks up what it needs of memory.csv in no table.
ShowsNoMemory(env) ==
  [memory |-> {},
   energy |-> UNION {Cases({k}, Elements(EnergyMemoryValues(env, k))) : k \in CASE_ORDER},
   timing |-> UNION {Cases({k}, Elements(TimingValues(env, k[1]))) : k \in CASE_ORDER}]

Shows(env) ==
  LET energyAndMemory == UNION {Cases({k}, Elements(EnergyMemoryValues(env, k))) : k \in CASE_ORDER} IN
  [memory |-> energyAndMemory \cup {Baseline},
   energy |-> energyAndMemory,
   timing |-> UNION {Cases({k}, Elements(TimingValues(env, k[1]))) : k \in CASE_ORDER}]

\* rsa_key_bits.index(fixed_rsa_key_bits) raises when the fixed size is not in the list.
Analysable(env) == env.fixed \in Elements(env.keyBits)

\* The sizes in the timing table are averaged over the repetitions.
Extras(kind) ==
  (IF kind[2] = "Encrypt" THEN {Extra("ciphertext", "ciphertext_bytes", FALSE)} ELSE {})
    \cup (IF kind[1] = "RSASubscribers"
          THEN {Extra("total_ciphertext", "total_ciphertext_bytes", FALSE)} ELSE {})
    \cup (IF kind = <<"CPABEAttributes", "Decrypt">>
          THEN {Extra("stored_key", "stored_key_bytes", FALSE)} ELSE {})

CpabeEncrypt == <<"CPABEAttributes", "Encrypt">>
CpabeDecrypt == <<"CPABEAttributes", "Decrypt">>
SubscriberEncrypt == <<"RSASubscribers", "Encrypt">>
RsaEncrypt == <<"RSAKeyBits", "Encrypt">>
RsaDecrypt == <<"RSAKeyBits", "Decrypt">>

Latencies(env, place, kind) ==
  Column(place, kind, TimingValues(env, kind[1]), "latency", "timing_throttled")

TimingReportTables(env) ==
  Latencies(env, "CpabePolicyScalingTable", CpabeEncrypt)
    \cup Latencies(env, "CpabePolicyScalingTable", CpabeDecrypt)
    \cup Column("CpabePolicyScalingTable", CpabeEncrypt, env.attributes, "ciphertext", Unmarked)
    \cup Column("CpabePolicyScalingTable", CpabeDecrypt, env.attributes, "stored_key", Unmarked)
    \cup Latencies(env, "RsaSubscriberScalingTable", SubscriberEncrypt)
    \cup (UNION {Column("RsaSubscriberScalingTable", SubscriberEncrypt, env.subscribers, m, Unmarked)
                   : m \in {"ciphertext", "total_ciphertext"}})
    \cup Latencies(env, "RsaKeySizeSensitivityTable", RsaEncrypt)
    \cup Latencies(env, "RsaKeySizeSensitivityTable", RsaDecrypt)
    \cup Column("RsaKeySizeSensitivityTable", RsaEncrypt, env.keyBits, "ciphertext", Unmarked)

EnergyTables(env) ==
  UNION {Column("EnergyTable", k, TimingValues(env, k[1]), "energy", "energy_throttled")
           : k \in {CpabeEncrypt, CpabeDecrypt, SubscriberEncrypt}}

MemoryReportTables(env) ==
  UNION {Column("PeakMemoryTable", k, TimingValues(env, k[1]), "memory", Unmarked)
           : k \in {CpabeEncrypt, CpabeDecrypt, SubscriberEncrypt}}

\* Where the fixed key size is in the list of the timing stage.
FixedIndex(env) ==
  CHOOSE i \in DOMAIN env.keyBits :
    env.keyBits[i] = env.fixed /\ \A j \in 1..(i - 1) : env.keyBits[j] # env.fixed

\* Energy and memory have one value of the kind, latency one for each key size.
FixedReferenceTables(env) ==
  {Placement("FixedRsaDecryptLatencyTable", FixedDecrypt(env), "latency", FixedIndex(env),
             "timing_throttled"),
   Placement("FixedRsaDecryptEnergyTable", FixedDecrypt(env), "energy", 1, "energy_throttled"),
   Placement("FixedRsaDecryptMemoryTable", FixedDecrypt(env), "memory", 1, Unmarked)}

\* The number at the first or the last value of a list, under that value's label.
First(place, kind, values, measure) ==
  Placement(place, Case(kind[1], kind[2], values[1]), measure, 1, Unmarked)
Last(place, kind, values, measure) ==
  Placement(place, Case(kind[1], kind[2], values[Len(values)]), measure, Len(values), Unmarked)
Ends(place, kind, values, measure) ==
  {First(place, kind, values, measure), Last(place, kind, values, measure)}

\* The latency at the fixed key size.
FixedLatency(env, place, kind) ==
  Placement(place, Case(kind[1], kind[2], env.fixed), "latency", FixedIndex(env), Unmarked)

\* Crossovers and ratios at the fewest and the most attributes; RSA's numbers are those
\* of the fixed key size.
Comparisons(env) ==
  Ends("bytes_crossover", CpabeEncrypt, env.attributes, "ciphertext")
    \cup Ends("latency_crossover", CpabeEncrypt, env.attributes, "latency")
    \cup Ends("decrypt_penalty", CpabeDecrypt, env.attributes, "latency")
    \cup {FixedLatency(env, "decrypt_penalty", RsaDecrypt)}
    \cup {FixedLatency(env, "asymmetry", k) : k \in {RsaEncrypt, RsaDecrypt}}
    \cup {First("asymmetry", k, env.attributes, "latency") : k \in {CpabeEncrypt, CpabeDecrypt}}

\* The circles: one wrapped key, and the copies for the most subscribers.
Fanout(env) ==
  {First("bytes_per_subscriber", SubscriberEncrypt, env.subscribers, "ciphertext"),
   Last("FanoutTotalBytes", SubscriberEncrypt, env.subscribers, "total_ciphertext")}

\* Lines fitted to a measure over the values of its kind.
Regressions(env) ==
  Column("regression", CpabeEncrypt, env.attributes, "latency", Unmarked)
    \cup Column("regression", CpabeDecrypt, env.attributes, "latency", Unmarked)
    \cup Column("regression", CpabeEncrypt, env.attributes, "ciphertext", Unmarked)
    \cup Column("regression", CpabeDecrypt, env.attributes, "stored_key", Unmarked)
    \cup Column("regression", SubscriberEncrypt, env.subscribers, "latency", Unmarked)

\* The lines of the charts: the chart, the kind and its measure, over the kind's values.
Lines ==
  {<<"cpabe", CpabeEncrypt, "latency">>, <<"cpabe", CpabeDecrypt, "latency">>,
   <<"cpabe", CpabeEncrypt, "ciphertext">>, <<"cpabe", CpabeDecrypt, "stored_key">>,
   <<"rsa_subscribers", SubscriberEncrypt, "latency">>,
   <<"rsa_subscribers", SubscriberEncrypt, "ciphertext">>,
   <<"rsa_subscribers", SubscriberEncrypt, "total_ciphertext">>,
   <<"rsa_key_size_sensitivity", RsaEncrypt, "latency">>,
   <<"rsa_key_size_sensitivity", RsaDecrypt, "latency">>,
   <<"ciphertext_crossover", SubscriberEncrypt, "total_ciphertext">>,
   <<"encrypt_crossover", SubscriberEncrypt, "latency">>,
   <<"decrypt_comparison", CpabeDecrypt, "latency">>}
    \cup (UNION {{<<"energy", k, "energy">>, <<"peak_memory", k, "memory">>} :
                  k \in {CpabeEncrypt, CpabeDecrypt, SubscriberEncrypt}})

\* The levels that are drawn across them, and the bars of the last.
Levels(env) ==
  {FixedLatency(env, place, RsaDecrypt) : place \in {"rsa_subscribers", "decrypt_comparison"}}
    \cup {Placement("energy", FixedDecrypt(env), "energy", 1, Unmarked),
          Placement("peak_memory", Baseline, "memory", 1, Unmarked)}
    \cup Ends("ciphertext_crossover", CpabeEncrypt, env.attributes, "ciphertext")
    \cup Ends("encrypt_crossover", CpabeEncrypt, env.attributes, "latency")
    \cup {FixedLatency(env, "asymmetry_chart", k) : k \in {RsaEncrypt, RsaDecrypt}}
    \cup {First("asymmetry_chart", k, env.attributes, "latency") : k \in {CpabeEncrypt, CpabeDecrypt}}

Charts(env) ==
  (UNION {Column(l[1], l[2], TimingValues(env, l[2][1]), l[3], Unmarked) : l \in Lines})
    \cup Levels(env)

Placements(env) ==
  TimingReportTables(env) \cup EnergyTables(env) \cup MemoryReportTables(env)
    \cup FixedReferenceTables(env)
    \cup {Placement("BaselineRss", Baseline, "memory", 1, Unmarked)}
    \cup Comparisons(env) \cup Fanout(env) \cup Regressions(env) \cup Charts(env)

----
Scenario(env) ==
  [runs |-> RepeatsOf(env), builds |-> Builds, provisions |-> Provisioned(env),
   memory |-> LET plan == MemoryPlan(env) IN [i \in DOMAIN plan |-> MemoryCommand(env, plan[i])],
   energy |-> LET plan == EnergyPlan(env) IN [i \in DOMAIN plan |-> EnergyCommand(env, plan[i])],
   timing |-> LET plan == TimingPlan(env) IN [i \in DOMAIN plan |-> TimingCommand(env, plan[i])],
   registered |-> Registered(env), shows |-> Shows(env), analysable |-> Analysable(env)]
====
