---- MODULE MicroEnvironmentProofs ----
(***************************************************************************)
(* What a report says for every pair of environment files, and that a       *)
(* campaign gets to its report when they agree.                             *)
(***************************************************************************)
EXTENDS MicroEnvironment, Sequences, TLAPS

\* A command of the memory and the energy stage makes one repetition and is run for each
\* of them; one of the timing stage makes them all.
Repeats(commands, n) == \A c \in Elements(commands) : c.repetitions = n
MakesUp(plan, runs) ==
  /\ plan.runs = runs
  /\ Repeats(plan.memory, 1) /\ Repeats(plan.energy, 1) /\ Repeats(plan.timing, runs)

LEMMA AESASCONRepeats ==
  ASSUME NEW env
  PROVE  MakesUp(A!Scenario(env), env.runs["aes_ascon"])
BY DEF A!Scenario, A!MemoryCommand, A!EnergyCommand, A!TimingCommand, A!Command,
   A!RepeatsOf, MakesUp, Repeats, Elements

LEMMA JSONCBORRepeats ==
  ASSUME NEW env
  PROVE  MakesUp(J!Scenario(env), env.runs["json_cbor"])
BY DEF J!Scenario, J!EnergyCommand, J!TimingCommand, J!Command,
   J!RepeatsOf, MakesUp, Repeats, Elements

LEMMA CPABERSARepeats ==
  ASSUME NEW env
  PROVE  MakesUp(C!Scenario(env), env.runs["cpabe_rsa"])
BY DEF C!Scenario, C!MemoryCommand, C!EnergyCommand, C!TimingCommand, C!Command,
   C!RepeatsOf, MakesUp, Repeats, Elements

LEMMA FullSchemaRepeats ==
  ASSUME NEW env
  PROVE  MakesUp(F!Scenario(env), env.runs["full_schema"])
BY DEF F!Scenario, F!MemoryCommand, F!EnergyCommand, F!TimingCommand, F!Command,
   F!RepeatsOf, MakesUp, Repeats, Elements

LEMMA PlanRepeats ==
  ASSUME RunsAreCounted, NEW s \in Scenarios, NEW env \in Environments
  PROVE  LET plan == Plans[s][env] IN
         plan = Scenario(s, env) /\ plan.runs \in Nat /\ MakesUp(plan, plan.runs)
<1>1. Plans[s][env] = Scenario(s, env)
  BY DEF Plans
<1>2. env.runs[s] \in Nat
  BY DEF RunsAreCounted
<1> SUFFICES MakesUp(Scenario(s, env), env.runs[s])
  BY <1>1, <1>2 DEF MakesUp
<1>3. CASE s = "aes_ascon"
  <2>1. Scenario(s, env) = A!Scenario(env)
    BY <1>3 DEF Scenario
  <2> QED BY <1>3, <2>1, AESASCONRepeats
<1>4. CASE s = "json_cbor"
  <2>1. Scenario(s, env) = J!Scenario(env)
    BY <1>4 DEF Scenario
  <2> QED BY <1>4, <2>1, JSONCBORRepeats
<1>5. CASE s = "cpabe_rsa"
  <2>1. Scenario(s, env) = C!Scenario(env)
    BY <1>5 DEF Scenario
  <2> QED BY <1>5, <2>1, CPABERSARepeats
<1>6. CASE s = "full_schema"
  <2>1. Scenario(s, env) = F!Scenario(env)
    BY <1>6 DEF Scenario
  <2> QED BY <1>6, <2>1, FullSchemaRepeats
<1> QED BY <1>3, <1>4, <1>5, <1>6 DEF Scenarios

\* A key size that the report shows in the energy table is shown in that of memory too; the
\* device measures memory for its own fixed size only.
LEMMA FixedSizeIsChecked ==
  ASSUME NEW told, NEW pi2, NEW c \in C!Scenario(told).shows["energy"]
  PROVE  /\ c \in C!Scenario(told).shows["memory"]
         /\ c \in C!Scenario(pi2).registered["memory"] => C!EnergyValue(pi2, c) = c.value
<1>1. c \in C!Scenario(told).shows["memory"]
  BY DEF C!Scenario, C!Shows
<1>2. ASSUME c \in C!Registered(pi2).memory
      PROVE  C!EnergyValue(pi2, c) = c.value
  <2>1. CASE c \in C!Cases(C!Elements(C!CPABE), C!Elements(pi2.attributes))
    <3>1. c.algorithm = "CPABEAttributes"
      BY <2>1 DEF C!Cases, C!Case, C!Elements, C!CPABE
    <3> QED BY <3>1 DEF C!EnergyValue
  <2>2. CASE c \in C!Cases(C!Elements(C!Subscribers), C!Elements(pi2.subscribers))
    <3>1. c.algorithm = "RSASubscribers"
      BY <2>2 DEF C!Cases, C!Case, C!Elements, C!Subscribers
    <3> QED BY <3>1 DEF C!EnergyValue
  <2>3. CASE c = C!FixedDecrypt(pi2)
    BY <2>3 DEF C!FixedDecrypt, C!Case, C!EnergyValue
  <2>4. CASE c = C!Baseline
    BY <2>4 DEF C!Baseline, C!Case, C!EnergyValue
  <2> QED BY <1>2, <2>1, <2>2, <2>3, <2>4 DEF C!Registered
<1> QED BY <1>1, <1>2 DEF C!Scenario

USE DEF Tables

LEMMA JSONCBORShowsNoMemory == \A env : J!Scenario(env).shows["memory"] = {}
BY DEF J!Scenario, J!Shows

\* What a stage leaves of the tables when it writes its own.
LEMMA TableWritten ==
  ASSUME MachinesInv, NEW t \in Tables, NEW rows, table' = [table EXCEPT ![scenario][t] = rows]
  PROVE  /\ table'[scenario][t] = rows /\ \A u \in Tables \ {t} : table'[scenario][u] = table[scenario][u]
         /\ DOMAIN table' = Scenarios /\ \A s \in Scenarios : DOMAIN table'[s] = Tables
BY DEF MachinesInv

\* Everything but a report and the machines follows the stage.
LEMMA Rested ==
  ASSUME Resting', MachinesInv', report' = report, CampaignReportIsTrue
  PROVE  IInv'
BY DEF IInv, Resting, MemoryInv, EnergyInv, TimingInv, CampaignReportIsTrue

\* The rows that the commands of a stage make are of this campaign.
LEMMA RowsAreOfRuns ==
  ASSUME RunsAreCounted, MachinesInv
  PROVE  /\ \A c \in Elements(Planned.memory) \cup Elements(Planned.energy) :
              Planned.runs * c.repetitions = Planned.runs
         /\ \A c \in Elements(Planned.timing) : 1 * c.repetitions = Planned.runs
<1> DEFINE plan == Plans[scenario][read]
<1>1. plan.runs \in Nat /\ MakesUp(plan, plan.runs)
  BY PlanRepeats DEF MachinesInv
<1> HIDE DEF plan
<1>2. \A c \in Elements(plan.memory) \cup Elements(plan.energy) : c.repetitions = 1
  BY <1>1 DEF MakesUp, Repeats
<1>3. \A c \in Elements(plan.timing) : c.repetitions = plan.runs
  BY <1>1 DEF MakesUp, Repeats
<1>4. plan.runs * 1 = plan.runs /\ 1 * plan.runs = plan.runs
  BY <1>1
<1> QED BY <1>2, <1>3, <1>4 DEF Planned, plan

LEMMA OperatorSteps ==
  ASSUME RunsAreCounted, IInv,
         \/ EditLaptop \/ EditPi \/ (\E s \in Scenarios : StartCampaign(s)) \/ Kill
  PROVE  IInv'
<1> USE DEF started, machines
<1>1. CASE EditLaptop \/ EditPi
  <2>1. Resting' /\ report' = report
    BY <1>1 DEF EditLaptop, EditPi, Resting
  <2>2. MachinesInv'
    BY <1>1, <2>1 DEF EditLaptop, EditPi, IInv, MachinesInv
  <2> QED BY <2>1, <2>2, Rested DEF IInv
<1>2. ASSUME NEW s \in Scenarios, StartCampaign(s)
      PROVE  IInv'
  <2>1. stage' = "Build" /\ scenario' = s /\ read' = laptop /\ UNCHANGED <<laptop, pi, table, report>>
    BY <1>2 DEF StartCampaign
  <2>2. MachinesInv'
    BY <2>1 DEF IInv, MachinesInv
  <2> QED BY <2>1, <2>2 DEF IInv, MemoryInv, EnergyInv, TimingInv, CampaignReportIsTrue
<1>3. CASE Kill
  <2>1. /\ Resting' /\ UNCHANGED <<laptop, pi, scenario, read, report>>
        /\ table' = table \/ table' = [table EXCEPT ![scenario]["energy"] = {}]
    BY <1>3 DEF Kill, Resting
  <2>2. DOMAIN table' = Scenarios /\ \A s \in Scenarios : DOMAIN table'[s] = Tables
    BY <2>1, TableWritten DEF IInv, MachinesInv
  <2>3. MachinesInv'
    BY <2>1, <2>2 DEF IInv, MachinesInv
  <2> QED BY <2>1, <2>3, Rested DEF IInv
<1> QED BY <1>1, <1>2, <1>3

LEMMA FirstStages ==
  ASSUME RunsAreCounted, IInv, Build \/ Provision
  PROVE  IInv'
<1>1. /\ UNCHANGED <<laptop, pi, scenario, read, table, report>> /\ ~Resting
      /\ stage' \in {"Provision", "Memory"} \/ (stage' = "Energy" /\ scenario = "json_cbor")
  BY DEF Build, Provision, started, machines, Resting
<1>2. MachinesInv'
  BY <1>1 DEF IInv, MachinesInv
<1> QED BY <1>1, <1>2 DEF IInv, MemoryInv, EnergyInv, TimingInv, CampaignReportIsTrue

LEMMA MemoryStep ==
  ASSUME RunsAreCounted, IInv, Memory
  PROVE  IInv'
<1> DEFINE rows == Lines(Elements(Planned.memory), OnDevice.registered.memory, Planned.runs)
<1>1. /\ ~Resting /\ UNCHANGED <<laptop, pi, scenario, read, report>>
      /\ \/ stage' = "Stopped" /\ table' = table
         \/ stage' = "Energy" /\ table' = [table EXCEPT ![scenario]["memory"] = rows]
  BY DEF Memory, started, machines, Resting
<1>2. Planned' = Planned /\ OnDevice' = OnDevice
  BY <1>1 DEF Planned, OnDevice
<1>3. CASE stage' = "Stopped" /\ table' = table
  <2>1. MachinesInv' /\ Resting'
    BY <1>1, <1>3 DEF IInv, MachinesInv, Resting
  <2> QED BY <1>1, <2>1, Rested DEF IInv
<1>4. CASE stage' = "Energy" /\ table' = [table EXCEPT ![scenario]["memory"] = rows]
  <2>1. ASSUME NEW r \in rows
        PROVE  r = Row(r.case, r.case.value, Planned.runs) /\ r.case \in OnDevice.registered["memory"]
    <3>1. PICK c \in Elements(Planned.memory) :
            /\ c.case \in OnDevice.registered.memory
            /\ r = Row(c.case, c.case.value, Planned.runs * c.repetitions)
      BY DEF Lines
    <3>2. r = Row(c.case, c.case.value, Planned.runs)
      BY <3>1, RowsAreOfRuns DEF IInv
    <3> QED BY <3>1, <3>2 DEF Row
  <2> HIDE DEF rows
  <2>2. /\ table'[scenario]["memory"] = rows
        /\ DOMAIN table' = Scenarios /\ \A s \in Scenarios : DOMAIN table'[s] = Tables
    BY <1>4, TableWritten DEF IInv
  <2>3. MachinesInv'
    BY <1>1, <2>2 DEF IInv, MachinesInv
  <2>4. MemoryInv'
    BY <1>1, <1>2, <2>1, <2>2 DEF MemoryInv, IsRow
  <2> QED BY <1>1, <1>4, <2>3, <2>4 DEF IInv, EnergyInv, TimingInv, CampaignReportIsTrue
<1> QED BY <1>1, <1>3, <1>4

LEMMA EnergyStep ==
  ASSUME RunsAreCounted, IInv, Energy
  PROVE  IInv'
<1>1. PICK finished :
        /\ table' = [table EXCEPT ![scenario]["energy"] =
             {Row(c.case, EnergyValue(scenario, pi, c.case), Planned.runs * c.repetitions) : c \in finished}]
        /\ stage' = IF finished = Elements(Planned.energy) THEN "Timing" ELSE "Stopped"
  BY DEF Energy
<1>2. /\ stage = "Energy" /\ ~Resting /\ UNCHANGED <<laptop, pi, scenario, read, report>>
  BY DEF Energy, started, machines, Resting
<1>3. Planned' = Planned /\ OnDevice' = OnDevice
  BY <1>2 DEF Planned, OnDevice
<1> DEFINE rows == {Row(c.case, EnergyValue(scenario, pi, c.case), Planned.runs * c.repetitions)
                      : c \in finished}
<1>4. ASSUME finished = Elements(Planned.energy), NEW r \in rows
      PROVE  r = Row(r.case, EnergyValue(scenario, pi, r.case), Planned.runs)
  <2>1. PICK c \in finished :
          r = Row(c.case, EnergyValue(scenario, pi, c.case), Planned.runs * c.repetitions)
    OBVIOUS
  <2>2. r = Row(c.case, EnergyValue(scenario, pi, c.case), Planned.runs)
    BY <1>4, <2>1, RowsAreOfRuns DEF IInv
  <2> QED BY <2>2 DEF Row
<1>5. table' = [table EXCEPT ![scenario]["energy"] = rows]
  BY <1>1
<1> HIDE DEF rows
<1>6. /\ table'[scenario]["energy"] = rows /\ table'[scenario]["memory"] = table[scenario]["memory"]
      /\ DOMAIN table' = Scenarios /\ \A s \in Scenarios : DOMAIN table'[s] = Tables
  BY <1>5, TableWritten DEF IInv
<1>7. MachinesInv'
  BY <1>2, <1>6 DEF IInv, MachinesInv
<1>8. CASE finished # Elements(Planned.energy)
  <2>1. Resting'
    BY <1>1, <1>8 DEF Resting
  <2> QED BY <1>2, <1>7, <2>1, Rested DEF IInv
<1>9. CASE finished = Elements(Planned.energy)
  <2>1. stage' = "Timing"
    BY <1>1, <1>9
  <2>2. MemoryInv'
    BY <1>2, <1>3, <1>6 DEF IInv, MemoryInv, IsRow
  <2>3. EnergyInv'
    BY <1>2, <1>3, <1>4, <1>6, <1>9 DEF EnergyInv, IsRow
  <2> QED BY <1>2, <1>7, <2>1, <2>2, <2>3 DEF IInv, TimingInv, CampaignReportIsTrue
<1> QED BY <1>8, <1>9

LEMMA TimingStep ==
  ASSUME RunsAreCounted, IInv, Timing
  PROVE  IInv'
<1> DEFINE rows == Lines(Elements(Planned.timing), OnDevice.registered.timing, 1)
<1>1. /\ stage = "Timing" /\ ~Resting /\ UNCHANGED <<laptop, pi, scenario, read, report>>
      /\ \/ stage' = "Stopped" /\ table' = table
         \/ stage' = "Report" /\ table' = [table EXCEPT ![scenario]["timing"] = rows]
  BY DEF Timing, started, machines, Resting
<1>2. Planned' = Planned /\ OnDevice' = OnDevice
  BY <1>1 DEF Planned, OnDevice
<1>3. CASE stage' = "Stopped" /\ table' = table
  <2>1. MachinesInv' /\ Resting'
    BY <1>1, <1>3 DEF IInv, MachinesInv, Resting
  <2> QED BY <1>1, <2>1, Rested DEF IInv
<1>4. CASE stage' = "Report" /\ table' = [table EXCEPT ![scenario]["timing"] = rows]
  <2>1. ASSUME NEW r \in rows
        PROVE  r = Row(r.case, r.case.value, Planned.runs)
    <3>1. PICK c \in Elements(Planned.timing) : r = Row(c.case, c.case.value, 1 * c.repetitions)
      BY DEF Lines
    <3>2. r = Row(c.case, c.case.value, Planned.runs)
      BY <3>1, RowsAreOfRuns DEF IInv
    <3> QED BY <3>2 DEF Row
  <2> HIDE DEF rows
  <2>2. /\ table'[scenario]["timing"] = rows /\ table'[scenario]["memory"] = table[scenario]["memory"]
        /\ table'[scenario]["energy"] = table[scenario]["energy"]
        /\ DOMAIN table' = Scenarios /\ \A s \in Scenarios : DOMAIN table'[s] = Tables
    BY <1>4, TableWritten DEF IInv
  <2>3. MachinesInv'
    BY <1>1, <2>2 DEF IInv, MachinesInv
  <2>4. MemoryInv' /\ EnergyInv'
    BY <1>1, <1>2, <2>2 DEF IInv, MemoryInv, EnergyInv, IsRow
  <2>5. TimingInv'
    BY <1>1, <1>2, <2>1, <2>2 DEF TimingInv, IsRow
  <2> QED BY <1>1, <2>3, <2>4, <2>5 DEF IInv, CampaignReportIsTrue
<1> QED BY <1>1, <1>3, <1>4

\* A row that the report shows, under its own heading.
LEMMA ShownRowIsTrue ==
  ASSUME RunsAreCounted, IInv, stage = "Report", NEW t \in Tables, NEW c \in Plans[scenario][laptop].shows[t],
         \A u \in Tables : \A d \in Plans[scenario][laptop].shows[u] :
           \E r \in table[scenario][u] : r.case = d,
         NEW r \in table[scenario][t], r.case = c
  PROVE  r = Row(c, c.value, Plans[scenario][laptop].runs)
<1>1. /\ read = laptop /\ scenario \in Scenarios /\ laptop \in Environments /\ pi \in Environments
      /\ Planned = Plans[scenario][laptop] /\ OnDevice = Plans[scenario][pi]
  BY DEF IInv, MachinesInv, Resting, Planned, OnDevice
<1>2. /\ Plans[scenario][laptop] = Scenario(scenario, laptop)
      /\ Plans[scenario][pi] = Scenario(scenario, pi)
  BY <1>1 DEF Plans
<1>3. CASE t = "memory"
  <2>1. scenario # "json_cbor"
    <3>1. SUFFICES ASSUME scenario = "json_cbor" PROVE FALSE
      OBVIOUS
    <3>2. Plans[scenario][laptop] = J!Scenario(laptop)
      BY <1>2, <3>1 DEF Scenario
    <3> QED BY <1>3, <3>2, JSONCBORShowsNoMemory
  <2> QED BY <1>1, <1>3, <2>1 DEF IInv, MemoryInv, IsRow
<1>4. CASE t = "timing"
  BY <1>1, <1>4 DEF IInv, TimingInv, IsRow
<1>5. CASE t = "energy"
  <2>1. r = Row(c, EnergyValue(scenario, pi, c), Plans[scenario][laptop].runs)
    BY <1>1, <1>5 DEF IInv, EnergyInv, IsRow
  <2>2. EnergyValue(scenario, pi, c) = c.value
    <3>1. CASE scenario # "cpabe_rsa"
      BY <3>1 DEF EnergyValue
    <3>2. CASE scenario = "cpabe_rsa"
      <4>1. /\ Plans[scenario][laptop] = C!Scenario(laptop)
            /\ Plans[scenario][pi] = C!Scenario(pi)
        BY <1>2, <3>2 DEF Scenario
      <4>2. c \in Plans[scenario][laptop].shows["memory"]
        BY <1>5, <4>1, FixedSizeIsChecked
      <4>3. PICK m \in table[scenario]["memory"] : m.case = c
        BY <4>2
      <4>4. c \in C!Scenario(pi).registered["memory"]
        BY <1>1, <3>2, <4>1, <4>3 DEF IInv, MemoryInv
      <4>5. C!EnergyValue(pi, c) = c.value
        BY <1>5, <4>1, <4>4, FixedSizeIsChecked
      <4> QED BY <3>2, <4>5 DEF EnergyValue
    <3> QED BY <3>1, <3>2
  <2> QED BY <2>1, <2>2
<1> QED BY <1>3, <1>4, <1>5

LEMMA ReportStep ==
  ASSUME RunsAreCounted, IInv, GenerateReport
  PROVE  IInv'
<1> DEFINE told == Plans[scenario][laptop]
           rows(t, c) == {r \in table[scenario][t] : r.case = c}
<1>1. /\ stage = "Report" /\ Resting' /\ UNCHANGED <<laptop, pi, scenario, read, table>>
      /\ \/ report' = report
         \/ /\ \A t \in Tables : \A c \in told.shows[t] : rows(t, c) # {}
            /\ report' = [by |-> campaign, scenario |-> scenario, runs |-> told.runs,
                          cells |-> [t \in Tables |-> [c \in told.shows[t] |-> rows(t, c)]]]
  BY DEF GenerateReport, started, machines, Resting
<1>2. MachinesInv'
  BY <1>1 DEF IInv, MachinesInv
<1>3. CASE report' = report
  BY <1>1, <1>2, <1>3, Rested DEF IInv
<1>4. CASE /\ \A t \in Tables : \A c \in told.shows[t] : rows(t, c) # {}
           /\ report' = [by |-> campaign, scenario |-> scenario, runs |-> told.runs,
                         cells |-> [t \in Tables |-> [c \in told.shows[t] |-> rows(t, c)]]]
  <2>1. \A t \in Tables : \A c \in told.shows[t] : \E r \in table[scenario][t] : r.case = c
    BY <1>4
  <2>2. ASSUME NEW t \in Tables, NEW c \in told.shows[t]
        PROVE  rows(t, c) = {Row(c, c.value, told.runs)}
    <3>1. \A r \in rows(t, c) : r = Row(c, c.value, told.runs)
      BY <1>1, <2>1, ShownRowIsTrue
    <3> QED BY <1>4, <3>1
  <2> HIDE DEF told, rows
  <2>3. /\ report'.runs = told.runs /\ \A t \in Tables : DOMAIN report'.cells[t] = told.shows[t]
        /\ \A t \in Tables : \A c \in told.shows[t] : report'.cells[t][c] = rows(t, c)
    BY <1>4
  <2>4. CampaignReportIsTrue'
    BY <2>2, <2>3 DEF CampaignReportIsTrue
  <2> QED BY <1>1, <1>2, <2>4 DEF IInv, Resting, MemoryInv, EnergyInv, TimingInv
<1> QED BY <1>1, <1>3, <1>4

LEMMA EnvironmentInvariant ==
  ASSUME RunsAreCounted
  PROVE  Spec => []IInv
<1>1. Init => IInv
  BY DEF Init, IInv, MachinesInv, Resting, MemoryInv, EnergyInv, TimingInv,
     CampaignReportIsTrue, Scenarios
<1>2. IInv /\ [Next]_vars => IInv'
  <2> SUFFICES ASSUME IInv, [Next]_vars PROVE IInv'
    OBVIOUS
  <2>1. CASE Next
    BY <2>1, OperatorSteps, FirstStages, MemoryStep, EnergyStep, TimingStep, ReportStep
       DEF Next, Main
  <2>2. CASE UNCHANGED vars
    BY <2>2 DEF vars, machines, started, IInv, MachinesInv, Resting, MemoryInv,
       EnergyInv, TimingInv, CampaignReportIsTrue, IsRow, Planned, OnDevice
  <2> QED BY <2>1, <2>2
<1> QED BY <1>1, <1>2, PTL DEF Spec

\* However the environment files of laptop and device differ and are edited between the
\* campaigns, and whichever campaigns are killed: every number in a campaign's report was
\* measured with the value of its heading, as often as the report says.
THEOREM ReportsTellTheTruth == Spec => []CampaignReportIsTrue
<1>1. Spec => []IInv
  BY MicroEnvironmentAssumption, EnvironmentInvariant
<1>2. IInv => CampaignReportIsTrue
  BY DEF IInv
<1> QED BY <1>1, <1>2, PTL

----------------------------------------------------------------------------
(* That no stage fails by itself when the two files agree: the plans of the four       *)
(* scripts list by list, and then the stages.                                           *)

\* Where in the grid of n values and m kinds a value and a kind are.
LEMMA GridPlaces ==
  ASSUME NEW n \in Nat, NEW m \in {1, 2, 4, 6, 12}
  PROVE  /\ n * m \in Nat
         /\ \A i \in 1..(n * m) : ((i - 1) \div m) + 1 \in 1..n /\ ((i - 1) % m) + 1 \in 1..m
         /\ \A p \in 1..n, r \in 1..m :
              LET i == (p - 1) * m + r IN
              i \in 1..(n * m) /\ ((i - 1) \div m) + 1 = p /\ ((i - 1) % m) + 1 = r
<1> DEFINE places(k) ==
       /\ n * k \in Nat
       /\ \A i \in 1..(n * k) : ((i - 1) \div k) + 1 \in 1..n /\ ((i - 1) % k) + 1 \in 1..k
       /\ \A p \in 1..n, r \in 1..k :
            LET i == (p - 1) * k + r IN
            i \in 1..(n * k) /\ ((i - 1) \div k) + 1 = p /\ ((i - 1) % k) + 1 = r
<1>1. places(1) OBVIOUS
<1>2. places(2) OBVIOUS
<1>3. places(4) OBVIOUS
<1>4. places(6) OBVIOUS
<1>5. places(12) OBVIOUS
<1>6. places(m)
  BY <1>1, <1>2, <1>3, <1>4, <1>5
<1> QED BY <1>6

LEMMA GridElements ==
  ASSUME NEW values, values \in Seq(Nat), NEW kinds, DOMAIN kinds = 1..Len(kinds),
         Len(kinds) \in {1, 2, 4, 6, 12}
  PROVE  LET grid == Grid(values, kinds)
             cases == Cases(Elements(kinds), Elements(values))
         IN grid \in Seq(cases) /\ Elements(grid) = cases
<1> DEFINE n == Len(values)
           m == Len(kinds)
           grid == Grid(values, kinds)
           cases == Cases(Elements(kinds), Elements(values))
<1>1. n \in Nat /\ m \in {1, 2, 4, 6, 12} /\ DOMAIN values = 1..n /\ DOMAIN kinds = 1..m
  OBVIOUS
<1> DEFINE row(i) == ((i - 1) \div m) + 1
           column(i) == ((i - 1) % m) + 1
<1>2. grid = [i \in 1..(n * m) |-> Case(kinds[column(i)][1], kinds[column(i)][2], values[row(i)])]
  BY DEF Grid
<1>3. /\ \A r \in 1..m, p \in 1..n : Case(kinds[r][1], kinds[r][2], values[p]) \in cases
      /\ \A c \in cases : \E r \in 1..m, p \in 1..n : c = Case(kinds[r][1], kinds[r][2], values[p])
  <2>1. /\ \A k \in Elements(kinds) : \E r \in 1..m : k = kinds[r]
        /\ \A v \in Elements(values) : \E p \in 1..n : v = values[p]
        /\ \A r \in 1..m : kinds[r] \in Elements(kinds)
        /\ \A p \in 1..n : values[p] \in Elements(values)
    BY <1>1 DEF Elements
  <2>2. ASSUME NEW r \in 1..m, NEW p \in 1..n PROVE Case(kinds[r][1], kinds[r][2], values[p]) \in cases
    <3>1. kinds[r] \in Elements(kinds) /\ values[p] \in Elements(values)
      BY <2>1
    <3> QED BY <3>1 DEF Cases
  <2>3. ASSUME NEW c \in cases
        PROVE  \E r \in 1..m, p \in 1..n : c = Case(kinds[r][1], kinds[r][2], values[p])
    <3>1. PICK k \in Elements(kinds), v \in Elements(values) : c = Case(k[1], k[2], v)
      BY DEF Cases
    <3>2. PICK r \in 1..m : k = kinds[r]
      BY <2>1
    <3>3. PICK p \in 1..n : v = values[p]
      BY <2>1
    <3> QED BY <3>1, <3>2, <3>3
  <2> QED BY <2>2, <2>3
<1> HIDE DEF n, m, grid, cases
<1>4. /\ \A i \in 1..(n * m) : row(i) \in 1..n /\ column(i) \in 1..m
      /\ \A p \in 1..n, r \in 1..m : \E i \in 1..(n * m) : row(i) = p /\ column(i) = r
  <2>1. \A i \in 1..(n * m) : row(i) \in 1..n /\ column(i) \in 1..m
    BY <1>1, GridPlaces
  <2>2. ASSUME NEW p \in 1..n, NEW r \in 1..m
        PROVE  \E i \in 1..(n * m) : row(i) = p /\ column(i) = r
    <3> DEFINE i == (p - 1) * m + r
    <3>1. i \in 1..(n * m) /\ row(i) = p /\ column(i) = r
      BY <1>1, GridPlaces
    <3> HIDE DEF i, row, column
    <3> QED BY <3>1
  <2> QED BY <2>1, <2>2
<1> HIDE DEF row, column
<1>5. /\ \A i \in 1..(n * m) : grid[i] \in cases
      /\ \A c \in cases : \E i \in 1..(n * m) : grid[i] = c
  <2>1. \A i \in 1..(n * m) : grid[i] = Case(kinds[column(i)][1], kinds[column(i)][2], values[row(i)])
    BY <1>2
  <2>2. ASSUME NEW c \in cases PROVE \E i \in 1..(n * m) : grid[i] = c
    <3>1. PICK r \in 1..m, p \in 1..n : c = Case(kinds[r][1], kinds[r][2], values[p])
      BY <1>3
    <3>2. PICK i \in 1..(n * m) : row(i) = p /\ column(i) = r
      BY <1>4
    <3> QED BY <2>1, <3>1, <3>2
  <2>3. ASSUME NEW i \in 1..(n * m) PROVE grid[i] \in cases
    <3>1. row(i) \in 1..n /\ column(i) \in 1..m
      BY <1>4
    <3> QED BY <1>3, <2>1, <3>1
  <2> QED BY <2>2, <2>3
<1>6. DOMAIN grid = 1..(n * m) /\ n * m \in Nat
  BY <1>1, <1>2
<1>7. Elements(grid) = cases
  BY <1>5, <1>6 DEF Elements
<1>8. grid \in [1..(n * m) -> cases]
  BY <1>2, <1>5, <1>6
<1>9. grid \in Seq(cases)
  BY <1>6, <1>8
<1> QED BY <1>7, <1>9 DEF grid, cases

LEMMA ConcatenationElements ==
  ASSUME NEW S, NEW a \in Seq(S), NEW b \in Seq(S)
  PROVE  a \o b \in Seq(S) /\ Elements(a \o b) = Elements(a) \cup Elements(b)
<1>1. /\ Len(a \o b) = Len(a) + Len(b) /\ Len(a) \in Nat /\ Len(b) \in Nat /\ a \o b \in Seq(S)
      /\ \A i \in 1..(Len(a) + Len(b)) : (a \o b)[i] = IF i <= Len(a) THEN a[i] ELSE b[i - Len(a)]
  OBVIOUS
<1>2. /\ DOMAIN (a \o b) = 1..(Len(a) + Len(b)) /\ DOMAIN a = 1..Len(a) /\ DOMAIN b = 1..Len(b)
  BY <1>1
<1>3. ASSUME NEW i \in DOMAIN b PROVE \E j \in DOMAIN (a \o b) : (a \o b)[j] = b[i]
  <2>1. i + Len(a) \in DOMAIN (a \o b) /\ (a \o b)[i + Len(a)] = b[i]
    BY <1>1, <1>2
  <2> QED BY <2>1
<1>4. ASSUME NEW i \in DOMAIN a PROVE i \in DOMAIN (a \o b) /\ (a \o b)[i] = a[i]
  BY <1>1, <1>2
<1>5. ASSUME NEW i \in DOMAIN (a \o b)
      PROVE  (a \o b)[i] \in Elements(a) \cup Elements(b)
  <2>1. CASE i <= Len(a)
    BY <1>1, <1>2, <2>1 DEF Elements
  <2>2. CASE ~(i <= Len(a))
    <3>1. i - Len(a) \in DOMAIN b /\ (a \o b)[i] = b[i - Len(a)]
      BY <1>1, <1>2, <2>2
    <3> QED BY <3>1 DEF Elements
  <2> QED BY <2>1, <2>2
<1>6. Elements(a) \cup Elements(b) \subseteq Elements(a \o b)
  BY <1>3, <1>4 DEF Elements
<1>7. Elements(a \o b) \subseteq Elements(a) \cup Elements(b)
  BY <1>5 DEF Elements
<1> QED BY <1>1, <1>6, <1>7

LEMMA ElementsOfOne == \A x : Elements(<<x>>) = {x}
<1> TAKE x
<1>1. DOMAIN <<x>> = {1} /\ <<x>>[1] = x
  OBVIOUS
<1> QED BY <1>1 DEF Elements

\* The cases that a list of commands asks for, and where it looks for what.
AskedFor(commands) == {c.case : c \in Elements(commands)}
AllRun(commands, binary) == \A c \in Elements(commands) : c.binary = binary
InProject(commands) == \A c \in Elements(commands) : c.directory = "project"

Commands(plan, directory, binary, n) == [i \in DOMAIN plan |-> Command(directory, binary, plan[i], n)]

LEMMA CommandsOfPlan ==
  ASSUME NEW plan, NEW directory, NEW binary, NEW n
  PROVE  LET commands == Commands(plan, directory, binary, n) IN
         /\ AskedFor(commands) = Elements(plan) /\ AllRun(commands, binary)
         /\ directory = "project" => InProject(commands)
<1> DEFINE commands == Commands(plan, directory, binary, n)
<1>1. \A i \in DOMAIN plan : /\ commands[i].case = plan[i] /\ commands[i].binary = binary
                             /\ commands[i].directory = directory
  BY DEF Commands, Command
<1>2. DOMAIN commands = DOMAIN plan
  BY DEF Commands
<1> HIDE DEF commands
<1>3. AskedFor(commands) = Elements(plan)
  BY <1>1, <1>2 DEF AskedFor, Elements
<1>4. AllRun(commands, binary) /\ (directory = "project" => InProject(commands))
  BY <1>1, <1>2 DEF AllRun, InProject, Elements
<1> QED BY <1>3, <1>4 DEF commands

LEMMA FixedLists ==
  /\ Len(A!Kinds) = 4 /\ DOMAIN A!Kinds = 1..4
  /\ Len(J!Kinds) = 6 /\ DOMAIN J!Kinds = 1..6
  /\ Len(F!Kinds) = 12 /\ DOMAIN F!Kinds = 1..12
  /\ Len(C!CPABE) = 2 /\ DOMAIN C!CPABE = 1..2
  /\ Len(C!Subscribers) = 1 /\ DOMAIN C!Subscribers = 1..1
  /\ Len(C!KeyBits) = 2 /\ DOMAIN C!KeyBits = 1..2
<1>1. Len(A!Kinds) = 4 /\ DOMAIN A!Kinds = 1..4 BY DEF A!Kinds
<1>2. Len(J!Kinds) = 6 /\ DOMAIN J!Kinds = 1..6 BY DEF J!Kinds
<1>3. Len(F!Kinds) = 12 /\ DOMAIN F!Kinds = 1..12 BY DEF F!Kinds
<1>4. Len(C!CPABE) = 2 /\ DOMAIN C!CPABE = 1..2 BY DEF C!CPABE
<1>5. Len(C!Subscribers) = 1 /\ DOMAIN C!Subscribers = 1..1 BY DEF C!Subscribers
<1>6. Len(C!KeyBits) = 2 /\ DOMAIN C!KeyBits = 1..2 BY DEF C!KeyBits
<1> QED BY <1>1, <1>2, <1>3, <1>4, <1>5, <1>6

LEMMA ShownKinds ==
  /\ A!ShownKinds = Elements(A!Kinds)
  /\ J!ShownKinds = Elements(J!Kinds)
  /\ F!ShownKinds = Elements(F!Kinds)
<1>1. A!ShownKinds = Elements(A!Kinds)
  BY DEF A!ShownKinds, A!Kinds, Elements
<1>2. J!ShownKinds = Elements(J!Kinds)
  BY DEF J!ShownKinds, J!Kinds, Elements
<1>3. F!ShownKinds = Elements(F!Kinds)
  BY DEF F!ShownKinds, F!CONFIGURATIONS, F!Kinds, Elements
<1> QED BY <1>1, <1>2, <1>3

\* What a campaign needs of its plan when the two files are the same: the binaries and
\* directories its commands name, the fixtures and the kinds of their cases, and a
\* case in the plan and on the device for every row that the report looks up.
Fits(s, plan) ==
  /\ plan.analysable
  /\ {"benchmark", "energy", "cooldown"} \subseteq plan.builds
  /\ AllRun(plan.memory, "benchmark") /\ AllRun(plan.energy, "energy") /\ AllRun(plan.timing, "benchmark")
  /\ InProject(plan.memory) /\ InProject(plan.energy)
  /\ \A c \in AskedFor(plan.memory) : MemoryLoads(s, c) \subseteq plan.provisions
  /\ \A c \in AskedFor(plan.energy) : /\ EnergyLoads(s, c) \subseteq plan.provisions
                                      /\ <<c.algorithm, c.operation>> \in Accepted(s)
  /\ plan.shows["memory"] \subseteq AskedFor(plan.memory) \cap plan.registered["memory"]
  /\ plan.shows["energy"] \subseteq AskedFor(plan.energy)
  /\ plan.shows["timing"] \subseteq AskedFor(plan.timing) \cap plan.registered["timing"]

\* A plan that begins with the runtime alone.
LEMMA BaselineFirst ==
  ASSUME NEW cases, NEW grid \in Seq(cases), Elements(grid) = cases
  PROVE  Elements(<<Baseline>> \o grid) = {Baseline} \cup cases
<1> DEFINE first == <<Baseline>>
           S == {Baseline} \cup cases
<1>1. first \in Seq(S) /\ grid \in Seq(S)
  OBVIOUS
<1>2. Elements(first) = {Baseline}
  BY ElementsOfOne
<1> HIDE DEF first, S
<1>3. Elements(first \o grid) = Elements(first) \cup Elements(grid)
  BY <1>1, ConcatenationElements
<1> QED BY <1>2, <1>3 DEF first

LEMMA AESASCONCases ==
  ASSUME NEW env, env.payloads \in Seq(Nat)
  PROVE  LET plan == A!Scenario(env)
             cases == Cases(Elements(A!Kinds), Elements(env.payloads))
         IN /\ AskedFor(plan.memory) = {Baseline} \cup cases
            /\ AskedFor(plan.energy) = cases /\ AskedFor(plan.timing) = cases
            /\ plan.shows["memory"] = {Baseline} \cup cases
            /\ plan.shows["energy"] = cases /\ plan.shows["timing"] = cases
            /\ plan.registered["memory"] = {Baseline} \cup cases
            /\ plan.registered["timing"] = cases
            /\ AllRun(plan.memory, "benchmark") /\ AllRun(plan.energy, "energy")
            /\ AllRun(plan.timing, "benchmark") /\ InProject(plan.memory) /\ InProject(plan.energy)
<1> DEFINE plan == A!Scenario(env)
           cases == Cases(Elements(A!Kinds), Elements(env.payloads))
           grid == Grid(env.payloads, A!Kinds)
           all == <<Baseline>> \o grid
<1>1. grid \in Seq(cases) /\ Elements(grid) = cases
  BY GridElements, FixedLists
<1>2. /\ A!Grid(env.payloads, A!Kinds) = grid /\ A!Baseline = Baseline
      /\ A!Elements(A!Kinds) = Elements(A!Kinds)
      /\ A!Elements(env.payloads) = Elements(env.payloads)
      /\ \A kinds, values : A!Cases(kinds, values) = Cases(kinds, values)
  BY DEF A!Grid, Grid, A!Case, Case, A!Baseline, Baseline, A!Elements, Elements,
     A!Cases, Cases
<1>3. A!EnergyPlan(env) = grid /\ A!TimingPlan(env) = grid /\ A!MemoryPlan(env) = all
  BY <1>2 DEF A!EnergyPlan, A!TimingPlan, A!MemoryPlan
<1>4. /\ plan.memory = Commands(all, "project", "benchmark", 1)
      /\ plan.energy = Commands(grid, "project", "energy", 1)
      /\ plan.timing = Commands(grid, "home", "benchmark", A!RepeatsOf(env))
  BY <1>3 DEF Commands, A!Scenario, A!MemoryCommand, A!EnergyCommand, A!TimingCommand,
     A!Command, Command
<1>5. Elements(all) = {Baseline} \cup cases
  BY <1>1, BaselineFirst
<1>6. A!Cases(A!ShownKinds, A!Elements(env.payloads)) = cases
      /\ A!Cases(A!Elements(A!Kinds), A!Elements(env.payloads)) = cases
  BY <1>2, ShownKinds
<1> HIDE DEF cases, grid, all
<1>7. /\ plan.shows["memory"] = {Baseline} \cup cases /\ plan.shows["energy"] = cases /\ plan.shows["timing"] = cases
      /\ plan.registered["memory"] = {Baseline} \cup cases /\ plan.registered["timing"] = cases
  BY <1>2, <1>6 DEF A!Scenario, A!Shows, A!Registered
<1> HIDE DEF plan
<1>8. AskedFor(plan.memory) = {Baseline} \cup cases /\ AllRun(plan.memory, "benchmark") /\ InProject(plan.memory)
  BY <1>4, <1>5, CommandsOfPlan
<1>9. AskedFor(plan.energy) = cases /\ AllRun(plan.energy, "energy") /\ InProject(plan.energy)
  BY <1>1, <1>4, CommandsOfPlan
<1>10. AskedFor(plan.timing) = cases /\ AllRun(plan.timing, "benchmark")
  BY <1>1, <1>4, CommandsOfPlan
<1> QED BY <1>7, <1>8, <1>9, <1>10 DEF plan, cases

LEMMA AESASCONFits ==
  ASSUME NEW env, env.payloads \in Seq(Nat)
  PROVE  Fits("aes_ascon", A!Scenario(env))
<1> DEFINE plan == A!Scenario(env)
           cases == Cases(Elements(A!Kinds), Elements(env.payloads))
<1>1. ASSUME NEW c \in cases
      PROVE  /\ c.algorithm \in {"AES-GCM", "ASCON"} /\ c.operation \in {"Encrypt", "Decrypt"}
             /\ c.value \in Elements(env.payloads)
             /\ <<c.algorithm, c.operation>> \in Elements(A!Kinds)
  <2>1. PICK k \in Elements(A!Kinds), v \in Elements(env.payloads) : c = Case(k[1], k[2], v)
    BY DEF Cases
  <2>2. k \in {"AES-GCM", "ASCON"} \X {"Encrypt", "Decrypt"}
    BY ShownKinds DEF A!ShownKinds
  <2>3. c.algorithm = k[1] /\ c.operation = k[2] /\ c.value = v /\ k = <<k[1], k[2]>>
    BY <2>1, <2>2 DEF Case
  <2> QED BY <2>2, <2>3
<1>2. plan.provisions = A!Provisioned(env) /\ plan.analysable /\ plan.builds = A!Builds
  BY DEF A!Scenario
<1>3. ASSUME NEW c \in {Baseline} \cup cases PROVE MemoryLoads("aes_ascon", c) \subseteq plan.provisions
  <2>1. MemoryLoads("aes_ascon", c) = A!MemoryLoads(c)
    BY DEF MemoryLoads
  <2>2. A!Baseline = Baseline /\ A!Elements(env.payloads) = Elements(env.payloads)
    BY DEF A!Baseline, Baseline, A!Case, Case, A!Elements, Elements
  <2>3. CASE c = Baseline
    BY <2>1, <2>2, <2>3 DEF A!MemoryLoads
  <2>4. CASE c # Baseline
    <3>1. /\ c.algorithm \in {"AES-GCM", "ASCON"} /\ c.operation \in {"Encrypt", "Decrypt"}
          /\ c.value \in Elements(env.payloads)
      BY <1>1, <2>4
    <3> HIDE DEF cases, plan
    <3> QED BY <1>2, <2>1, <2>2, <2>4, <3>1 DEF A!MemoryLoads, A!Provisioned, A!Fixture
  <2> QED BY <2>3, <2>4
<1>4. ASSUME NEW c \in cases
      PROVE  EnergyLoads("aes_ascon", c) = {} /\ <<c.algorithm, c.operation>> \in Accepted("aes_ascon")
  <2>1. Accepted("aes_ascon") = Elements(A!Kinds)
    BY DEF Accepted, A!Accepted, A!Elements, Elements
  <2> QED BY <1>1, <2>1 DEF EnergyLoads
<1>5. {"benchmark", "energy", "cooldown"} \subseteq plan.builds
  BY <1>2 DEF A!Builds
<1> HIDE DEF cases
<1> QED BY <1>2, <1>3, <1>4, <1>5, AESASCONCases DEF Fits, cases

LEMMA JSONCBORCases ==
  ASSUME NEW env, env.payloads \in Seq(Nat)
  PROVE  LET plan == J!Scenario(env)
             cases == Cases(Elements(J!Kinds), Elements(env.payloads))
         IN /\ AskedFor(plan.memory) = {} /\ plan.shows["memory"] = {}
            /\ AskedFor(plan.energy) = cases /\ AskedFor(plan.timing) = cases
            /\ plan.shows["energy"] = cases /\ plan.shows["timing"] = cases
            /\ plan.registered["timing"] = cases
            /\ AllRun(plan.memory, "benchmark") /\ AllRun(plan.energy, "energy")
            /\ AllRun(plan.timing, "benchmark") /\ InProject(plan.memory) /\ InProject(plan.energy)
<1> DEFINE plan == J!Scenario(env)
           cases == Cases(Elements(J!Kinds), Elements(env.payloads))
           grid == Grid(env.payloads, J!Kinds)
<1>1. grid \in Seq(cases) /\ Elements(grid) = cases
  BY GridElements, FixedLists
<1>2. /\ J!Grid(env.payloads, J!Kinds) = grid
      /\ J!Elements(J!Kinds) = Elements(J!Kinds)
      /\ J!Elements(env.payloads) = Elements(env.payloads)
      /\ \A kinds, values : J!Cases(kinds, values) = Cases(kinds, values)
  BY DEF J!Grid, Grid, J!Case, Case, J!Elements, Elements,
     J!Cases, Cases
<1>3. J!EnergyPlan(env) = grid /\ J!TimingPlan(env) = grid
  BY <1>2 DEF J!EnergyPlan, J!TimingPlan
<1>4. /\ plan.memory = <<>>
      /\ plan.energy = Commands(grid, "project", "energy", 1)
      /\ plan.timing = Commands(grid, "home", "benchmark", J!RepeatsOf(env))
  BY <1>3 DEF Commands, J!Scenario, J!EnergyCommand, J!TimingCommand,
     J!Command, Command
<1>5. J!Cases(J!ShownKinds, J!Elements(env.payloads)) = cases
      /\ J!Cases(J!Elements(J!Kinds), J!Elements(env.payloads)) = cases
  BY <1>2, ShownKinds
<1> HIDE DEF cases, grid
<1>6. /\ plan.shows["memory"] = {} /\ plan.shows["energy"] = cases /\ plan.shows["timing"] = cases
      /\ plan.registered["timing"] = cases
  BY <1>2, <1>5 DEF J!Scenario, J!Shows, J!Registered
<1> HIDE DEF plan
<1>7. AskedFor(plan.memory) = {} /\ AllRun(plan.memory, "benchmark") /\ InProject(plan.memory)
  BY <1>4 DEF AskedFor, AllRun, InProject, Elements
<1>8. AskedFor(plan.energy) = cases /\ AllRun(plan.energy, "energy") /\ InProject(plan.energy)
  BY <1>1, <1>4, CommandsOfPlan
<1>9. AskedFor(plan.timing) = cases /\ AllRun(plan.timing, "benchmark")
  BY <1>1, <1>4, CommandsOfPlan
<1> QED BY <1>6, <1>7, <1>8, <1>9 DEF plan, cases

LEMMA JSONCBORFits ==
  ASSUME NEW env, env.payloads \in Seq(Nat)
  PROVE  Fits("json_cbor", J!Scenario(env))
<1> DEFINE plan == J!Scenario(env)
           cases == Cases(Elements(J!Kinds), Elements(env.payloads))
<1>1. plan.provisions = {} /\ plan.analysable /\ {"benchmark", "energy", "cooldown"} \subseteq plan.builds
  BY DEF J!Scenario, J!Builds
<1>2. ASSUME NEW c \in cases
      PROVE  EnergyLoads("json_cbor", c) = {} /\ <<c.algorithm, c.operation>> \in Accepted("json_cbor")
  <2>1. PICK k \in Elements(J!Kinds), v \in Elements(env.payloads) : c = Case(k[1], k[2], v)
    BY DEF Cases
  <2>2. k \in {"JSON", "CBOR", "CBORKeyAsInt"} \X {"Serialize", "Deserialize"}
    BY ShownKinds DEF J!ShownKinds
  <2>3. c.algorithm = k[1] /\ c.operation = k[2] /\ k = <<k[1], k[2]>>
    BY <2>1, <2>2 DEF Case
  <2>4. Accepted("json_cbor") = Elements(J!Kinds)
    BY DEF Accepted, J!Accepted, J!Elements, Elements
  <2> QED BY <2>3, <2>4 DEF EnergyLoads
<1> HIDE DEF cases
<1> QED BY <1>1, <1>2, JSONCBORCases DEF Fits, cases

LEMMA FullSchemaCases ==
  ASSUME NEW env, env.schemaPayloads \in Seq(Nat)
  PROVE  LET plan == F!Scenario(env)
             cases == Cases(Elements(F!Kinds), Elements(env.schemaPayloads))
         IN /\ AskedFor(plan.memory) = {Baseline} \cup cases
            /\ AskedFor(plan.energy) = cases /\ AskedFor(plan.timing) = cases
            /\ plan.shows["memory"] = {Baseline} \cup cases
            /\ plan.shows["energy"] = cases /\ plan.shows["timing"] = cases
            /\ plan.registered["memory"] = {Baseline} \cup cases
            /\ plan.registered["timing"] = cases
            /\ AllRun(plan.memory, "benchmark") /\ AllRun(plan.energy, "energy")
            /\ AllRun(plan.timing, "benchmark") /\ InProject(plan.memory) /\ InProject(plan.energy)
<1> DEFINE plan == F!Scenario(env)
           cases == Cases(Elements(F!Kinds), Elements(env.schemaPayloads))
           grid == Grid(env.schemaPayloads, F!Kinds)
           all == <<Baseline>> \o grid
<1>1. grid \in Seq(cases) /\ Elements(grid) = cases
  BY GridElements, FixedLists
<1>2. /\ F!Grid(env.schemaPayloads, F!Kinds) = grid /\ F!Baseline = Baseline
      /\ F!Elements(F!Kinds) = Elements(F!Kinds)
      /\ F!Elements(env.schemaPayloads) = Elements(env.schemaPayloads)
      /\ \A kinds, values : F!Cases(kinds, values) = Cases(kinds, values)
  BY DEF F!Grid, Grid, F!Case, Case, F!Baseline, Baseline, F!Elements, Elements,
     F!Cases, Cases
<1>3. F!EnergyPlan(env) = grid /\ F!TimingPlan(env) = grid /\ F!MemoryPlan(env) = all
  BY <1>2 DEF F!EnergyPlan, F!TimingPlan, F!MemoryPlan
<1>4. /\ plan.memory = Commands(all, "project", "benchmark", 1)
      /\ plan.energy = Commands(grid, "project", "energy", 1)
      /\ plan.timing = Commands(grid, "home", "benchmark", F!RepeatsOf(env))
  BY <1>3 DEF Commands, F!Scenario, F!MemoryCommand, F!EnergyCommand, F!TimingCommand,
     F!Command, Command
<1>5. Elements(all) = {Baseline} \cup cases
  BY <1>1, BaselineFirst
<1>6. F!Cases(F!ShownKinds, F!Elements(env.schemaPayloads)) = cases
      /\ F!Cases(F!Elements(F!Kinds), F!Elements(env.schemaPayloads)) = cases
  BY <1>2, ShownKinds
<1> HIDE DEF cases, grid, all
<1>7. /\ plan.shows["memory"] = {Baseline} \cup cases /\ plan.shows["energy"] = cases /\ plan.shows["timing"] = cases
      /\ plan.registered["memory"] = {Baseline} \cup cases /\ plan.registered["timing"] = cases
  BY <1>2, <1>6 DEF F!Scenario, F!Shows, F!Registered
<1> HIDE DEF plan
<1>8. AskedFor(plan.memory) = {Baseline} \cup cases /\ AllRun(plan.memory, "benchmark") /\ InProject(plan.memory)
  BY <1>4, <1>5, CommandsOfPlan
<1>9. AskedFor(plan.energy) = cases /\ AllRun(plan.energy, "energy") /\ InProject(plan.energy)
  BY <1>1, <1>4, CommandsOfPlan
<1>10. AskedFor(plan.timing) = cases /\ AllRun(plan.timing, "benchmark")
  BY <1>1, <1>4, CommandsOfPlan
<1> QED BY <1>7, <1>8, <1>9, <1>10 DEF plan, cases

LEMMA FullSchemaFits ==
  ASSUME NEW env, env.schemaPayloads \in Seq(Nat)
  PROVE  Fits("full_schema", F!Scenario(env))
<1> DEFINE plan == F!Scenario(env)
           cases == Cases(Elements(F!Kinds), Elements(env.schemaPayloads))
<1>1. ASSUME NEW c \in cases
      PROVE  /\ c.algorithm \in F!CONFIGURATIONS /\ c.operation \in {"Encrypt", "Decrypt"}
             /\ c.value \in Elements(env.schemaPayloads)
             /\ <<c.algorithm, c.operation>> \in Elements(F!Kinds)
  <2>1. PICK k \in Elements(F!Kinds), v \in Elements(env.schemaPayloads) : c = Case(k[1], k[2], v)
    BY DEF Cases
  <2>2. k \in F!CONFIGURATIONS \X {"Encrypt", "Decrypt"}
    BY ShownKinds DEF F!ShownKinds
  <2>3. c.algorithm = k[1] /\ c.operation = k[2] /\ c.value = v /\ k = <<k[1], k[2]>>
    BY <2>1, <2>2 DEF Case
  <2> QED BY <2>2, <2>3
<1>2. plan.provisions = F!Provisioned(env) /\ plan.analysable /\ plan.builds = F!Builds
  BY DEF F!Scenario
<1>3. ASSUME NEW c \in {Baseline} \cup cases PROVE MemoryLoads("full_schema", c) \subseteq plan.provisions
  <2>1. MemoryLoads("full_schema", c) = F!MemoryLoads(c)
    BY DEF MemoryLoads
  <2>2. F!Baseline = Baseline /\ F!Elements(env.schemaPayloads) = Elements(env.schemaPayloads)
    BY DEF F!Baseline, Baseline, F!Case, Case, F!Elements, Elements
  <2>3. CASE c = Baseline
    BY <2>1, <2>2, <2>3 DEF F!MemoryLoads
  <2>4. CASE c # Baseline
    <3>1. /\ c.algorithm \in F!CONFIGURATIONS /\ c.operation \in {"Encrypt", "Decrypt"}
          /\ c.value \in Elements(env.schemaPayloads)
          /\ <<c.algorithm, c.operation>> \in Elements(F!Kinds)
      BY <1>1, <2>4
    <3>2. c.algorithm \in F!Configurations
      <4>1. <<c.algorithm, c.operation>> \in F!Elements(F!Kinds)
        BY <3>1 DEF F!Elements, Elements
      <4>2. <<c.algorithm, c.operation>>[1] = c.algorithm
        OBVIOUS
      <4> QED BY <4>1, <4>2 DEF F!Configurations
    <3> DEFINE keys == {"AESKey", "ASCONKey", "RSAPrivateKey", "RSAPublicKey",
                        "CPABEPublicKey", "CPABEPolicy", "CPABEPrivateKey"}
    <3>3. ASSUME NEW f \in F!MemoryLoads(c)
          PROVE  \/ \E k \in keys : f = <<k, 0>>
                 \/ \E d \in {c.algorithm, "Plaintext"} : f = <<d, c.value>>
      BY DEF F!MemoryLoads, F!Fixture, F!SymmetricKey
    <3>4. /\ \A k \in keys : <<k, 0>> \in F!Provisioned(env)
          /\ \A d \in {c.algorithm, "Plaintext"} : <<d, c.value>> \in F!Provisioned(env)
      BY <2>2, <3>1, <3>2 DEF F!Provisioned, F!Fixture
    <3> QED BY <1>2, <2>1, <3>3, <3>4
  <2> QED BY <2>3, <2>4
<1>4. ASSUME NEW c \in cases
      PROVE  EnergyLoads("full_schema", c) = {} /\ <<c.algorithm, c.operation>> \in Accepted("full_schema")
  <2>1. Accepted("full_schema") = Elements(F!Kinds)
    BY DEF Accepted, F!Accepted, F!Elements, Elements
  <2> QED BY <1>1, <2>1 DEF EnergyLoads
<1>5. {"benchmark", "energy", "cooldown"} \subseteq plan.builds
  BY <1>2 DEF F!Builds
<1> HIDE DEF cases
<1> QED BY <1>2, <1>3, <1>4, <1>5, FullSchemaCases DEF Fits, cases

\* The cases of the third script, by what they vary.
ByAttributes(env) == Cases(Elements(C!CPABE), Elements(env.attributes))
BySubscribers(env) == Cases(Elements(C!Subscribers), Elements(env.subscribers))
ByKeyBits(env) == Cases(Elements(C!KeyBits), Elements(env.keyBits))

Listed(env) ==
  env.attributes \in Seq(Nat) /\ env.subscribers \in Seq(Nat) /\ env.keyBits \in Seq(Nat)

LEMMA CPABERSAPlans ==
  ASSUME NEW env, Listed(env)
  PROVE  /\ Elements(C!EnergyPlan(env)) = ByAttributes(env) \cup BySubscribers(env) \cup {C!FixedDecrypt(env)}
         /\ Elements(C!MemoryPlan(env)) =
              {Baseline} \cup ByAttributes(env) \cup BySubscribers(env) \cup {C!FixedDecrypt(env)}
         /\ Elements(C!TimingPlan(env)) = ByAttributes(env) \cup BySubscribers(env) \cup ByKeyBits(env)
<1> DEFINE a == Grid(env.attributes, C!CPABE)
           b == Grid(env.subscribers, C!Subscribers)
           k == Grid(env.keyBits, C!KeyBits)
           fixed == <<C!FixedDecrypt(env)>>
           first == <<Baseline>>
           S == {Baseline, C!FixedDecrypt(env)} \cup ByAttributes(env) \cup BySubscribers(env) \cup ByKeyBits(env)
<1>1. a \in Seq(ByAttributes(env)) /\ Elements(a) = ByAttributes(env)
  BY GridElements, FixedLists DEF Listed, ByAttributes
<1>2. b \in Seq(BySubscribers(env)) /\ Elements(b) = BySubscribers(env)
  BY GridElements, FixedLists DEF Listed, BySubscribers
<1>3. k \in Seq(ByKeyBits(env)) /\ Elements(k) = ByKeyBits(env)
  BY GridElements, FixedLists DEF Listed, ByKeyBits
<1>4. Elements(fixed) = {C!FixedDecrypt(env)} /\ Elements(first) = {Baseline}
  BY ElementsOfOne
<1>5. fixed \in Seq(S) /\ first \in Seq(S)
  OBVIOUS
<1>6. /\ \A kinds, values : C!Grid(values, kinds) = Grid(values, kinds)
      /\ C!Baseline = Baseline
  BY DEF C!Grid, Grid, C!Case, Case, C!Baseline, Baseline
<1>7. /\ C!EnergyPlan(env) = (a \o b) \o fixed
      /\ C!TimingPlan(env) = (a \o b) \o k
  BY <1>6 DEF C!EnergyPlan, C!TimingPlan, C!Scaling
<1>8. C!MemoryPlan(env) = (first \o (a \o b)) \o fixed
  BY <1>6 DEF C!MemoryPlan, C!Scaling
<1> HIDE DEF a, b, k, fixed, first
<1>9. a \in Seq(S) /\ b \in Seq(S) /\ k \in Seq(S)
  <2>1. ASSUME NEW T, NEW s \in Seq(T), T \subseteq S PROVE s \in Seq(S)
    <3> HIDE DEF S
    <3> QED BY <2>1
  <2>2. ByAttributes(env) \subseteq S /\ BySubscribers(env) \subseteq S /\ ByKeyBits(env) \subseteq S
    OBVIOUS
  <2> HIDE DEF S
  <2> QED BY <1>1, <1>2, <1>3, <2>1, <2>2
<1> HIDE DEF S
<1> DEFINE both == a \o b
           most == first \o both
<1>10. both \in Seq(S) /\ Elements(both) = ByAttributes(env) \cup BySubscribers(env)
  BY <1>1, <1>2, <1>9, ConcatenationElements
<1> HIDE DEF both
<1>11. most \in Seq(S) /\ Elements(most) = {Baseline} \cup ByAttributes(env) \cup BySubscribers(env)
  <2>1. Elements(most) = Elements(first) \cup Elements(both) /\ most \in Seq(S)
    BY <1>5, <1>10, ConcatenationElements
  <2> QED BY <1>4, <1>10, <2>1
<1> HIDE DEF most
<1>12. Elements(both \o fixed) = Elements(both) \cup Elements(fixed)
  BY <1>5, <1>10, ConcatenationElements
<1>13. Elements(most \o fixed) = Elements(most) \cup Elements(fixed)
  BY <1>5, <1>11, ConcatenationElements
<1>14. Elements(both \o k) = Elements(both) \cup Elements(k)
  BY <1>9, <1>10, ConcatenationElements
<1>15. /\ C!EnergyPlan(env) = both \o fixed /\ C!TimingPlan(env) = both \o k
       /\ C!MemoryPlan(env) = most \o fixed
  BY <1>7, <1>8 DEF both, most
<1> QED BY <1>3, <1>4, <1>10, <1>11, <1>12, <1>13, <1>14, <1>15

\* Of subscriber counts that are different and ascend the last is positive.
LEMMA LastCountIsPositive ==
  ASSUME NEW counts \in Seq(Nat), Len(counts) > 1, Distinct(counts),
         \A n \in Elements(counts) : n <= counts[Len(counts)]
  PROVE  counts[Len(counts)] \in Nat \ {0}
<1>1. Len(counts) \in Nat /\ counts[Len(counts)] \in Nat /\ DOMAIN counts = 1..Len(counts) /\ counts[1] \in Nat
  OBVIOUS
<1>2. counts[1] \in Elements(counts)
  BY <1>1 DEF Elements
<1>3. counts[1] # counts[Len(counts)]
  BY <1>1 DEF Distinct
<1> QED BY <1>1, <1>2, <1>3

LEMMA CaseIsLabelled ==
  ASSUME NEW kinds, NEW values, NEW c \in Cases(kinds, values)
  PROVE  \E k \in kinds, v \in values : c.algorithm = k[1] /\ c.operation = k[2] /\ c.value = v
BY DEF Cases, Case

LEMMA LabelsOfCPABERSA ==
  ASSUME NEW env
  PROVE  /\ \A c \in ByAttributes(env) : /\ c.algorithm = "CPABEAttributes" /\ c.operation \in {"Encrypt", "Decrypt"}
                                         /\ c.value \in Elements(env.attributes)
         /\ \A c \in BySubscribers(env) : /\ c.algorithm = "RSASubscribers" /\ c.operation = "Encrypt"
                                          /\ c.value \in Elements(env.subscribers)
         /\ LET c == C!FixedDecrypt(env) IN c.algorithm = "RSAKeyBits" /\ c.operation = "Decrypt"
         /\ Baseline.algorithm = "Runtime"
<1>1. /\ Elements(C!CPABE) = { <<"CPABEAttributes", "Encrypt">>, <<"CPABEAttributes", "Decrypt">> }
      /\ Elements(C!Subscribers) = { <<"RSASubscribers", "Encrypt">> }
  BY DEF Elements, C!CPABE, C!Subscribers
<1>2. ASSUME NEW c \in ByAttributes(env)
      PROVE  /\ c.algorithm = "CPABEAttributes" /\ c.operation \in {"Encrypt", "Decrypt"}
             /\ c.value \in Elements(env.attributes)
  BY <1>1, CaseIsLabelled DEF ByAttributes
<1>3. ASSUME NEW c \in BySubscribers(env)
      PROVE  /\ c.algorithm = "RSASubscribers" /\ c.operation = "Encrypt"
             /\ c.value \in Elements(env.subscribers)
  BY <1>1, CaseIsLabelled DEF BySubscribers
<1>4. LET c == C!FixedDecrypt(env) IN c.algorithm = "RSAKeyBits" /\ c.operation = "Decrypt"
  BY DEF C!FixedDecrypt, C!Case
<1>5. Baseline.algorithm = "Runtime"
  BY DEF Baseline, Case
<1> QED BY <1>2, <1>3, <1>4, <1>5

\* The counts ascend, the last is positive and the fixed key size is one of the sizes.
Comparable(env) ==
  /\ \A n \in Elements(env.subscribers) : n <= env.subscribers[Len(env.subscribers)]
  /\ env.subscribers[Len(env.subscribers)] \in Nat \ {0}
  /\ env.fixed \in Elements(env.keyBits)

LEMMA CPABERSALoads ==
  ASSUME NEW env, Listed(env), Comparable(env),
         NEW c \in {Baseline} \cup ByAttributes(env) \cup BySubscribers(env) \cup {C!FixedDecrypt(env)}
  PROVE  C!MemoryLoads(c) \subseteq C!Provisioned(env)
<1> DEFINE last == env.subscribers[Len(env.subscribers)]
<1>1. \A counts : C!Elements(counts) = Elements(counts)
  BY DEF C!Elements, Elements
<1>2. CASE c = Baseline
  <2>1. C!MemoryLoads(c) = {}
    BY <1>2, LabelsOfCPABERSA DEF C!MemoryLoads
  <2> QED BY <2>1
<1>3. CASE c \in ByAttributes(env)
  <2>1. c.algorithm = "CPABEAttributes" /\ c.operation \in {"Encrypt", "Decrypt"} /\ c.value \in Elements(env.attributes)
    BY <1>3, LabelsOfCPABERSA
  <2> QED BY <1>1, <2>1 DEF C!MemoryLoads, C!Provisioned, C!PerAttribute, C!Fixture
<1>4. CASE c \in BySubscribers(env)
  <2>1. c.algorithm = "RSASubscribers" /\ c.value \in Elements(env.subscribers)
    BY <1>4, LabelsOfCPABERSA
  <2>2. c.value <= last /\ c.value \in Nat /\ last \in Nat
    BY <2>1 DEF Comparable, Listed, Elements
  <2>3. C!MemoryLoads(c) = {C!Fixture("AESKey", 0)} \cup C!PublicKeys(c.value)
    BY <2>1 DEF C!MemoryLoads
  <2>4. C!PublicKeys(c.value) \subseteq C!Provisioned(env)
    <3>1. 0..(c.value - 1) \subseteq 0..(last - 1)
      BY <2>2
    <3> QED BY <3>1 DEF C!PublicKeys, C!Provisioned
  <2> QED BY <2>3, <2>4 DEF C!Provisioned
<1>5. CASE c = C!FixedDecrypt(env)
  <2>1. C!MemoryLoads(c) = {C!Fixture("RSAPrivateKey", 0), C!Fixture("RSACiphertext", 0)}
    BY <1>5, LabelsOfCPABERSA DEF C!MemoryLoads
  <2>2. last # 0
    BY DEF Comparable
  <2> QED BY <2>1, <2>2 DEF C!Provisioned
<1> QED BY <1>2, <1>3, <1>4, <1>5

\* An energy program loads the public keys of its subscribers only.
LEMMA CPABERSAEnergyLoads ==
  ASSUME NEW env, Listed(env), Comparable(env),
         NEW c \in ByAttributes(env) \cup BySubscribers(env) \cup {C!FixedDecrypt(env)}
  PROVE  C!EnergyLoads(c) \subseteq C!Provisioned(env) /\ <<c.algorithm, c.operation>> \in C!Accepted
<1>1. C!EnergyLoads(c) \subseteq C!MemoryLoads(c)
  BY LabelsOfCPABERSA DEF C!EnergyLoads, C!MemoryLoads
<1>2. C!Accepted = { <<"CPABEAttributes", "Encrypt">>, <<"CPABEAttributes", "Decrypt">>,
                         <<"RSASubscribers", "Encrypt">>, <<"RSAKeyBits", "Decrypt">> }
  BY DEF C!Accepted, C!Elements, C!CPABE, C!Subscribers
<1> QED BY <1>1, <1>2, CPABERSALoads, LabelsOfCPABERSA

\* What the report of the third script looks up was asked for and is known.
LEMMA CPABERSAShows ==
  ASSUME NEW env, Comparable(env)
  PROVE  LET scaling == ByAttributes(env) \cup BySubscribers(env)
             fixed == C!FixedDecrypt(env)
         IN /\ C!Shows(env).energy \subseteq scaling \cup {fixed}
            /\ C!Shows(env).memory \subseteq {Baseline} \cup scaling \cup {fixed}
            /\ C!Shows(env).timing \subseteq scaling \cup ByKeyBits(env)
            /\ {Baseline} \cup scaling \cup {fixed} \subseteq C!Registered(env).memory
            /\ scaling \cup ByKeyBits(env) \subseteq C!Registered(env).timing
<1> DEFINE scaling == ByAttributes(env) \cup BySubscribers(env)
           fixed == C!FixedDecrypt(env)
<1>1. /\ \A seq : C!Elements(seq) = Elements(seq)
      /\ \A kinds, values : C!Cases(kinds, values) = Cases(kinds, values)
      /\ C!Baseline = Baseline
  BY DEF C!Elements, Elements, C!Cases, Cases, C!Case, Case, C!Baseline, Baseline
<1>2. /\ Elements(C!CPABE) = { <<"CPABEAttributes", "Encrypt">>, <<"CPABEAttributes", "Decrypt">> }
      /\ Elements(C!Subscribers) = { <<"RSASubscribers", "Encrypt">> }
      /\ Elements(C!KeyBits) = { <<"RSAKeyBits", "Encrypt">>, <<"RSAKeyBits", "Decrypt">> }
  BY DEF Elements, C!CPABE, C!Subscribers, C!KeyBits
<1>3. \A kinds, values, k : k \in kinds => Cases({k}, values) \subseteq Cases(kinds, values)
  BY DEF Cases
<1>4. /\ Cases({<<"CPABEAttributes", "Encrypt">>}, Elements(env.attributes)) \subseteq ByAttributes(env)
      /\ Cases({<<"CPABEAttributes", "Decrypt">>}, Elements(env.attributes)) \subseteq ByAttributes(env)
      /\ Cases({<<"RSASubscribers", "Encrypt">>}, Elements(env.subscribers)) \subseteq BySubscribers(env)
      /\ Cases({<<"RSAKeyBits", "Encrypt">>}, Elements(env.keyBits)) \subseteq ByKeyBits(env)
      /\ Cases({<<"RSAKeyBits", "Decrypt">>}, Elements(env.keyBits)) \subseteq ByKeyBits(env)
  BY <1>2, <1>3 DEF ByAttributes, BySubscribers, ByKeyBits
<1>5. /\ Cases({<<"RSAKeyBits", "Decrypt">>}, Elements(<<env.fixed>>)) = {fixed}
      /\ Cases({<<"RSAKeyBits", "Encrypt">>}, Elements(<<>>)) = {}
  <2>1. Elements(<<env.fixed>>) = {env.fixed} /\ Elements(<<>>) = {}
    BY ElementsOfOne DEF Elements
  <2> QED BY <2>1 DEF Cases, Case, C!FixedDecrypt, C!Case
<1>6. ASSUME NEW k \in C!CASE_ORDER
      PROVE  /\ Cases({k}, Elements(C!EnergyMemoryValues(env, k))) \subseteq scaling \cup {fixed}
             /\ Cases({k}, Elements(C!TimingValues(env, k[1]))) \subseteq scaling \cup ByKeyBits(env)
  <2> HIDE DEF fixed
  <2>1. CASE k = <<"CPABEAttributes", "Encrypt">> \/ k = <<"CPABEAttributes", "Decrypt">>
    <3>1. C!EnergyMemoryValues(env, k) = env.attributes /\ C!TimingValues(env, k[1]) = env.attributes
      BY <2>1 DEF C!EnergyMemoryValues, C!TimingValues
    <3> QED BY <1>4, <2>1, <3>1
  <2>2. CASE k = <<"RSASubscribers", "Encrypt">>
    <3>1. C!EnergyMemoryValues(env, k) = env.subscribers /\ C!TimingValues(env, k[1]) = env.subscribers
      BY <2>2 DEF C!EnergyMemoryValues, C!TimingValues
    <3> QED BY <1>4, <2>2, <3>1
  <2>3. CASE k = <<"RSAKeyBits", "Encrypt">>
    <3>1. C!EnergyMemoryValues(env, k) = <<>> /\ C!TimingValues(env, k[1]) = env.keyBits
      BY <2>3 DEF C!EnergyMemoryValues, C!TimingValues
    <3> QED BY <1>4, <1>5, <2>3, <3>1
  <2>4. CASE k = <<"RSAKeyBits", "Decrypt">>
    <3>1. C!EnergyMemoryValues(env, k) = <<env.fixed>> /\ C!TimingValues(env, k[1]) = env.keyBits
      BY <2>4 DEF C!EnergyMemoryValues, C!TimingValues
    <3> QED BY <1>4, <1>5, <2>4, <3>1
  <2> QED BY <2>1, <2>2, <2>3, <2>4 DEF C!CASE_ORDER
<1> DEFINE chosen == UNION {C!Cases({k}, C!Elements(C!EnergyMemoryValues(env, k))) : k \in C!CASE_ORDER}
           timed == UNION {C!Cases({k}, C!Elements(C!TimingValues(env, k[1]))) : k \in C!CASE_ORDER}
<1>7. chosen \subseteq scaling \cup {fixed} /\ timed \subseteq scaling \cup ByKeyBits(env)
  BY <1>1, <1>6
<1>8. /\ C!Shows(env).energy = chosen /\ C!Shows(env).memory = chosen \cup {C!Baseline}
      /\ C!Shows(env).timing = timed
  BY DEF C!Shows
<1>9. /\ C!Registered(env).memory = scaling \cup {fixed, Baseline}
      /\ C!Registered(env).timing = scaling \cup ByKeyBits(env)
  BY <1>1 DEF C!Registered, ByAttributes, BySubscribers, ByKeyBits
<1> HIDE DEF chosen, timed, scaling, fixed
<1>10. /\ C!Shows(env).energy \subseteq scaling \cup {fixed}
       /\ C!Shows(env).memory \subseteq {Baseline} \cup scaling \cup {fixed}
       /\ C!Shows(env).timing \subseteq scaling \cup ByKeyBits(env)
  BY <1>1, <1>7, <1>8
<1> QED BY <1>9, <1>10 DEF scaling, fixed

LEMMA CPABERSAFits ==
  ASSUME NEW env, Listed(env), Comparable(env)
  PROVE  Fits("cpabe_rsa", C!Scenario(env))
<1> DEFINE plan == C!Scenario(env)
           scaling == ByAttributes(env) \cup BySubscribers(env)
           fixed == C!FixedDecrypt(env)
           m == C!MemoryPlan(env)
           e == C!EnergyPlan(env)
           t == C!TimingPlan(env)
<1>1. /\ plan.provisions = C!Provisioned(env) /\ plan.builds = C!Builds
      /\ plan.shows = C!Shows(env) /\ plan.registered = C!Registered(env)
  BY DEF C!Scenario
<1>2. plan.analysable
  BY DEF C!Scenario, C!Analysable, Comparable, C!Elements, Elements
<1>3. /\ plan.memory = Commands(m, "project", "benchmark", 1)
      /\ plan.energy = Commands(e, "project", "energy", 1)
      /\ plan.timing = Commands(t, "project", "benchmark", C!RepeatsOf(env))
  BY DEF Commands, C!Scenario, C!MemoryCommand, C!EnergyCommand, C!TimingCommand,
     C!Command, Command
<1> HIDE DEF plan, m, e, t
<1>4. AskedFor(plan.memory) = Elements(m) /\ AllRun(plan.memory, "benchmark") /\ InProject(plan.memory)
  BY <1>3, CommandsOfPlan
<1>5. AskedFor(plan.energy) = Elements(e) /\ AllRun(plan.energy, "energy") /\ InProject(plan.energy)
  BY <1>3, CommandsOfPlan
<1>6. AskedFor(plan.timing) = Elements(t) /\ AllRun(plan.timing, "benchmark")
  BY <1>3, CommandsOfPlan
<1>7. /\ Elements(e) = scaling \cup {fixed} /\ Elements(m) = {Baseline} \cup scaling \cup {fixed}
      /\ Elements(t) = scaling \cup ByKeyBits(env)
  BY CPABERSAPlans DEF m, e, t
<1>8. ASSUME NEW c \in AskedFor(plan.memory) PROVE MemoryLoads("cpabe_rsa", c) \subseteq plan.provisions
  <2>1. MemoryLoads("cpabe_rsa", c) = C!MemoryLoads(c)
    BY DEF MemoryLoads
  <2>2. c \in {Baseline} \cup ByAttributes(env) \cup BySubscribers(env) \cup {C!FixedDecrypt(env)}
    BY <1>4, <1>7
  <2> QED BY <1>1, <2>1, <2>2, CPABERSALoads
<1>9. ASSUME NEW c \in AskedFor(plan.energy)
      PROVE  /\ EnergyLoads("cpabe_rsa", c) \subseteq plan.provisions
             /\ <<c.algorithm, c.operation>> \in Accepted("cpabe_rsa")
  <2>1. EnergyLoads("cpabe_rsa", c) = C!EnergyLoads(c) /\ Accepted("cpabe_rsa") = C!Accepted
    BY DEF EnergyLoads, Accepted
  <2>2. c \in ByAttributes(env) \cup BySubscribers(env) \cup {C!FixedDecrypt(env)}
    BY <1>5, <1>7
  <2> QED BY <1>1, <2>1, <2>2, CPABERSAEnergyLoads
<1>10. {"benchmark", "energy", "cooldown"} \subseteq plan.builds
  BY <1>1 DEF C!Builds
<1>11. /\ plan.shows["memory"] \subseteq AskedFor(plan.memory) \cap plan.registered["memory"]
       /\ plan.shows["energy"] \subseteq AskedFor(plan.energy)
       /\ plan.shows["timing"] \subseteq AskedFor(plan.timing) \cap plan.registered["timing"]
  BY <1>1, <1>4, <1>5, <1>6, <1>7, CPABERSAShows
<1> QED BY <1>2, <1>4, <1>5, <1>6, <1>8, <1>9, <1>10, <1>11 DEF Fits, plan

LEMMA PlansFit ==
  ASSUME ListsAreDistinct, NEW s \in Scenarios, NEW env \in Environments, Sound(s, env)
  PROVE  Fits(s, Plans[s][env])
<1>1. Plans[s][env] = Scenario(s, env)
  BY DEF Plans
<1>2. /\ env.payloads \in Seq(Nat) /\ env.schemaPayloads \in Seq(Nat) /\ Listed(env)
      /\ Len(env.subscribers) > 1 /\ Distinct(env.subscribers)
  BY DEF ListsAreDistinct, NamesOnce, IsList, Listed
<1>3. CASE s = "aes_ascon"
  BY <1>1, <1>2, <1>3, AESASCONFits DEF Scenario
<1>4. CASE s = "json_cbor"
  BY <1>1, <1>2, <1>4, JSONCBORFits DEF Scenario
<1>5. CASE s = "cpabe_rsa"
  <2>1. /\ \A n \in Elements(env.subscribers) : n <= env.subscribers[Len(env.subscribers)]
        /\ env.fixed \in Elements(env.keyBits)
    BY <1>5 DEF Sound
  <2>2. Comparable(env)
    BY <1>2, <2>1, LastCountIsPositive DEF Comparable, Listed
  <2> QED BY <1>1, <1>2, <1>5, <2>2, CPABERSAFits DEF Scenario
<1>6. CASE s = "full_schema"
  BY <1>1, <1>2, <1>6, FullSchemaFits DEF Scenario
<1> QED BY <1>3, <1>4, <1>5, <1>6 DEF Scenarios

\* Commands that all work are all finished.
LEMMA AllFinished ==
  ASSUME NEW commands, NEW working, Elements(commands) \subseteq working
  PROVE  Finished(commands, working) = Elements(commands)
<1>1. {i \in DOMAIN commands : commands[i] \notin working} = {}
  BY DEF Elements
<1> QED BY <1>1 DEF Finished, Elements

\* The invariant but for MachinesInv, which IInv has.
Placed == BuiltInv /\ CacheInv /\ FilledInv

\* Between campaigns and before the first stage nothing has to be in place.
LEMMA NothingPlaced ==
  ASSUME (Resting \/ stage = "Build")'
  PROVE  Placed'
BY DEF Resting, Placed, BuiltInv, CacheInv, FilledInv

LEMMA PlacedByOperator ==
  ASSUME EditLaptop \/ EditPi \/ (\E s \in Scenarios : StartCampaign(s)) \/ Kill
  PROVE  Placed'
<1>1. (Resting \/ stage = "Build")'
  BY DEF EditLaptop, EditPi, StartCampaign, Kill, Resting
<1> QED BY <1>1, NothingPlaced

LEMMA PlacedByFirstStages ==
  ASSUME Placed, Build \/ Provision
  PROVE  Placed'
<1>1. /\ UNCHANGED <<laptop, pi, scenario, read, table>>
      /\ Planned' = Planned /\ OnDevice' = OnDevice
  BY DEF Build, Provision, started, machines, Planned, OnDevice
<1>2. CASE Build
  <2>1. /\ {scenario} \X Planned.builds \subseteq built'
        /\ stage' = "Provision" \/ (stage' = "Energy" /\ scenario = "json_cbor")
    BY <1>2 DEF Build
  <2> QED BY <1>1, <2>1 DEF Placed, BuiltInv, CacheInv, FilledInv
<1>3. CASE Provision
  <2>1. stage = "Provision" /\ stage' = "Memory" /\ cache' = OnDevice.provisions /\ built' = built
    BY <1>3 DEF Provision
  <2> QED BY <1>1, <2>1 DEF Placed, BuiltInv, CacheInv, FilledInv
<1> QED BY <1>2, <1>3

\* What a stage puts in its table for the commands of its plan.
LEMMA LinesFill ==
  ASSUME NEW commands, NEW registered, NEW processes, NEW c \in Elements(commands), c.case \in registered
  PROVE  \E r \in Lines(Elements(commands), registered, processes) : r.case = c.case
<1>1. Row(c.case, c.case.value, processes * c.repetitions)
        \in Lines(Elements(commands), registered, processes)
  BY DEF Lines
<1> QED BY <1>1 DEF Row

LEMMA PlacedByMemory ==
  ASSUME MachinesInv, Placed, Memory
  PROVE  Placed'
<1> DEFINE rows == Lines(Elements(Planned.memory), OnDevice.registered.memory, Planned.runs)
<1>1. /\ stage = "Memory" /\ UNCHANGED <<laptop, pi, scenario, read, built, cache>>
      /\ \/ stage' = "Stopped"
         \/ stage' = "Energy" /\ table' = [table EXCEPT ![scenario]["memory"] = rows]
  BY DEF Memory, started, machines
<1>2. Planned' = Planned /\ OnDevice' = OnDevice
  BY <1>1 DEF Planned, OnDevice
<1>3. CASE stage' = "Stopped"
  BY <1>3, NothingPlaced DEF Resting
<1>4. CASE stage' = "Energy" /\ table' = [table EXCEPT ![scenario]["memory"] = rows]
  <2>1. \A c \in Elements(Planned.memory) :
          c.case \in OnDevice.registered["memory"] => \E r \in rows : r.case = c.case
    BY LinesFill
  <2> HIDE DEF rows
  <2>2. table'[scenario]["memory"] = rows
    BY <1>4, TableWritten
  <2>3. FilledInv'
    BY <1>1, <1>2, <1>4, <2>1, <2>2 DEF FilledInv, Filled
  <2> QED BY <1>1, <1>2, <1>4, <2>3 DEF Placed, BuiltInv, CacheInv
<1> QED BY <1>1, <1>3, <1>4

LEMMA PlacedByEnergy ==
  ASSUME MachinesInv, Placed, Energy
  PROVE  Placed'
<1>1. PICK finished :
        /\ table' = [table EXCEPT ![scenario]["energy"] =
             {Row(c.case, EnergyValue(scenario, pi, c.case), Planned.runs * c.repetitions) : c \in finished}]
        /\ stage' = IF finished = Elements(Planned.energy) THEN "Timing" ELSE "Stopped"
  BY DEF Energy
<1>2. stage = "Energy" /\ UNCHANGED <<laptop, pi, scenario, read, built, cache>>
  BY DEF Energy, started, machines
<1>3. Planned' = Planned /\ OnDevice' = OnDevice
  BY <1>2 DEF Planned, OnDevice
<1> DEFINE rows == {Row(c.case, EnergyValue(scenario, pi, c.case), Planned.runs * c.repetitions)
                      : c \in finished}
<1>4. CASE finished = Elements(Planned.energy)
  <2>1. ASSUME NEW c \in Elements(Planned.energy) PROVE \E r \in rows : r.case = c.case
    <3>1. Row(c.case, EnergyValue(scenario, pi, c.case), Planned.runs * c.repetitions) \in rows
      BY <1>4
    <3> HIDE DEF rows
    <3> QED BY <3>1 DEF Row
  <2>2. table' = [table EXCEPT ![scenario]["energy"] = rows]
    BY <1>1
  <2> HIDE DEF rows
  <2>3. table'[scenario]["energy"] = rows /\ table'[scenario]["memory"] = table[scenario]["memory"]
    BY <2>2, TableWritten
  <2>4. stage' = "Timing"
    BY <1>1, <1>4
  <2>5. FilledInv'
    BY <1>2, <1>3, <2>1, <2>3, <2>4 DEF Placed, FilledInv, Filled
  <2> QED BY <1>2, <1>3, <2>4, <2>5 DEF Placed, BuiltInv, CacheInv
<1>5. CASE finished # Elements(Planned.energy)
  BY <1>1, <1>5, NothingPlaced DEF Resting
<1> QED BY <1>4, <1>5

LEMMA PlacedByTiming ==
  ASSUME MachinesInv, Placed, Timing
  PROVE  Placed'
<1> DEFINE rows == Lines(Elements(Planned.timing), OnDevice.registered.timing, 1)
<1>1. /\ stage = "Timing" /\ UNCHANGED <<laptop, pi, scenario, read, built, cache>>
      /\ \/ stage' = "Stopped"
         \/ stage' = "Report" /\ table' = [table EXCEPT ![scenario]["timing"] = rows]
  BY DEF Timing, started, machines
<1>2. Planned' = Planned /\ OnDevice' = OnDevice
  BY <1>1 DEF Planned, OnDevice
<1>3. CASE stage' = "Stopped"
  BY <1>3, NothingPlaced DEF Resting
<1>4. CASE stage' = "Report" /\ table' = [table EXCEPT ![scenario]["timing"] = rows]
  <2>1. \A c \in Elements(Planned.timing) :
          c.case \in OnDevice.registered["timing"] => \E r \in rows : r.case = c.case
    BY LinesFill
  <2> HIDE DEF rows
  <2>2. /\ table'[scenario]["timing"] = rows /\ table'[scenario]["memory"] = table[scenario]["memory"]
        /\ table'[scenario]["energy"] = table[scenario]["energy"]
    BY <1>4, TableWritten
  <2>3. FilledInv'
    BY <1>1, <1>2, <1>4, <2>1, <2>2 DEF Placed, FilledInv, Filled
  <2> QED BY <1>1, <1>2, <1>4, <2>3 DEF Placed, BuiltInv, CacheInv
<1> QED BY <1>1, <1>3, <1>4

LEMMA PlacedAlways ==
  ASSUME IInv, Placed, [Next]_vars
  PROVE  Placed'
<1>1. CASE GenerateReport
  <2>1. Resting'
    BY <1>1 DEF GenerateReport, Resting
  <2> QED BY <2>1, NothingPlaced
<1>2. CASE UNCHANGED vars
  BY <1>2 DEF vars, machines, started, Placed, BuiltInv, CacheInv, FilledInv, Filled,
     Planned, OnDevice
<1> QED
  BY <1>1, <1>2, PlacedByOperator, PlacedByFirstStages, PlacedByMemory, PlacedByEnergy, PlacedByTiming
  DEF Next, Main, IInv

\* The plan of a running campaign, when the files agree.
LEMMA PlanInPlace ==
  ASSUME ListsAreDistinct, IInv, ~Resting, laptop = pi, Sound(scenario, laptop)
  PROVE  /\ OnDevice = Planned /\ Plans[scenario][laptop] = Planned
         /\ Fits(scenario, Planned) /\ scenario \in Scenarios
BY PlansFit DEF IInv, MachinesInv, OnDevice, Planned

\* That of the second script has no memory stage.
LEMMA NoMemoryPlan ==
  ASSUME ListsAreDistinct, IInv, ~Resting, scenario = "json_cbor"
  PROVE  AskedFor(Planned.memory) = {} /\ Planned.shows["memory"] = {}
<1>1. read = laptop /\ laptop \in Environments /\ scenario \in Scenarios
  BY DEF IInv, MachinesInv
<1>2. Planned = J!Scenario(laptop)
  BY <1>1 DEF Planned, Plans, Scenario
<1>3. laptop.payloads \in Seq(Nat)
  BY <1>1 DEF ListsAreDistinct, NamesOnce, IsList
<1> QED BY <1>2, <1>3, JSONCBORCases

LEMMA MemorySucceeds ==
  ASSUME ListsAreDistinct, IInv, Placed, laptop = pi, Sound(scenario, laptop), Memory
  PROVE  stage' # "Stopped"
<1> DEFINE plan == Planned
           working == {c \in Elements(plan.memory) :
                         Runnable(c) /\ (c.case \in OnDevice.registered.memory =>
                                               Loadable(c, MemoryLoads(scenario, c.case)))}
<1>1. stage = "Memory" /\ ~Resting
  BY DEF Memory, Resting
<1>2. OnDevice = plan /\ Fits(scenario, plan)
  BY <1>1, PlanInPlace
<1>3. {scenario} \X plan.builds \subseteq built /\ (scenario # "json_cbor" => cache = plan.provisions)
  BY <1>1, <1>2 DEF Placed, BuiltInv, CacheInv
<1>4. scenario = "json_cbor" => AskedFor(plan.memory) = {}
  BY <1>1, NoMemoryPlan
<1>5. Finished(Planned.memory, working) = Elements(Planned.memory) => stage' = "Energy"
  BY DEF Memory
<1> HIDE DEF plan
<1>6. ASSUME NEW c \in Elements(plan.memory)
      PROVE  Runnable(c) /\ Loadable(c, MemoryLoads(scenario, c.case))
  <2>1. c.binary = "benchmark" /\ c.directory = "project" /\ "benchmark" \in plan.builds
    BY <1>2 DEF Fits, AllRun, InProject
  <2>2. MemoryLoads(scenario, c.case) \subseteq plan.provisions
    BY <1>2 DEF Fits, AskedFor
  <2>3. Runnable(c)
    BY <1>3, <2>1 DEF Runnable
  <2>4. scenario # "json_cbor"
    BY <1>4 DEF AskedFor
  <2>5. Loadable(c, MemoryLoads(scenario, c.case))
    BY <1>3, <2>1, <2>2, <2>4 DEF Loadable
  <2> QED BY <2>3, <2>5
<1>7. Elements(plan.memory) \subseteq working
  BY <1>6
<1> HIDE DEF working
<1>8. Finished(plan.memory, working) = Elements(plan.memory)
  BY <1>7, AllFinished
<1> QED BY <1>5, <1>8 DEF plan

LEMMA EnergySucceeds ==
  ASSUME ListsAreDistinct, IInv, Placed, laptop = pi, Sound(scenario, laptop), Energy
  PROVE  stage' # "Stopped"
<1> DEFINE plan == Planned
           working == {c \in Elements(plan.energy) :
                         /\ Runnable(c) /\ <<scenario, "cooldown">> \in built
                         /\ <<c.case.algorithm, c.case.operation>> \in Accepted(scenario)
                         /\ Loadable(c, EnergyLoads(scenario, c.case))}
<1>1. stage = "Energy" /\ ~Resting
  BY DEF Energy, Resting
<1>2. Fits(scenario, plan) /\ OnDevice = plan
  BY <1>1, PlanInPlace
<1>3. {scenario} \X plan.builds \subseteq built /\ (scenario # "json_cbor" => cache = plan.provisions)
  BY <1>1, <1>2 DEF Placed, BuiltInv, CacheInv
<1>4. Finished(Planned.energy, working) = Elements(Planned.energy) => stage' = "Timing"
  BY DEF Energy
<1> HIDE DEF plan
<1>5. ASSUME NEW c \in Elements(plan.energy) PROVE c \in working
  <2>1. /\ c.binary = "energy" /\ c.directory = "project" /\ {"energy", "cooldown"} \subseteq plan.builds
        /\ EnergyLoads(scenario, c.case) \subseteq plan.provisions
        /\ <<c.case.algorithm, c.case.operation>> \in Accepted(scenario)
    BY <1>2 DEF Fits, AllRun, InProject, AskedFor
  <2>2. Runnable(c) /\ <<scenario, "cooldown">> \in built
    BY <1>3, <2>1 DEF Runnable
  <2>3. Loadable(c, EnergyLoads(scenario, c.case))
    <3>1. CASE scenario = "json_cbor"
      BY <3>1 DEF Loadable, EnergyLoads
    <3>2. CASE scenario # "json_cbor"
      BY <1>3, <2>1, <3>2 DEF Loadable
    <3> QED BY <3>1, <3>2
  <2> QED BY <2>1, <2>2, <2>3
<1>6. Elements(plan.energy) \subseteq working
  BY <1>5
<1> HIDE DEF working
<1>7. Finished(plan.energy, working) = Elements(plan.energy)
  BY <1>6, AllFinished
<1> QED BY <1>4, <1>7 DEF plan

LEMMA TimingSucceeds ==
  ASSUME ListsAreDistinct, IInv, Placed, laptop = pi, Sound(scenario, laptop), Timing
  PROVE  stage' # "Stopped"
<1> DEFINE plan == Planned
<1>1. stage = "Timing" /\ ~Resting
  BY DEF Timing, Resting
<1>2. Fits(scenario, plan)
  BY <1>1, PlanInPlace
<1>3. {scenario} \X plan.builds \subseteq built
  BY <1>1 DEF Placed, BuiltInv
<1>4. (\A c \in Elements(Planned.timing) : Runnable(c)) => stage' = "Report"
  BY DEF Timing
<1> HIDE DEF plan
<1>5. \A c \in Elements(plan.timing) : <<scenario, c.binary>> \in built
  BY <1>2, <1>3 DEF Fits, AllRun
<1> QED BY <1>4, <1>5 DEF Runnable, plan

LEMMA ReportSucceeds ==
  ASSUME ListsAreDistinct, IInv, Placed, laptop = pi, Sound(scenario, laptop), GenerateReport
  PROVE  stage' # "Stopped"
<1> DEFINE plan == Planned
           told == Plans[scenario][laptop]
<1>1. stage = "Report" /\ ~Resting
  BY DEF GenerateReport, Resting
<1>2. /\ told = plan /\ OnDevice = plan /\ Fits(scenario, plan) /\ scenario \in Scenarios
  BY <1>1, PlanInPlace
<1>3. /\ scenario # "json_cbor" => Filled("memory", plan.memory, plan.registered["memory"])
      /\ \A c \in Elements(plan.energy) : \E r \in table[scenario]["energy"] : r.case = c.case
      /\ Filled("timing", plan.timing, plan.registered["timing"])
  BY <1>1, <1>2 DEF Placed, FilledInv
<1>4. scenario = "json_cbor" => plan.shows["memory"] = {}
  BY <1>1, NoMemoryPlan
<1>5. (told.analysable /\ \A t \in Tables : \A c \in told.shows[t] : {r \in table[scenario][t] : r.case = c} # {})
        => stage' = "Done"
  BY DEF GenerateReport
<1> HIDE DEF plan, told
<1>6. ASSUME NEW c \in plan.shows["memory"] PROVE \E r \in table[scenario]["memory"] : r.case = c
  <2>1. scenario # "json_cbor" /\ c \in plan.registered["memory"]
    BY <1>2, <1>4 DEF Fits
  <2>2. PICK d \in Elements(plan.memory) : d.case = c
    BY <1>2 DEF Fits, AskedFor
  <2> QED BY <1>3, <2>1, <2>2 DEF Filled
<1>7. ASSUME NEW c \in plan.shows["energy"] PROVE \E r \in table[scenario]["energy"] : r.case = c
  <2>1. PICK d \in Elements(plan.energy) : d.case = c
    BY <1>2 DEF Fits, AskedFor
  <2> QED BY <1>3, <2>1
<1>8. ASSUME NEW c \in plan.shows["timing"] PROVE \E r \in table[scenario]["timing"] : r.case = c
  <2>1. PICK d \in Elements(plan.timing) : d.case = c
    BY <1>2 DEF Fits, AskedFor
  <2>2. c \in plan.registered["timing"]
    BY <1>2 DEF Fits
  <2> QED BY <1>3, <2>1, <2>2 DEF Filled
<1>9. \A t \in Tables : \A c \in told.shows[t] : {r \in table[scenario][t] : r.case = c} # {}
  BY <1>2, <1>6, <1>7, <1>8
<1>10. told.analysable
  BY <1>2 DEF Fits
<1> QED BY <1>5, <1>9, <1>10

\* When the two environment files are the same, the counts ascend and the fixed key
\* size is listed, no stage of a campaign fails by itself: every command finds its
\* binary, its case and its fixtures where it looks for them, and the report a row of
\* every case that it shows, whatever earlier campaigns left on either machine.
THEOREM AgreeingFilesSuffice == Spec => AgreeingStagesSucceed
<1>0. RunsAreCounted /\ ListsAreDistinct
  BY MicroEnvironmentAssumption
<1>1. Init => Placed
  BY DEF Init, Placed, BuiltInv, CacheInv, FilledInv
<1>2. IInv /\ Placed /\ [Next]_vars => Placed'
  BY <1>0, PlacedAlways
<1>3. IInv /\ Placed /\ [Next]_vars =>
        [laptop = pi /\ Sound(scenario, laptop) /\ Main => stage' # "Stopped"]_vars
  <2> SUFFICES ASSUME IInv, Placed, laptop = pi, Sound(scenario, laptop), Main
               PROVE  stage' # "Stopped"
    OBVIOUS
  <2>1. CASE Build \/ Provision
    BY <2>1 DEF Build, Provision
  <2> QED BY <1>0, <2>1, MemorySucceeds, EnergySucceeds, TimingSucceeds, ReportSucceeds DEF Main
<1>4. Spec => []IInv
  BY <1>0, EnvironmentInvariant
<1> QED BY <1>1, <1>2, <1>3, <1>4, PTL DEF Spec, AgreeingStagesSucceed
====
