---- MODULE MicroEnvironment ----
(***************************************************************************)
(* The campaigns of the four microbenchmark scenarios over two environment *)
(* files: the orchestrator reads the laptop's when it starts and its       *)
(* report reads it again, while every command sources the device's.  The   *)
(* files are edited between campaigns and need not agree.  MicroCampaign   *)
(* has the steps inside a stage; here a stage of main is one step.         *)
(***************************************************************************)
EXTENDS MicroCases

CONSTANTS
  Environments,      \* what an environment file may say
  MaxCampaigns,      \* bound: how many campaigns are started
  MaxEdits,          \* bound: how often a file is edited
  KilledCampaigns    \* the campaigns that may be killed

A == INSTANCE AESASCON
J == INSTANCE JSONCBOR
C == INSTANCE CPABERSA
F == INSTANCE FullSchema

Scenarios == {"aes_ascon", "json_cbor", "cpabe_rsa", "full_schema"}
Tables == {"memory", "energy", "timing"}

\* AES_ASCON_RUNS and the three like it.
RunsAreCounted == \A env \in Environments : env.runs \in [Scenarios -> Nat \ {0}]

ListsAreDistinct == \A env \in Environments : NamesOnce(env)

ASSUME MicroEnvironmentAssumption ==
  /\ MaxCampaigns \in Nat /\ MaxEdits \in Nat /\ KilledCampaigns \subseteq 1..MaxCampaigns
  /\ RunsAreCounted /\ ListsAreDistinct

\* What the environment file of one machine makes of a scenario.
Scenario(s, env) ==
  CASE s = "aes_ascon" -> A!Scenario(env)
    [] s = "json_cbor" -> J!Scenario(env)
    [] s = "cpabe_rsa" -> C!Scenario(env)
    [] s = "full_schema" -> F!Scenario(env)

Plans == [s \in Scenarios |-> [env \in Environments |-> Scenario(s, env)]]

\* The fixtures a memory benchmark restores before it measures.
MemoryLoads(s, case) ==
  CASE s = "aes_ascon" -> A!MemoryLoads(case)
    [] s = "cpabe_rsa" -> C!MemoryLoads(case)
    [] s = "full_schema" -> F!MemoryLoads(case)

\* The energy programs make their own data, but for the subscribers' public keys.
EnergyLoads(s, case) == IF s = "cpabe_rsa" THEN C!EnergyLoads(case) ELSE {}

Accepted(s) ==
  CASE s = "aes_ascon" -> A!Accepted
    [] s = "json_cbor" -> J!Accepted
    [] s = "cpabe_rsa" -> C!Accepted
    [] s = "full_schema" -> F!Accepted

\* The value an energy program works with when it is asked for a case.
EnergyValue(s, env, case) == IF s = "cpabe_rsa" THEN C!EnergyValue(env, case) ELSE case.value

VARIABLES
  laptop,     \* the environment file that the scripts read
  pi,         \* the environment file on the device
  edits,      \* how many edits were made
  scenario,   \* the scenario of the current or last campaign
  stage,      \* where its main is
  campaign,   \* the number of that campaign
  read,       \* the environment file as the orchestrator read it
  built,      \* the binaries in /tmp of the device
  cache,      \* the fixtures in the cache directory, which all scenarios share
  table,      \* the result tables of each scenario
  report      \* the last report that a campaign made

machines == <<laptop, pi, edits>>
started == <<scenario, campaign, read>>
vars == <<machines, started, stage, built, cache, table, report>>

\* A row stands for all repetitions of a case: the value its label names and the
\* value that was measured.
Row(case, measured, repetitions) ==
  [case |-> case, measured |-> measured, repetitions |-> repetitions]

NoReport == [by |-> 0]

Init ==
  /\ laptop \in Environments /\ pi = laptop /\ edits = 0
  /\ scenario = "aes_ascon" /\ stage = "Idle" /\ campaign = 0 /\ read = laptop
  /\ built = {} /\ cache = {}
  /\ table = [s \in Scenarios |-> [t \in Tables |-> {}]]
  /\ report = NoReport

Resting == stage \in {"Idle", "Stopped", "Done"}

----
(* The operator. *)

EditLaptop ==
  /\ Resting /\ edits < MaxEdits /\ edits' = edits + 1
  /\ laptop' \in Environments \ {laptop}
  /\ UNCHANGED <<pi, started, stage, built, cache, table, report>>

EditPi ==
  /\ Resting /\ edits < MaxEdits /\ edits' = edits + 1
  /\ pi' \in Environments \ {pi}
  /\ UNCHANGED <<laptop, started, stage, built, cache, table, report>>

StartCampaign(s) ==
  /\ Resting /\ campaign < MaxCampaigns
  /\ scenario' = s /\ campaign' = campaign + 1 /\ read' = laptop /\ stage' = "Build"
  /\ UNCHANGED <<machines, built, cache, table, report>>

----
(* The stages of main. *)

Planned == Plans[scenario][read]
OnDevice == Plans[scenario][pi]

Build ==
  /\ stage = "Build"
  /\ built' = built \cup ({scenario} \X Planned.builds)
  /\ stage' = IF scenario = "json_cbor" THEN "Energy" ELSE "Provision"
  /\ UNCHANGED <<machines, started, cache, table, report>>

\* The device's file says where the cache is and what to store in it.
Provision ==
  /\ stage = "Provision"
  /\ cache' = OnDevice.provisions /\ stage' = "Memory"
  /\ UNCHANGED <<machines, started, built, table, report>>

Runnable(command) == <<scenario, command.binary>> \in built

\* cache.Load reads a path relative to the directory of the process.
Loadable(command, fixtures) ==
  fixtures # {} => command.directory = "project" /\ fixtures \subseteq cache

\* The commands that were over when the first of them failed.
Finished(commands, working) ==
  LET failing == {i \in DOMAIN commands : commands[i] \notin working}
  IN {commands[i] : i \in {j \in DOMAIN commands : \A f \in failing : j < f}}

\* A benchmark that no registered case matches passes without a line of output.
Lines(commands, registered, processes) ==
  {Row(c.case, c.case.value, processes * c.repetitions) : c \in {d \in commands : d.case \in registered}}

Memory ==
  LET working == {c \in Elements(Planned.memory) :
                    Runnable(c) /\ (c.case \in OnDevice.registered.memory =>
                                      Loadable(c, MemoryLoads(scenario, c.case)))}
      finished == Finished(Planned.memory, working)
  IN
  /\ stage = "Memory"
  /\ IF finished = Elements(Planned.memory)
     THEN /\ table' = [table EXCEPT ![scenario]["memory"] =
                         Lines(finished, OnDevice.registered.memory, Planned.runs)]
          /\ stage' = "Energy"
     ELSE table' = table /\ stage' = "Stopped"
  /\ UNCHANGED <<machines, started, built, cache, report>>

\* The rows of a table carry the orchestrator's label, and energy.csv grows row by row.
Energy ==
  LET working == {c \in Elements(Planned.energy) :
                    /\ Runnable(c) /\ <<scenario, "cooldown">> \in built
                    /\ <<c.case.algorithm, c.case.operation>> \in Accepted(scenario)
                    /\ Loadable(c, EnergyLoads(scenario, c.case))}
      finished == Finished(Planned.energy, working)
  IN
  /\ stage = "Energy"
  /\ table' = [table EXCEPT ![scenario]["energy"] =
                 {Row(c.case, EnergyValue(scenario, pi, c.case), Planned.runs * c.repetitions)
                    : c \in finished}]
  /\ stage' = IF finished = Elements(Planned.energy) THEN "Timing" ELSE "Stopped"
  /\ UNCHANGED <<machines, started, built, cache, report>>

Timing ==
  /\ stage = "Timing"
  /\ IF \A c \in Elements(Planned.timing) : Runnable(c)
     THEN /\ table' = [table EXCEPT ![scenario]["timing"] =
                         Lines(Elements(Planned.timing), OnDevice.registered.timing, 1)]
          /\ stage' = "Report"
     ELSE table' = table /\ stage' = "Stopped"
  /\ UNCHANGED <<machines, started, built, cache, report>>

\* The report is a process of its own that reads the laptop's file again, and raises
\* when a case that it shows has no row.
GenerateReport ==
  LET told == Plans[scenario][laptop]
      rows(t, c) == {r \in table[scenario][t] : r.case = c}
  IN
  /\ stage = "Report"
  /\ IF told.analysable /\ \A t \in Tables : \A c \in told.shows[t] : rows(t, c) # {}
     THEN /\ report' = [by |-> campaign, scenario |-> scenario, runs |-> told.runs,
                        cells |-> [t \in Tables |-> [c \in told.shows[t] |-> rows(t, c)]]]
          /\ stage' = "Done"
     ELSE report' = report /\ stage' = "Stopped"
  /\ UNCHANGED <<machines, started, built, cache, table>>

\* The interrupt key, or an ssh client that fails; energy.csv may just have been opened.
Kill ==
  /\ ~Resting /\ campaign \in KilledCampaigns /\ stage' = "Stopped"
  /\ \/ table' = table
     \/ stage = "Energy" /\ table' = [table EXCEPT ![scenario]["energy"] = {}]
  /\ UNCHANGED <<machines, started, built, cache, report>>

Main == Build \/ Provision \/ Memory \/ Energy \/ Timing \/ GenerateReport

Next ==
  \/ EditLaptop \/ EditPi \/ (\E s \in Scenarios : StartCampaign(s))
  \/ Main \/ Kill

\* A script goes through its stages by itself.
Spec == Init /\ [][Next]_vars /\ WF_vars(Main)

----
(* Properties. *)

\* What a campaign's report says is so, however the two files differ: every cell of
\* its tables was measured with the value its heading names, as many times as the
\* report says.  The energy of RSAKeyBits is labelled by the laptop and measured by
\* the device; that no report shows a wrong one rests on memory.csv, which has no
\* row for a key size the device does not know (cpabe_rsa_report.py main).
CampaignReportIsTrue ==
  report # NoReport =>
    \A t \in Tables : \A c \in DOMAIN report.cells[t] :
      report.cells[t][c] = {Row(c, c.value, report.runs)}

\* The subscriber counts ascend and the fixed key size is one of the sizes.
Sound(s, env) ==
  s = "cpabe_rsa" =>
    /\ \A n \in Elements(env.subscribers) : n <= env.subscribers[Len(env.subscribers)]
    /\ env.fixed \in Elements(env.keyBits)

\* A campaign that nobody kills makes its report when the files agree: every
\* command finds the binaries, the cases and the fixtures it names, in the
\* directory where it looks for them, whatever other campaigns left.
AgreeingCampaignReports ==
  \A c \in 1..MaxCampaigns \ KilledCampaigns :
    (campaign = c /\ stage = "Build" /\ laptop = pi /\ Sound(scenario, laptop)) ~> report.by = c

\* The part of it that is not liveness: no stage fails by itself.
AgreeingStagesSucceed ==
  [][laptop = pi /\ Sound(scenario, laptop) /\ Main => stage' # "Stopped"]_vars

----
(* The inductive invariant of CampaignReportIsTrue: no file is edited while a campaign *)
(* runs, and once a stage is over its table has rows of this campaign only.            *)

MachinesInv ==
  /\ {laptop, pi, read} \subseteq Environments /\ scenario \in Scenarios
  /\ DOMAIN table = Scenarios /\ \A s \in Scenarios : DOMAIN table[s] = Tables
  /\ ~Resting => read = laptop

\* A row of this campaign: what it measured, as often as the orchestrator read.
IsRow(r, measured) == r = Row(r.case, measured, Planned.runs)

\* json_cbor measures no memory.
MemoryInv ==
  stage \in {"Energy", "Timing", "Report"} /\ scenario # "json_cbor" =>
    \A r \in table[scenario]["memory"] : IsRow(r, r.case.value) /\ r.case \in OnDevice.registered["memory"]
EnergyInv ==
  stage \in {"Timing", "Report"} =>
    \A r \in table[scenario]["energy"] : IsRow(r, EnergyValue(scenario, pi, r.case))
TimingInv ==
  stage = "Report" => \A r \in table[scenario]["timing"] : IsRow(r, r.case.value)

IInv == MachinesInv /\ MemoryInv /\ EnergyInv /\ TimingInv /\ CampaignReportIsTrue

----
(* The inductive invariant of AgreeingStagesSucceed: what a campaign has put in place by *)
(* the time it is at a stage.                                                            *)

BuiltInv ==
  stage \in {"Provision", "Memory", "Energy", "Timing", "Report"} => {scenario} \X Planned.builds \subseteq built
CacheInv ==
  stage \in {"Memory", "Energy", "Timing", "Report"} /\ scenario # "json_cbor" => cache = OnDevice.provisions

\* A table has a row of every case that was asked for and that the device knows.
Filled(t, commands, registered) ==
  \A c \in Elements(commands) : c.case \in registered => \E r \in table[scenario][t] : r.case = c.case
FilledInv ==
  /\ stage \in {"Energy", "Timing", "Report"} /\ scenario # "json_cbor" =>
       Filled("memory", Planned.memory, OnDevice.registered["memory"])
  /\ stage \in {"Timing", "Report"} =>
       \A c \in Elements(Planned.energy) : \E r \in table[scenario]["energy"] : r.case = c.case
  /\ stage = "Report" => Filled("timing", Planned.timing, OnDevice.registered["timing"])

PlaceInv == MachinesInv /\ BuiltInv /\ CacheInv /\ FilledInv
====
