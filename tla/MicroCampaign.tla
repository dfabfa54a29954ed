---- MODULE MicroCampaign ----
(***************************************************************************)
(* A microbenchmark campaign: one execution of main in one of the four     *)
(* orchestrate_*.py scripts, which share this course.  It stops at the     *)
(* first exception, and the operator may start it again at any moment.     *)
(* What a campaign that stops leaves behind are the files in its result    *)
(* directory, the fixtures on the device and the programs it started       *)
(* there: the ssh client goes with the campaign, the remote program does   *)
(* not.  MicroEnvironment has what the cases of each scenario are and      *)
(* EnergyWindow the seconds; here a case is a number, and time passes      *)
(* between any two steps.                                                  *)
(***************************************************************************)
EXTENDS Integers, FiniteSets

CONSTANTS
  Runs,             \* RUNS: repetitions of every case
  MemoryCases,      \* the memory cases, runtime baseline included
  EnergyCases,      \* the energy cases
  TimingCases,      \* the timing cases
  WithMemory,       \* whether the scenario provisions fixtures and measures memory
  MaxCampaigns,     \* bound: how often the script is started
  FaultyCampaigns   \* the campaigns in which a step may fail or be killed

ASSUME MicroCampaignAssumption ==
  /\ Runs \in Nat \ {0} /\ MaxCampaigns \in Nat \ {0}
  /\ MemoryCases \in Nat \ {0} /\ EnergyCases \in Nat \ {0} /\ TimingCases \in Nat \ {0}
  /\ WithMemory \in BOOLEAN
  /\ FaultyCampaigns \subseteq 1..MaxCampaigns

Campaigns == 1..MaxCampaigns

\* A row is <<case, run>>; case 0 of energy.csv is the idle baseline.
MemoryRows == (1..MemoryCases) \X (1..Runs)
TimingRows == (1..TimingCases) \X (1..Runs)
BaselineRows == {0} \X (1..Runs)
WorkloadRows == (1..EnergyCases) \X (1..Runs)
Rows == MemoryRows \cup TimingRows \cup BaselineRows \cup WorkloadRows

\* A file is written by one campaign only, for each opens it anew.
File == [from : Campaigns, rows : SUBSET Rows]
Missing == [from |-> 0, rows |-> {}]
Files == File \cup {Missing}
Texts == {"memory", "timing"}
Tables == {"memory", "energy", "timing"}

\* A program on the device: the campaign that started it, what it is, and for a
\* workload of the energy stage the row it is measured for.
NoRow == <<0, 0>>
Program == [of : Campaigns, does : {"provision", "memory", "energy", "timing"},
            row : WorkloadRows \cup {NoRow}]
Started(c, what) == [of |-> c, does |-> what, row |-> NoRow]

VARIABLES
  stage,      \* where main is
  case,       \* the case of its loop
  run,        \* the repetition of that case
  campaign,   \* the number of the campaign
  quiet,      \* whether no program of an earlier campaign ran when it started
  device,     \* the programs that run on the device
  cache,      \* the campaigns whose provisioner has stored fixtures since the last rm
  text,       \* memory.txt and timing.txt
  table,      \* memory.csv, energy.csv and timing.csv
  seen,       \* the programs that ran while the meter sampled
  sampled,    \* whether meter.sample returned a reading
  report      \* report.html: what made it and from which tables

control == <<stage, case, run, campaign, quiet>>
files == <<text, table, report>>
Workload == [of |-> campaign, does |-> "energy", row |-> <<case, run>>]
metering == <<seen, sampled>>
vars == <<control, device, cache, files, metering>>

Stages == {"Idle", "Build", "Provision", "Provisioning", "Memory", "ConvertMemory",
           "Meter", "Baseline", "BaselineWindow", "Cool", "Launch", "Warmup",
           "Window", "Wait", "Write", "OpenTiming", "Timing", "ConvertTiming", "Report",
           "Stopped", "Done"}
NoReport == [by |-> "nobody", for |-> 0, from |-> [t \in Tables |-> Missing]]

Init ==
  /\ stage = "Idle" /\ case = 1 /\ run = 1 /\ campaign = 0 /\ quiet = TRUE
  /\ device = {} /\ cache = {}
  /\ text = [t \in Texts |-> Missing]
  /\ table = [t \in Tables |-> Missing]
  /\ seen = {} /\ sampled = FALSE
  /\ report = NoReport

----
(* Control. *)

Goto(st) == stage' = st /\ case' = 1 /\ run' = 1 /\ UNCHANGED <<campaign, quiet>>
Stay(st) == stage' = st /\ UNCHANGED <<case, run, campaign, quiet>>

\* The next repetition, else the next case, at stage `again`; else stage `after`.
LoopThen(cases, again, after) ==
  /\ IF run < Runs THEN stage' = again /\ run' = run + 1 /\ case' = case
     ELSE IF case < cases THEN stage' = again /\ run' = 1 /\ case' = case + 1
     ELSE stage' = after /\ run' = 1 /\ case' = 1
  /\ UNCHANGED <<campaign, quiet>>

\* An exception, the interrupt key or the end of the process: no later statement runs.
MayFail == campaign \in FaultyCampaigns
Stops == Goto("Stopped")

\* What the failure of a command leaves on the device: nothing, or the program.
MayLeave(what) == device' \in {device, device \cup {Started(campaign, what)}}

StartCampaign ==
  /\ stage \in {"Idle", "Stopped", "Done"} /\ campaign < MaxCampaigns
  /\ stage' = "Build" /\ case' = 1 /\ run' = 1
  /\ campaign' = campaign + 1 /\ quiet' = (device = {})
  /\ UNCHANGED <<device, cache, files, metering>>

----
(* Building and provisioning. *)

BuildBinaries ==
  /\ stage = "Build" /\ Goto(IF WithMemory THEN "Provision" ELSE "Meter")
  /\ UNCHANGED <<device, cache, files, metering>>

\* Mutant: the fixtures of the last campaign are kept.
LaunchProvisionerKeeps ==
  /\ stage = "Provision" /\ Stay("Provisioning")
  /\ cache' = cache /\ device' = device \cup {Started(campaign, "provision")}
  /\ UNCHANGED <<files, metering>>

\* The shell on the device removes the cache and runs the provisioner.
LaunchProvisioner ==
  /\ stage = "Provision" /\ Stay("Provisioning")
  /\ cache' = {} /\ device' = device \cup {Started(campaign, "provision")}
  /\ UNCHANGED <<files, metering>>

\* A provisioner, of this campaign or of one that has stopped, stores a fixture.
ProvisionerStores(p) ==
  /\ p \in device /\ p.does = "provision" /\ cache' = cache \cup {p.of}
  /\ UNCHANGED <<control, device, files, metering>>

ProvisionerEnds(p) ==
  /\ p \in device /\ p.does = "provision"
  /\ cache' = cache \cup {p.of} /\ device' = device \ {p}
  /\ UNCHANGED <<control, files, metering>>

\* orchestrate_memory opens memory.txt before its first case.
ProvisionReturns ==
  /\ stage = "Provisioning" /\ Started(campaign, "provision") \notin device
  /\ Goto("Memory") /\ text' = [text EXCEPT !["memory"] = [from |-> campaign, rows |-> {}]]
  /\ UNCHANGED <<device, cache, table, report, metering>>

----
(* Memory: one process per repetition, its output appended to memory.txt. *)

\* A benchmark whose fixtures are of two provisioners may panic or pass.
RunMemoryCase ==
  /\ stage = "Memory"
  /\ text' = [text EXCEPT !["memory"].rows = @ \cup {<<case, run>>}]
  /\ LoopThen(MemoryCases, "Memory", "ConvertMemory")
  /\ UNCHANGED <<device, cache, table, report, metering>>

RunMemoryCaseFails ==
  /\ stage = "Memory" /\ (MayFail \/ cache # {campaign})
  /\ Stops /\ MayLeave("memory")
  /\ UNCHANGED <<cache, files, metering>>

----
(* Conversion: the CSV file is opened for writing, and the text removed last. *)

\* Mutant: a table that is there is not written again.
ConvertsOnce(t, following) ==
  /\ table[t] = Missing
  /\ table' = [table EXCEPT ![t] = text[t]]
  /\ text' = [text EXCEPT ![t] = Missing]
  /\ Goto(following)
  /\ UNCHANGED <<device, cache, report, metering>>

Converts(t, following) ==
  /\ table' = [table EXCEPT ![t] = text[t]]
  /\ text' = [text EXCEPT ![t] = Missing]
  /\ Goto(following)
  /\ UNCHANGED <<device, cache, report, metering>>

\* The rows of a file that come before the given one.
Before(rows, row) ==
  {r \in rows : r[1] < row[1] \/ (r[1] = row[1] /\ r[2] < row[2])}

\* A line without its measurement, or the end of the process: before the table is opened,
\* between two rows, or after the last of them.
Interrupted(t) ==
  \/ table' = table
  \/ table' = [table EXCEPT ![t] = text[t]]
  \/ \E row \in text[t].rows :
       table' = [table EXCEPT ![t] = [from |-> campaign, rows |-> Before(text[t].rows, row)]]

\* Mutant: the text is removed whatever became of the conversion.
ConversionFailsAndRemoves(t) ==
  /\ MayFail /\ Stops /\ Interrupted(t)
  /\ text' = [text EXCEPT ![t] = Missing]
  /\ UNCHANGED <<device, cache, report, metering>>

ConversionFails(t) ==
  /\ MayFail /\ Stops /\ Interrupted(t)
  /\ UNCHANGED <<device, cache, text, report, metering>>

ConvertMemory == stage = "ConvertMemory" /\ Converts("memory", "Meter")
ConvertTiming == stage = "ConvertTiming" /\ Converts("timing", "Report")
ConvertMemoryFails == stage = "ConvertMemory" /\ ConversionFails("memory")
ConvertTimingFails == stage = "ConvertTiming" /\ ConversionFails("timing")

----
(* Energy: the meter samples the idle device, then one program per repetition. *)

\* The connection comes first, then energy.csv with its header, then the cooldown.
ConnectMeter ==
  /\ stage = "Meter" /\ Goto("Baseline")
  /\ table' = [table EXCEPT !["energy"] = [from |-> campaign, rows |-> {}]]
  /\ UNCHANGED <<device, cache, text, report, metering>>

Samples(window) ==
  /\ seen' = device
  /\ Stay(window)
  /\ UNCHANGED <<device, cache, files, sampled>>

AddRow(row) == table' = [table EXCEPT !["energy"].rows = @ \cup {row}]

\* write_samples writes a line per reading: a window without one leaves no trace.
BaselineOpens == stage = "Baseline" /\ Samples("BaselineWindow")

BaselineCloses ==
  /\ stage = "BaselineWindow"
  /\ \/ AddRow(<<0, run>>)
     \/ MayFail /\ UNCHANGED table
  /\ IF run < Runs THEN stage' = "Baseline" /\ run' = run + 1 /\ case' = case
                   ELSE stage' = "Cool" /\ run' = 1 /\ case' = 1
  /\ UNCHANGED <<campaign, quiet, device, cache, text, report, metering>>

WaitForCooldown ==
  /\ stage = "Cool" /\ Stay("Launch")
  /\ UNCHANGED <<device, cache, files, metering>>

LaunchWorkload ==
  /\ stage = "Launch" /\ Stay("Warmup")
  /\ device' = device \cup {Workload}
  /\ UNCHANGED <<cache, files, metering>>

WindowOpens == stage = "Warmup" /\ Samples("Window")

WindowCloses ==
  /\ stage = "Window" /\ Stay("Wait")
  /\ sampled' \in (IF MayFail THEN BOOLEAN ELSE {TRUE})
  /\ UNCHANGED <<device, cache, files, seen>>

\* Mutant: the program is left to end by itself.
WaitReturnsAtOnce ==
  /\ stage = "Wait" /\ Stay("Write")
  /\ UNCHANGED <<device, cache, files, metering>>

\* process.wait: the ssh client returns when the program has ended.
WaitReturns ==
  /\ stage = "Wait" /\ Workload \notin device /\ Stay("Write")
  /\ UNCHANGED <<device, cache, files, metering>>

WriteSamples ==
  /\ stage = "Write"
  /\ IF sampled THEN AddRow(<<case, run>>) ELSE UNCHANGED table
  /\ LoopThen(EnergyCases, "Cool", "OpenTiming")
  /\ UNCHANGED <<device, cache, text, report, metering>>

\* A program ends at its deadline, with its measurement, or without its reader.
ProgramEnds(p) ==
  /\ p \in device /\ p.does # "provision" /\ device' = device \ {p}
  /\ UNCHANGED <<control, cache, files, metering>>

----
(* Timing: one process per case, which repeats it. *)

OpenTiming ==
  /\ stage = "OpenTiming" /\ Goto("Timing")
  /\ text' = [text EXCEPT !["timing"] = [from |-> campaign, rows |-> {}]]
  /\ UNCHANGED <<device, cache, table, report, metering>>

RunTimingCase ==
  /\ stage = "Timing"
  /\ text' = [text EXCEPT !["timing"].rows = @ \cup ({case} \X (1..Runs))]
  /\ IF case < TimingCases THEN stage' = stage /\ case' = case + 1
                           ELSE stage' = "ConvertTiming" /\ case' = 1
  /\ UNCHANGED <<run, campaign, quiet, device, cache, table, report, metering>>

\* Mutant: the return code is not looked at.
RunTimingCaseFailsAndGoesOn ==
  /\ stage = "Timing" /\ MayFail /\ Goto("ConvertTiming") /\ MayLeave("timing")
  /\ \E r \in 0..Runs : text' = [text EXCEPT !["timing"].rows = @ \cup ({case} \X (1..r))]
  /\ UNCHANGED <<cache, table, report, metering>>

\* The lines of the repetitions that were over are in the file.
RunTimingCaseFails ==
  /\ stage = "Timing" /\ MayFail /\ Stops /\ MayLeave("timing")
  /\ \E r \in 0..Runs : text' = [text EXCEPT !["timing"].rows = @ \cup ({case} \X (1..r))]
  /\ UNCHANGED <<cache, table, report, metering>>

\* Every other step that raises, or during which the process ends.
Fails ==
  /\ MayFail /\ Stops
  /\ stage \notin {"Idle", "Stopped", "Done", "Memory", "ConvertMemory", "Timing", "ConvertTiming"}
  /\ UNCHANGED <<device, cache, files, metering>>

----
(* The report: made by the campaign as its last step, or by hand from the *)
(* tables there are.  A case that has no row is None, and ends it.        *)

CasesOf(t) == {row[1] : row \in table[t].rows}

Reportable ==
  /\ 0..EnergyCases \subseteq CasesOf("energy")
  /\ 1..TimingCases \subseteq CasesOf("timing")
  /\ WithMemory => 1..MemoryCases \subseteq CasesOf("memory")

Reported(by) ==
  report' = [by |-> by, for |-> campaign, from |-> table]

GenerateReport ==
  /\ stage = "Report" /\ Reportable /\ Reported("campaign") /\ Goto("Done")
  /\ UNCHANGED <<device, cache, text, table, metering>>

ReportRaises ==
  /\ stage = "Report" /\ ~Reportable /\ Stops
  /\ UNCHANGED <<device, cache, files, metering>>

ReportByHand ==
  /\ stage \in {"Stopped", "Done"} /\ Reportable /\ Reported("hand")
  /\ UNCHANGED <<control, device, cache, text, table, metering>>

----
Orchestrate ==
  \/ BuildBinaries \/ LaunchProvisioner \/ ProvisionReturns \/ RunMemoryCase \/ ConvertMemory
  \/ ConnectMeter \/ BaselineOpens \/ BaselineCloses \/ WaitForCooldown \/ LaunchWorkload
  \/ WindowOpens \/ WindowCloses \/ WaitReturns \/ WriteSamples
  \/ OpenTiming \/ RunTimingCase \/ ConvertTiming \/ GenerateReport \/ ReportRaises

Failing ==
  \/ RunMemoryCaseFails \/ ConvertMemoryFails \/ RunTimingCaseFails \/ ConvertTimingFails \/ Fails

DeviceEnds == \E p \in device : ProvisionerEnds(p) \/ ProgramEnds(p)

Next ==
  \/ StartCampaign \/ Orchestrate \/ Failing \/ ReportByHand
  \/ DeviceEnds \/ (\E p \in device : ProvisionerStores(p))

\* The script goes from statement to statement by itself, and every program on
\* the device has a deadline or a fixed amount of work.
Fairness == WF_vars(Orchestrate) /\ WF_vars(DeviceEnds)

Spec == Init /\ [][Next]_vars /\ Fairness

----
(* Properties. *)

TypeOK ==
  /\ stage \in Stages /\ campaign \in 0..MaxCampaigns /\ quiet \in BOOLEAN
  /\ case \in 1..MemoryCases \cup 1..EnergyCases \cup 1..TimingCases /\ run \in 1..Runs
  /\ device \subseteq Program /\ seen \subseteq Program /\ cache \subseteq Campaigns
  /\ text \in [Texts -> Files] /\ table \in [Tables -> Files]
  /\ sampled \in BOOLEAN
  /\ report \in [by : {"nobody", "campaign", "hand"}, for : 0..MaxCampaigns, from : [Tables -> Files]]

\* The report a campaign makes shows that campaign: all rows of every memory and
\* timing case, and readings of every energy case and of the idle device, whatever
\* text, tables and report earlier campaigns left (orchestrate_*.py main).
CampaignReportIsWhole ==
  report.by = "campaign" =>
    LET from == report.from IN
    /\ from["timing"] = [from |-> report.for, rows |-> TimingRows]
    /\ WithMemory => from["memory"] = [from |-> report.for, rows |-> MemoryRows]
    /\ from["energy"].from = report.for
    /\ \A c \in 0..EnergyCases : \E r \in 1..Runs : <<c, r>> \in from["energy"].rows

\* In a campaign that started on an idle device the meter reads the idle device in
\* every baseline window and at most its own workload in every other: each program
\* is waited for before the next window opens (run_energy_case).
WindowsSeeOneWorkload ==
  quiet =>
    /\ stage = "BaselineWindow" => seen = {}
    /\ stage \in {"Window", "Wait", "Write"} => seen \subseteq {Workload}

\* In such a campaign the memory processes load the fixtures of one provisioner,
\* its own: keys and ciphertexts belong together (orchestrate_provision).
FixturesAreOfOneProvision == quiet /\ stage = "Memory" => cache = {campaign}

\* The benchmark's own output is deleted only in the step that leaves every row of
\* it in the table (convert_timing_results, convert_memory_results).
TextDeletedOnlyWhenConverted ==
  [][\A t \in Texts : text[t] # Missing /\ text'[t] = Missing => table'[t] = text[t]]_vars

\* A campaign that starts on an idle device, and in which nothing fails, ends with
\* its report, whatever the campaigns before it left in its files.
RerunRecovers ==
  \A c \in Campaigns \ FaultyCampaigns :
    (campaign = c /\ stage = "Build" /\ quiet) ~> (report.by = "campaign" /\ report.for = c)
====
