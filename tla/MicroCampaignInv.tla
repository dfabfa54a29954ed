---- MODULE MicroCampaignInv ----
(* The inductive invariant of MicroCampaign: what a campaign has on the device and in *)
(* its files by the time it is where it is.  Every failure leads to "Stopped", of     *)
(* which nothing is said: the next campaign owes nothing to what it finds.            *)
EXTENDS MicroCampaign

\* Each loop has its own cases.
CaseInLoop ==
  /\ stage # "Idle" => campaign \in Campaigns
  /\ stage = "Memory" => case \in 1..MemoryCases
  /\ stage \in {"Cool", "Launch", "Warmup", "Window", "Wait", "Write"} => case \in 1..EnergyCases
  /\ stage = "Timing" => case \in 1..TimingCases
  /\ stage \in {"Provision", "Provisioning", "Memory", "ConvertMemory"} => WithMemory

\* A campaign that found the device idle has at most the program it waits for there.
Alone ==
  /\ stage \in {"Idle", "Build", "Provision", "Memory", "ConvertMemory", "Meter", "Baseline",
                "BaselineWindow", "Cool", "Launch", "Write"} => device = {}
  /\ stage = "Provisioning" => device \subseteq {Started(campaign, "provision")}
  /\ stage \in {"Warmup", "Window", "Wait"} => device \subseteq {Workload}
  /\ stage = "Provisioning" => cache \subseteq {campaign}
  /\ stage = "Provisioning" /\ device = {} => cache = {campaign}
  /\ stage = "Memory" => cache = {campaign}
  /\ stage = "BaselineWindow" => seen = {}
  /\ stage \in {"Window", "Wait", "Write"} => seen \subseteq {Workload}
Quiet == quiet => Alone

\* memory.txt has the processes that have run, memory.csv all of them.
MemoryKept ==
  /\ stage = "Memory" =>
       text["memory"] = [from |-> campaign, rows |-> Before(MemoryRows, <<case, run>>)]
  /\ stage = "ConvertMemory" => text["memory"] = [from |-> campaign, rows |-> MemoryRows]
  /\ WithMemory /\ stage \notin {"Idle", "Stopped", "Done", "Build", "Provision", "Provisioning",
                                 "Memory", "ConvertMemory"} =>
       table["memory"] = [from |-> campaign, rows |-> MemoryRows]

\* energy.csv is the campaign's once its meter is connected.
EnergyKept ==
  stage \notin {"Idle", "Stopped", "Done", "Build", "Provision", "Provisioning", "Memory",
                "ConvertMemory", "Meter"} =>
    table["energy"].from = campaign

\* timing.txt has the cases that have run, timing.csv all of them.
TimingKept ==
  /\ stage = "Timing" =>
       text["timing"] = [from |-> campaign, rows |-> (1..(case - 1)) \X (1..Runs)]
  /\ stage = "ConvertTiming" => text["timing"] = [from |-> campaign, rows |-> TimingRows]
  /\ stage = "Report" => table["timing"] = [from |-> campaign, rows |-> TimingRows]

\* What a campaign knows when it reports is what its report shows, and each clause
\* survives every step up to there, failures of other campaigns included.
IInv ==
  /\ TypeOK /\ CaseInLoop
  /\ Quiet
  /\ MemoryKept /\ EnergyKept /\ TimingKept
  /\ CampaignReportIsWhole
====
