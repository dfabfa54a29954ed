---- MODULE Coordinator ----
(***************************************************************************)
(* The coordinator of the macro benchmark (orchestrate_macro.go) over      *)
(* several campaigns: a campaign is one execution of runCoordinator, which *)
(* stops at its first error, and the operator starts the next one from the *)
(* beginning.  What outlives a campaign is files: the provisioned keys in  *)
(* the laptop's cache, their copies and the broker's CA certificate on the *)
(* two endpoints, the benchmark binaries, the endpoints' CSV files, the    *)
(* results on the laptop and the report.  A file is modelled by what it    *)
(* was made for and by how much of it is there.  A session is one step     *)
(* here: MacroSession shows that a session that succeeds leaves two        *)
(* complete CSV files (SuccessIsComplete).                                 *)
(***************************************************************************)
EXTENDS Integers, Sequences

CONSTANTS
  NumScenarios,     \* the length of the table `scenarios`
  MaxCampaigns,     \* bound: how often the coordinator is started
  FaultyCampaigns   \* the campaigns in which steps may fail

ASSUME CoordinatorAssumption ==
  /\ NumScenarios \in Nat \ {0}
  /\ MaxCampaigns \in Nat \ {0}
  /\ FaultyCampaigns \subseteq 1..MaxCampaigns

Endpoints == {"publisher", "subscriber"}
EndpointOrder == <<"publisher", "subscriber">>
ScenarioIDs == 1..NumScenarios
Campaigns == 1..MaxCampaigns

\* runProvision stores the keys in this order.
StoreOrder ==
  <<"AES", "ASCON", "RSAPublic", "RSAPrivate", "CPABEPublic", "CPABEPrivate">>

\* distributeFixtures: the publisher's files first, then the subscriber's.
CopyOrder ==
  << <<"publisher", "AES">>, <<"publisher", "ASCON">>,
     <<"publisher", "RSAPublic">>, <<"publisher", "CPABEPublic">>,
     <<"subscriber", "AES">>, <<"subscriber", "ASCON">>,
     <<"subscriber", "RSAPrivate">>, <<"subscriber", "CPABEPrivate">> >>

Keys == {"AES", "ASCON", "RSAPublic", "RSAPrivate", "CPABEPublic", "CPABEPrivate"}

\* What the publisher uses a key with, and the subscriber's counterpart.
KeyPairs == { <<"AES", "AES">>, <<"ASCON", "ASCON">>,
              <<"RSAPublic", "RSAPrivate">>, <<"CPABEPublic", "CPABEPrivate">> }

\* A file: the campaign and the scenario it was written for (scenario 0: not of
\* a scenario) and how much of it is there.
File == [from : Campaigns \X (0..NumScenarios), rows : {"all", "some", "none"}]
Missing == [rows |-> "missing"]
Whole(c, s) == [from |-> <<c, s>>, rows |-> "all"]

\* What a write that is cut short leaves: the old file, the new one, or a part.
CutShort(old, new) ==
  {old} \cup (IF new = Missing THEN {}
              ELSE {[new EXCEPT !.rows = r] : r \in {new.rows, "some", "none"}})

VARIABLES
  stage,      \* where runCoordinator is
  next,       \* the place in the loop of that stage
  scenario,   \* the scenario of its loop over the table
  campaign,   \* the number of the campaign
  brokerCA,   \* the campaign before which the broker last made its CA
  localCA,    \* environment/ca.crt on the laptop
  cache,      \* the laptop's key files
  fixtures,   \* the endpoints' key files and CA certificate
  binaries,   \* the endpoints' benchmark binaries
  remote,     \* publisher.csv and subscriber.csv on their endpoints
  results,    \* the result files on the laptop, for each scenario
  orphans,    \* endpoints of a failed session, with it, that have yet to exit
  report      \* report.html: what made it and from what

control == <<stage, next, scenario, campaign>>
material == <<brokerCA, localCA, cache, fixtures, binaries>>
measured == <<remote, results, orphans, report>>
vars == <<control, material, measured>>

Stages == {"Idle", "Store", "Copy", "FetchCA", "CopyCA", "Build", "Session",
           "Transfer", "Remove", "Report", "Stopped", "Done"}
NoReport == [by |-> "nobody", for |-> 0, from |-> <<>>]

Init ==
  /\ stage = "Idle" /\ next = 1 /\ scenario = 1 /\ campaign = 0
  /\ brokerCA = 1
  /\ localCA = Missing
  /\ cache = [k \in Keys |-> Missing]
  /\ fixtures = [e \in Endpoints |-> [f \in Keys \cup {"CA"} |-> Missing]]
  /\ binaries = [e \in Endpoints |-> [s \in ScenarioIDs |-> Missing]]
  /\ remote = [e \in Endpoints |-> Missing]
  /\ results = [s \in ScenarioIDs |-> [e \in Endpoints |-> Missing]]
  /\ orphans = {}
  /\ report = NoReport

----
(* Control. *)

Goto(st) == stage' = st /\ next' = 1

\* The next turn of the loop over the given list, or the stage after the loop.
LoopThen(list, st) ==
  IF next < Len(list) THEN stage' = stage /\ next' = next + 1 ELSE Goto(st)

\* The first error ends the campaign, and so does the end of the process.
Stops ==
  /\ campaign \in FaultyCampaigns
  /\ Goto("Stopped") /\ UNCHANGED <<scenario, campaign>>

\* The operator starts the coordinator, the first time or after an error.
StartCampaign ==
  /\ stage \in {"Idle", "Stopped"}
  /\ campaign < MaxCampaigns
  /\ campaign' = campaign + 1 /\ scenario' = 1 /\ Goto("Store")
  /\ UNCHANGED <<material, measured>>

----
(* Provisioning and distribution. *)

StoredKey == StoreOrder[next]

\* Mutant: a key that is in the cache is kept.
StoreKeyIfMissing ==
  /\ stage = "Store"
  /\ cache' = [cache EXCEPT ![StoredKey] =
                 IF @ = Missing THEN Whole(campaign, 0) ELSE @]
  /\ LoopThen(StoreOrder, "Copy")
  /\ UNCHANGED <<scenario, campaign, brokerCA, localCA, fixtures, binaries, measured>>

StoreKey ==
  /\ stage = "Store"
  /\ cache' = [cache EXCEPT ![StoredKey] = Whole(campaign, 0)]
  /\ LoopThen(StoreOrder, "Copy")
  /\ UNCHANGED <<scenario, campaign, brokerCA, localCA, fixtures, binaries, measured>>

StoreKeyFails ==
  /\ stage = "Store" /\ Stops
  /\ \E left \in CutShort(cache[StoredKey], Whole(campaign, 0)) :
       cache' = [cache EXCEPT ![StoredKey] = left]
  /\ UNCHANGED <<brokerCA, localCA, fixtures, binaries, measured>>

CopyTarget == CopyOrder[next][1]
CopiedKey == CopyOrder[next][2]

CopyFixture ==
  /\ stage = "Copy"
  /\ fixtures' = [fixtures EXCEPT ![CopyTarget][CopiedKey] = cache[CopiedKey]]
  /\ LoopThen(CopyOrder, "FetchCA")
  /\ UNCHANGED <<scenario, campaign, brokerCA, localCA, cache, binaries, measured>>

CopyFixtureFails ==
  /\ stage = "Copy" /\ Stops
  /\ \E left \in CutShort(fixtures[CopyTarget][CopiedKey], cache[CopiedKey]) :
       fixtures' = [fixtures EXCEPT ![CopyTarget][CopiedKey] = left]
  /\ UNCHANGED <<brokerCA, localCA, cache, binaries, measured>>

\* docker cp takes the CA from the running broker.
FetchCA ==
  /\ stage = "FetchCA"
  /\ localCA' = Whole(brokerCA, 0)
  /\ Goto("CopyCA")
  /\ UNCHANGED <<scenario, campaign, brokerCA, cache, fixtures, binaries, measured>>

FetchCAFails ==
  /\ stage = "FetchCA" /\ Stops
  /\ localCA' \in CutShort(localCA, Whole(brokerCA, 0))
  /\ UNCHANGED <<brokerCA, cache, fixtures, binaries, measured>>

CopyCA ==
  /\ stage = "CopyCA"
  /\ fixtures' = [fixtures EXCEPT ![EndpointOrder[next]]["CA"] = localCA]
  /\ LoopThen(EndpointOrder, "Build")
  /\ UNCHANGED <<scenario, campaign, brokerCA, localCA, cache, binaries, measured>>

CopyCAFails ==
  /\ stage = "CopyCA" /\ Stops
  /\ \E left \in CutShort(fixtures[EndpointOrder[next]]["CA"], localCA) :
       fixtures' = [fixtures EXCEPT ![EndpointOrder[next]]["CA"] = left]
  /\ UNCHANGED <<brokerCA, localCA, cache, binaries, measured>>

\* Between campaigns the broker may be set up anew: its entrypoint makes a CA
\* when the state directory has none.
RenewBroker ==
  /\ stage = "Stopped"
  /\ campaign < MaxCampaigns
  /\ brokerCA' = campaign + 1
  /\ UNCHANGED <<control, localCA, cache, fixtures, binaries, measured>>

----
(* The scenarios. *)

BuildBinary ==
  /\ stage = "Build"
  /\ binaries' = [binaries EXCEPT ![EndpointOrder[next]][scenario] =
                    Whole(campaign, scenario)]
  /\ LoopThen(EndpointOrder, "Session")
  /\ UNCHANGED <<scenario, campaign, brokerCA, localCA, cache, fixtures, measured>>

\* go build puts a new binary in place only when it succeeds.
BuildBinaryFails ==
  /\ stage = "Build" /\ Stops
  /\ UNCHANGED <<material, measured>>

\* Both endpoints exit with status 0, having written their files.  Endpoints that an
\* earlier campaign has left have written theirs by now, or never will.
SessionSucceeds ==
  /\ stage = "Session"
  /\ remote' = [e \in Endpoints |-> Whole(campaign, scenario)]
  /\ orphans' = {}
  /\ Goto("Transfer")
  /\ UNCHANGED <<scenario, campaign, material, results, report>>

\* Mutant: the error of a session is printed and the campaign goes on.
SessionFailsAndGoesOn ==
  /\ stage = "Session" /\ campaign \in FaultyCampaigns
  /\ \A e \in Endpoints : remote[e] # Missing
  /\ Goto("Transfer")
  /\ UNCHANGED <<scenario, campaign, material, measured>>

\* orchestrateMacro returns at the first error of a signal, a pipe or a process, or
\* the operator ends a session that hangs: each endpoint has left its old file, a
\* new one or a part of it, and may still be running.
SessionFails ==
  /\ stage = "Session" /\ Stops
  /\ \E written \in CutShort(remote["publisher"], Whole(campaign, scenario)) :
       \E received \in CutShort(remote["subscriber"], Whole(campaign, scenario)) :
         remote' = [remote EXCEPT !["publisher"] = written,
                                  !["subscriber"] = received]
  /\ orphans' \in SUBSET (Endpoints \X {<<campaign, scenario>>})
  /\ UNCHANGED <<material, results, report>>

\* An endpoint the coordinator has left finishes.  Only one that has read FINISH
\* writes its file, and has only its connection to close before: it is done
\* before a new campaign has provisioned, copied and built its way to a session.
OrphanExits(o) ==
  /\ o \in orphans
  /\ stage \in {"Stopped", "Store", "Copy", "FetchCA", "CopyCA", "Build"}
  /\ orphans' = orphans \ {o}
  /\ \E left \in CutShort(remote[o[1]], Whole(o[2][1], o[2][2])) :
       remote' = [remote EXCEPT ![o[1]] = left]
  /\ UNCHANGED <<control, material, results, report>>

Transferred == EndpointOrder[next]

\* The next file of this scenario, the next scenario, or the report.
AfterRemoval ==
  \/ /\ next < Len(EndpointOrder)
     /\ stage' = "Transfer" /\ next' = next + 1 /\ UNCHANGED scenario
  \/ /\ next = Len(EndpointOrder) /\ scenario < NumScenarios
     /\ Goto("Build") /\ scenario' = scenario + 1
  \/ /\ next = Len(EndpointOrder) /\ scenario = NumScenarios
     /\ Goto("Report") /\ UNCHANGED scenario

\* Mutant: a result that is there already is not replaced.
TransferResultOnce ==
  /\ stage = "Transfer"
  /\ results[scenario][Transferred] = Missing
  /\ results' = [results EXCEPT ![scenario][Transferred] = remote[Transferred]]
  /\ stage' = "Remove" /\ UNCHANGED next
  /\ UNCHANGED <<scenario, campaign, material, remote, orphans, report>>

TransferResult ==
  /\ stage = "Transfer"
  /\ remote[Transferred] # Missing
  /\ results' = [results EXCEPT ![scenario][Transferred] = remote[Transferred]]
  /\ stage' = "Remove" /\ UNCHANGED next
  /\ UNCHANGED <<scenario, campaign, material, remote, orphans, report>>

\* Mutant: the file is deleted whether it was copied or not.
TransferFailsAndRemoves ==
  /\ stage = "Transfer" /\ Stops
  /\ \E left \in CutShort(results[scenario][Transferred], remote[Transferred]) :
       results' = [results EXCEPT ![scenario][Transferred] = left]
  /\ remote' = [remote EXCEPT ![Transferred] = Missing]
  /\ UNCHANGED <<material, orphans, report>>

TransferFails ==
  /\ stage = "Transfer" /\ Stops
  /\ \E left \in CutShort(results[scenario][Transferred], remote[Transferred]) :
       results' = [results EXCEPT ![scenario][Transferred] = left]
  /\ UNCHANGED <<material, remote, orphans, report>>

RemoveResult ==
  /\ stage = "Remove"
  /\ remote' = [remote EXCEPT ![Transferred] = Missing]
  /\ AfterRemoval
  /\ UNCHANGED <<campaign, material, results, orphans, report>>

RemoveFails ==
  /\ stage = "Remove" /\ Stops
  /\ remote' \in {remote, [remote EXCEPT ![Transferred] = Missing]}
  /\ UNCHANGED <<material, results, orphans, report>>

----
(* The report. *)

\* load_macro_summary looks every publisher row's message up among the
\* subscriber's, and every subscriber row's repetition among the publisher's:
\* message identifiers are fresh, so rows of two sessions never meet.
NoRows(file) == file.rows = "none"

\* Mutant: messages without a partner are skipped.
JoinsLeniently(p, s) == Missing \notin {p, s}

Joins(p, s) ==
  /\ Missing \notin {p, s}
  /\ \/ NoRows(p) /\ NoRows(s)
     \/ /\ ~ NoRows(p) /\ ~ NoRows(s)
        /\ p.from = s.from
        /\ p.rows = "all" => s.rows = "all"

\* Files cut at the wrong place do not load: a report of them may fail.
Loadable(files) ==
  \A s \in ScenarioIDs : Joins(files[s]["publisher"], files[s]["subscriber"])

GenerateReport ==
  /\ stage = "Report"
  /\ Loadable(results)
  /\ report' = [by |-> "coordinator", for |-> campaign, from |-> results]
  /\ Goto("Done")
  /\ UNCHANGED <<scenario, campaign, material, remote, results, orphans>>

ReportFails ==
  /\ stage = "Report" /\ Stops
  /\ UNCHANGED <<material, measured>>

\* python -m report.analysis.macro_report, run by hand on the existing results.
ReportByHand ==
  /\ stage \in {"Stopped", "Done"}
  /\ Loadable(results)
  /\ report' = [by |-> "hand", for |-> campaign, from |-> results]
  /\ UNCHANGED <<control, material, remote, results, orphans>>

----
CoordinatorStep ==
  \/ StartCampaign
  \/ StoreKey \/ CopyFixture \/ FetchCA \/ CopyCA
  \/ BuildBinary \/ SessionSucceeds
  \/ TransferResult \/ RemoveResult
  \/ GenerateReport

Failure ==
  \/ StoreKeyFails \/ CopyFixtureFails \/ FetchCAFails \/ CopyCAFails
  \/ BuildBinaryFails \/ SessionFails
  \/ TransferFails \/ RemoveFails
  \/ ReportFails

Environment ==
  \/ RenewBroker
  \/ \E o \in orphans : OrphanExits(o)
  \/ ReportByHand

Next == CoordinatorStep \/ Failure \/ Environment

Spec == Init /\ [][Next]_vars /\ WF_vars(CoordinatorStep)

----
(* Properties. *)

\* Every variable keeps its type: files say what they are of, and the result files
\* of a scenario, for one, never come from a campaign that has not started.
TypeOK ==
  /\ stage \in Stages
  /\ next \in 1..Len(CopyOrder)
  /\ scenario \in ScenarioIDs
  /\ campaign \in {0} \cup Campaigns /\ (stage # "Idle" => campaign # 0)
  /\ brokerCA \in Campaigns
  /\ localCA \in File \cup {Missing}
  /\ cache \in [Keys -> File \cup {Missing}]
  /\ fixtures \in [Endpoints -> [Keys \cup {"CA"} -> File \cup {Missing}]]
  /\ binaries \in [Endpoints -> [ScenarioIDs -> File \cup {Missing}]]
  /\ remote \in [Endpoints -> File \cup {Missing}]
  /\ results \in [ScenarioIDs -> [Endpoints -> File \cup {Missing}]]
  /\ orphans \subseteq Endpoints \X (Campaigns \X ScenarioIDs)
  /\ report.by \in {"nobody", "hand", "coordinator"} /\ report.for \in {0} \cup Campaigns

\* Whatever earlier campaigns left half-stored, half-copied or half-built, a session
\* starts with whole key files that belong together on the two endpoints, the CA
\* of the broker as it is now, and the binaries of this campaign and scenario
\* (runCoordinator's order of provisionFixtures, distributeFixtures,
\* distributeBrokerCA and buildBinary, each stopping at the first error).
SessionIsPrepared ==
  stage = "Session" =>
    /\ \A pair \in KeyPairs :
         /\ fixtures["publisher"][pair[1]] = fixtures["subscriber"][pair[2]]
         /\ fixtures["publisher"][pair[1]].rows = "all"
    /\ \A e \in Endpoints :
         /\ fixtures[e]["CA"] = Whole(brokerCA, 0)
         /\ binaries[e][scenario] = Whole(campaign, scenario)

\* The CSV files have the same names in every scenario, yet none is ever filed under
\* a scenario or by a campaign it was not measured in: a file left on an endpoint
\* by a failed session is not taken for the result of a later one (transferResult
\* only after a session that succeeded).
ResultsAreOfTheirSession ==
  [][\A s \in ScenarioIDs, e \in Endpoints :
       results'[s][e] # results[s][e] => results'[s][e].from = <<campaign, s>>]_vars

\* An endpoint's CSV file is deleted only once the laptop has all that it held, at
\* whatever point the copy fails (transferResult's scp before its rm).
DeletedOnlyWhenKept ==
  [][\A e \in Endpoints :
       remote[e] # Missing /\ remote'[e] = Missing => results[scenario][e] = remote[e]]_vars

\* A report the coordinator makes is of this campaign alone and of all of it: both
\* complete files of every scenario, nothing left over from a campaign that failed.
CampaignReportIsWhole ==
  report.by = "coordinator" =>
    report.from = [s \in ScenarioIDs |-> [e \in Endpoints |-> Whole(report.for, s)]]

\* No report, not even one made by hand from what a failed campaign left, sets the
\* send times of one session against the arrival times of another: a campaign that
\* fails between the transfers of publisher.csv and subscriber.csv leaves such a pair,
\* and load_macro_summary and macro_latency_statistics do not join it.
ReportsArePaired ==
  report.by # "nobody" =>
    \A s \in ScenarioIDs :
      LET p == report.from[s]["publisher"]
          a == report.from[s]["subscriber"]
      IN \/ NoRows(p) /\ NoRows(a)
         \/ p.from = a.from /\ p.from[2] = s

\* The inductive invariant behind SessionIsPrepared and CampaignReportIsWhole: what
\* the campaign has put in place by the time it is where it is.
Distributed == {"Build", "Session", "Transfer", "Remove", "Report"}
Copied == {"FetchCA", "CopyCA"} \cup Distributed
Stored == {"Copy"} \cup Copied

LoopInv ==
  /\ stage = "Store" => next \in 1..6
  /\ stage = "Copy" => next \in 1..8
  /\ stage \in {"CopyCA", "Build", "Transfer", "Remove"} => next \in 1..2
  /\ stage \in {"Store", "Copy", "FetchCA", "CopyCA"} => scenario = 1
  /\ stage = "Report" => scenario = NumScenarios

KeysInv ==
  /\ \A i \in 1..6 : stage \in Stored \/ (stage = "Store" /\ i < next) =>
       cache[StoreOrder[i]] = Whole(campaign, 0)
  /\ \A i \in 1..8 : stage \in Copied \/ (stage = "Copy" /\ i < next) =>
       fixtures[CopyOrder[i][1]][CopyOrder[i][2]] = Whole(campaign, 0)

CAInv ==
  /\ stage = "CopyCA" => localCA = Whole(brokerCA, 0)
  /\ \A i \in 1..2 : stage \in Distributed \/ (stage = "CopyCA" /\ i < next) =>
       fixtures[EndpointOrder[i]]["CA"] = Whole(brokerCA, 0)

BuiltInv ==
  \A i \in 1..2 : stage = "Session" \/ (stage = "Build" /\ i < next) =>
    binaries[EndpointOrder[i]][scenario] = Whole(campaign, scenario)

FiledInv ==
  /\ \A i \in 1..2 : stage \in {"Transfer", "Remove"} /\ i >= next =>
       remote[EndpointOrder[i]] = Whole(campaign, scenario)
  /\ \A s \in ScenarioIDs, i \in 1..2 :
       \/ stage \in Distributed /\ s < scenario
       \/ stage = "Transfer" /\ s = scenario /\ i < next
       \/ stage = "Remove" /\ s = scenario /\ i <= next
       \/ stage = "Report"
       => results[s][EndpointOrder[i]] = Whole(campaign, s)

IInv ==
  /\ LoopInv
  /\ KeysInv
  /\ CAInv
  /\ BuiltInv
  /\ FiledInv
  /\ CampaignReportIsWhole

\* Nothing a failed campaign leaves behind stands in the way of the next: when the
\* coordinator is started again until nothing fails, it ends with its report.
RerunRecovers == <>(report.by = "coordinator" /\ report.for = campaign)
====
