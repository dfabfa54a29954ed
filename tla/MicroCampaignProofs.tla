---- MODULE MicroCampaignProofs ----
(* What a campaign reports and measures, for every number of repetitions, cases and   *)
(* campaigns, and whichever of the campaigns fail.                                     *)
EXTENDS MicroCampaignInv, Sequences, TLAPS

USE MicroCampaignAssumption

LEMMA CasesArePositive ==
  /\ 1 \in 1..MemoryCases /\ 1 \in 1..EnergyCases /\ 1 \in 1..TimingCases
  /\ 1 \in 1..Runs
OBVIOUS

LEMMA StartedIsProgram ==
  ASSUME NEW c \in Campaigns, NEW what \in {"provision", "memory", "timing"}
  PROVE Started(c, what) \in Program
BY DEF Started, Program

LEMMA WorkloadIsProgram ==
  ASSUME campaign \in Campaigns, case \in 1..EnergyCases, run \in 1..Runs
  PROVE Workload \in Program
BY DEF Workload, Program, WorkloadRows

\* A file of Files without some of its rows, or with further rows of Rows.
LEMMA RowsAreFiles ==
  ASSUME NEW c \in Campaigns, NEW rows \in SUBSET Rows
  PROVE [from |-> c, rows |-> rows] \in Files
BY DEF Files, File

LEMMA MoreRowsAreFiles ==
  ASSUME NEW f \in Files, f.from \in Campaigns, NEW more \in SUBSET Rows
  PROVE [f EXCEPT !.rows = @ \cup more] \in Files
<1>1. f \in File BY DEF Files, Missing, Campaigns
<1>2. [f EXCEPT !.rows = @ \cup more] \in File BY <1>1 DEF File
<1>3. QED BY <1>2 DEF Files

LEMMA FileParts ==
  ASSUME NEW f \in Files
  PROVE /\ f.rows \in SUBSET Rows
        /\ f # Missing => f \in File /\ f.from \in Campaigns
        /\ f.from \in Campaigns => f # Missing
BY DEF Files, File, Missing, Campaigns

\* The type invariant, by what the steps of the model change together.
ControlTypes ==
  /\ stage \in Stages /\ campaign \in 0..MaxCampaigns /\ quiet \in BOOLEAN
  /\ case \in 1..MemoryCases \cup 1..EnergyCases \cup 1..TimingCases /\ run \in 1..Runs
DeviceTypes ==
  /\ device \subseteq Program /\ seen \subseteq Program /\ cache \subseteq Campaigns
  /\ sampled \in BOOLEAN
FileTypes ==
  /\ text \in [Texts -> Files] /\ table \in [Tables -> Files]
  /\ report \in [by : {"nobody", "campaign", "hand"}, for : 0..MaxCampaigns, from : [Tables -> Files]]

LEMMA TypeParts == TypeOK <=> ControlTypes /\ DeviceTypes /\ FileTypes
BY DEF TypeOK, ControlTypes, DeviceTypes, FileTypes

LEMMA TypePartsNext == TypeOK' <=> ControlTypes' /\ DeviceTypes' /\ FileTypes'
BY DEF TypeOK, ControlTypes, DeviceTypes, FileTypes

LEMMA InitTypeOK == Init => TypeOK
<1> SUFFICES ASSUME Init PROVE TypeOK
  OBVIOUS
<1>1. Missing \in Files BY DEF Files
<1>2. text \in [Texts -> Files] /\ table \in [Tables -> Files] BY <1>1 DEF Init
<1>3. report \in [by : {"nobody", "campaign", "hand"}, for : 0..MaxCampaigns, from : [Tables -> Files]]
  BY <1>1 DEF Init, NoReport
<1>4. ControlTypes BY CasesArePositive DEF Init, ControlTypes, Stages
<1>5. DeviceTypes BY DEF Init, DeviceTypes
<1>6. QED BY <1>2, <1>3, <1>4, <1>5, TypeParts DEF FileTypes

LEMMA InitIInv == Init => IInv
BY InitTypeOK DEF Init, IInv, CaseInLoop, Quiet, Alone, MemoryKept, EnergyKept, TimingKept,
                  CampaignReportIsWhole, NoReport

\* Each loop leaves its case among its own.
LEMMA CaseStep == TypeOK /\ CaseInLoop /\ [Next]_vars => CaseInLoop'
<1> SUFFICES ASSUME TypeOK, CaseInLoop, [Next]_vars PROVE CaseInLoop'
  OBVIOUS
<1> USE DEF TypeOK, CaseInLoop, Campaigns, control
<1>1. CASE StartCampaign BY <1>1 DEF StartCampaign
<1>2. CASE BuildBinaries BY <1>2 DEF BuildBinaries, Goto
<1>3. CASE LaunchProvisioner BY <1>3 DEF LaunchProvisioner, Stay
<1>4. CASE ProvisionReturns BY <1>4 DEF ProvisionReturns, Goto
<1>5. CASE RunMemoryCase BY <1>5 DEF RunMemoryCase, LoopThen
<1>6. CASE ConvertMemory BY <1>6 DEF ConvertMemory, Converts, Goto
<1>7. CASE ConnectMeter BY <1>7 DEF ConnectMeter, Goto
<1>8. CASE BaselineOpens BY <1>8 DEF BaselineOpens, Samples, Stay
<1>9. CASE BaselineCloses BY <1>9 DEF BaselineCloses, AddRow
<1>10. CASE WaitForCooldown BY <1>10 DEF WaitForCooldown, Stay
<1>11. CASE LaunchWorkload BY <1>11 DEF LaunchWorkload, Stay
<1>12. CASE WindowOpens BY <1>12 DEF WindowOpens, Samples, Stay
<1>13. CASE WindowCloses BY <1>13 DEF WindowCloses, Stay
<1>14. CASE WaitReturns BY <1>14 DEF WaitReturns, Stay
<1>15. CASE WriteSamples BY <1>15 DEF WriteSamples, AddRow, LoopThen
<1>16. CASE OpenTiming BY <1>16 DEF OpenTiming, Goto
<1>17. CASE RunTimingCase BY <1>17 DEF RunTimingCase
<1>18. CASE ConvertTiming BY <1>18 DEF ConvertTiming, Converts, Goto
<1>19. CASE GenerateReport BY <1>19 DEF GenerateReport, Reported, Goto
<1>20. CASE ReportRaises BY <1>20 DEF ReportRaises, Stops, Goto
<1>21. CASE RunMemoryCaseFails BY <1>21 DEF RunMemoryCaseFails, Stops, Goto
<1>22. CASE ConvertMemoryFails BY <1>22 DEF ConvertMemoryFails, ConversionFails, Stops, Goto
<1>23. CASE RunTimingCaseFails BY <1>23 DEF RunTimingCaseFails, Stops, Goto
<1>24. CASE ConvertTimingFails BY <1>24 DEF ConvertTimingFails, ConversionFails, Stops, Goto
<1>25. CASE Fails BY <1>25 DEF Fails, Stops, Goto
<1>26. CASE ReportByHand BY <1>26 DEF ReportByHand, Reported
<1>27. ASSUME NEW p \in device, ProvisionerEnds(p) PROVE CaseInLoop'
  BY <1>27 DEF ProvisionerEnds
<1>28. ASSUME NEW p \in device, ProgramEnds(p) PROVE CaseInLoop'
  BY <1>28 DEF ProgramEnds
<1>29. ASSUME NEW p \in device, ProvisionerStores(p) PROVE CaseInLoop'
  BY <1>29 DEF ProvisionerStores
<1>30. CASE UNCHANGED vars BY <1>30 DEF vars
<1>31. QED
  BY <1>1, <1>2, <1>3, <1>4, <1>5, <1>6, <1>7, <1>8, <1>9, <1>10, <1>11, <1>12, <1>13, <1>14,
     <1>15, <1>16, <1>17, <1>18, <1>19, <1>20, <1>21, <1>22, <1>23, <1>24, <1>25, <1>26, <1>27,
     <1>28, <1>29, <1>30
  DEF Next, Orchestrate, Failing, DeviceEnds

\* The control variables keep their types.
LEMMA ControlStep == ControlTypes /\ CaseInLoop /\ [Next]_vars => ControlTypes'
<1> SUFFICES ASSUME ControlTypes, CaseInLoop, [Next]_vars PROVE ControlTypes'
  OBVIOUS
<1> USE DEF ControlTypes, CaseInLoop, Stages, control
<1>1. CASE StartCampaign BY <1>1 DEF StartCampaign
<1>2. CASE BuildBinaries BY <1>2 DEF BuildBinaries, Goto
<1>3. CASE LaunchProvisioner BY <1>3 DEF LaunchProvisioner, Stay
<1>4. CASE ProvisionReturns BY <1>4 DEF ProvisionReturns, Goto
<1>5. CASE RunMemoryCase BY <1>5 DEF RunMemoryCase, LoopThen
<1>6. CASE ConvertMemory BY <1>6 DEF ConvertMemory, Converts, Goto
<1>7. CASE ConnectMeter BY <1>7 DEF ConnectMeter, Goto
<1>8. CASE BaselineOpens BY <1>8 DEF BaselineOpens, Samples, Stay
<1>9. CASE BaselineCloses BY <1>9 DEF BaselineCloses, AddRow
<1>10. CASE WaitForCooldown BY <1>10 DEF WaitForCooldown, Stay
<1>11. CASE LaunchWorkload BY <1>11 DEF LaunchWorkload, Stay
<1>12. CASE WindowOpens BY <1>12 DEF WindowOpens, Samples, Stay
<1>13. CASE WindowCloses BY <1>13 DEF WindowCloses, Stay
<1>14. CASE WaitReturns BY <1>14 DEF WaitReturns, Stay
<1>15. CASE WriteSamples BY <1>15 DEF WriteSamples, AddRow, LoopThen
<1>16. CASE OpenTiming BY <1>16 DEF OpenTiming, Goto
<1>17. CASE RunTimingCase BY <1>17 DEF RunTimingCase
<1>18. CASE ConvertTiming BY <1>18 DEF ConvertTiming, Converts, Goto
<1>19. CASE GenerateReport BY <1>19 DEF GenerateReport, Reported, Goto
<1>20. CASE ReportRaises BY <1>20 DEF ReportRaises, Stops, Goto
<1>21. CASE RunMemoryCaseFails BY <1>21 DEF RunMemoryCaseFails, Stops, Goto
<1>22. CASE ConvertMemoryFails BY <1>22 DEF ConvertMemoryFails, ConversionFails, Stops, Goto
<1>23. CASE RunTimingCaseFails BY <1>23 DEF RunTimingCaseFails, Stops, Goto
<1>24. CASE ConvertTimingFails BY <1>24 DEF ConvertTimingFails, ConversionFails, Stops, Goto
<1>25. CASE Fails BY <1>25 DEF Fails, Stops, Goto
<1>26. CASE ReportByHand BY <1>26 DEF ReportByHand, Reported
<1>27. ASSUME NEW p \in device, ProvisionerEnds(p) PROVE ControlTypes'
  BY <1>27 DEF ProvisionerEnds
<1>28. ASSUME NEW p \in device, ProgramEnds(p) PROVE ControlTypes'
  BY <1>28 DEF ProgramEnds
<1>29. ASSUME NEW p \in device, ProvisionerStores(p) PROVE ControlTypes'
  BY <1>29 DEF ProvisionerStores
<1>30. CASE UNCHANGED vars BY <1>30 DEF vars
<1>31. QED
  BY <1>1, <1>2, <1>3, <1>4, <1>5, <1>6, <1>7, <1>8, <1>9, <1>10, <1>11, <1>12, <1>13, <1>14,
     <1>15, <1>16, <1>17, <1>18, <1>19, <1>20, <1>21, <1>22, <1>23, <1>24, <1>25, <1>26, <1>27,
     <1>28, <1>29, <1>30
  DEF Next, Orchestrate, Failing, DeviceEnds

\* So do those of the device and of the meter.
LEMMA DeviceStep == ControlTypes /\ DeviceTypes /\ CaseInLoop /\ [Next]_vars => DeviceTypes'
<1> SUFFICES ASSUME ControlTypes, DeviceTypes, CaseInLoop, [Next]_vars PROVE DeviceTypes'
  OBVIOUS
<1> USE DEF DeviceTypes, CaseInLoop, files, metering
<1>1. CASE StartCampaign BY <1>1 DEF StartCampaign
<1>2. CASE BuildBinaries BY <1>2 DEF BuildBinaries, Goto
<1>3. CASE LaunchProvisioner
  <2>1. Started(campaign, "provision") \in Program BY <1>3, StartedIsProgram DEF LaunchProvisioner
  <2>2. QED BY <1>3, <2>1 DEF LaunchProvisioner
<1>4. CASE ProvisionReturns BY <1>4 DEF ProvisionReturns, Goto
<1>5. CASE RunMemoryCase BY <1>5 DEF RunMemoryCase, LoopThen
<1>6. CASE ConvertMemory BY <1>6 DEF ConvertMemory, Converts, Goto
<1>7. CASE ConnectMeter BY <1>7 DEF ConnectMeter, Goto
<1>8. CASE BaselineOpens BY <1>8 DEF BaselineOpens, Samples, Stay
<1>9. CASE BaselineCloses BY <1>9 DEF BaselineCloses, AddRow
<1>10. CASE WaitForCooldown BY <1>10 DEF WaitForCooldown, Stay
<1>11. CASE LaunchWorkload
  <2>1. Workload \in Program BY <1>11, WorkloadIsProgram DEF LaunchWorkload, ControlTypes
  <2>2. QED BY <1>11, <2>1 DEF LaunchWorkload
<1>12. CASE WindowOpens BY <1>12 DEF WindowOpens, Samples, Stay
<1>13. CASE WindowCloses BY <1>13 DEF WindowCloses, Stay
<1>14. CASE WaitReturns BY <1>14 DEF WaitReturns, Stay
<1>15. CASE WriteSamples BY <1>15 DEF WriteSamples, AddRow, LoopThen
<1>16. CASE OpenTiming BY <1>16 DEF OpenTiming, Goto
<1>17. CASE RunTimingCase BY <1>17 DEF RunTimingCase
<1>18. CASE ConvertTiming BY <1>18 DEF ConvertTiming, Converts, Goto
<1>19. CASE GenerateReport BY <1>19 DEF GenerateReport, Reported, Goto
<1>20. CASE ReportRaises BY <1>20 DEF ReportRaises, Stops, Goto
<1>21. CASE RunMemoryCaseFails
  <2>1. Started(campaign, "memory") \in Program BY <1>21, StartedIsProgram DEF RunMemoryCaseFails
  <2>2. QED BY <1>21, <2>1 DEF RunMemoryCaseFails, MayLeave
<1>22. CASE ConvertMemoryFails BY <1>22 DEF ConvertMemoryFails, ConversionFails, Stops, Goto
<1>23. CASE RunTimingCaseFails
  <2>1. Started(campaign, "timing") \in Program BY <1>23, StartedIsProgram DEF RunTimingCaseFails
  <2>2. QED BY <1>23, <2>1 DEF RunTimingCaseFails, MayLeave
<1>24. CASE ConvertTimingFails BY <1>24 DEF ConvertTimingFails, ConversionFails, Stops, Goto
<1>25. CASE Fails BY <1>25 DEF Fails, Stops, Goto
<1>26. CASE ReportByHand BY <1>26 DEF ReportByHand, Reported
<1>27. ASSUME NEW p \in device, ProvisionerEnds(p) PROVE DeviceTypes'
  <2>1. p.of \in Campaigns BY DEF Program
  <2>2. QED BY <1>27, <2>1 DEF ProvisionerEnds
<1>28. ASSUME NEW p \in device, ProgramEnds(p) PROVE DeviceTypes'
  BY <1>28 DEF ProgramEnds
<1>29. ASSUME NEW p \in device, ProvisionerStores(p) PROVE DeviceTypes'
  <2>1. p.of \in Campaigns BY DEF Program
  <2>2. QED BY <1>29, <2>1 DEF ProvisionerStores
<1>30. CASE UNCHANGED vars BY <1>30 DEF vars
<1>31. QED
  BY <1>1, <1>2, <1>3, <1>4, <1>5, <1>6, <1>7, <1>8, <1>9, <1>10, <1>11, <1>12, <1>13, <1>14,
     <1>15, <1>16, <1>17, <1>18, <1>19, <1>20, <1>21, <1>22, <1>23, <1>24, <1>25, <1>26, <1>27,
     <1>28, <1>29, <1>30
  DEF Next, Orchestrate, Failing, DeviceEnds

\* A row of the case and the repetition at hand is a row of its file.
LEMMA RowsOfTheLoop ==
  ASSUME ControlTypes, CaseInLoop
  PROVE /\ stage = "Memory" => {<<case, run>>} \in SUBSET Rows
        /\ stage = "BaselineWindow" => {<<0, run>>} \in SUBSET Rows
        /\ stage = "Write" => {<<case, run>>} \in SUBSET Rows
        /\ stage = "Timing" => \A r \in 0..Runs : {case} \X (1..r) \in SUBSET Rows
<1> USE DEF ControlTypes, CaseInLoop
<1>1. stage = "Memory" => {<<case, run>>} \in SUBSET Rows BY DEF Rows, MemoryRows
<1>2. stage = "BaselineWindow" => {<<0, run>>} \in SUBSET Rows BY DEF Rows, BaselineRows
<1>3. stage = "Write" => {<<case, run>>} \in SUBSET Rows BY DEF Rows, WorkloadRows
<1>4. ASSUME stage = "Timing", NEW r \in 0..Runs PROVE {case} \X (1..r) \in SUBSET TimingRows
  BY <1>4 DEF TimingRows
<1>5. QED BY <1>1, <1>2, <1>3, <1>4 DEF Rows

LEMMA TextAdds ==
  ASSUME FileTypes, NEW t \in Texts, text[t].from \in Campaigns, NEW more \in SUBSET Rows
  PROVE [text EXCEPT ![t].rows = @ \cup more] \in [Texts -> Files]
<1>1. text[t] \in Files BY DEF FileTypes
<1>2. [text[t] EXCEPT !.rows = @ \cup more] \in Files BY <1>1, MoreRowsAreFiles
<1>3. QED BY <1>2 DEF FileTypes

LEMMA TableAdds ==
  ASSUME FileTypes, table["energy"].from \in Campaigns, NEW row, {row} \in SUBSET Rows, AddRow(row)
  PROVE table' \in [Tables -> Files]
<1>1. table["energy"] \in Files BY DEF FileTypes, Tables
<1>2. [table["energy"] EXCEPT !.rows = @ \cup {row}] \in Files BY <1>1, MoreRowsAreFiles
<1>3. QED BY <1>2 DEF FileTypes, AddRow

\* A new file, and a conversion that is interrupted, leave files.
LEMMA OpenedText ==
  ASSUME FileTypes, NEW t \in Texts, campaign \in Campaigns
  PROVE [text EXCEPT ![t] = [from |-> campaign, rows |-> {}]] \in [Texts -> Files]
<1>1. [from |-> campaign, rows |-> {}] \in Files BY RowsAreFiles
<1>2. QED BY <1>1 DEF FileTypes

LEMMA InterruptedTypes ==
  ASSUME FileTypes, NEW t \in Texts, campaign \in Campaigns, Interrupted(t)
  PROVE table' \in [Tables -> Files]
<1>1. CASE table' = table BY <1>1 DEF FileTypes
<1>2. ASSUME NEW row \in text[t].rows,
             table' = [table EXCEPT ![t] = [from |-> campaign, rows |-> Before(text[t].rows, row)]]
      PROVE table' \in [Tables -> Files]
  <2>1. text[t].rows \in SUBSET Rows BY FileParts DEF FileTypes
  <2>2. Before(text[t].rows, row) \in SUBSET Rows BY <2>1 DEF Before
  <2>3. [from |-> campaign, rows |-> Before(text[t].rows, row)] \in Files BY <2>2, RowsAreFiles
  <2>4. QED BY <1>2, <2>3 DEF FileTypes
<1>3. CASE table' = [table EXCEPT ![t] = text[t]] BY <1>3 DEF FileTypes, Texts, Tables
<1>4. QED BY <1>1, <1>2, <1>3 DEF Interrupted

LEMMA ConvertsTypes ==
  ASSUME FileTypes, NEW t \in Texts, NEW following, Converts(t, following)
  PROVE FileTypes'
<1>1. text[t] \in Files /\ Missing \in Files BY DEF FileTypes, Files
<1>2. table' \in [Tables -> Files] BY <1>1 DEF FileTypes, Converts, Texts, Tables
<1>3. text' \in [Texts -> Files] BY <1>1 DEF FileTypes, Converts
<1>4. QED BY <1>2, <1>3 DEF FileTypes, Converts

LEMMA ConversionFailsTypes ==
  ASSUME FileTypes, NEW t \in Texts, campaign \in Campaigns, ConversionFails(t)
  PROVE FileTypes'
<1>1. table' \in [Tables -> Files] BY InterruptedTypes DEF ConversionFails
<1>2. QED BY <1>1 DEF FileTypes, ConversionFails

\* And those of the files: every row is of a case and a repetition of its campaign.
LEMMA FileStep ==
  ControlTypes /\ FileTypes /\ CaseInLoop /\ MemoryKept /\ EnergyKept /\ TimingKept /\ [Next]_vars
    => FileTypes'
<1> SUFFICES ASSUME ControlTypes, FileTypes, CaseInLoop, MemoryKept, EnergyKept, TimingKept, [Next]_vars
             PROVE FileTypes'
  OBVIOUS
<1> USE DEF FileTypes, CaseInLoop, files, control
<1>1. CASE StartCampaign BY <1>1 DEF StartCampaign
<1>2. CASE BuildBinaries BY <1>2 DEF BuildBinaries, Goto
<1>3. CASE LaunchProvisioner BY <1>3 DEF LaunchProvisioner, Stay
<1>4. CASE ProvisionReturns
  <2>1. text' \in [Texts -> Files] BY <1>4, OpenedText DEF ProvisionReturns, Texts
  <2>2. QED BY <1>4, <2>1 DEF ProvisionReturns
<1>5. CASE RunMemoryCase
  <2>1. text["memory"].from \in Campaigns BY <1>5 DEF RunMemoryCase, MemoryKept
  <2>2. {<<case, run>>} \in SUBSET Rows BY <1>5, RowsOfTheLoop DEF RunMemoryCase
  <2>3. text' \in [Texts -> Files] BY <1>5, <2>1, <2>2, TextAdds DEF RunMemoryCase, Texts
  <2>4. QED BY <1>5, <2>3 DEF RunMemoryCase
<1>6. CASE ConvertMemory
  BY <1>6, ConvertsTypes DEF ConvertMemory, Texts
<1>7. CASE ConnectMeter
  <2>1. [from |-> campaign, rows |-> {}] \in Files BY <1>7, RowsAreFiles DEF ConnectMeter
  <2>2. QED BY <1>7, <2>1 DEF ConnectMeter
<1>8. CASE BaselineOpens BY <1>8 DEF BaselineOpens, Samples, Stay
<1>9. CASE BaselineCloses
  <2>1. table["energy"].from \in Campaigns BY <1>9 DEF BaselineCloses, EnergyKept
  <2>2. {<<0, run>>} \in SUBSET Rows BY <1>9, RowsOfTheLoop DEF BaselineCloses
  <2>3. table' \in [Tables -> Files] BY <1>9, <2>1, <2>2, TableAdds DEF BaselineCloses
  <2>4. QED BY <1>9, <2>3 DEF BaselineCloses
<1>10. CASE WaitForCooldown BY <1>10 DEF WaitForCooldown, Stay
<1>11. CASE LaunchWorkload BY <1>11 DEF LaunchWorkload, Stay
<1>12. CASE WindowOpens BY <1>12 DEF WindowOpens, Samples, Stay
<1>13. CASE WindowCloses BY <1>13 DEF WindowCloses, Stay
<1>14. CASE WaitReturns BY <1>14 DEF WaitReturns, Stay
<1>15. CASE WriteSamples
  <2>1. table["energy"].from \in Campaigns BY <1>15 DEF WriteSamples, EnergyKept
  <2>2. {<<case, run>>} \in SUBSET Rows BY <1>15, RowsOfTheLoop DEF WriteSamples
  <2>3. table' \in [Tables -> Files] BY <1>15, <2>1, <2>2, TableAdds DEF WriteSamples
  <2>4. QED BY <1>15, <2>3 DEF WriteSamples
<1>16. CASE OpenTiming
  <2>1. text' \in [Texts -> Files] BY <1>16, OpenedText DEF OpenTiming, Texts
  <2>2. QED BY <1>16, <2>1 DEF OpenTiming
<1>17. CASE RunTimingCase
  <2>1. text["timing"].from \in Campaigns BY <1>17 DEF RunTimingCase, TimingKept
  <2>2. {case} \X (1..Runs) \in SUBSET Rows BY <1>17, RowsOfTheLoop DEF RunTimingCase
  <2>3. text' \in [Texts -> Files] BY <1>17, <2>1, <2>2, TextAdds DEF RunTimingCase, Texts
  <2>4. QED BY <1>17, <2>3 DEF RunTimingCase
<1>18. CASE ConvertTiming
  BY <1>18, ConvertsTypes DEF ConvertTiming, Texts
<1>19. CASE GenerateReport
  BY <1>19 DEF GenerateReport, Reported, ControlTypes
<1>20. CASE ReportRaises BY <1>20 DEF ReportRaises, Stops, Goto
<1>21. CASE RunMemoryCaseFails BY <1>21 DEF RunMemoryCaseFails, Stops, Goto
<1>22. CASE ConvertMemoryFails
  BY <1>22, ConversionFailsTypes DEF ConvertMemoryFails, Texts
<1>23. CASE RunTimingCaseFails
  <2>1. text["timing"].from \in Campaigns BY <1>23 DEF RunTimingCaseFails, TimingKept
  <2>2. \A r \in 0..Runs : {case} \X (1..r) \in SUBSET Rows BY <1>23, RowsOfTheLoop DEF RunTimingCaseFails
  <2>3. PICK r \in 0..Runs : text' = [text EXCEPT !["timing"].rows = @ \cup ({case} \X (1..r))]
    BY <1>23 DEF RunTimingCaseFails
  <2>4. text' \in [Texts -> Files] BY <2>1, <2>2, <2>3, TextAdds DEF Texts
  <2>5. QED BY <1>23, <2>4 DEF RunTimingCaseFails
<1>24. CASE ConvertTimingFails
  BY <1>24, ConversionFailsTypes DEF ConvertTimingFails, Texts
<1>25. CASE Fails BY <1>25 DEF Fails, Stops, Goto
<1>26. CASE ReportByHand
  BY <1>26 DEF ReportByHand, Reported, ControlTypes
<1>27. ASSUME NEW p \in device, ProvisionerEnds(p) PROVE FileTypes'
  BY <1>27 DEF ProvisionerEnds
<1>28. ASSUME NEW p \in device, ProgramEnds(p) PROVE FileTypes'
  BY <1>28 DEF ProgramEnds
<1>29. ASSUME NEW p \in device, ProvisionerStores(p) PROVE FileTypes'
  BY <1>29 DEF ProvisionerStores
<1>30. CASE UNCHANGED vars BY <1>30 DEF vars
<1>31. QED
  BY <1>1, <1>2, <1>3, <1>4, <1>5, <1>6, <1>7, <1>8, <1>9, <1>10, <1>11, <1>12, <1>13, <1>14,
     <1>15, <1>16, <1>17, <1>18, <1>19, <1>20, <1>21, <1>22, <1>23, <1>24, <1>25, <1>26, <1>27,
     <1>28, <1>29, <1>30
  DEF Next, Orchestrate, Failing, DeviceEnds

\* A campaign that found the device idle adds a program only when none is left, and
\* goes on only when the one it waits for has ended.
LEMMA QuietStep == ControlTypes /\ DeviceTypes /\ Quiet /\ [Next]_vars => Quiet'
<1> SUFFICES ASSUME ControlTypes, DeviceTypes, Quiet, [Next]_vars PROVE Quiet'
  OBVIOUS
<1> USE DEF Quiet, Alone, Started, Workload, control, metering
<1>1. CASE StartCampaign BY <1>1 DEF StartCampaign
<1>2. CASE BuildBinaries BY <1>2 DEF BuildBinaries, Goto
<1>3. CASE LaunchProvisioner BY <1>3 DEF LaunchProvisioner, Stay
<1>4. CASE ProvisionReturns BY <1>4 DEF ProvisionReturns, Goto
<1>5. CASE RunMemoryCase BY <1>5 DEF RunMemoryCase, LoopThen
<1>6. CASE ConvertMemory BY <1>6 DEF ConvertMemory, Converts, Goto
<1>7. CASE ConnectMeter BY <1>7 DEF ConnectMeter, Goto
<1>8. CASE BaselineOpens BY <1>8 DEF BaselineOpens, Samples, Stay
<1>9. CASE BaselineCloses BY <1>9 DEF BaselineCloses, AddRow
<1>10. CASE WaitForCooldown BY <1>10 DEF WaitForCooldown, Stay
<1>11. CASE LaunchWorkload BY <1>11 DEF LaunchWorkload, Stay
<1>12. CASE WindowOpens BY <1>12 DEF WindowOpens, Samples, Stay
<1>13. CASE WindowCloses BY <1>13 DEF WindowCloses, Stay
<1>14. CASE WaitReturns BY <1>14 DEF WaitReturns, Stay
<1>15. CASE WriteSamples BY <1>15 DEF WriteSamples, AddRow, LoopThen
<1>16. CASE OpenTiming BY <1>16 DEF OpenTiming, Goto
<1>17. CASE RunTimingCase BY <1>17 DEF RunTimingCase
<1>18. CASE ConvertTiming BY <1>18 DEF ConvertTiming, Converts, Goto
<1>19. CASE GenerateReport BY <1>19 DEF GenerateReport, Reported, Goto
<1>20. CASE ReportRaises BY <1>20 DEF ReportRaises, Stops, Goto
<1>21. CASE RunMemoryCaseFails BY <1>21 DEF RunMemoryCaseFails, Stops, Goto
<1>22. CASE ConvertMemoryFails BY <1>22 DEF ConvertMemoryFails, ConversionFails, Stops, Goto
<1>23. CASE RunTimingCaseFails BY <1>23 DEF RunTimingCaseFails, Stops, Goto
<1>24. CASE ConvertTimingFails BY <1>24 DEF ConvertTimingFails, ConversionFails, Stops, Goto
<1>25. CASE Fails BY <1>25 DEF Fails, Stops, Goto
<1>26. CASE ReportByHand BY <1>26 DEF ReportByHand, Reported
<1>27. ASSUME NEW p \in device, ProvisionerEnds(p) PROVE Quiet'
  BY <1>27 DEF ProvisionerEnds
<1>28. ASSUME NEW p \in device, ProgramEnds(p) PROVE Quiet'
  BY <1>28 DEF ProgramEnds
<1>29. ASSUME NEW p \in device, ProvisionerStores(p) PROVE Quiet'
  BY <1>29 DEF ProvisionerStores
<1>30. CASE UNCHANGED vars BY <1>30 DEF vars
<1>31. QED
  BY <1>1, <1>2, <1>3, <1>4, <1>5, <1>6, <1>7, <1>8, <1>9, <1>10, <1>11, <1>12, <1>13, <1>14,
     <1>15, <1>16, <1>17, <1>18, <1>19, <1>20, <1>21, <1>22, <1>23, <1>24, <1>25, <1>26, <1>27,
     <1>28, <1>29, <1>30
  DEF Next, Orchestrate, Failing, DeviceEnds

\* The rows before the next one of the loop are those before this one, and this one.
LEMMA NextRepetition ==
  ASSUME case \in 1..MemoryCases, run \in 1..Runs
  PROVE Before(MemoryRows, <<case, run + 1>>) =
          Before(MemoryRows, <<case, run>>) \cup {<<case, run>>}
BY DEF Before, MemoryRows

LEMMA NextCase ==
  ASSUME case \in 1..MemoryCases, run = Runs
  PROVE Before(MemoryRows, <<case + 1, 1>>) =
          Before(MemoryRows, <<case, run>>) \cup {<<case, run>>}
BY DEF Before, MemoryRows

LEMMA LastRow ==
  ASSUME case = MemoryCases, run = Runs
  PROVE MemoryRows = Before(MemoryRows, <<case, run>>) \cup {<<case, run>>}
BY DEF Before, MemoryRows

LEMMA FirstRow == Before(MemoryRows, <<1, 1>>) = {}
BY DEF Before, MemoryRows

\* What is added to a text that the campaign has opened.
AddsText(t, more) == text' = [text EXCEPT ![t].rows = @ \cup more]

LEMMA AddedText ==
  ASSUME FileTypes, NEW t \in Texts, NEW more, text[t].from = campaign, AddsText(t, more)
  PROVE text'[t] = [from |-> campaign, rows |-> text[t].rows \cup more]
<1>1. text[t] \in [from : Campaigns \cup {0}, rows : SUBSET Rows]
  BY DEF FileTypes, Files, File, Missing
<1>2. text'[t] = [text[t] EXCEPT !.rows = @ \cup more] BY DEF FileTypes, AddsText
<1>3. QED BY <1>1, <1>2

LEMMA AddedRow ==
  ASSUME FileTypes, NEW row, AddRow(row)
  PROVE table'["energy"].from = table["energy"].from
<1>1. table["energy"] \in [from : Campaigns \cup {0}, rows : SUBSET Rows]
  BY DEF FileTypes, Files, File, Missing, Tables
<1>2. table'["energy"] = [table["energy"] EXCEPT !.rows = @ \cup {row}]
  BY DEF FileTypes, AddRow, Tables
<1>3. QED BY <1>1, <1>2

LEMMA NextTimingCase ==
  ASSUME NEW c \in 1..TimingCases
  PROVE ((1..(c - 1)) \X (1..Runs)) \cup ({c} \X (1..Runs)) = (1..c) \X (1..Runs)
OBVIOUS

\* memory.txt grows row by row, and becomes memory.csv when all are there.
LEMMA MemoryStep ==
  ControlTypes /\ FileTypes /\ CaseInLoop /\ MemoryKept /\ [Next]_vars => MemoryKept'
<1> SUFFICES ASSUME ControlTypes, FileTypes, CaseInLoop, MemoryKept, [Next]_vars
             PROVE MemoryKept'
  OBVIOUS
<1> USE DEF FileTypes, CaseInLoop, MemoryKept, Texts, Tables, control, files
<1>1. CASE StartCampaign BY <1>1 DEF StartCampaign
<1>2. CASE BuildBinaries BY <1>2 DEF BuildBinaries, Goto
<1>3. CASE LaunchProvisioner BY <1>3 DEF LaunchProvisioner, Stay
<1>4. CASE ProvisionReturns
  <2>1. text'["memory"] = [from |-> campaign, rows |-> {}] BY <1>4 DEF ProvisionReturns, Texts
  <2>2. QED BY <1>4, <2>1, FirstRow DEF ProvisionReturns, Goto
<1>5. CASE RunMemoryCase
  <2> DEFINE kept == Before(MemoryRows, <<case, run>>) \cup {<<case, run>>}
  <2>1. case \in 1..MemoryCases /\ run \in 1..Runs BY <1>5 DEF RunMemoryCase, ControlTypes
  <2>2. text'["memory"] = [from |-> campaign, rows |-> kept]
    <3>1. AddsText("memory", {<<case, run>>}) BY <1>5 DEF RunMemoryCase, AddsText
    <3>2. text["memory"].from = campaign BY <1>5 DEF RunMemoryCase
    <3>3. QED BY <1>5, <3>1, <3>2, AddedText DEF RunMemoryCase
  <2>3. campaign' = campaign BY <1>5 DEF RunMemoryCase, LoopThen
  <2> HIDE DEF kept
  <2>4. CASE run < Runs
    <3>1. stage' = "Memory" /\ case' = case /\ run' = run + 1 BY <1>5, <2>4 DEF RunMemoryCase, LoopThen
    <3>2. kept = Before(MemoryRows, <<case, run + 1>>) BY <2>1, NextRepetition DEF kept
    <3>3. QED BY <2>2, <2>3, <3>1, <3>2
  <2>5. CASE run = Runs /\ case < MemoryCases
    <3>1. stage' = "Memory" /\ case' = case + 1 /\ run' = 1 BY <1>5, <2>5 DEF RunMemoryCase, LoopThen
    <3>2. kept = Before(MemoryRows, <<case + 1, 1>>) BY <2>1, <2>5, NextCase DEF kept
    <3>3. QED BY <2>2, <2>3, <3>1, <3>2
  <2>6. CASE run = Runs /\ case = MemoryCases
    <3>1. stage' = "ConvertMemory" BY <1>5, <2>6 DEF RunMemoryCase, LoopThen
    <3>2. kept = MemoryRows BY <2>6, LastRow DEF kept
    <3>3. QED BY <2>2, <2>3, <3>1, <3>2
  <2>7. QED BY <2>1, <2>4, <2>5, <2>6
<1>6. CASE ConvertMemory BY <1>6 DEF ConvertMemory, Converts, Goto
<1>7. CASE ConnectMeter BY <1>7 DEF ConnectMeter, Goto
<1>8. CASE BaselineOpens BY <1>8 DEF BaselineOpens, Samples, Stay
<1>9. CASE BaselineCloses BY <1>9 DEF BaselineCloses, AddRow
<1>10. CASE WaitForCooldown BY <1>10 DEF WaitForCooldown, Stay
<1>11. CASE LaunchWorkload BY <1>11 DEF LaunchWorkload, Stay
<1>12. CASE WindowOpens BY <1>12 DEF WindowOpens, Samples, Stay
<1>13. CASE WindowCloses BY <1>13 DEF WindowCloses, Stay
<1>14. CASE WaitReturns BY <1>14 DEF WaitReturns, Stay
<1>15. CASE WriteSamples BY <1>15 DEF WriteSamples, AddRow, LoopThen
<1>16. CASE OpenTiming BY <1>16 DEF OpenTiming, Goto
<1>17. CASE RunTimingCase BY <1>17 DEF RunTimingCase
<1>18. CASE ConvertTiming BY <1>18 DEF ConvertTiming, Converts, Goto
<1>19. CASE GenerateReport BY <1>19 DEF GenerateReport, Reported, Goto
<1>20. CASE ReportRaises BY <1>20 DEF ReportRaises, Stops, Goto
<1>21. CASE RunMemoryCaseFails BY <1>21 DEF RunMemoryCaseFails, Stops, Goto
<1>22. CASE ConvertMemoryFails BY <1>22 DEF ConvertMemoryFails, ConversionFails, Stops, Goto
<1>23. CASE RunTimingCaseFails BY <1>23 DEF RunTimingCaseFails, Stops, Goto
<1>24. CASE ConvertTimingFails BY <1>24 DEF ConvertTimingFails, ConversionFails, Stops, Goto
<1>25. CASE Fails BY <1>25 DEF Fails, Stops, Goto
<1>26. CASE ReportByHand BY <1>26 DEF ReportByHand, Reported
<1>27. ASSUME NEW p \in device, ProvisionerEnds(p) PROVE MemoryKept'
  BY <1>27 DEF ProvisionerEnds
<1>28. ASSUME NEW p \in device, ProgramEnds(p) PROVE MemoryKept'
  BY <1>28 DEF ProgramEnds
<1>29. ASSUME NEW p \in device, ProvisionerStores(p) PROVE MemoryKept'
  BY <1>29 DEF ProvisionerStores
<1>30. CASE UNCHANGED vars BY <1>30 DEF vars
<1>31. QED
  BY <1>1, <1>2, <1>3, <1>4, <1>5, <1>6, <1>7, <1>8, <1>9, <1>10, <1>11, <1>12, <1>13, <1>14,
     <1>15, <1>16, <1>17, <1>18, <1>19, <1>20, <1>21, <1>22, <1>23, <1>24, <1>25, <1>26, <1>27,
     <1>28, <1>29, <1>30
  DEF Next, Orchestrate, Failing, DeviceEnds

\* energy.csv is opened once in a campaign, and only its own steps add to it.
LEMMA EnergyStep == FileTypes /\ EnergyKept /\ [Next]_vars => EnergyKept'
<1> SUFFICES ASSUME FileTypes, EnergyKept, [Next]_vars PROVE EnergyKept'
  OBVIOUS
<1> USE DEF FileTypes, EnergyKept, Texts, Tables, control, files
<1>1. CASE StartCampaign BY <1>1 DEF StartCampaign
<1>2. CASE BuildBinaries BY <1>2 DEF BuildBinaries, Goto
<1>3. CASE LaunchProvisioner BY <1>3 DEF LaunchProvisioner, Stay
<1>4. CASE ProvisionReturns BY <1>4 DEF ProvisionReturns, Goto
<1>5. CASE RunMemoryCase BY <1>5 DEF RunMemoryCase, LoopThen
<1>6. CASE ConvertMemory BY <1>6 DEF ConvertMemory, Converts, Goto
<1>7. CASE ConnectMeter BY <1>7 DEF ConnectMeter, Goto
<1>8. CASE BaselineOpens BY <1>8 DEF BaselineOpens, Samples, Stay
<1>9. CASE BaselineCloses
  <2>1. table'["energy"].from = table["energy"].from BY <1>9, AddedRow DEF BaselineCloses
  <2>2. QED BY <1>9, <2>1 DEF BaselineCloses
<1>10. CASE WaitForCooldown BY <1>10 DEF WaitForCooldown, Stay
<1>11. CASE LaunchWorkload BY <1>11 DEF LaunchWorkload, Stay
<1>12. CASE WindowOpens BY <1>12 DEF WindowOpens, Samples, Stay
<1>13. CASE WindowCloses BY <1>13 DEF WindowCloses, Stay
<1>14. CASE WaitReturns BY <1>14 DEF WaitReturns, Stay
<1>15. CASE WriteSamples
  <2>1. table'["energy"].from = table["energy"].from BY <1>15, AddedRow DEF WriteSamples
  <2>2. QED BY <1>15, <2>1 DEF WriteSamples, LoopThen
<1>16. CASE OpenTiming BY <1>16 DEF OpenTiming, Goto
<1>17. CASE RunTimingCase BY <1>17 DEF RunTimingCase
<1>18. CASE ConvertTiming BY <1>18 DEF ConvertTiming, Converts, Goto
<1>19. CASE GenerateReport BY <1>19 DEF GenerateReport, Reported, Goto
<1>20. CASE ReportRaises BY <1>20 DEF ReportRaises, Stops, Goto
<1>21. CASE RunMemoryCaseFails BY <1>21 DEF RunMemoryCaseFails, Stops, Goto
<1>22. CASE ConvertMemoryFails BY <1>22 DEF ConvertMemoryFails, ConversionFails, Stops, Goto
<1>23. CASE RunTimingCaseFails BY <1>23 DEF RunTimingCaseFails, Stops, Goto
<1>24. CASE ConvertTimingFails BY <1>24 DEF ConvertTimingFails, ConversionFails, Stops, Goto
<1>25. CASE Fails BY <1>25 DEF Fails, Stops, Goto
<1>26. CASE ReportByHand BY <1>26 DEF ReportByHand, Reported
<1>27. ASSUME NEW p \in device, ProvisionerEnds(p) PROVE EnergyKept'
  BY <1>27 DEF ProvisionerEnds
<1>28. ASSUME NEW p \in device, ProgramEnds(p) PROVE EnergyKept'
  BY <1>28 DEF ProgramEnds
<1>29. ASSUME NEW p \in device, ProvisionerStores(p) PROVE EnergyKept'
  BY <1>29 DEF ProvisionerStores
<1>30. CASE UNCHANGED vars BY <1>30 DEF vars
<1>31. QED
  BY <1>1, <1>2, <1>3, <1>4, <1>5, <1>6, <1>7, <1>8, <1>9, <1>10, <1>11, <1>12, <1>13, <1>14,
     <1>15, <1>16, <1>17, <1>18, <1>19, <1>20, <1>21, <1>22, <1>23, <1>24, <1>25, <1>26, <1>27,
     <1>28, <1>29, <1>30
  DEF Next, Orchestrate, Failing, DeviceEnds

\* timing.txt grows case by case, and becomes timing.csv when all are there.
LEMMA TimingStep == FileTypes /\ CaseInLoop /\ TimingKept /\ [Next]_vars => TimingKept'
<1> SUFFICES ASSUME FileTypes, CaseInLoop, TimingKept, [Next]_vars PROVE TimingKept'
  OBVIOUS
<1> USE DEF FileTypes, CaseInLoop, TimingKept, Texts, Tables, control, files
<1>1. CASE StartCampaign BY <1>1 DEF StartCampaign
<1>2. CASE BuildBinaries BY <1>2 DEF BuildBinaries, Goto
<1>3. CASE LaunchProvisioner BY <1>3 DEF LaunchProvisioner, Stay
<1>4. CASE ProvisionReturns BY <1>4 DEF ProvisionReturns, Goto
<1>5. CASE RunMemoryCase BY <1>5 DEF RunMemoryCase, LoopThen
<1>6. CASE ConvertMemory BY <1>6 DEF ConvertMemory, Converts, Goto
<1>7. CASE ConnectMeter BY <1>7 DEF ConnectMeter, Goto
<1>8. CASE BaselineOpens BY <1>8 DEF BaselineOpens, Samples, Stay
<1>9. CASE BaselineCloses BY <1>9 DEF BaselineCloses, AddRow
<1>10. CASE WaitForCooldown BY <1>10 DEF WaitForCooldown, Stay
<1>11. CASE LaunchWorkload BY <1>11 DEF LaunchWorkload, Stay
<1>12. CASE WindowOpens BY <1>12 DEF WindowOpens, Samples, Stay
<1>13. CASE WindowCloses BY <1>13 DEF WindowCloses, Stay
<1>14. CASE WaitReturns BY <1>14 DEF WaitReturns, Stay
<1>15. CASE WriteSamples BY <1>15 DEF WriteSamples, AddRow, LoopThen
<1>16. CASE OpenTiming
  <2>1. text'["timing"] = [from |-> campaign, rows |-> {}] BY <1>16 DEF OpenTiming
  <2>2. (1..0) \X (1..Runs) = {} OBVIOUS
  <2>3. QED BY <1>16, <2>1, <2>2 DEF OpenTiming, Goto
<1>17. CASE RunTimingCase
  <2>1. case \in 1..TimingCases /\ campaign' = campaign BY <1>17 DEF RunTimingCase
  <2>2. text'["timing"] = [from |-> campaign, rows |-> text["timing"].rows \cup ({case} \X (1..Runs))]
    <3>1. AddsText("timing", {case} \X (1..Runs)) BY <1>17 DEF RunTimingCase, AddsText
    <3>2. text["timing"].from = campaign BY <1>17 DEF RunTimingCase
    <3>3. QED BY <3>1, <3>2, AddedText
  <2>3. text'["timing"] = [from |-> campaign, rows |-> (1..case) \X (1..Runs)]
    <3>1. text["timing"].rows = (1..(case - 1)) \X (1..Runs) BY <1>17 DEF RunTimingCase
    <3>2. ((1..(case - 1)) \X (1..Runs)) \cup ({case} \X (1..Runs)) = (1..case) \X (1..Runs)
      BY <2>1, NextTimingCase
    <3>3. QED BY <2>2, <3>1, <3>2
  <2>4. CASE case < TimingCases
    <3>1. stage' = "Timing" /\ case' - 1 = case BY <1>17, <2>1, <2>4 DEF RunTimingCase
    <3>2. QED BY <2>1, <2>3, <3>1
  <2>5. CASE case = TimingCases
    <3>1. stage' = "ConvertTiming" BY <1>17, <2>5 DEF RunTimingCase
    <3>2. QED BY <2>1, <2>3, <2>5, <3>1 DEF TimingRows
  <2>6. QED BY <2>1, <2>4, <2>5
<1>18. CASE ConvertTiming BY <1>18 DEF ConvertTiming, Converts, Goto
<1>19. CASE GenerateReport BY <1>19 DEF GenerateReport, Reported, Goto
<1>20. CASE ReportRaises BY <1>20 DEF ReportRaises, Stops, Goto
<1>21. CASE RunMemoryCaseFails BY <1>21 DEF RunMemoryCaseFails, Stops, Goto
<1>22. CASE ConvertMemoryFails BY <1>22 DEF ConvertMemoryFails, ConversionFails, Stops, Goto
<1>23. CASE RunTimingCaseFails BY <1>23 DEF RunTimingCaseFails, Stops, Goto
<1>24. CASE ConvertTimingFails BY <1>24 DEF ConvertTimingFails, ConversionFails, Stops, Goto
<1>25. CASE Fails BY <1>25 DEF Fails, Stops, Goto
<1>26. CASE ReportByHand BY <1>26 DEF ReportByHand, Reported
<1>27. ASSUME NEW p \in device, ProvisionerEnds(p) PROVE TimingKept'
  BY <1>27 DEF ProvisionerEnds
<1>28. ASSUME NEW p \in device, ProgramEnds(p) PROVE TimingKept'
  BY <1>28 DEF ProgramEnds
<1>29. ASSUME NEW p \in device, ProvisionerStores(p) PROVE TimingKept'
  BY <1>29 DEF ProvisionerStores
<1>30. CASE UNCHANGED vars BY <1>30 DEF vars
<1>31. QED
  BY <1>1, <1>2, <1>3, <1>4, <1>5, <1>6, <1>7, <1>8, <1>9, <1>10, <1>11, <1>12, <1>13, <1>14,
     <1>15, <1>16, <1>17, <1>18, <1>19, <1>20, <1>21, <1>22, <1>23, <1>24, <1>25, <1>26, <1>27,
     <1>28, <1>29, <1>30
  DEF Next, Orchestrate, Failing, DeviceEnds

\* A campaign's report is made at its end, from tables that are its own by then.
LEMMA ReportStep ==
  FileTypes /\ MemoryKept /\ EnergyKept /\ TimingKept /\ CampaignReportIsWhole /\ [Next]_vars
    => CampaignReportIsWhole'
<1> SUFFICES ASSUME FileTypes, MemoryKept, EnergyKept, TimingKept, CampaignReportIsWhole, [Next]_vars
             PROVE CampaignReportIsWhole'
  OBVIOUS
<1> USE DEF CampaignReportIsWhole, files
<1>1. CASE StartCampaign BY <1>1 DEF StartCampaign
<1>2. CASE BuildBinaries BY <1>2 DEF BuildBinaries, Goto
<1>3. CASE LaunchProvisioner BY <1>3 DEF LaunchProvisioner, Stay
<1>4. CASE ProvisionReturns BY <1>4 DEF ProvisionReturns, Goto
<1>5. CASE RunMemoryCase BY <1>5 DEF RunMemoryCase, LoopThen
<1>6. CASE ConvertMemory BY <1>6 DEF ConvertMemory, Converts, Goto
<1>7. CASE ConnectMeter BY <1>7 DEF ConnectMeter, Goto
<1>8. CASE BaselineOpens BY <1>8 DEF BaselineOpens, Samples, Stay
<1>9. CASE BaselineCloses BY <1>9 DEF BaselineCloses, AddRow
<1>10. CASE WaitForCooldown BY <1>10 DEF WaitForCooldown, Stay
<1>11. CASE LaunchWorkload BY <1>11 DEF LaunchWorkload, Stay
<1>12. CASE WindowOpens BY <1>12 DEF WindowOpens, Samples, Stay
<1>13. CASE WindowCloses BY <1>13 DEF WindowCloses, Stay
<1>14. CASE WaitReturns BY <1>14 DEF WaitReturns, Stay
<1>15. CASE WriteSamples BY <1>15 DEF WriteSamples, AddRow, LoopThen
<1>16. CASE OpenTiming BY <1>16 DEF OpenTiming, Goto
<1>17. CASE RunTimingCase BY <1>17 DEF RunTimingCase
<1>18. CASE ConvertTiming BY <1>18 DEF ConvertTiming, Converts, Goto
<1>19. CASE GenerateReport
  <2>1. report'.from = table /\ report'.for = campaign BY <1>19 DEF GenerateReport, Reported
  <2>2. table["timing"] = [from |-> campaign, rows |-> TimingRows] BY <1>19 DEF GenerateReport, TimingKept
  <2>3. WithMemory => table["memory"] = [from |-> campaign, rows |-> MemoryRows]
    BY <1>19 DEF GenerateReport, MemoryKept
  <2>4. table["energy"].from = campaign BY <1>19 DEF GenerateReport, EnergyKept
  <2>5. ASSUME NEW c \in 0..EnergyCases PROVE \E r \in 1..Runs : <<c, r>> \in table["energy"].rows
    <3>1. c \in CasesOf("energy") BY <1>19 DEF GenerateReport, Reportable
    <3>2. PICK row \in table["energy"].rows : row[1] = c BY <3>1 DEF CasesOf
    <3>3. row \in Rows BY <3>2, FileParts DEF FileTypes, Tables
    <3>4. row[2] \in 1..Runs /\ row = <<c, row[2]>>
      BY <3>2, <3>3 DEF Rows, MemoryRows, TimingRows, BaselineRows, WorkloadRows
    <3>5. QED BY <3>2, <3>4
  <2>6. QED BY <2>1, <2>2, <2>3, <2>4, <2>5
<1>20. CASE ReportRaises BY <1>20 DEF ReportRaises, Stops, Goto
<1>21. CASE RunMemoryCaseFails BY <1>21 DEF RunMemoryCaseFails, Stops, Goto
<1>22. CASE ConvertMemoryFails BY <1>22 DEF ConvertMemoryFails, ConversionFails, Stops, Goto
<1>23. CASE RunTimingCaseFails BY <1>23 DEF RunTimingCaseFails, Stops, Goto
<1>24. CASE ConvertTimingFails BY <1>24 DEF ConvertTimingFails, ConversionFails, Stops, Goto
<1>25. CASE Fails BY <1>25 DEF Fails, Stops, Goto
<1>26. CASE ReportByHand
  <2>1. report'.by = "hand" BY <1>26 DEF ReportByHand, Reported
  <2>2. QED BY <2>1
<1>27. ASSUME NEW p \in device, ProvisionerEnds(p) PROVE CampaignReportIsWhole'
  BY <1>27 DEF ProvisionerEnds
<1>28. ASSUME NEW p \in device, ProgramEnds(p) PROVE CampaignReportIsWhole'
  BY <1>28 DEF ProgramEnds
<1>29. ASSUME NEW p \in device, ProvisionerStores(p) PROVE CampaignReportIsWhole'
  BY <1>29 DEF ProvisionerStores
<1>30. CASE UNCHANGED vars BY <1>30 DEF vars
<1>31. QED
  BY <1>1, <1>2, <1>3, <1>4, <1>5, <1>6, <1>7, <1>8, <1>9, <1>10, <1>11, <1>12, <1>13, <1>14,
     <1>15, <1>16, <1>17, <1>18, <1>19, <1>20, <1>21, <1>22, <1>23, <1>24, <1>25, <1>26, <1>27,
     <1>28, <1>29, <1>30
  DEF Next, Orchestrate, Failing, DeviceEnds

\* IInv holds initially and every step keeps it.
LEMMA IInvStep == IInv /\ [Next]_vars => IInv'
BY TypeParts, ControlStep, DeviceStep, FileStep, CaseStep, QuietStep, MemoryStep, EnergyStep,
   TimingStep, ReportStep, TypePartsNext DEF IInv

LEMMA IInvAlways == Spec => []IInv
<1>1. QED BY InitIInv, IInvStep, PTL DEF Spec

\* The variables keep their types: every row of every file is of a case and a
\* repetition of the configuration, and every program on the device is of a campaign.
THEOREM CampaignTypeCorrect == Spec => []TypeOK
<1>1. IInv => TypeOK BY DEF IInv
<1>2. QED BY IInvAlways, <1>1, PTL

\* A campaign reports itself and all of itself (orchestrate_*.py main), for every
\* number of cases, repetitions and campaigns that failed before it.
THEOREM CampaignReportsItself == Spec => []CampaignReportIsWhole
<1>1. IInv => CampaignReportIsWhole BY DEF IInv
<1>2. QED BY IInvAlways, <1>1, PTL

\* The meter sees the idle device or one workload in a campaign that found the device
\* idle (run_energy_case), whichever of its steps fail.
THEOREM WindowsAreQuiet == Spec => []WindowsSeeOneWorkload
<1>1. IInv => WindowsSeeOneWorkload BY DEF IInv, Quiet, Alone, WindowsSeeOneWorkload
<1>2. QED BY IInvAlways, <1>1, PTL

\* Such a campaign's memory processes load fixtures of one provisioner
\* (orchestrate_provision).
THEOREM FixturesBelongTogether == Spec => []FixturesAreOfOneProvision
<1>1. IInv => FixturesAreOfOneProvision BY DEF IInv, Quiet, Alone, FixturesAreOfOneProvision
<1>2. QED BY IInvAlways, <1>1, PTL

\* A text disappears only in a step that leaves all of it in its table.
Deletes == \E t \in Texts : text[t] # Missing /\ text'[t] = Missing /\ table'[t] # text[t]

LEMMA DeleteStep ==
  FileTypes /\ CaseInLoop /\ MemoryKept /\ TimingKept /\ [Next]_vars => ~Deletes
<1> SUFFICES ASSUME FileTypes, CaseInLoop, MemoryKept, TimingKept, [Next]_vars PROVE ~Deletes
  OBVIOUS
<1> USE DEF Deletes, FileTypes, CaseInLoop, Texts, Tables, control, files
<1>1. CASE StartCampaign BY <1>1 DEF StartCampaign
<1>2. CASE BuildBinaries BY <1>2 DEF BuildBinaries, Goto
<1>3. CASE LaunchProvisioner BY <1>3 DEF LaunchProvisioner, Stay
<1>4. CASE ProvisionReturns
  <2>1. text'["memory"] # Missing BY <1>4 DEF ProvisionReturns, Missing, Campaigns
  <2>2. QED BY <1>4, <2>1 DEF ProvisionReturns
<1>5. CASE RunMemoryCase
  <2>1. AddsText("memory", {<<case, run>>}) BY <1>5 DEF RunMemoryCase, AddsText
  <2>2. text["memory"].from = campaign BY <1>5 DEF RunMemoryCase, MemoryKept
  <2>3. text'["memory"] # Missing BY <1>5, <2>1, <2>2, AddedText DEF RunMemoryCase, Missing, Campaigns
  <2>4. QED BY <1>5, <2>3 DEF RunMemoryCase
<1>6. CASE ConvertMemory BY <1>6 DEF ConvertMemory, Converts, Goto
<1>7. CASE ConnectMeter BY <1>7 DEF ConnectMeter, Goto
<1>8. CASE BaselineOpens BY <1>8 DEF BaselineOpens, Samples, Stay
<1>9. CASE BaselineCloses BY <1>9 DEF BaselineCloses, AddRow
<1>10. CASE WaitForCooldown BY <1>10 DEF WaitForCooldown, Stay
<1>11. CASE LaunchWorkload BY <1>11 DEF LaunchWorkload, Stay
<1>12. CASE WindowOpens BY <1>12 DEF WindowOpens, Samples, Stay
<1>13. CASE WindowCloses BY <1>13 DEF WindowCloses, Stay
<1>14. CASE WaitReturns BY <1>14 DEF WaitReturns, Stay
<1>15. CASE WriteSamples BY <1>15 DEF WriteSamples, AddRow, LoopThen
<1>16. CASE OpenTiming
  <2>1. text'["timing"] # Missing BY <1>16 DEF OpenTiming, Missing, Campaigns
  <2>2. QED BY <1>16, <2>1 DEF OpenTiming
<1>17. CASE RunTimingCase
  <2>1. AddsText("timing", {case} \X (1..Runs)) BY <1>17 DEF RunTimingCase, AddsText
  <2>2. text["timing"].from = campaign BY <1>17 DEF RunTimingCase, TimingKept
  <2>3. text'["timing"] # Missing BY <1>17, <2>1, <2>2, AddedText DEF RunTimingCase, Missing, Campaigns
  <2>4. QED BY <1>17, <2>3 DEF RunTimingCase
<1>18. CASE ConvertTiming BY <1>18 DEF ConvertTiming, Converts, Goto
<1>19. CASE GenerateReport BY <1>19 DEF GenerateReport, Reported, Goto
<1>20. CASE ReportRaises BY <1>20 DEF ReportRaises, Stops, Goto
<1>21. CASE RunMemoryCaseFails BY <1>21 DEF RunMemoryCaseFails, Stops, Goto
<1>22. CASE ConvertMemoryFails BY <1>22 DEF ConvertMemoryFails, ConversionFails, Stops, Goto
<1>23. CASE RunTimingCaseFails
  <2>1. PICK r \in 0..Runs : AddsText("timing", {case} \X (1..r))
    BY <1>23 DEF RunTimingCaseFails, AddsText
  <2>2. text["timing"].from = campaign BY <1>23 DEF RunTimingCaseFails, TimingKept
  <2>3. text'["timing"] # Missing BY <1>23, <2>1, <2>2, AddedText DEF RunTimingCaseFails, Missing, Campaigns
  <2>4. QED BY <1>23, <2>1, <2>3 DEF AddsText
<1>24. CASE ConvertTimingFails BY <1>24 DEF ConvertTimingFails, ConversionFails, Stops, Goto
<1>25. CASE Fails BY <1>25 DEF Fails, Stops, Goto
<1>26. CASE ReportByHand BY <1>26 DEF ReportByHand, Reported
<1>27. ASSUME NEW p \in device, ProvisionerEnds(p) PROVE ~Deletes
  BY <1>27 DEF ProvisionerEnds
<1>28. ASSUME NEW p \in device, ProgramEnds(p) PROVE ~Deletes
  BY <1>28 DEF ProgramEnds
<1>29. ASSUME NEW p \in device, ProvisionerStores(p) PROVE ~Deletes
  BY <1>29 DEF ProvisionerStores
<1>30. CASE UNCHANGED vars BY <1>30 DEF vars
<1>31. QED
  BY <1>1, <1>2, <1>3, <1>4, <1>5, <1>6, <1>7, <1>8, <1>9, <1>10, <1>11, <1>12, <1>13, <1>14,
     <1>15, <1>16, <1>17, <1>18, <1>19, <1>20, <1>21, <1>22, <1>23, <1>24, <1>25, <1>26, <1>27,
     <1>28, <1>29, <1>30
  DEF Next, Orchestrate, Failing, DeviceEnds

\* The benchmark's output is deleted only in the step that leaves every row of it in
\* the table (convert_timing_results, convert_memory_results), wherever a campaign
\* is interrupted.
THEOREM NothingUnconvertedIsDeleted == Spec => TextDeletedOnlyWhenConverted
<1>1. IInv /\ [Next]_vars =>
        [\A t \in Texts : text[t] # Missing /\ text'[t] = Missing => table'[t] = text[t]]_vars
  BY DeleteStep, TypeParts DEF IInv, Deletes
<1>2. QED BY IInvAlways, <1>1, PTL DEF Spec, TextDeletedOnlyWhenConverted
====
