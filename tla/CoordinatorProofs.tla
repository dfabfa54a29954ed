---- MODULE CoordinatorProofs ----
(***************************************************************************)
(* Proofs about Coordinator, for every number of scenarios and campaigns   *)
(* and whichever campaigns fail: what a session starts with                *)
(* (SessionIsPrepared) and what a report of the coordinator is made of     *)
(* (CampaignReportIsWhole).  The inductive invariant is TypeOK with IInv   *)
(* of Coordinator: what the campaign has put in place by the time it is    *)
(* where it is.                                                            *)
(***************************************************************************)
EXTENDS Coordinator, TLAPS

\* The fixed lists of runProvision, distributeFixtures and the coordinator's loops
\* over the endpoints.
LEMMA Lists ==
  /\ Len(StoreOrder) = 6
  /\ \A i \in 1..6 : StoreOrder[i] \in Keys
  /\ \A i, j \in 1..6 : StoreOrder[i] = StoreOrder[j] => i = j
  /\ Len(CopyOrder) = 8
  /\ \A i \in 1..8 : CopyOrder[i][1] \in Endpoints /\ CopyOrder[i][2] \in Keys
  /\ \A i \in 1..8 : \E j \in 1..6 : CopyOrder[i][2] = StoreOrder[j]
  /\ Len(EndpointOrder) = 2
  /\ EndpointOrder[1] = "publisher" /\ EndpointOrder[2] = "subscriber"
<1>1. /\ Len(StoreOrder) = 6
      /\ \A i \in 1..6 : StoreOrder[i] \in Keys
  BY DEF StoreOrder, Keys
<1>2. \A i, j \in 1..6 : StoreOrder[i] = StoreOrder[j] => i = j
  BY DEF StoreOrder
<1>3. /\ Len(CopyOrder) = 8
      /\ \A i \in 1..8 : CopyOrder[i][1] \in Endpoints /\ CopyOrder[i][2] \in Keys
  BY DEF CopyOrder, Endpoints, Keys
<1>4. \A i \in 1..8 : \E j \in 1..6 : CopyOrder[i][2] = StoreOrder[j]
  BY DEF CopyOrder, StoreOrder
<1>5. /\ Len(EndpointOrder) = 2
      /\ EndpointOrder[1] = "publisher" /\ EndpointOrder[2] = "subscriber"
  BY DEF EndpointOrder
<1> QED BY <1>1, <1>2, <1>3, <1>4, <1>5

\* The places of the loops are places of their lists.
LEMMA LoopStep ==
  TypeOK /\ LoopInv /\ [Next]_vars => LoopInv'
<1> SUFFICES ASSUME TypeOK, LoopInv, [Next]_vars PROVE LoopInv'
  OBVIOUS
<1> USE CoordinatorAssumption, Lists DEF LoopInv
<1>1. CASE StartCampaign
  BY <1>1 DEF StartCampaign, Goto
<1>2. CASE StoreKey
  BY <1>2 DEF StoreKey, LoopThen, Goto
<1>3. CASE CopyFixture
  BY <1>3 DEF CopyFixture, LoopThen, Goto
<1>4. CASE FetchCA
  BY <1>4 DEF FetchCA, Goto
<1>5. CASE CopyCA
  BY <1>5 DEF CopyCA, LoopThen, Goto
<1>6. CASE BuildBinary
  BY <1>6 DEF BuildBinary, LoopThen, Goto
<1>7. CASE SessionSucceeds
  BY <1>7 DEF SessionSucceeds, Goto
<1>8. CASE TransferResult
  BY <1>8 DEF TransferResult
<1>9. CASE RemoveResult
  BY <1>9 DEF RemoveResult, Goto, AfterRemoval
<1>10. CASE GenerateReport
  BY <1>10 DEF GenerateReport, Goto
<1>11. CASE StoreKeyFails
  BY <1>11 DEF StoreKeyFails, Stops, Goto
<1>12. CASE CopyFixtureFails
  BY <1>12 DEF CopyFixtureFails, Stops, Goto
<1>13. CASE FetchCAFails
  BY <1>13 DEF FetchCAFails, Stops, Goto
<1>14. CASE CopyCAFails
  BY <1>14 DEF CopyCAFails, Stops, Goto
<1>15. CASE BuildBinaryFails
  BY <1>15 DEF BuildBinaryFails, Stops, Goto
<1>16. CASE SessionFails
  BY <1>16 DEF SessionFails, Stops, Goto
<1>17. CASE TransferFails
  BY <1>17 DEF TransferFails, Stops, Goto
<1>18. CASE RemoveFails
  BY <1>18 DEF RemoveFails, Stops, Goto
<1>19. CASE ReportFails
  BY <1>19 DEF ReportFails, Stops, Goto
<1>20. CASE RenewBroker
  BY <1>20 DEF RenewBroker, control
<1>21. ASSUME NEW o \in orphans, OrphanExits(o) PROVE LoopInv'
  BY <1>21 DEF OrphanExits, control
<1>22. CASE ReportByHand
  BY <1>22 DEF ReportByHand, control
<1>23. CASE UNCHANGED vars
  BY <1>23 DEF vars, control
<1> QED BY <1>1, <1>2, <1>3, <1>4, <1>5, <1>6, <1>7, <1>8, <1>9, <1>10, <1>11, <1>12, <1>13, <1>14, <1>15, <1>16, <1>17, <1>18, <1>19, <1>20, <1>21, <1>22, <1>23 DEF Next, CoordinatorStep, Failure, Environment

AnyFile == File \cup {Missing}

LEMMA WholeIsAFile ==
  ASSUME NEW c \in Campaigns, NEW s \in 0..NumScenarios
  PROVE  /\ Whole(c, s) \in AnyFile
         /\ Whole(c, s).rows = "all" /\ Whole(c, s).from = <<c, s>>
  BY DEF Whole, AnyFile, File

\* A write that is cut short leaves a file or none.
LEMMA CutShortIsAFile ==
  ASSUME NEW old \in AnyFile, NEW new \in AnyFile, NEW left \in CutShort(old, new)
  PROVE  left \in AnyFile
<1>1. CASE new = Missing
  BY <1>1 DEF CutShort, AnyFile
<1>2. CASE new # Missing
  <2>1. new \in File
    BY <1>2 DEF AnyFile
  <2>2. ASSUME NEW r \in {new.rows, "some", "none"} PROVE [new EXCEPT !.rows = r] \in File
    BY <2>1 DEF File
  <2> QED BY <1>2, <2>2 DEF CutShort, AnyFile
<1> QED BY <1>1, <1>2

\* Every variable keeps its type.
LEMMA TypeStep ==
  TypeOK /\ LoopInv /\ [Next]_vars => TypeOK'
<1> SUFFICES ASSUME TypeOK, LoopInv, [Next]_vars PROVE TypeOK'
  OBVIOUS
<1>1. TypeOK /\ LoopInv
  OBVIOUS
<1> USE CoordinatorAssumption, Lists
<1> DEFINE ControlOK == /\ stage \in Stages
                        /\ next \in 1..8
                        /\ scenario \in ScenarioIDs
                        /\ campaign \in {0} \cup Campaigns
                        /\ stage # "Idle" => campaign # 0
           MaterialOK == /\ brokerCA \in Campaigns
                         /\ localCA \in AnyFile
                         /\ cache \in [Keys -> AnyFile]
                         /\ fixtures \in [Endpoints -> [Keys \cup {"CA"} -> AnyFile]]
                         /\ binaries \in [Endpoints -> [ScenarioIDs -> AnyFile]]
           MeasuredOK == /\ remote \in [Endpoints -> AnyFile]
                         /\ results \in [ScenarioIDs -> [Endpoints -> AnyFile]]
                         /\ orphans \subseteq Endpoints \X (Campaigns \X ScenarioIDs)
                         /\ report.by \in {"nobody", "hand", "coordinator"}
                         /\ report.for \in {0} \cup Campaigns
<1>2. TypeOK <=> ControlOK /\ MaterialOK /\ MeasuredOK
  BY DEF TypeOK, AnyFile
<1>3. TypeOK' <=> ControlOK' /\ MaterialOK' /\ MeasuredOK'
  BY DEF TypeOK, AnyFile
<1>4. ControlOK /\ MaterialOK /\ MeasuredOK /\ LoopInv
  BY <1>1, <1>2
<1>5. stage # "Idle" => campaign \in Campaigns
  BY <1>4
<1>6. 0 \in 0..NumScenarios /\ ScenarioIDs \subseteq 0..NumScenarios
  BY DEF ScenarioIDs
<1>7. \A i \in 1..2 : EndpointOrder[i] \in Endpoints
  BY DEF Endpoints
<1>8. CASE StartCampaign
  <2>1. ControlOK'
    BY <1>4, <1>8 DEF StartCampaign, Goto, Stages, LoopInv, ScenarioIDs, Campaigns
  <2>2. MaterialOK'
    BY <1>4, <1>5, <1>6, <1>7, <1>8, WholeIsAFile, CutShortIsAFile DEF StartCampaign, material, LoopInv, Campaigns
  <2>3. MeasuredOK'
    BY <1>4, <1>5, <1>6, <1>7, <1>8, WholeIsAFile, CutShortIsAFile DEF StartCampaign, measured, LoopInv, Campaigns
  <2> QED BY <1>3, <2>1, <2>2, <2>3
<1>9. CASE StoreKey
  <2>1. ControlOK'
    BY <1>4, <1>9 DEF StoreKey, LoopThen, Goto, Stages, LoopInv, ScenarioIDs, Campaigns
  <2>2. MaterialOK'
    BY <1>4, <1>5, <1>6, <1>7, <1>9, WholeIsAFile, CutShortIsAFile DEF StoreKey, StoredKey, material, LoopInv, Campaigns
  <2>3. MeasuredOK'
    BY <1>4, <1>5, <1>6, <1>7, <1>9, WholeIsAFile, CutShortIsAFile DEF StoreKey, StoredKey, measured, LoopInv, Campaigns
  <2> QED BY <1>3, <2>1, <2>2, <2>3
<1>10. CASE CopyFixture
  <2>1. ControlOK'
    BY <1>4, <1>10 DEF CopyFixture, LoopThen, Goto, Stages, LoopInv, ScenarioIDs, Campaigns
  <2>2. MaterialOK'
    BY <1>4, <1>5, <1>6, <1>7, <1>10, WholeIsAFile, CutShortIsAFile DEF CopyFixture, CopyTarget, CopiedKey, material, LoopInv, Campaigns
  <2>3. MeasuredOK'
    BY <1>4, <1>5, <1>6, <1>7, <1>10, WholeIsAFile, CutShortIsAFile DEF CopyFixture, CopyTarget, CopiedKey, measured, LoopInv, Campaigns
  <2> QED BY <1>3, <2>1, <2>2, <2>3
<1>11. CASE FetchCA
  <2>1. ControlOK'
    BY <1>4, <1>11 DEF FetchCA, Goto, Stages, LoopInv, ScenarioIDs, Campaigns
  <2>2. MaterialOK'
    BY <1>4, <1>5, <1>6, <1>7, <1>11, WholeIsAFile, CutShortIsAFile DEF FetchCA, material, LoopInv, Campaigns
  <2>3. MeasuredOK'
    BY <1>4, <1>5, <1>6, <1>7, <1>11, WholeIsAFile, CutShortIsAFile DEF FetchCA, measured, LoopInv, Campaigns
  <2> QED BY <1>3, <2>1, <2>2, <2>3
<1>12. CASE CopyCA
  <2>1. ControlOK'
    BY <1>4, <1>12 DEF CopyCA, LoopThen, Goto, Stages, LoopInv, ScenarioIDs, Campaigns
  <2>2. MaterialOK'
    BY <1>4, <1>5, <1>6, <1>7, <1>12, WholeIsAFile, CutShortIsAFile DEF CopyCA, material, LoopInv, Campaigns
  <2>3. MeasuredOK'
    BY <1>4, <1>5, <1>6, <1>7, <1>12, WholeIsAFile, CutShortIsAFile DEF CopyCA, measured, LoopInv, Campaigns
  <2> QED BY <1>3, <2>1, <2>2, <2>3
<1>13. CASE BuildBinary
  <2>1. ControlOK'
    BY <1>4, <1>13 DEF BuildBinary, LoopThen, Goto, Stages, LoopInv, ScenarioIDs, Campaigns
  <2>2. MaterialOK'
    BY <1>4, <1>5, <1>6, <1>7, <1>13, WholeIsAFile, CutShortIsAFile DEF BuildBinary, material, LoopInv, Campaigns
  <2>3. MeasuredOK'
    BY <1>4, <1>5, <1>6, <1>7, <1>13, WholeIsAFile, CutShortIsAFile DEF BuildBinary, measured, LoopInv, Campaigns
  <2> QED BY <1>3, <2>1, <2>2, <2>3
<1>14. CASE SessionSucceeds
  <2>1. ControlOK'
    BY <1>4, <1>14 DEF SessionSucceeds, Goto, Stages, LoopInv, ScenarioIDs, Campaigns
  <2>2. MaterialOK'
    BY <1>4, <1>5, <1>6, <1>7, <1>14, WholeIsAFile, CutShortIsAFile DEF SessionSucceeds, material, LoopInv, Campaigns
  <2>3. MeasuredOK'
    BY <1>4, <1>5, <1>6, <1>7, <1>14, WholeIsAFile, CutShortIsAFile DEF SessionSucceeds, measured, LoopInv, Campaigns
  <2> QED BY <1>3, <2>1, <2>2, <2>3
<1>15. CASE TransferResult
  <2>1. ControlOK'
    BY <1>4, <1>15 DEF TransferResult, Stages, LoopInv, ScenarioIDs, Campaigns
  <2>2. MaterialOK'
    BY <1>4, <1>5, <1>6, <1>7, <1>15, WholeIsAFile, CutShortIsAFile DEF TransferResult, Transferred, material, LoopInv, Campaigns
  <2>3. MeasuredOK'
    BY <1>4, <1>5, <1>6, <1>7, <1>15, WholeIsAFile, CutShortIsAFile DEF TransferResult, Transferred, measured, LoopInv, Campaigns
  <2> QED BY <1>3, <2>1, <2>2, <2>3
<1>16. CASE RemoveResult
  <2>1. ControlOK'
    BY <1>4, <1>16 DEF RemoveResult, Goto, AfterRemoval, Stages, LoopInv, ScenarioIDs, Campaigns
  <2>2. MaterialOK'
    BY <1>4, <1>5, <1>6, <1>7, <1>16, WholeIsAFile, CutShortIsAFile DEF RemoveResult, Transferred, material, LoopInv, Campaigns
  <2>3. MeasuredOK'
    BY <1>4, <1>16 DEF RemoveResult, measured, AnyFile
  <2> QED BY <1>3, <2>1, <2>2, <2>3
<1>17. CASE GenerateReport
  <2>1. ControlOK'
    BY <1>4, <1>17 DEF GenerateReport, Goto, Stages, LoopInv, ScenarioIDs, Campaigns
  <2>2. MaterialOK'
    BY <1>4, <1>5, <1>6, <1>7, <1>17, WholeIsAFile, CutShortIsAFile DEF GenerateReport, material, LoopInv, Campaigns
  <2>3. MeasuredOK'
    BY <1>4, <1>5, <1>6, <1>7, <1>17, WholeIsAFile, CutShortIsAFile DEF GenerateReport, measured, LoopInv, Campaigns
  <2> QED BY <1>3, <2>1, <2>2, <2>3
<1>18. CASE StoreKeyFails
  <2>1. ControlOK'
    BY <1>4, <1>18 DEF StoreKeyFails, Stops, Goto, Stages, LoopInv, ScenarioIDs, Campaigns
  <2>2. MaterialOK'
    <3>1. stage = "Store" /\ next \in 1..6 /\ StoredKey \in Keys
      BY <1>4, <1>18 DEF StoreKeyFails, LoopInv, StoredKey
    <3>2. cache[StoredKey] \in AnyFile /\ Whole(campaign, 0) \in AnyFile
      BY <1>4, <1>5, <1>6, <3>1, WholeIsAFile
    <3>3. PICK left \in CutShort(cache[StoredKey], Whole(campaign, 0)) :
            cache' = [cache EXCEPT ![StoredKey] = left]
      BY <1>18 DEF StoreKeyFails
    <3>4. left \in AnyFile
      BY <3>2, CutShortIsAFile
    <3> QED BY <1>4, <1>18, <3>3, <3>4 DEF StoreKeyFails
  <2>3. MeasuredOK'
    BY <1>4, <1>5, <1>6, <1>7, <1>18, WholeIsAFile, CutShortIsAFile DEF StoreKeyFails, StoredKey, measured, LoopInv, Campaigns
  <2> QED BY <1>3, <2>1, <2>2, <2>3
<1>19. CASE CopyFixtureFails
  <2>1. ControlOK'
    BY <1>4, <1>19 DEF CopyFixtureFails, Stops, Goto, Stages, LoopInv, ScenarioIDs, Campaigns
  <2>2. MaterialOK'
    <3>1. CopyTarget \in Endpoints /\ CopiedKey \in Keys
      BY <1>4, <1>19 DEF CopyFixtureFails, LoopInv, CopyTarget, CopiedKey
    <3>2. fixtures[CopyTarget][CopiedKey] \in AnyFile /\ cache[CopiedKey] \in AnyFile
      BY <1>4, <3>1
    <3>3. PICK left \in CutShort(fixtures[CopyTarget][CopiedKey], cache[CopiedKey]) :
            fixtures' = [fixtures EXCEPT ![CopyTarget][CopiedKey] = left]
      BY <1>19 DEF CopyFixtureFails
    <3>4. left \in AnyFile
      BY <3>2, CutShortIsAFile
    <3> QED BY <1>4, <1>19, <3>3, <3>4 DEF CopyFixtureFails
  <2>3. MeasuredOK'
    BY <1>4, <1>5, <1>6, <1>7, <1>19, WholeIsAFile, CutShortIsAFile DEF CopyFixtureFails, CopyTarget, CopiedKey, measured, LoopInv, Campaigns
  <2> QED BY <1>3, <2>1, <2>2, <2>3
<1>20. CASE FetchCAFails
  <2>1. ControlOK'
    BY <1>4, <1>20 DEF FetchCAFails, Stops, Goto, Stages, LoopInv, ScenarioIDs, Campaigns
  <2>2. MaterialOK'
    BY <1>4, <1>5, <1>6, <1>7, <1>20, WholeIsAFile, CutShortIsAFile DEF FetchCAFails, material, LoopInv, Campaigns
  <2>3. MeasuredOK'
    BY <1>4, <1>5, <1>6, <1>7, <1>20, WholeIsAFile, CutShortIsAFile DEF FetchCAFails, measured, LoopInv, Campaigns
  <2> QED BY <1>3, <2>1, <2>2, <2>3
<1>21. CASE CopyCAFails
  <2>1. ControlOK'
    BY <1>4, <1>21 DEF CopyCAFails, Stops, Goto, Stages, LoopInv, ScenarioIDs, Campaigns
  <2>2. MaterialOK'
    <3>1. EndpointOrder[next] \in Endpoints
      BY <1>4, <1>7, <1>21 DEF CopyCAFails, LoopInv
    <3>2. fixtures[EndpointOrder[next]]["CA"] \in AnyFile /\ localCA \in AnyFile
      BY <1>4, <3>1
    <3>3. PICK left \in CutShort(fixtures[EndpointOrder[next]]["CA"], localCA) :
            fixtures' = [fixtures EXCEPT ![EndpointOrder[next]]["CA"] = left]
      BY <1>21 DEF CopyCAFails
    <3>4. left \in AnyFile
      BY <3>2, CutShortIsAFile
    <3> QED BY <1>4, <1>21, <3>3, <3>4 DEF CopyCAFails
  <2>3. MeasuredOK'
    BY <1>4, <1>5, <1>6, <1>7, <1>21, WholeIsAFile, CutShortIsAFile DEF CopyCAFails, measured, LoopInv, Campaigns
  <2> QED BY <1>3, <2>1, <2>2, <2>3
<1>22. CASE BuildBinaryFails
  <2>1. ControlOK'
    BY <1>4, <1>22 DEF BuildBinaryFails, Stops, Goto, Stages, LoopInv, ScenarioIDs, Campaigns
  <2>2. MaterialOK'
    BY <1>4, <1>5, <1>6, <1>7, <1>22, WholeIsAFile, CutShortIsAFile DEF BuildBinaryFails, material, LoopInv, Campaigns
  <2>3. MeasuredOK'
    BY <1>4, <1>5, <1>6, <1>7, <1>22, WholeIsAFile, CutShortIsAFile DEF BuildBinaryFails, measured, LoopInv, Campaigns
  <2> QED BY <1>3, <2>1, <2>2, <2>3
<1>23. CASE SessionFails
  <2>1. ControlOK'
    BY <1>4, <1>23 DEF SessionFails, Stops, Goto, Stages, LoopInv, ScenarioIDs, Campaigns
  <2>2. MaterialOK'
    BY <1>4, <1>5, <1>6, <1>7, <1>23, WholeIsAFile, CutShortIsAFile DEF SessionFails, material, LoopInv, Campaigns
  <2>3. MeasuredOK'
    <3>1. stage = "Session" /\ campaign \in Campaigns /\ scenario \in ScenarioIDs
      BY <1>4, <1>5, <1>23 DEF SessionFails
    <3>2. /\ remote["publisher"] \in AnyFile /\ remote["subscriber"] \in AnyFile
          /\ Whole(campaign, scenario) \in AnyFile
      BY <1>4, <1>6, <3>1, WholeIsAFile DEF Endpoints
    <3>3. PICK written \in CutShort(remote["publisher"], Whole(campaign, scenario)),
               received \in CutShort(remote["subscriber"], Whole(campaign, scenario)) :
            remote' = [remote EXCEPT !["publisher"] = written,
                                     !["subscriber"] = received]
      BY <1>23 DEF SessionFails
    <3>4. written \in AnyFile /\ received \in AnyFile
      BY <3>2, CutShortIsAFile
    <3>5. remote' \in [Endpoints -> AnyFile]
      BY <1>4, <3>3, <3>4
    <3>6. orphans' \subseteq Endpoints \X (Campaigns \X ScenarioIDs)
      BY <3>1, <1>23 DEF SessionFails
    <3> QED BY <1>4, <1>23, <3>5, <3>6 DEF SessionFails
  <2> QED BY <1>3, <2>1, <2>2, <2>3
<1>24. CASE TransferFails
  <2>1. ControlOK'
    BY <1>4, <1>24 DEF TransferFails, Stops, Goto, Stages, LoopInv, ScenarioIDs, Campaigns
  <2>2. MaterialOK'
    BY <1>4, <1>5, <1>6, <1>7, <1>24, WholeIsAFile, CutShortIsAFile DEF TransferFails, Transferred, material, LoopInv, Campaigns
  <2>3. MeasuredOK'
    <3>1. scenario \in ScenarioIDs /\ Transferred \in Endpoints
      BY <1>4, <1>7, <1>24 DEF TransferFails, LoopInv, Transferred
    <3>2. results[scenario][Transferred] \in AnyFile /\ remote[Transferred] \in AnyFile
      BY <1>4, <3>1
    <3>3. PICK left \in CutShort(results[scenario][Transferred], remote[Transferred]) :
            results' = [results EXCEPT ![scenario][Transferred] = left]
      BY <1>24 DEF TransferFails
    <3>4. left \in AnyFile
      BY <3>2, CutShortIsAFile
    <3> QED BY <1>4, <1>24, <3>3, <3>4 DEF TransferFails
  <2> QED BY <1>3, <2>1, <2>2, <2>3
<1>25. CASE RemoveFails
  <2>1. ControlOK'
    BY <1>4, <1>25 DEF RemoveFails, Stops, Goto, Stages, LoopInv, ScenarioIDs, Campaigns
  <2>2. MaterialOK'
    BY <1>4, <1>5, <1>6, <1>7, <1>25, WholeIsAFile, CutShortIsAFile DEF RemoveFails, Transferred, material, LoopInv, Campaigns
  <2>3. MeasuredOK'
    BY <1>4, <1>25 DEF RemoveFails, measured, AnyFile
  <2> QED BY <1>3, <2>1, <2>2, <2>3
<1>26. CASE ReportFails
  <2>1. ControlOK'
    BY <1>4, <1>26 DEF ReportFails, Stops, Goto, Stages, LoopInv, ScenarioIDs, Campaigns
  <2>2. MaterialOK'
    BY <1>4, <1>5, <1>6, <1>7, <1>26, WholeIsAFile, CutShortIsAFile DEF ReportFails, material, LoopInv, Campaigns
  <2>3. MeasuredOK'
    BY <1>4, <1>5, <1>6, <1>7, <1>26, WholeIsAFile, CutShortIsAFile DEF ReportFails, measured, LoopInv, Campaigns
  <2> QED BY <1>3, <2>1, <2>2, <2>3
<1>27. CASE RenewBroker
  <2>1. ControlOK'
    BY <1>4, <1>27 DEF RenewBroker, control, Stages, LoopInv, ScenarioIDs, Campaigns
  <2>2. MaterialOK'
    <3>1. campaign + 1 \in Campaigns
      BY <1>4, <1>27 DEF RenewBroker, Campaigns
    <3> QED BY <1>4, <1>27, <3>1 DEF RenewBroker
  <2>3. MeasuredOK'
    BY <1>4, <1>5, <1>6, <1>7, <1>27, WholeIsAFile, CutShortIsAFile DEF RenewBroker, measured, LoopInv, Campaigns
  <2> QED BY <1>3, <2>1, <2>2, <2>3
<1>28. ASSUME NEW o \in orphans, OrphanExits(o) PROVE TypeOK'
  <2>1. ControlOK'
    BY <1>4, <1>28 DEF OrphanExits, control, Stages, LoopInv, ScenarioIDs, Campaigns
  <2>2. MaterialOK'
    BY <1>4, <1>5, <1>6, <1>7, <1>28, WholeIsAFile, CutShortIsAFile DEF OrphanExits, material, LoopInv, Campaigns
  <2>3. MeasuredOK'
    <3>1. /\ o[1] \in Endpoints
          /\ o[2][1] \in Campaigns /\ o[2][2] \in ScenarioIDs
      BY <1>4
    <3>2. remote[o[1]] \in AnyFile /\ Whole(o[2][1], o[2][2]) \in AnyFile
      BY <1>4, <1>6, <3>1, WholeIsAFile
    <3>3. PICK left \in CutShort(remote[o[1]], Whole(o[2][1], o[2][2])) :
            remote' = [remote EXCEPT ![o[1]] = left]
      BY <1>28 DEF OrphanExits
    <3>4. left \in AnyFile
      BY <3>2, CutShortIsAFile
    <3> QED BY <1>4, <1>28, <3>3, <3>4 DEF OrphanExits
  <2> QED BY <1>3, <2>1, <2>2, <2>3
<1>29. CASE ReportByHand
  <2>1. ControlOK'
    BY <1>4, <1>29 DEF ReportByHand, control, Stages, LoopInv, ScenarioIDs, Campaigns
  <2>2. MaterialOK'
    BY <1>4, <1>5, <1>6, <1>7, <1>29, WholeIsAFile, CutShortIsAFile DEF ReportByHand, material, LoopInv, Campaigns
  <2>3. MeasuredOK'
    BY <1>4, <1>5, <1>6, <1>7, <1>29, WholeIsAFile, CutShortIsAFile DEF ReportByHand, measured, LoopInv, Campaigns
  <2> QED BY <1>3, <2>1, <2>2, <2>3
<1>30. CASE UNCHANGED vars
  BY <1>1, <1>30 DEF vars, control, material, measured, TypeOK
<1> QED BY <1>8, <1>9, <1>10, <1>11, <1>12, <1>13, <1>14, <1>15, <1>16, <1>17, <1>18, <1>19, <1>20, <1>21, <1>22, <1>23, <1>24, <1>25, <1>26, <1>27, <1>28, <1>29, <1>30 DEF Next, CoordinatorStep, Failure, Environment

\* The keys stored and copied so far are this campaign's.
LEMMA KeysStep ==
  TypeOK /\ IInv /\ [Next]_vars => KeysInv'
<1> SUFFICES ASSUME TypeOK, IInv, [Next]_vars PROVE KeysInv'
  OBVIOUS
<1>1. TypeOK /\ LoopInv /\ KeysInv
  BY DEF IInv
<1> USE Lists
<1>3. CASE StartCampaign
  BY <1>1, <1>3 DEF StartCampaign, Goto, material, measured, KeysInv, LoopInv, Stored, Copied, Distributed
<1>4. CASE StoreKey
  <2>1. /\ stage = "Store" /\ next \in 1..6 /\ DOMAIN cache = Keys
        /\ cache' = [cache EXCEPT ![StoreOrder[next]] = Whole(campaign, 0)]
        /\ campaign' = campaign /\ fixtures' = fixtures
        /\ \/ stage' = "Store" /\ next' = next + 1
           \/ next = 6 /\ stage' = "Copy" /\ next' = 1
    BY <1>1, <1>4 DEF TypeOK, LoopInv, StoreKey, StoredKey, LoopThen, Goto
  <2>2. ASSUME NEW i \in 1..6, stage' \in Stored' \/ (stage' = "Store" /\ i < next')
        PROVE  cache'[StoreOrder[i]] = Whole(campaign, 0)
    <3>1. CASE i = next
      BY <2>1, <3>1
    <3>2. CASE i # next
      <4>1. i < next
        BY <2>1, <2>2, <3>2 DEF Stored, Copied, Distributed
      <4>2. cache[StoreOrder[i]] = Whole(campaign, 0)
        BY <1>1, <2>1, <4>1 DEF KeysInv
      <4> QED BY <2>1, <3>2, <4>2
    <3> QED BY <3>1, <3>2
  <2>3. \A i \in 1..8 : ~ (stage' \in Copied' \/ (stage' = "Copy" /\ i < next'))
    BY <2>1 DEF Copied, Distributed
  <2>4. Whole(campaign, 0)' = Whole(campaign, 0)
    BY <2>1 DEF Whole
  <2> QED BY <2>2, <2>3, <2>4 DEF KeysInv
<1>5. CASE CopyFixture
  <2>1. /\ stage = "Copy" /\ next \in 1..8 /\ DOMAIN fixtures = Endpoints
        /\ \A e \in Endpoints : DOMAIN fixtures[e] = Keys \cup {"CA"}
        /\ fixtures' = [fixtures EXCEPT ![CopyOrder[next][1]][CopyOrder[next][2]] =
                          cache[CopyOrder[next][2]]]
        /\ campaign' = campaign /\ cache' = cache
        /\ \/ stage' = "Copy" /\ next' = next + 1
           \/ next = 8 /\ stage' = "FetchCA" /\ next' = 1
    BY <1>1, <1>5 DEF TypeOK, LoopInv, CopyFixture, CopyTarget, CopiedKey, LoopThen, Goto
  <2>2. Whole(campaign, 0)' = Whole(campaign, 0)
    BY <2>1 DEF Whole
  <2>3. \A j \in 1..6 : cache[StoreOrder[j]] = Whole(campaign, 0)
    BY <1>1, <2>1 DEF KeysInv, Stored
  <2>4. \A i \in 1..8 : cache[CopyOrder[i][2]] = Whole(campaign, 0)
    BY <2>3
  <2>5. ASSUME NEW i \in 1..8, stage' \in Copied' \/ (stage' = "Copy" /\ i < next')
        PROVE  fixtures'[CopyOrder[i][1]][CopyOrder[i][2]] = Whole(campaign, 0)
    <3>1. CASE i = next
      BY <2>1, <2>4, <3>1
    <3>2. CASE i # next
      <4>1. i < next
        BY <2>1, <2>5, <3>2 DEF Copied, Distributed
      <4>2. fixtures[CopyOrder[i][1]][CopyOrder[i][2]] = Whole(campaign, 0)
        BY <1>1, <2>1, <4>1 DEF KeysInv
      <4>3. /\ CopyOrder[i][1] \in Endpoints /\ CopyOrder[i][2] \in Keys
            /\ CopyOrder[next][1] \in Endpoints /\ CopyOrder[next][2] \in Keys
        BY <2>1
      <4> QED BY <2>1, <2>4, <4>2, <4>3
    <3> QED BY <3>1, <3>2
  <2> QED BY <2>1, <2>2, <2>3, <2>5 DEF KeysInv
<1>6. CASE FetchCA
  BY <1>1, <1>6 DEF FetchCA, Goto, material, measured, KeysInv, LoopInv, Stored, Copied, Distributed
<1>7. CASE CopyCA
  <2>1. /\ stage = "CopyCA" /\ DOMAIN fixtures = Endpoints
        /\ fixtures' = [fixtures EXCEPT ![EndpointOrder[next]]["CA"] = localCA]
        /\ campaign' = campaign /\ cache' = cache
    BY <1>1, <1>7 DEF TypeOK, CopyCA
  <2>2. Whole(campaign, 0)' = Whole(campaign, 0)
    BY <2>1 DEF Whole
  <2>3. \A i \in 1..8 : fixtures'[CopyOrder[i][1]][CopyOrder[i][2]] =
                          fixtures[CopyOrder[i][1]][CopyOrder[i][2]]
    <3>1. "CA" \notin Keys
      BY DEF Keys
    <3> QED BY <2>1, <3>1
  <2>4. /\ \A j \in 1..6 : cache[StoreOrder[j]] = Whole(campaign, 0)
        /\ \A i \in 1..8 : fixtures[CopyOrder[i][1]][CopyOrder[i][2]] = Whole(campaign, 0)
    BY <1>1, <2>1 DEF KeysInv, Stored, Copied
  <2> QED BY <2>1, <2>2, <2>3, <2>4 DEF KeysInv
<1>8. CASE BuildBinary
  BY <1>1, <1>8 DEF BuildBinary, LoopThen, Goto, material, measured, KeysInv, LoopInv, Stored, Copied, Distributed
<1>9. CASE SessionSucceeds
  BY <1>1, <1>9 DEF SessionSucceeds, Goto, material, measured, KeysInv, LoopInv, Stored, Copied, Distributed
<1>10. CASE TransferResult
  BY <1>1, <1>10 DEF TransferResult, material, measured, KeysInv, LoopInv, Stored, Copied, Distributed
<1>11. CASE RemoveResult
  BY <1>1, <1>11 DEF RemoveResult, Goto, material, measured, AfterRemoval, KeysInv, LoopInv, Stored, Copied, Distributed
<1>12. CASE GenerateReport
  BY <1>1, <1>12 DEF GenerateReport, Goto, material, measured, KeysInv, LoopInv, Stored, Copied, Distributed
<1>13. CASE StoreKeyFails
  BY <1>1, <1>13 DEF StoreKeyFails, Stops, Goto, material, measured, KeysInv, LoopInv, Stored, Copied, Distributed
<1>14. CASE CopyFixtureFails
  BY <1>1, <1>14 DEF CopyFixtureFails, Stops, Goto, material, measured, KeysInv, LoopInv, Stored, Copied, Distributed
<1>15. CASE FetchCAFails
  BY <1>1, <1>15 DEF FetchCAFails, Stops, Goto, material, measured, KeysInv, LoopInv, Stored, Copied, Distributed
<1>16. CASE CopyCAFails
  BY <1>1, <1>16 DEF CopyCAFails, Stops, Goto, material, measured, KeysInv, LoopInv, Stored, Copied, Distributed
<1>17. CASE BuildBinaryFails
  BY <1>1, <1>17 DEF BuildBinaryFails, Stops, Goto, material, measured, KeysInv, LoopInv, Stored, Copied, Distributed
<1>18. CASE SessionFails
  BY <1>1, <1>18 DEF SessionFails, Stops, Goto, material, measured, KeysInv, LoopInv, Stored, Copied, Distributed
<1>19. CASE TransferFails
  BY <1>1, <1>19 DEF TransferFails, Stops, Goto, material, measured, KeysInv, LoopInv, Stored, Copied, Distributed
<1>20. CASE RemoveFails
  BY <1>1, <1>20 DEF RemoveFails, Stops, Goto, material, measured, KeysInv, LoopInv, Stored, Copied, Distributed
<1>21. CASE ReportFails
  BY <1>1, <1>21 DEF ReportFails, Stops, Goto, material, measured, KeysInv, LoopInv, Stored, Copied, Distributed
<1>22. CASE RenewBroker
  BY <1>1, <1>22 DEF RenewBroker, control, material, measured, KeysInv, LoopInv, Stored, Copied, Distributed
<1>23. ASSUME NEW o \in orphans, OrphanExits(o) PROVE KeysInv'
  BY <1>1, <1>23 DEF OrphanExits, control, material, measured, KeysInv, LoopInv, Stored, Copied, Distributed
<1>24. CASE ReportByHand
  BY <1>1, <1>24 DEF ReportByHand, control, material, measured, KeysInv, LoopInv, Stored, Copied, Distributed
<1>25. CASE UNCHANGED vars
  BY <1>1, <1>25 DEF vars, control, material, measured, KeysInv, LoopInv, Stored, Copied, Distributed
<1> QED BY <1>3, <1>4, <1>5, <1>6, <1>7, <1>8, <1>9, <1>10, <1>11, <1>12, <1>13, <1>14, <1>15, <1>16, <1>17, <1>18, <1>19, <1>20, <1>21, <1>22, <1>23, <1>24, <1>25 DEF Next, CoordinatorStep, Failure, Environment

\* The CA certificates copied so far are the broker's.
LEMMA CAStep ==
  TypeOK /\ IInv /\ [Next]_vars => CAInv'
<1> SUFFICES ASSUME TypeOK, IInv, [Next]_vars PROVE CAInv'
  OBVIOUS
<1>1. TypeOK /\ LoopInv /\ CAInv
  BY DEF IInv
<1> USE Lists
<1>3. CASE StartCampaign
  BY <1>1, <1>3 DEF StartCampaign, Goto, material, measured, CAInv, LoopInv, Distributed
<1>4. CASE StoreKey
  BY <1>1, <1>4 DEF StoreKey, LoopThen, Goto, material, measured, CAInv, LoopInv, Distributed
<1>5. CASE CopyFixture
  BY <1>1, <1>5 DEF CopyFixture, LoopThen, Goto, material, measured, CAInv, LoopInv, Distributed
<1>6. CASE FetchCA
  BY <1>1, <1>6 DEF FetchCA, Goto, material, measured, CAInv, LoopInv, Distributed
<1>7. CASE CopyCA
  <2>1. /\ stage = "CopyCA" /\ next \in 1..2 /\ DOMAIN fixtures = Endpoints
        /\ \A e \in Endpoints : DOMAIN fixtures[e] = Keys \cup {"CA"}
        /\ fixtures' = [fixtures EXCEPT ![EndpointOrder[next]]["CA"] = localCA]
        /\ localCA = Whole(brokerCA, 0)
        /\ brokerCA' = brokerCA /\ localCA' = localCA
        /\ \/ next = 1 /\ stage' = "CopyCA" /\ next' = 2
           \/ next = 2 /\ stage' = "Build" /\ next' = 1
    BY <1>1, <1>7 DEF TypeOK, LoopInv, CAInv, CopyCA, LoopThen, Goto
  <2>2. Whole(brokerCA, 0)' = Whole(brokerCA, 0)
    BY <2>1 DEF Whole
  <2>3. EndpointOrder[1] \in Endpoints /\ EndpointOrder[2] \in Endpoints
    BY DEF Endpoints
  <2>4. next = 2 => fixtures[EndpointOrder[1]]["CA"] = Whole(brokerCA, 0)
    BY <1>1, <2>1 DEF CAInv
  <2>5. ASSUME NEW i \in 1..2, i <= next
        PROVE  fixtures'[EndpointOrder[i]]["CA"] = Whole(brokerCA, 0)
    BY <2>1, <2>3, <2>4, <2>5
  <2> QED BY <2>1, <2>2, <2>5 DEF CAInv, Distributed
<1>8. CASE BuildBinary
  BY <1>1, <1>8 DEF BuildBinary, LoopThen, Goto, material, measured, CAInv, LoopInv, Distributed
<1>9. CASE SessionSucceeds
  BY <1>1, <1>9 DEF SessionSucceeds, Goto, material, measured, CAInv, LoopInv, Distributed
<1>10. CASE TransferResult
  BY <1>1, <1>10 DEF TransferResult, material, measured, CAInv, LoopInv, Distributed
<1>11. CASE RemoveResult
  BY <1>1, <1>11 DEF RemoveResult, Goto, material, measured, AfterRemoval, CAInv, LoopInv, Distributed
<1>12. CASE GenerateReport
  BY <1>1, <1>12 DEF GenerateReport, Goto, material, measured, CAInv, LoopInv, Distributed
<1>13. CASE StoreKeyFails
  BY <1>1, <1>13 DEF StoreKeyFails, Stops, Goto, material, measured, CAInv, LoopInv, Distributed
<1>14. CASE CopyFixtureFails
  BY <1>1, <1>14 DEF CopyFixtureFails, Stops, Goto, material, measured, CAInv, LoopInv, Distributed
<1>15. CASE FetchCAFails
  BY <1>1, <1>15 DEF FetchCAFails, Stops, Goto, material, measured, CAInv, LoopInv, Distributed
<1>16. CASE CopyCAFails
  BY <1>1, <1>16 DEF CopyCAFails, Stops, Goto, material, measured, CAInv, LoopInv, Distributed
<1>17. CASE BuildBinaryFails
  BY <1>1, <1>17 DEF BuildBinaryFails, Stops, Goto, material, measured, CAInv, LoopInv, Distributed
<1>18. CASE SessionFails
  BY <1>1, <1>18 DEF SessionFails, Stops, Goto, material, measured, CAInv, LoopInv, Distributed
<1>19. CASE TransferFails
  BY <1>1, <1>19 DEF TransferFails, Stops, Goto, material, measured, CAInv, LoopInv, Distributed
<1>20. CASE RemoveFails
  BY <1>1, <1>20 DEF RemoveFails, Stops, Goto, material, measured, CAInv, LoopInv, Distributed
<1>21. CASE ReportFails
  BY <1>1, <1>21 DEF ReportFails, Stops, Goto, material, measured, CAInv, LoopInv, Distributed
<1>22. CASE RenewBroker
  BY <1>1, <1>22 DEF RenewBroker, control, material, measured, CAInv, LoopInv, Distributed
<1>23. ASSUME NEW o \in orphans, OrphanExits(o) PROVE CAInv'
  BY <1>1, <1>23 DEF OrphanExits, control, material, measured, CAInv, LoopInv, Distributed
<1>24. CASE ReportByHand
  BY <1>1, <1>24 DEF ReportByHand, control, material, measured, CAInv, LoopInv, Distributed
<1>25. CASE UNCHANGED vars
  BY <1>1, <1>25 DEF vars, control, material, measured, CAInv, LoopInv, Distributed
<1> QED BY <1>3, <1>4, <1>5, <1>6, <1>7, <1>8, <1>9, <1>10, <1>11, <1>12, <1>13, <1>14, <1>15, <1>16, <1>17, <1>18, <1>19, <1>20, <1>21, <1>22, <1>23, <1>24, <1>25 DEF Next, CoordinatorStep, Failure, Environment

\* The binaries built so far are of this campaign and scenario.
LEMMA BuiltStep ==
  TypeOK /\ IInv /\ [Next]_vars => BuiltInv'
<1> SUFFICES ASSUME TypeOK, IInv, [Next]_vars PROVE BuiltInv'
  OBVIOUS
<1>1. TypeOK /\ LoopInv /\ BuiltInv
  BY DEF IInv
<1> USE Lists
<1>3. CASE StartCampaign
  BY <1>1, <1>3 DEF StartCampaign, Goto, material, measured, BuiltInv, LoopInv
<1>4. CASE StoreKey
  BY <1>1, <1>4 DEF StoreKey, LoopThen, Goto, material, measured, BuiltInv, LoopInv
<1>5. CASE CopyFixture
  BY <1>1, <1>5 DEF CopyFixture, LoopThen, Goto, material, measured, BuiltInv, LoopInv
<1>6. CASE FetchCA
  BY <1>1, <1>6 DEF FetchCA, Goto, material, measured, BuiltInv, LoopInv
<1>7. CASE CopyCA
  BY <1>1, <1>7 DEF CopyCA, LoopThen, Goto, material, measured, BuiltInv, LoopInv
<1>8. CASE BuildBinary
  <2>1. /\ stage = "Build" /\ next \in 1..2 /\ DOMAIN binaries = Endpoints
        /\ scenario \in ScenarioIDs
        /\ \A e \in Endpoints : DOMAIN binaries[e] = ScenarioIDs
        /\ binaries' = [binaries EXCEPT ![EndpointOrder[next]][scenario] =
                          Whole(campaign, scenario)]
        /\ campaign' = campaign /\ scenario' = scenario
        /\ \/ next = 1 /\ stage' = "Build" /\ next' = 2
           \/ next = 2 /\ stage' = "Session" /\ next' = 1
    BY <1>1, <1>8 DEF TypeOK, LoopInv, BuildBinary, LoopThen, Goto
  <2>2. Whole(campaign, scenario)' = Whole(campaign, scenario)
    BY <2>1 DEF Whole
  <2>3. EndpointOrder[1] \in Endpoints /\ EndpointOrder[2] \in Endpoints
    BY DEF Endpoints
  <2>4. next = 2 => binaries[EndpointOrder[1]][scenario] = Whole(campaign, scenario)
    BY <1>1, <2>1 DEF BuiltInv
  <2>5. ASSUME NEW i \in 1..2, i <= next
        PROVE  binaries'[EndpointOrder[i]][scenario] = Whole(campaign, scenario)
    BY <2>1, <2>3, <2>4, <2>5
  <2> QED BY <2>1, <2>2, <2>5 DEF BuiltInv
<1>9. CASE SessionSucceeds
  BY <1>1, <1>9 DEF SessionSucceeds, Goto, material, measured, BuiltInv, LoopInv
<1>10. CASE TransferResult
  BY <1>1, <1>10 DEF TransferResult, material, measured, BuiltInv, LoopInv
<1>11. CASE RemoveResult
  BY <1>1, <1>11 DEF RemoveResult, Goto, material, measured, AfterRemoval, BuiltInv, LoopInv
<1>12. CASE GenerateReport
  BY <1>1, <1>12 DEF GenerateReport, Goto, material, measured, BuiltInv, LoopInv
<1>13. CASE StoreKeyFails
  BY <1>1, <1>13 DEF StoreKeyFails, Stops, Goto, material, measured, BuiltInv, LoopInv
<1>14. CASE CopyFixtureFails
  BY <1>1, <1>14 DEF CopyFixtureFails, Stops, Goto, material, measured, BuiltInv, LoopInv
<1>15. CASE FetchCAFails
  BY <1>1, <1>15 DEF FetchCAFails, Stops, Goto, material, measured, BuiltInv, LoopInv
<1>16. CASE CopyCAFails
  BY <1>1, <1>16 DEF CopyCAFails, Stops, Goto, material, measured, BuiltInv, LoopInv
<1>17. CASE BuildBinaryFails
  BY <1>1, <1>17 DEF BuildBinaryFails, Stops, Goto, material, measured, BuiltInv, LoopInv
<1>18. CASE SessionFails
  BY <1>1, <1>18 DEF SessionFails, Stops, Goto, material, measured, BuiltInv, LoopInv
<1>19. CASE TransferFails
  BY <1>1, <1>19 DEF TransferFails, Stops, Goto, material, measured, BuiltInv, LoopInv
<1>20. CASE RemoveFails
  BY <1>1, <1>20 DEF RemoveFails, Stops, Goto, material, measured, BuiltInv, LoopInv
<1>21. CASE ReportFails
  BY <1>1, <1>21 DEF ReportFails, Stops, Goto, material, measured, BuiltInv, LoopInv
<1>22. CASE RenewBroker
  BY <1>1, <1>22 DEF RenewBroker, control, material, measured, BuiltInv, LoopInv
<1>23. ASSUME NEW o \in orphans, OrphanExits(o) PROVE BuiltInv'
  BY <1>1, <1>23 DEF OrphanExits, control, material, measured, BuiltInv, LoopInv
<1>24. CASE ReportByHand
  BY <1>1, <1>24 DEF ReportByHand, control, material, measured, BuiltInv, LoopInv
<1>25. CASE UNCHANGED vars
  BY <1>1, <1>25 DEF vars, control, material, measured, BuiltInv, LoopInv
<1> QED BY <1>3, <1>4, <1>5, <1>6, <1>7, <1>8, <1>9, <1>10, <1>11, <1>12, <1>13, <1>14, <1>15, <1>16, <1>17, <1>18, <1>19, <1>20, <1>21, <1>22, <1>23, <1>24, <1>25 DEF Next, CoordinatorStep, Failure, Environment

\* The files transferred so far are of this campaign and of their scenarios.
LEMMA FiledStep ==
  TypeOK /\ IInv /\ [Next]_vars => FiledInv'
<1> SUFFICES ASSUME TypeOK, IInv, [Next]_vars PROVE FiledInv'
  OBVIOUS
<1>1. TypeOK /\ LoopInv /\ FiledInv
  BY DEF IInv
<1> USE Lists
<1>3. CASE StartCampaign
  BY <1>1, <1>3 DEF StartCampaign, Goto, material, measured, FiledInv, LoopInv, Distributed
<1>4. CASE StoreKey
  BY <1>1, <1>4 DEF StoreKey, LoopThen, Goto, material, measured, FiledInv, LoopInv, Distributed
<1>5. CASE CopyFixture
  BY <1>1, <1>5 DEF CopyFixture, LoopThen, Goto, material, measured, FiledInv, LoopInv, Distributed
<1>6. CASE FetchCA
  BY <1>1, <1>6 DEF FetchCA, Goto, material, measured, FiledInv, LoopInv, Distributed
<1>7. CASE CopyCA
  <2>1. /\ stage' \in {"CopyCA", "Build"}
        /\ scenario' = scenario /\ scenario = 1
    BY <1>1, <1>7 DEF CopyCA, LoopThen, Goto, LoopInv
  <2>2. \A s \in ScenarioIDs : ~ (s < scenario')
    BY <2>1, CoordinatorAssumption DEF ScenarioIDs
  <2> QED BY <2>1, <2>2 DEF FiledInv
<1>8. CASE BuildBinary
  BY <1>1, <1>8 DEF BuildBinary, LoopThen, Goto, material, measured, FiledInv, LoopInv, Distributed
<1>9. CASE SessionSucceeds
  <2>1. /\ stage = "Session" /\ stage' = "Transfer" /\ next' = 1
        /\ scenario' = scenario /\ campaign' = campaign /\ results' = results
        /\ remote' = [e \in Endpoints |-> Whole(campaign, scenario)]
    BY <1>9 DEF SessionSucceeds, Goto
  <2>2. Whole(campaign, scenario)' = Whole(campaign, scenario)
    BY <2>1 DEF Whole
  <2>3. \A s \in ScenarioIDs : Whole(campaign, s)' = Whole(campaign, s)
    BY <2>1 DEF Whole
  <2>4. \A i \in 1..2 : EndpointOrder[i] \in Endpoints
    BY DEF Endpoints
  <2>5. \A s \in ScenarioIDs, i \in 1..2 :
          s < scenario => results[s][EndpointOrder[i]] = Whole(campaign, s)
    BY <1>1, <2>1 DEF FiledInv, Distributed
  <2>6. \A i \in 1..2 : remote'[EndpointOrder[i]] = Whole(campaign, scenario)
    BY <2>1, <2>4
  <2> QED BY <2>1, <2>2, <2>3, <2>5, <2>6 DEF FiledInv
<1>10. CASE TransferResult
  <2>1. /\ stage = "Transfer" /\ stage' = "Remove" /\ next' = next /\ next \in 1..2
        /\ scenario \in ScenarioIDs /\ DOMAIN results = ScenarioIDs
        /\ \A s \in ScenarioIDs : DOMAIN results[s] = Endpoints
        /\ results' = [results EXCEPT ![scenario][EndpointOrder[next]] =
                         remote[EndpointOrder[next]]]
        /\ scenario' = scenario /\ campaign' = campaign /\ remote' = remote
    BY <1>1, <1>10 DEF TypeOK, LoopInv, TransferResult, Transferred
  <2>2. \A s \in ScenarioIDs : Whole(campaign, s)' = Whole(campaign, s)
    BY <2>1 DEF Whole
  <2>3. \A i \in 1..2 : i >= next => remote[EndpointOrder[i]] = Whole(campaign, scenario)
    BY <1>1, <2>1 DEF FiledInv
  <2>4. \A i \in 1..2 : EndpointOrder[i] \in Endpoints
    BY DEF Endpoints
  <2>5. ASSUME NEW s \in ScenarioIDs, NEW i \in 1..2, s < scenario \/ (s = scenario /\ i <= next)
        PROVE  results'[s][EndpointOrder[i]] = Whole(campaign, s)
    <3>1. CASE s = scenario /\ i = next
      BY <2>1, <2>3, <2>4, <3>1
    <3>2. CASE ~ (s = scenario /\ i = next)
      <4>1. s < scenario \/ (s = scenario /\ i < next)
        BY <2>1, <2>5, <3>2
      <4>2. results[s][EndpointOrder[i]] = Whole(campaign, s)
        BY <1>1, <2>1, <4>1 DEF FiledInv, Distributed
      <4> HIDE DEF Whole
      <4> QED BY <2>1, <2>3, <2>4, <3>2, <4>2
    <3> QED BY <3>1, <3>2
  <2>6. \A i \in 1..2 : i >= next' => remote'[EndpointOrder[i]] = Whole(campaign', scenario')
    BY <2>1, <2>3
  <2> QED BY <2>1, <2>2, <2>5, <2>6 DEF FiledInv
<1>11. CASE RemoveResult
  <2>1. /\ stage = "Remove" /\ next \in 1..2
        /\ scenario \in ScenarioIDs /\ DOMAIN remote = Endpoints
        /\ remote' = [remote EXCEPT ![EndpointOrder[next]] = Missing]
        /\ campaign' = campaign /\ results' = results
    BY <1>1, <1>11 DEF TypeOK, LoopInv, RemoveResult, Transferred
  <2>2. \/ next = 1 /\ stage' = "Transfer" /\ next' = 2 /\ scenario' = scenario
        \/ /\ next = 2 /\ scenario < NumScenarios
           /\ stage' = "Build" /\ next' = 1 /\ scenario' = scenario + 1
        \/ /\ next = 2 /\ scenario = NumScenarios
           /\ stage' = "Report" /\ next' = 1 /\ scenario' = scenario
    BY <2>1, <1>11 DEF RemoveResult, AfterRemoval, Goto
  <2>3. \A s \in ScenarioIDs : Whole(campaign, s)' = Whole(campaign, s)
    BY <2>1 DEF Whole
  <2>4. \A s \in ScenarioIDs, i \in 1..2 :
          s < scenario \/ (s = scenario /\ i <= next) =>
            results'[s][EndpointOrder[i]] = Whole(campaign, s)
    BY <1>1, <2>1 DEF FiledInv, Distributed
  <2>5. ASSUME NEW i \in 1..2, stage' \in {"Transfer", "Remove"}, i >= next'
        PROVE  remote'[EndpointOrder[i]] = Whole(campaign', scenario')
    <3>1. next = 1 /\ i = 2 /\ scenario' = scenario
      BY <2>2, <2>5
    <3>2. remote[EndpointOrder[2]] = Whole(campaign, scenario)
      BY <1>1, <2>1, <3>1 DEF FiledInv
    <3> QED BY <2>1, <3>1, <3>2
  <2>6. ASSUME NEW s \in ScenarioIDs, NEW i \in 1..2,
               \/ stage' \in Distributed' /\ s < scenario'
               \/ stage' = "Transfer" /\ s = scenario' /\ i < next'
               \/ stage' = "Remove" /\ s = scenario' /\ i <= next'
               \/ stage' = "Report"
        PROVE  results'[s][EndpointOrder[i]] = Whole(campaign, s)
    <3>1. s < scenario \/ (s = scenario /\ i <= next)
      BY <2>1, <2>2, <2>6, CoordinatorAssumption DEF ScenarioIDs
    <3> QED BY <2>4, <3>1
  <2> QED BY <2>3, <2>5, <2>6 DEF FiledInv
<1>12. CASE GenerateReport
  BY <1>1, <1>12 DEF GenerateReport, Goto, material, measured, FiledInv, LoopInv, Distributed
<1>13. CASE StoreKeyFails
  BY <1>1, <1>13 DEF StoreKeyFails, Stops, Goto, material, measured, FiledInv, LoopInv, Distributed
<1>14. CASE CopyFixtureFails
  BY <1>1, <1>14 DEF CopyFixtureFails, Stops, Goto, material, measured, FiledInv, LoopInv, Distributed
<1>15. CASE FetchCAFails
  BY <1>1, <1>15 DEF FetchCAFails, Stops, Goto, material, measured, FiledInv, LoopInv, Distributed
<1>16. CASE CopyCAFails
  BY <1>1, <1>16 DEF CopyCAFails, Stops, Goto, material, measured, FiledInv, LoopInv, Distributed
<1>17. CASE BuildBinaryFails
  BY <1>1, <1>17 DEF BuildBinaryFails, Stops, Goto, material, measured, FiledInv, LoopInv, Distributed
<1>18. CASE SessionFails
  BY <1>1, <1>18 DEF SessionFails, Stops, Goto, material, measured, FiledInv, LoopInv, Distributed
<1>19. CASE TransferFails
  BY <1>1, <1>19 DEF TransferFails, Stops, Goto, material, measured, FiledInv, LoopInv, Distributed
<1>20. CASE RemoveFails
  BY <1>1, <1>20 DEF RemoveFails, Stops, Goto, material, measured, FiledInv, LoopInv, Distributed
<1>21. CASE ReportFails
  BY <1>1, <1>21 DEF ReportFails, Stops, Goto, material, measured, FiledInv, LoopInv, Distributed
<1>22. CASE RenewBroker
  BY <1>1, <1>22 DEF RenewBroker, control, material, measured, FiledInv, LoopInv, Distributed
<1>23. ASSUME NEW o \in orphans, OrphanExits(o) PROVE FiledInv'
  BY <1>1, <1>23 DEF OrphanExits, control, material, measured, FiledInv, LoopInv, Distributed
<1>24. CASE ReportByHand
  BY <1>1, <1>24 DEF ReportByHand, control, material, measured, FiledInv, LoopInv, Distributed
<1>25. CASE UNCHANGED vars
  BY <1>1, <1>25 DEF vars, control, material, measured, FiledInv, LoopInv, Distributed
<1> QED BY <1>3, <1>4, <1>5, <1>6, <1>7, <1>8, <1>9, <1>10, <1>11, <1>12, <1>13, <1>14, <1>15, <1>16, <1>17, <1>18, <1>19, <1>20, <1>21, <1>22, <1>23, <1>24, <1>25 DEF Next, CoordinatorStep, Failure, Environment

\* A report of the coordinator is of one campaign.
LEMMA ReportStep ==
  TypeOK /\ IInv /\ [Next]_vars => CampaignReportIsWhole'
<1> SUFFICES ASSUME TypeOK, IInv, [Next]_vars PROVE CampaignReportIsWhole'
  OBVIOUS
<1>1. TypeOK /\ LoopInv /\ FiledInv /\ CampaignReportIsWhole
  BY DEF IInv
<1>2. CASE StartCampaign
  BY <1>1, <1>2 DEF StartCampaign, Goto, material, measured, CampaignReportIsWhole
<1>3. CASE StoreKey
  BY <1>1, <1>3 DEF StoreKey, LoopThen, Goto, material, measured, CampaignReportIsWhole
<1>4. CASE CopyFixture
  BY <1>1, <1>4 DEF CopyFixture, LoopThen, Goto, material, measured, CampaignReportIsWhole
<1>5. CASE FetchCA
  BY <1>1, <1>5 DEF FetchCA, Goto, material, measured, CampaignReportIsWhole
<1>6. CASE CopyCA
  BY <1>1, <1>6 DEF CopyCA, LoopThen, Goto, material, measured, CampaignReportIsWhole
<1>7. CASE BuildBinary
  BY <1>1, <1>7 DEF BuildBinary, LoopThen, Goto, material, measured, CampaignReportIsWhole
<1>8. CASE SessionSucceeds
  BY <1>1, <1>8 DEF SessionSucceeds, Goto, material, measured, CampaignReportIsWhole
<1>9. CASE TransferResult
  BY <1>1, <1>9 DEF TransferResult, material, measured, CampaignReportIsWhole
<1>10. CASE RemoveResult
  BY <1>1, <1>10 DEF RemoveResult, Goto, material, measured, AfterRemoval, CampaignReportIsWhole
<1>11. CASE GenerateReport
  <2>1. /\ stage = "Report" /\ scenario = NumScenarios
        /\ report' = [by |-> "coordinator", for |-> campaign, from |-> results]
        /\ results \in [ScenarioIDs -> [Endpoints -> File \cup {Missing}]]
    BY <1>1, <1>11 DEF TypeOK, LoopInv, GenerateReport
  <2>2. \A s \in ScenarioIDs, i \in 1..2 : results[s][EndpointOrder[i]] = Whole(campaign, s)
    BY <1>1, <2>1 DEF FiledInv
  <2>3. \A s \in ScenarioIDs, e \in Endpoints : results[s][e] = Whole(campaign, s)
    BY <2>2, Lists DEF Endpoints
  <2>4. results = [s \in ScenarioIDs |-> [e \in Endpoints |-> Whole(campaign, s)]]
    BY <2>1, <2>3
  <2>5. /\ report'.from = [s \in ScenarioIDs |-> [e \in Endpoints |-> Whole(campaign, s)]]
        /\ report'.for = campaign
    BY <2>1, <2>4
  <2> QED BY <2>5 DEF CampaignReportIsWhole, Whole
<1>12. CASE StoreKeyFails
  BY <1>1, <1>12 DEF StoreKeyFails, Stops, Goto, material, measured, CampaignReportIsWhole
<1>13. CASE CopyFixtureFails
  BY <1>1, <1>13 DEF CopyFixtureFails, Stops, Goto, material, measured, CampaignReportIsWhole
<1>14. CASE FetchCAFails
  BY <1>1, <1>14 DEF FetchCAFails, Stops, Goto, material, measured, CampaignReportIsWhole
<1>15. CASE CopyCAFails
  BY <1>1, <1>15 DEF CopyCAFails, Stops, Goto, material, measured, CampaignReportIsWhole
<1>16. CASE BuildBinaryFails
  BY <1>1, <1>16 DEF BuildBinaryFails, Stops, Goto, material, measured, CampaignReportIsWhole
<1>17. CASE SessionFails
  BY <1>1, <1>17 DEF SessionFails, Stops, Goto, material, measured, CampaignReportIsWhole
<1>18. CASE TransferFails
  BY <1>1, <1>18 DEF TransferFails, Stops, Goto, material, measured, CampaignReportIsWhole
<1>19. CASE RemoveFails
  BY <1>1, <1>19 DEF RemoveFails, Stops, Goto, material, measured, CampaignReportIsWhole
<1>20. CASE ReportFails
  BY <1>1, <1>20 DEF ReportFails, Stops, Goto, material, measured, CampaignReportIsWhole
<1>21. CASE RenewBroker
  BY <1>1, <1>21 DEF RenewBroker, control, material, measured, CampaignReportIsWhole
<1>22. ASSUME NEW o \in orphans, OrphanExits(o) PROVE CampaignReportIsWhole'
  BY <1>1, <1>22 DEF OrphanExits, control, material, measured, CampaignReportIsWhole
<1>23. CASE ReportByHand
  BY <1>1, <1>23 DEF ReportByHand, control, material, measured, CampaignReportIsWhole
<1>24. CASE UNCHANGED vars
  BY <1>1, <1>24 DEF vars, control, material, measured, CampaignReportIsWhole
<1> QED BY <1>2, <1>3, <1>4, <1>5, <1>6, <1>7, <1>8, <1>9, <1>10, <1>11, <1>12, <1>13, <1>14, <1>15, <1>16, <1>17, <1>18, <1>19, <1>20, <1>21, <1>22, <1>23, <1>24 DEF Next, CoordinatorStep, Failure, Environment

----
LEMMA InitInv == Init => TypeOK /\ IInv
<1> SUFFICES ASSUME Init PROVE TypeOK /\ IInv
  OBVIOUS
<1>1. TypeOK
  BY CoordinatorAssumption, Lists
     DEF Init, TypeOK, Stages, ScenarioIDs, Campaigns, NoReport
<1>2. IInv
  BY DEF Init, IInv, LoopInv, KeysInv, CAInv, BuiltInv, FiledInv,
         CampaignReportIsWhole, Stored, Copied, Distributed, NoReport
<1> QED BY <1>1, <1>2

LEMMA Invariance == Spec => [](TypeOK /\ IInv)
<1>1. TypeOK /\ IInv /\ [Next]_vars => TypeOK' /\ IInv'
  BY TypeStep, LoopStep, KeysStep, CAStep, BuiltStep, FiledStep, ReportStep DEF IInv
<1> QED BY InitInv, <1>1, PTL DEF Spec

\* Every variable keeps its type, in every step of every campaign.
THEOREM CampaignTypeCorrect == Spec => []TypeOK
  BY Invariance, PTL

\* Whatever earlier campaigns left half-stored, half-copied or half-built, a session
\* starts with whole keys that belong together, the broker's CA and the binaries of
\* this campaign and scenario.
THEOREM SessionsArePrepared == Spec => []SessionIsPrepared
<1>1. TypeOK /\ IInv => SessionIsPrepared
  <2> SUFFICES ASSUME TypeOK, IInv, stage = "Session"
               PROVE  SessionIsPrepared
    BY DEF SessionIsPrepared
  <2>1. /\ \A i \in 1..8 : fixtures[CopyOrder[i][1]][CopyOrder[i][2]] = Whole(campaign, 0)
        /\ \A i \in 1..2 : fixtures[EndpointOrder[i]]["CA"] = Whole(brokerCA, 0)
        /\ \A i \in 1..2 : binaries[EndpointOrder[i]][scenario] = Whole(campaign, scenario)
    BY DEF IInv, KeysInv, CAInv, BuiltInv, Copied, Distributed
  <2>2. /\ CopyOrder[1] = <<"publisher", "AES">>
        /\ CopyOrder[2] = <<"publisher", "ASCON">>
        /\ CopyOrder[3] = <<"publisher", "RSAPublic">>
        /\ CopyOrder[4] = <<"publisher", "CPABEPublic">>
        /\ CopyOrder[5] = <<"subscriber", "AES">>
        /\ CopyOrder[6] = <<"subscriber", "ASCON">>
        /\ CopyOrder[7] = <<"subscriber", "RSAPrivate">>
        /\ CopyOrder[8] = <<"subscriber", "CPABEPrivate">>
    BY DEF CopyOrder
  <2>3. \A k \in {"AES", "ASCON", "RSAPublic", "CPABEPublic"} :
          fixtures["publisher"][k] = Whole(campaign, 0)
    BY <2>1, <2>2
  <2>4. \A k \in {"AES", "ASCON", "RSAPrivate", "CPABEPrivate"} :
          fixtures["subscriber"][k] = Whole(campaign, 0)
    BY <2>1, <2>2
  <2>5. \A pair \in KeyPairs :
          /\ fixtures["publisher"][pair[1]] = fixtures["subscriber"][pair[2]]
          /\ fixtures["publisher"][pair[1]].rows = "all"
    BY <2>3, <2>4 DEF KeyPairs, Whole
  <2> QED BY <2>1, <2>5, Lists DEF SessionIsPrepared, Endpoints
<1> QED BY Invariance, <1>1, PTL

\* A report the coordinator makes is of one campaign alone and of all of it.
THEOREM CampaignReportsAreWhole == Spec => []CampaignReportIsWhole
<1>1. TypeOK /\ IInv => CampaignReportIsWhole
  BY DEF IInv
<1> QED BY Invariance, <1>1, PTL

\* No result file is ever filed under a scenario or by a campaign it was not
\* measured in.
THEOREM ResultsKeepTheirSession == Spec => ResultsAreOfTheirSession
<1> DEFINE Filed == \A s \in ScenarioIDs, e \in Endpoints :
                      results'[s][e] # results[s][e] => results'[s][e].from = <<campaign, s>>
<1>1. TypeOK /\ IInv /\ [Next]_vars => [Filed]_vars
  <2> SUFFICES ASSUME TypeOK, IInv, [Next]_vars PROVE Filed
    OBVIOUS
  <2>1. stage = "Transfer" => next \in 1..2 /\ Transferred \in Endpoints
    BY Lists DEF IInv, LoopInv, Transferred, Endpoints
  <2>2. stage = "Transfer" => remote[Transferred] = Whole(campaign, scenario)
    BY <2>1 DEF IInv, FiledInv, Transferred
  <2>3. scenario \in ScenarioIDs /\ results \in [ScenarioIDs -> [Endpoints -> File \cup {Missing}]]
    BY DEF TypeOK
  <2>4. CASE TransferResult
    <3>1. results' = [results EXCEPT ![scenario][Transferred] = Whole(campaign, scenario)]
      BY <2>2, <2>4 DEF TransferResult
    <3> QED BY <2>1, <2>3, <2>4, <3>1 DEF TransferResult, Whole
  <2>5. CASE TransferFails
    <3>1. PICK left \in CutShort(results[scenario][Transferred], Whole(campaign, scenario)) :
            results' = [results EXCEPT ![scenario][Transferred] = left]
      BY <2>2, <2>5 DEF TransferFails
    <3>2. left = results[scenario][Transferred] \/ left.from = <<campaign, scenario>>
      BY DEF CutShort, Whole, Missing
    <3> QED BY <2>1, <2>3, <2>5, <3>1, <3>2 DEF TransferFails
  <2>6. CASE results' = results
    BY <2>6
  <2> QED BY <2>4, <2>5, <2>6
    DEF Next, CoordinatorStep, Failure, Environment, vars, material, measured,
        StartCampaign, StoreKey, CopyFixture, FetchCA, CopyCA, BuildBinary,
        SessionSucceeds, RemoveResult, GenerateReport, StoreKeyFails,
        CopyFixtureFails, FetchCAFails, CopyCAFails, BuildBinaryFails, SessionFails,
        RemoveFails, ReportFails, RenewBroker, OrphanExits, ReportByHand
<1> QED BY Invariance, <1>1, PTL DEF Spec, ResultsAreOfTheirSession

\* An endpoint's result file is deleted only once the laptop has all that it held.
THEOREM NothingDeletedUnkept == Spec => DeletedOnlyWhenKept
<1> DEFINE Kept == \A e \in Endpoints :
                     remote[e] # Missing /\ remote'[e] = Missing => results[scenario][e] = remote[e]
<1>1. TypeOK /\ IInv /\ [Next]_vars => [Kept]_vars
  <2> SUFFICES ASSUME TypeOK, IInv, [Next]_vars PROVE Kept
    OBVIOUS
  <2>1. \A c, s : Whole(c, s) # Missing
    BY DEF Whole, Missing
  <2>2. ASSUME NEW old, NEW c, NEW s, NEW left \in CutShort(old, Whole(c, s)), old # Missing
        PROVE  left # Missing
    BY <2>1, <2>2 DEF CutShort, Whole, Missing
  <2>3. remote \in [Endpoints -> File \cup {Missing}]
    BY DEF TypeOK
  <2>4. stage = "Remove" =>
          /\ Transferred \in Endpoints
          /\ results[scenario][Transferred] = remote[Transferred]
    BY Lists DEF IInv, LoopInv, FiledInv, TypeOK, Transferred, Endpoints
  <2>5. CASE RemoveResult \/ RemoveFails
    BY <2>3, <2>4, <2>5 DEF RemoveResult, RemoveFails
  <2>6. CASE SessionSucceeds
    BY <2>1, <2>6 DEF SessionSucceeds
  <2>7. CASE SessionFails
    BY <2>2, <2>3, <2>7 DEF SessionFails, Endpoints
  <2>8. ASSUME NEW o \in orphans, OrphanExits(o) PROVE Kept
    BY <2>2, <2>3, <2>8 DEF OrphanExits
  <2>9. CASE remote' = remote
    BY <2>9
  <2> QED BY <2>5, <2>6, <2>7, <2>8, <2>9
    DEF Next, CoordinatorStep, Failure, Environment, vars, material, measured,
        StartCampaign, StoreKey, CopyFixture, FetchCA, CopyCA, BuildBinary,
        TransferResult, GenerateReport, StoreKeyFails, CopyFixtureFails,
        FetchCAFails, CopyCAFails, BuildBinaryFails, TransferFails, ReportFails,
        RenewBroker, ReportByHand
<1> QED BY Invariance, <1>1, PTL DEF Spec, DeletedOnlyWhenKept

\* No report, not even one made by hand from what a failed campaign left, sets the
\* send times of one session against the arrival times of another.
THEOREM ReportsPairOneSession == Spec => []ReportsArePaired
<1> DEFINE Named == \A s \in ScenarioIDs, e \in Endpoints :
                      results[s][e] # Missing => results[s][e].from[2] = s
           PInv == Named /\ ReportsArePaired
<1>1. Init => PInv
  BY DEF Init, ReportsArePaired, NoReport
<1>2. TypeOK /\ IInv /\ PInv /\ [Next]_vars => PInv'
  <2> SUFFICES ASSUME TypeOK, IInv, PInv, [Next]_vars PROVE PInv'
    OBVIOUS
  <2>1. stage = "Transfer" => next \in 1..2 /\ Transferred \in Endpoints
    BY Lists DEF IInv, LoopInv, Transferred, Endpoints
  <2>2. stage = "Transfer" => remote[Transferred] = Whole(campaign, scenario)
    BY <2>1 DEF IInv, FiledInv, Transferred
  <2>3. /\ scenario \in ScenarioIDs
        /\ results \in [ScenarioIDs -> [Endpoints -> File \cup {Missing}]]
    BY DEF TypeOK
  <2>4. ASSUME Loadable(results), report'.from = results PROVE ReportsArePaired'
    <3>1. ASSUME NEW s \in ScenarioIDs
          PROVE  LET p == results[s]["publisher"]
                     a == results[s]["subscriber"]
                 IN \/ NoRows(p) /\ NoRows(a)
                    \/ p.from = a.from /\ p.from[2] = s
      <4>1. Joins(results[s]["publisher"], results[s]["subscriber"])
        BY <2>4, <3>1 DEF Loadable
      <4>2. results[s]["publisher"] # Missing => results[s]["publisher"].from[2] = s
        BY <3>1 DEF Endpoints
      <4> QED BY <4>1, <4>2 DEF Joins
    <3> QED BY <2>4, <3>1 DEF ReportsArePaired, NoRows
  <2>5. CASE TransferResult
    <3>1. results' = [results EXCEPT ![scenario][Transferred] = Whole(campaign, scenario)]
      BY <2>2, <2>5 DEF TransferResult
    <3>2. Named'
      BY <2>1, <2>3, <2>5, <3>1 DEF TransferResult, Whole
    <3> QED BY <2>5, <3>2 DEF TransferResult, ReportsArePaired
  <2>6. CASE TransferFails
    <3>1. PICK left \in CutShort(results[scenario][Transferred], Whole(campaign, scenario)) :
            results' = [results EXCEPT ![scenario][Transferred] = left]
      BY <2>2, <2>6 DEF TransferFails
    <3>2. left = results[scenario][Transferred] \/ left.from[2] = scenario
      BY DEF CutShort, Whole, Missing
    <3>3. Named'
      BY <2>1, <2>3, <2>6, <3>1, <3>2 DEF TransferFails
    <3> QED BY <2>6, <3>3 DEF TransferFails, ReportsArePaired
  <2>7. CASE GenerateReport \/ ReportByHand
    <3>1. Loadable(results) /\ report'.from = results /\ results' = results
      BY <2>7 DEF GenerateReport, ReportByHand
    <3> QED BY <2>4, <3>1
  <2>8. CASE results' = results /\ report' = report
    BY <2>8 DEF ReportsArePaired
  <2> QED BY <2>5, <2>6, <2>7, <2>8
    DEF Next, CoordinatorStep, Failure, Environment, vars, material, measured,
        StartCampaign, StoreKey, CopyFixture, FetchCA, CopyCA, BuildBinary,
        SessionSucceeds, SessionFails, RemoveResult, RemoveFails, StoreKeyFails,
        CopyFixtureFails, FetchCAFails, CopyCAFails, BuildBinaryFails, ReportFails,
        RenewBroker, OrphanExits
<1>3. Spec => []PInv
  BY Invariance, <1>1, <1>2, PTL DEF Spec
<1>4. PInv => ReportsArePaired
  OBVIOUS
<1> QED BY <1>3, <1>4, PTL
====
