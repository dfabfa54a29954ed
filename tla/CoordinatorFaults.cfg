SPECIFICATION Spec
CONSTANTS
  NumScenarios = 2
  MaxCampaigns = 3
  FaultyCampaigns <- AllButTheLast
INVARIANTS
  SessionIsPrepared
  CampaignReportIsWhole
  ReportsArePaired
PROPERTIES
  ResultsAreOfTheirSession
  DeletedOnlyWhenKept
  RerunRecovers
CHECK_DEADLOCK FALSE
