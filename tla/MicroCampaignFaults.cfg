SPECIFICATION Spec
CONSTANTS
  Runs = 2
  MemoryCases = 1
  EnergyCases = 1
  TimingCases = 2
  WithMemory = TRUE
  MaxCampaigns = 3
  FaultyCampaigns = {1, 2}
INVARIANTS
  CampaignReportIsWhole
  WindowsSeeOneWorkload
  FixturesAreOfOneProvision
PROPERTIES
  TextDeletedOnlyWhenConverted
  RerunRecovers
CHECK_DEADLOCK FALSE
