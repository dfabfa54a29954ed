SPECIFICATION Spec
CONSTANTS
  Environments <- MCEnvironments
  MaxCampaigns = 2
  MaxEdits = 2
  KilledCampaigns = {1}
INVARIANT CampaignReportIsTrue
PROPERTY AgreeingCampaignReports
CHECK_DEADLOCK FALSE
