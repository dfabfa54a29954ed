SPECIFICATION CaseSpec
CONSTANTS
  Runs = 2
  WarmupDuration = 2
  MeasurementDuration = 2
  TailDuration = 1
  MaxStartup = 2
  MaxLate = 1
  MaxRead = 1
  MaxOperation = 1
  Threshold = 2
  MaxTemp = 3
  MaxPolls = 2
  Live = {3}
INVARIANTS
  RowsAreOfTheLoop
  HotOnlyAfterTheTimeout
  MarkIsTrue
PROPERTY CaseEnds
CHECK_DEADLOCK FALSE
