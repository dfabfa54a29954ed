SPECIFICATION RerunSpec
CONSTANTS
  PayloadCount <- Two
  WarmupRuns <- One
  Runs <- Two
  MessageCount <- Two
  Repetitions = 6
  Faults <- LocalFaults
  MaxLeft = 2
INVARIANTS
  RerunMeasuresItself
PROPERTIES
  OrchestratorReturns
  SessionSucceeds
CHECK_DEADLOCK FALSE
