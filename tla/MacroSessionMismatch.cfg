SPECIFICATION Spec
CONSTANTS
  PayloadCount <- Two
  WarmupRuns <- Zero
  Runs <- TwoAndThree
  MessageCount <- ThreeAndTwo
  Repetitions = 4
  Faults <- AllFaults
INVARIANT SuccessMeansAgreement
CHECK_DEADLOCK FALSE
