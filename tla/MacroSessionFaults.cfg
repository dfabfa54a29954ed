SPECIFICATION FairSpec
CONSTANTS
  PayloadCount <- Two
  WarmupRuns <- One
  Runs <- Two
  MessageCount <- Three
  Repetitions = 6
  Faults <- AllFaults
INVARIANTS
  TypeOK
  RunIsolation
  PublishOnlyWhenReady
  InStep
  SuccessIsComplete
PROPERTIES
  MeasuredOnceWhileCounting
  OrphansExit
CHECK_DEADLOCK FALSE
