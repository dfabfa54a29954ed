SPECIFICATION MCSpec
CONSTANTS
  MaxRuns = 3
  MaxWork = 2
  Faults <- AllFaults
INVARIANTS
  NothingLeaks
PROPERTIES
  KeepsCPUPromise
  CallsReturn
  AllRunsMeasured
CHECK_DEADLOCK FALSE
