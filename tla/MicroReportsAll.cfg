SPECIFICATION Spec
CONSTANTS
  Environment <- MCEnvironment
  Runs = 2
  Troubles = 1
INVARIANTS
  NumbersAreInPlace
  MarksAreTrue
PROPERTY ReportIsWhole
CHECK_DEADLOCK FALSE
