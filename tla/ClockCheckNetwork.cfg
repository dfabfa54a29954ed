SPECIFICATION ClockSpec
CONSTANTS
  Bursts = 2
  Exchanges = 2
  Timeout = 3
  Skew <- Behind
INVARIANT MeanIsWithinHalfTheRTT
CHECK_DEADLOCK FALSE
