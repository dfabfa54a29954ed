SPECIFICATION Spec
CONSTANTS
  Environments = {e1, e2}
  MaxKills = 3
  MaxVolumes = 2
  Missing = Missing
  Torn = Torn
INVARIANT BrokerIsTrue
PROPERTY ServesAgain
CHECK_DEADLOCK FALSE
