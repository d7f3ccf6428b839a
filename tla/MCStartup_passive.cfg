CONSTANTS
  i1 = i1
  i2 = i2
  Interfaces <- MCInterfaces
  Builds     <- OnePassive
SPECIFICATION FairSpec
PROPERTY WakesPassives
CHECK_DEADLOCK FALSE
