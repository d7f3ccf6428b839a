CONSTANTS
  i1 = i1
  i2 = i2
  Interfaces <- MCInterfaces
  Builds     <- MCBuilds
SPECIFICATION FairSpec
INVARIANT NoThreadReturns
PROPERTIES ImplementsLifecycle EveryoneStarts
CHECK_DEADLOCK FALSE
