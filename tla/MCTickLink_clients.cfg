SPECIFICATION Spec
CONSTANTS
  IntMax = 1
  Loops = 1
  BaseQuantum = 0
  None = None
  c1 = c1
  c2 = c2
  c3 = c3
  Quanta <- NoQuanta
  Clients <- ThreeClients
INVARIANTS
  TypeOK
  LockExcludes
  NoCallbackWithPending
  SemaphoreAssertions
  SleepersCounted
PROPERTIES
  CallbackKept
