SPECIFICATION FairSpec
CONSTANTS
  IntMax = 1
  Loops = 1
  BaseQuantum = 0
  None = None
  c1 = c1
  c2 = c2
  c3 = c3
  Quanta <- SomeQuanta
  Clients <- TwoClients
PROPERTIES
  TicksTaken
  CallbackInvoked
  SleeperWakes
  TicksForever
  PendingSaturates
