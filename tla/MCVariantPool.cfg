SPECIFICATION FairSpec
CONSTANTS
  Modulus = 4
  VARIANTS_COUNT = 2
  Sources <- MCSources
INVARIANTS
  PassPreservesMeaning
  PassComplete
  HeaderSound
PROPERTIES
  PoolFinishes
