SPECIFICATION Spec
CONSTANTS
  BlockWords = 3
  Counters = 2
  MinJunk = 1
  JunkSpan = 2
  PageSize = 18
  Words <- MCWords
INVARIANTS
  SizeInBounds
  BuffersAgree
  ReturnsPayload
  StaysInVariant
PROPERTIES
  KeystreamInOrder
