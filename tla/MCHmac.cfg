SPECIFICATION Spec
CONSTANTS
  BlockSize = 8
  LengthSize = 2
  HashSize = 4
  SigSize = 2
  Key <- MCKey
  Data <- MCData
  Garbage <- MCGarbage
INVARIANTS
  AbsorbedSoFar
  AnswersHmac
