SPECIFICATION FairSpec
CONSTANTS
  PageSize = 3
  Byte <- MCByte
  Codes <- MCCodes
  IntMax = 1
  Digest <- MCDigest
  Hash <- MCHash
  Mac <- MCMac
  MaxFaults = 2
  FirstCycleFaults = FALSE
PROPERTIES
  MutationAnswered
  KeepsMutating
  ImplementsSecureSwap
