SPECIFICATION Spec
CONSTANTS
  PageSize = 3
  Byte <- MCByte
  Codes <- MCCodes
  IntMax = 1
  Digest <- MCDigest
  Hash <- MCHash
  Mac <- MCMac
  MaxFaults = 2
  FirstCycleFaults = TRUE
INVARIANTS
  TypeOK
  CallChain
  AttestedArena
  
  ActiveMatchesCount
  CleanTransactionInstalls
PROPERTIES
  ArenaStableWhileExecuting
  CheckedIsCopied
CHECK_DEADLOCK FALSE
