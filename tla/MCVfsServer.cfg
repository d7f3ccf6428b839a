SPECIFICATION Spec
CONSTANTS
  IntMax = 15
  DISK_SIZE = 9
  PrintMax = 3
  Fds <- MCFds
  Paths <- MCPaths
  LogPath = LogPath
  OtherPath = OtherPath
  SizeMax = 63
INVARIANTS
  TypeOK
  OffsetWithinDisk
  ReadWithinLog
  
