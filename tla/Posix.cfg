CONSTANTS
  p1 = p1  p2 = p2
  Proc = {p1, p2}
  Path = {"a", "u"}
  Node = {"a", "u", "v"}
  Lookup <- MCLookup
  Create <- MCCreate
  TmpPath = {"a", "u"}
  Flags <- MCFlags
  Counts = {0, 1, 3, 6}
  Program <- MCProgram
  InitFile <- MCInit
  FdMax = 2
  NStd = 1
  Chunk = 2
  ReadMax = 2
  PageMax = 1
  DirListMax = 2
  Tries = 2
  Disk = 5
  MaxCalls <- MCCalls
  MaxFaults = 1
  Mortal = {p1}
SPECIFICATION Spec
INVARIANTS FilesKept
PROPERTIES CallIsAtomic CallsProgress
CHECK_DEADLOCK FALSE
