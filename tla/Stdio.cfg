CONSTANTS
  Bufsiz = 2
  Sizes = {1}
  Largest = 2
  Disk = 4
  LineCap = 2
  Text <- MCText
  Byte = {0, 1}
  NL = 0
  InitData <- MCInitData
  Counts = {2, 3}
  Offsets <- MCOffsets
  Modes = {"r", "w", "a"}
  MaxOps = 5
  MaxFaults = 1
SPECIFICATION Spec
INVARIANTS BuffersHold PromptLines ReadsWhatIsThere
PROPERTIES StreamsAreBytes
CHECK_DEADLOCK FALSE
