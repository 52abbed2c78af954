CONSTANTS
  Word = 2
  PathMax = 7
  Width = 8
  PortMax = 100
  Short = 3
  Bits = 8
  PerSec = 10
  Jobs <- AllJobs
  FirstJob <- NoJob
  EnvName <- Names
  EnvValue <- Vals
  Start <- Starts
  EnvStore <- InStore
  Spare = 2
  ArgvMax = 2
  EnvMax = 2
  BlobMax = 18
  Argv <- Argvs
  EnvOps = 5
  Mutex = {"m", "r", "e"}
  Kind <- Kinds
  NKey = 1
  MaxThread = 3
  ThreadOps = 8
SPECIFICATION Spec
INVARIANTS TextAgrees FormatAgrees ValuesAgree EnvAgrees ThreadsAgree
PROPERTIES ExecHandsOver
CHECK_DEADLOCK FALSE
