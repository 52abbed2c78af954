CONSTANTS
  Pid = {1, 2, 3}
  ChildMax = 2
  AtexitMax = 2
  Records = 1
  NNote = 2
  Code = {0, 257}
  Hook = {"plain", "adds", "exits"}
  MaxGen = 2
  MaxOps = 5
SPECIFICATION Spec
INVARIANTS TablesAgree ChildrenKnown HandlersRunOnce
PROPERTIES StatusIsTheChilds
CHECK_DEADLOCK FALSE
