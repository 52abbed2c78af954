CONSTANTS
  p1 = p1  p2 = p2  p3 = p3
  None = None
  Proc = {p1, p2, p3}
  Sends <- NoPairs
  Calls <- ClientServer
  Mortal = {p1, p3}
  Notable = {}
  Wildcard = {}
  MaxGen = 2
  MaxOps <- Two
  MaxPend = 1
SPECIFICATION Spec
INVARIANTS ReplyMatchesCall
CHECK_DEADLOCK FALSE
