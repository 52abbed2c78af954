CONSTANTS
  p1 = p1  p2 = p2  p3 = p3
  None = None
  Proc = {p1, p2, p3}
  Sends <- ClientServer
  Calls <- CallRing
  Mortal = {p1}
  Notable = {p1}
  Wildcard = {p3}
  MaxGen = 1
  MaxOps <- One
  MaxPend = 1
SPECIFICATION FairSpec
INVARIANTS NoLostWakeup ReplyFromCallee QueueOK SenderAwaitsAck
PROPERTIES CallReturns MissedWakeIsRescued
CHECK_DEADLOCK FALSE
