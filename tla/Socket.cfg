CONSTANTS
  Proc = {1, 2}
  First = 1
  NConv = 2
  NFd = 3
  Port = {80}
  NPend = 1
  AcceptQ = 1
  Buf = 1
  Polls = 2
  Attempts = 2
  Name = {"a", "b"}
  MaxOps = 6
  Programs <- Kinds
SPECIFICATION FairSpec
INVARIANTS NoConversationLost TablesAgree ResultsAreTrue
PROPERTIES EndIsSeen
CHECK_DEADLOCK FALSE
