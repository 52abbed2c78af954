CONSTANTS
  h1 = h1  h2 = h2
  Hart = {h1, h2}
  Boot = h1
  NSlots = 3
  NBoot = 2
  None = None
  MaxGen = 1
SPECIFICATION FairSpec
INVARIANTS OneHart FreeIsSaved NotFreedInUse
PROPERTIES KillTakesEffect RunnableRuns
