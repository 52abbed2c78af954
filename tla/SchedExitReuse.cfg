CONSTANTS
  h1 = h1  h2 = h2
  Hart = {h1, h2}
  Boot = h1
  NSlots = 2
  NBoot = 2
  None = None
  MaxGen = 2
SPECIFICATION Spec
INVARIANTS OwnContext
CHECK_DEADLOCK FALSE
