CONSTANTS
  Page = {g1, g2, g3, g4, g5, g6}
  Proc = {p1, p2, p3}
  Name = {n1, n2}
  NVa = 3
  AttachMax = 3
  None = None
SYMMETRY Symmetry
SPECIFICATION Spec
INVARIANTS NoUseAfterFree SoleOwner Accounted
