CONSTANTS
  Procs = {p1, p2, p3, p4}
  Aliases = {desktop, vps, self}
  Reserved = {self}
  Ids = {i1, i2}
  Bad = Bad
  None = None
SPECIFICATION Spec
SYMMETRY MCSymmetry
INVARIANTS InitReportsTheKey
PROPERTY InitOverwritesNothing
