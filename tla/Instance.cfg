CONSTANTS
  Daemons = {d1, d2, d3}
  Clis = {c1, c2}
  Identities = {home}
  Old = Old
  None = None
SPECIFICATION Spec
SYMMETRY MCSymmetry
INVARIANTS OneEndpoint Reachable 
PROPERTY ReplacesOnlyStale
