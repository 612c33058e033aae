CONSTANTS
  Conns = {desktop}
  Trusted = {desktop}
  PeerReqs = {p1}
  LocalReqs = {l1, l2, l3}
  MaxConnections = 1
  MaxConcurrent = 1
  None = None
SPECIFICATION Spec
INVARIANT ExcessGetsBusyReply
