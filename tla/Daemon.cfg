CONSTANTS
  Conns = {desktop, stranger}
  Trusted = {desktop}
  PeerReqs = {p1, p2}
  LocalReqs = {l1, l2, l3}
  MaxConnections = 1
  MaxConcurrent = 1
  None = None
SPECIFICATION FairSpec
INVARIANTS PermitsAccounted NoOrphans
PROPERTIES BusyOnlyByOwnSource ReceivedStillCompletes SlotsComeBack Stops
