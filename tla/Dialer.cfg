SPECIFICATION FairSpec
CONSTANTS
  Callers = {c1, c2}
  Peers = {desktop}
  Stranger = stranger
  DialLimit = 1
  IoLimit = 1
  RpcLimit = 1
  CloseReasons = {"application_closed", "timed_out"}
  None = None
INVARIANTS ExecAtMostOnce OneConnection ReturnsByDeadline
PROPERTIES ImplementsExecOutcome EveryCallEnds
