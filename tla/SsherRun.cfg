CONSTANTS
  DefaultTimeout = 2
  DefaultTtl = 2
  None = None
  Hosts = {my_pc, other}
  Host = my_pc
  Endpoints = {lan, vpn}
  Secs = {0, 1}
  Second = 2
  MaxUnits = 2
SPECIFICATION FairSpec
INVARIANTS ConfigUsable ChoiceIsBest BridgeFaithful
PROPERTY RunEnds
