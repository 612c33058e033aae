CONSTANTS
  DialSecs = 12
  IoSecs = 6
  MarginSecs = 2
  ExecSecs = 24
  None = None
SPECIFICATION Spec
INVARIANTS DaemonAnswersInTime PeerAnswersInTime 
