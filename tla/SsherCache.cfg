CONSTANTS
  Procs = {s1, s2}
  MaxStarts = 3
  Aliases = {1, 2}
  Addresses = {lan, wan}
  Probings = {tcp22, icmp22}
  TTL = 1
  MaxTime = 1
  Torn = Torn
  Absent = Absent
SPECIFICATION CacheFairSpec
PROPERTIES HitIsFresh 
