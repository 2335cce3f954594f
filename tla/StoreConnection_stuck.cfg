\* Two processes, and a write that had to wait too long.
SPECIFICATION Spec
CONSTANTS
  Instances = {s1, s2}
  Running = {s1}
  s1 = s1
  s2 = s2
  Tokens = {t1}
  NoOne = noone
  MaxCalls = 3
  MaxCrashes = 1
CHECK_DEADLOCK FALSE
INVARIANTS
  QuietCallsRecorded
