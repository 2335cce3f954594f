\* Two processes, one of which may stop for good anywhere.
SPECIFICATION Spec
CONSTANTS
  Instances = {s1, s2}
  Running = {s1}
  s1 = s1
  s2 = s2
  Tokens = {t1}
  NoOne = noone
  MaxCalls = 3
  MaxCrashes = 1
CHECK_DEADLOCK FALSE
INVARIANTS
  TypeOK
  RevokedStaysOut
  SeedsBounded
  LossesExplained
PROPERTIES
  CallsEnd
