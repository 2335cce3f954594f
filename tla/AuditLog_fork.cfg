\* Two servers record into one database file.
SPECIFICATION Spec
CONSTANTS
  Writers = {s1, s2}
  Contents = {1, 2}
  Hashes <- HashNumbers
  Mac <- DigitMac
  Genesis = 0
  VerifyLimit = 9
  MaxRows = 4
  MaxEdits = 0
  s1 = s1
  s2 = s2
CHECK_DEADLOCK FALSE
INVARIANTS
  IntactChainVerifies
