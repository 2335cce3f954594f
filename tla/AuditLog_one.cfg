\* One server records, and up to two rows are rewritten, inserted or lost.
SPECIFICATION Spec
CONSTANTS
  Writers = {s1}
  Contents = {1, 2}
  Hashes <- HashNumbers
  Mac <- DigitMac
  Genesis = 0
  VerifyLimit = 9
  MaxRows = 3
  MaxEdits = 2
  s1 = s1
CHECK_DEADLOCK FALSE
INVARIANTS
  TypeOK
  IntactChainVerifies
  TamperEvident
