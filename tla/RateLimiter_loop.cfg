\* One event loop calls the limiter.
SPECIFICATION FairSpec
CONSTANTS
  Identities = {ann, bob}
  ann = ann
  bob = bob
  Threads = {loop}
  loop = loop
  Capacity = 4
  RefillPerSecond = 1
  Cost = 2
  MaxTime = 5
INVARIANTS
  TypeOK
  WindowBound
  NoNeedlessThrottle
  RetryHintExact
PROPERTIES
  NoStarvation
  KeepsQuota
