\* Two threads share the limiter.
SPECIFICATION Spec
CONSTANTS
  Identities = {ann}
  ann = ann
  Threads = {t1, t2}
  t1 = t1
  t2 = t2
  Capacity = 2
  RefillPerSecond = 1
  Cost = 1
  MaxTime = 3
INVARIANTS
  WindowBound
