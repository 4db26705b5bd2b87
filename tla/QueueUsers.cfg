\* Three threads that may each do anything with a queue of capacity one:
\* full, empty and closed are all one step away.
CONSTANTS
  Threads = {t1, t2, t3}
  Values = {v1, v2, v3}
  NoValue = NoValue
  Capacity = 1
SPECIFICATION Spec
INVARIANTS TypeOK Conservation NoLostWakeup
PROPERTY ClosedReleases
