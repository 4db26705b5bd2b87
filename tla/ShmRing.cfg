\* Two senders and a reader; any of them resets; every process may die anywhere.
CONSTANTS
  Procs = {w1, w2, r}
  Senders = {w1, w2}
  Resetters = {w1, w2, r}
  Readers = {r}
  Closers = {r}
  SlotCount = 2
  MaxSeq = 3
  MaxGen = 3
  Free = Free
  Electing = Electing
  None = None
SPECIFICATION Spec
INVARIANTS TypeOK SingleWriter CopyIsIntact
CHECK_DEADLOCK FALSE
