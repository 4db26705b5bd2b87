\* A writer closes its queue and another claims it.
CONSTANTS
  Procs = {w1, w2}
  Senders = {w1, w2}
  Resetters = {}
  Readers = {}
  Closers = {w1}
  SlotCount = 1
  MaxSeq = 2
  MaxGen = 2
  Free = Free
  Electing = Electing
  None = None
SPECIFICATION Spec
INVARIANT SingleWriter
CHECK_DEADLOCK FALSE
