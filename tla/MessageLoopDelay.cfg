\* One caller that posts one delayed task; tasks call nothing.
CONSTANTS
  Callers = {c1}
  Tasks = {x1, x2}
  None = None  Loop = Loop
  Delays = {0, 1}
  MaxTime = 2
  NestedOps = {}
SPECIFICATION FairSpec
PROPERTY DelayTaskFires
CHECK_DEADLOCK FALSE
