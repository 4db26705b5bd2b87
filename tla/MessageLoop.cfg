\* Two callers and two tasks, one of which may be posted by the other; two
\* delays and a clock that lets a later entry be due first.
CONSTANTS
  Callers = {c1, c2}
  Tasks = {x1, x2}
  None = None  Loop = Loop
  Delays = {0, 1, 2}
  MaxTime = 2
  NestedOps = {"post_task", "post_delay_task", "stop", "stop_and_drain", "join"}
SPECIFICATION FairSpec
INVARIANTS TypeOK StartOrder JoinedIsComplete AsleepMeansIdle
PROPERTIES StartsAreTimely EntriesLeave JoinReturns
CHECK_DEADLOCK FALSE
