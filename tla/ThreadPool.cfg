\* Two callers, two workers, three tasks, a queue of capacity two; tasks may
\* submit, and shut the pool down, from inside the pool.
CONSTANTS
  None = None
  Callers = {c1, c2}
  Workers = {w1, w2}
  Tasks = {x1, x2, x3}
  Capacity = 2
  NestedOps = {"Drain", "CancelPending", "submit", "try_submit", "submit_for"}
SPECIFICATION Spec
SYMMETRY Symmetry
INVARIANTS
  TypeOK NothingDropped OneOwner StopAfterTake JoinedIsQuiet
  DrainCancelsNothing DestroyedIsComplete
PROPERTY ImplementsService
