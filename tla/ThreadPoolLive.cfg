\* Liveness: a caller, two workers, three tasks and a queue of capacity one.
\* Tasks may shut the pool down and submit with a time limit, but not block
\* in it for ever (see README).
CONSTANTS
  None = None
  Callers = {c1}
  Workers = {w1, w2}
  Tasks = {x1, x2, x3}
  Capacity = 1
  NestedOps = {"CancelPending", "submit_for"}
SPECIFICATION FairSpec
PROPERTIES MakesProgress
