----------------------------- MODULE ThreadPool -----------------------------
(***************************************************************************)
(* ca::thread::ThreadPool (thread/thread_pool.{hpp,cpp}): creation,        *)
(* submit, try_submit and submit_for, the worker loop, shutdown in both    *)
(* modes, join and the destructor, over one BoundedQueue.                  *)
(*                                                                         *)
(* Callers are threads outside the pool; a worker that runs a task may     *)
(* call the pool's operations too (the ones in NestedOps).  A section      *)
(* under state_mutex that calls nothing is one step; shutdown, which holds *)
(* state_mutex over its calls of the queue and of the stop source, and     *)
(* join, which holds join_mutex while it waits for the workers, hold the   *)
(* mutex over several steps.                                               *)
(***************************************************************************)
EXTENDS BoundedQueue, TLC

CONSTANTS
  Callers,              \* threads outside the pool
  Workers,              \* the pool's threads
  Tasks,                \* the callables submitted, each accepted at most once
  None,                 \* no task, no holder of a mutex
  NestedOps             \* the operations a task's body may call

SubmitOps == {"submit", "try_submit", "submit_for"}
Modes == {"Drain", "CancelPending"}     \* ShutdownMode; also names shutdown(m)

ASSUME ThreadsAssumption ==
  /\ Workers # {}
  /\ Callers \cap Workers = {}
  /\ None \notin Callers \cup Workers \cup Tasks
  /\ NestedOps \subseteq SubmitOps \cup Modes \cup {"join"}

Threads == Callers \cup Workers

\* Callers, workers and tasks are alike.
Symmetry == Permutations(Callers) \cup Permutations(Workers) \cup Permutations(Tasks)

VARIABLES
  phase,                \* the pool object: creating, failing, failed, open,
                        \* destroying or destroyed
  state,                \* Impl::state
  mode,                 \* Impl::shutdown_mode
  stop,                 \* Impl::stop_source has been asked to stop
  stateMutex,           \* the thread that holds Impl::state_mutex, or None
  joinMutex,            \* the thread that holds Impl::join_mutex, or None
  pc,                   \* where each thread is
  op,                   \* the operation it is in
  task,                 \* the task it submits
  current,              \* the task a worker has popped
  pending,              \* shutdown's local deque of tasks to cancel
  future                \* what each task's future holds

poolVars  == <<phase, state, mode, stop>>
mutexVars == <<stateMutex, joinMutex>>
localVars == <<op, task>>
taskVars  == <<current, pending, future>>
vars == <<queueVars, poolVars, mutexVars, pc, localVars, taskVars>>

Init ==
  /\ QueueInit
  /\ phase = "creating" /\ state = "Running" /\ mode = "Drain" /\ stop = FALSE
  /\ stateMutex = None /\ joinMutex = None
  /\ pc = [t \in Threads |-> IF t \in Workers THEN "unstarted" ELSE "idle"]
  /\ op = [t \in Threads |-> "none"]
  /\ task = [t \in Threads |-> None]
  /\ current = [w \in Workers |-> None]
  /\ pending = [t \in Threads |-> <<>>]
  /\ future = [x \in Tasks |-> "none"]

\* Where a thread is between two operations.
Home(t) == IF t \in Workers THEN "running" ELSE "idle"

Goes(t, l) == pc' = [pc EXCEPT ![t] = l]

Returns(t) == Goes(t, Home(t)) /\ op' = [op EXCEPT ![t] = "none"]

\* Thread t starts operation o: a caller between two calls while the pool
\* object lives, or a worker from inside the body of its task.
Calls(t, o, l) ==
  /\ pc[t] = Home(t)
  /\ IF t \in Workers
       THEN o \in NestedOps /\ phase \in {"open", "destroying"}
       ELSE phase = "open"
  /\ op' = [op EXCEPT ![t] = o]
  /\ Goes(t, l)
-----------------------------------------------------------------------------
(* create(): the workers are started one by one and begin to pop at once.  *)

StartWorker(w) ==
  /\ phase = "creating"
  /\ pc[w] = "unstarted"
  /\ Goes(w, "pop")
  /\ UNCHANGED <<queueVars, poolVars, mutexVars, localVars, taskVars>>

CreateReturns ==
  /\ phase = "creating"
  /\ \A w \in Workers : pc[w] # "unstarted"
  /\ phase' = "open"
  /\ UNCHANGED <<queueVars, state, mode, stop, mutexVars, pc, localVars, taskVars>>

\* Thread::start fails: the queue is closed, and the Impl that goes out of
\* scope joins the workers that were started (Thread::~Thread).
CreateFails ==
  /\ phase = "creating"
  /\ \E w \in Workers : pc[w] = "unstarted"
  /\ CloseSection
  /\ phase' = "failing"
  /\ UNCHANGED <<state, mode, stop, mutexVars, pc, localVars, taskVars>>

CreateFailNotifies ==
  /\ phase = "failing"
  /\ NotifyAll
  /\ phase' = "joining"
  /\ UNCHANGED <<state, mode, stop, mutexVars, pc, localVars, taskVars>>

CreateFailed ==
  /\ phase = "joining"
  /\ \A w \in Workers : pc[w] \in {"unstarted", "exited"}
  /\ phase' = "failed"
  /\ UNCHANGED <<queueVars, state, mode, stop, mutexVars, pc, localVars, taskVars>>
-----------------------------------------------------------------------------
(* submit, try_submit, submit_for: prepare the task, check the state under *)
(* state_mutex, release it, then push.                                     *)

Submit(t, o, x) ==
  /\ Calls(t, o, "check")
  /\ future[x] = "none"
  /\ \A u \in Threads : task[u] # x
  /\ task' = [task EXCEPT ![t] = x]
  /\ UNCHANGED <<queueVars, poolVars, mutexVars, taskVars>>

CheckRunning(t) ==
  /\ pc[t] = "check"
  /\ stateMutex = None
  /\ state = "Running"
  /\ Goes(t, "push")
  /\ UNCHANGED <<queueVars, poolVars, mutexVars, localVars, taskVars>>

\* The submission fails and its PoolTask is destroyed: the pool is shutting
\* down, the queue is closed, full (try_submit) or stays full (submit_for).
SubmitFails(t) ==
  /\ \/ pc[t] = "check" /\ stateMutex = None /\ state # "Running"
        /\ UNCHANGED queueVars
     \/ pc[t] = "push" /\ PushRefused(t)
     \/ pc[t] = "push" /\ op[t] = "try_submit" /\ TryPushFull
     \/ pc[t] = "push" /\ op[t] = "submit_for" /\ PushTimesOut(t)
  /\ task' = [task EXCEPT ![t] = None]
  /\ Returns(t)
  /\ UNCHANGED <<poolVars, mutexVars, taskVars>>

\* Mutant: the task is moved from before the wait.
SubmitMovesAndBlocks(t) ==
  /\ pc[t] = "push"
  /\ op[t] # "try_submit"
  /\ PushWaits(t)
  /\ task' = [task EXCEPT ![t] = None]
  /\ UNCHANGED <<poolVars, mutexVars, pc, op, taskVars>>

SubmitBlocks(t) ==
  /\ pc[t] = "push"
  /\ op[t] # "try_submit"
  /\ PushWaits(t)
  /\ UNCHANGED <<poolVars, mutexVars, pc, localVars, taskVars>>

\* The task is accepted: from here on its future must be completed.
SubmitAccepted(t) ==
  /\ pc[t] = "push"
  /\ PushAccepts(t, task[t])
  /\ future' = [future EXCEPT ![task[t]] = "promised"]
  /\ task' = [task EXCEPT ![t] = None]
  /\ Goes(t, "notify_empty")
  /\ UNCHANGED <<poolVars, mutexVars, op, current, pending>>

\* Mutant: the submission does not notify a worker.
SubmitForgets(t) ==
  /\ pc[t] = "notify_empty"
  /\ Returns(t)
  /\ UNCHANGED <<queueVars, poolVars, mutexVars, task, taskVars>>

SubmitNotifies(t) ==
  /\ pc[t] = "notify_empty"
  /\ NotifyNotEmpty
  /\ Returns(t)
  /\ UNCHANGED <<poolVars, mutexVars, task, taskVars>>
-----------------------------------------------------------------------------
(* worker_loop: pop until the queue is closed and drained, run each task.  *)

WorkerPops(w) ==
  /\ pc[w] = "pop"
  /\ PopTakes(w)
  /\ current' = [current EXCEPT ![w] = Head(items)]
  /\ Goes(w, "notify_full")
  /\ UNCHANGED <<poolVars, mutexVars, localVars, pending, future>>

\* Mutant: the pop does not notify a blocked submission.
WorkerForgets(w) ==
  /\ pc[w] = "notify_full"
  /\ Goes(w, "running")
  /\ UNCHANGED <<queueVars, poolVars, mutexVars, localVars, taskVars>>

WorkerNotifies(w) ==
  /\ pc[w] = "notify_full"
  /\ NotifyNotFull
  /\ Goes(w, "running")
  /\ UNCHANGED <<poolVars, mutexVars, localVars, taskVars>>

WorkerBlocks(w) ==
  /\ pc[w] = "pop"
  /\ PopWaits(w)
  /\ UNCHANGED <<poolVars, mutexVars, pc, localVars, taskVars>>

WorkerExits(w) ==
  /\ pc[w] = "pop"
  /\ PopEnds(w)
  /\ Goes(w, "exited")
  /\ UNCHANGED <<poolVars, mutexVars, localVars, taskVars>>

\* execute_task: the body returns or throws, either completes the future.
TaskEnds(w) ==
  /\ pc[w] = "running"
  /\ \E r \in {"value", "exception"} :
       future' = [future EXCEPT ![current[w]] = r]
  /\ current' = [current EXCEPT ![w] = None]
  /\ Goes(w, "pop")
  /\ UNCHANGED <<queueVars, poolVars, mutexVars, localVars, pending>>
-----------------------------------------------------------------------------
(* shutdown(mode).  state_mutex is held from the decision to the end of    *)
(* the queue's and the stop source's part; the tasks taken are cancelled   *)
(* after it is released.                                                   *)

Shutdown(t, m) ==
  /\ Calls(t, m, "shutdown")
  /\ UNCHANGED <<queueVars, poolVars, mutexVars, task, taskVars>>

\* The mode asked for; the destructor asks for Drain.
Requested(t) == IF op[t] = "CancelPending" THEN "CancelPending" ELSE "Drain"

\* Which shutdown calls have something to do: the first one, and a
\* CancelPending that overtakes a Drain.
Effective(m) ==
  \/ state = "Running"
  \/ state = "ShuttingDown" /\ mode = "Drain" /\ m = "CancelPending"

\* Mutant: the running tasks are stopped before the queue is taken.
ShutdownStopsFirst(t) ==
  /\ pc[t] = "shutdown"
  /\ stateMutex = None
  /\ Effective(Requested(t))
  /\ state' = "ShuttingDown"
  /\ mode' = Requested(t)
  /\ stop' = (Requested(t) = "CancelPending")
  /\ stateMutex' = t
  /\ Goes(t, IF Requested(t) = "Drain" THEN "close" ELSE "close_and_take")
  /\ UNCHANGED <<queueVars, phase, joinMutex, localVars, taskVars>>

\* Mutant: the queue is taken whatever the mode.
ShutdownAlwaysTakes(t) ==
  /\ pc[t] = "shutdown"
  /\ stateMutex = None
  /\ Effective(Requested(t))
  /\ state' = "ShuttingDown"
  /\ mode' = Requested(t)
  /\ stateMutex' = t
  /\ Goes(t, "close_and_take")
  /\ UNCHANGED <<queueVars, phase, stop, joinMutex, localVars, taskVars>>

ShutdownDecides(t) ==
  /\ pc[t] = "shutdown"
  /\ stateMutex = None
  /\ Effective(Requested(t))
  /\ state' = "ShuttingDown"
  /\ mode' = Requested(t)
  /\ stateMutex' = t
  /\ Goes(t, IF Requested(t) = "Drain" THEN "close" ELSE "close_and_take")
  /\ UNCHANGED <<queueVars, phase, stop, joinMutex, localVars, taskVars>>

\* Mutant: the destructor does not wait for the workers.
AfterShutdownNoJoin(t) ==
  /\ Goes(t, IF op[t] = "destroy" THEN "join_done" ELSE Home(t))
  /\ op' = IF op[t] = "destroy" THEN op ELSE [op EXCEPT ![t] = "none"]

\* What follows shutdown: the destructor goes on to join, a call returns.
AfterShutdown(t) ==
  /\ Goes(t, IF op[t] = "destroy" THEN "join" ELSE Home(t))
  /\ op' = IF op[t] = "destroy" THEN op ELSE [op EXCEPT ![t] = "none"]

ShutdownNothing(t) ==
  /\ pc[t] = "shutdown"
  /\ stateMutex = None
  /\ ~Effective(Requested(t))
  /\ AfterShutdown(t)
  /\ UNCHANGED <<queueVars, poolVars, mutexVars, task, taskVars>>

ShutdownCloses(t) ==
  /\ pc[t] = "close"
  /\ CloseSection
  /\ Goes(t, "close_notify")
  /\ UNCHANGED <<poolVars, mutexVars, localVars, taskVars>>

ShutdownDrains(t) ==
  /\ pc[t] = "close_notify"
  /\ NotifyAll
  /\ stateMutex' = None
  /\ AfterShutdown(t)
  /\ UNCHANGED <<poolVars, joinMutex, task, taskVars>>

\* Mutant: the tasks taken are let go of.
ShutdownDiscards(t) ==
  /\ pc[t] = "close_and_take"
  /\ CloseAndTakeSection
  /\ Goes(t, "take_notify")
  /\ UNCHANGED <<poolVars, mutexVars, localVars, taskVars>>

ShutdownTakes(t) ==
  /\ pc[t] = "close_and_take"
  /\ CloseAndTakeSection
  /\ pending' = [pending EXCEPT ![t] = items]
  /\ Goes(t, "take_notify")
  /\ UNCHANGED <<poolVars, mutexVars, localVars, current, future>>

ShutdownWakes(t) ==
  /\ pc[t] = "take_notify"
  /\ NotifyAll
  /\ Goes(t, "request_stop")
  /\ UNCHANGED <<poolVars, mutexVars, localVars, taskVars>>

ShutdownStops(t) ==
  /\ pc[t] = "request_stop"
  /\ stop' = TRUE
  /\ stateMutex' = None
  /\ Goes(t, "cancel")
  /\ UNCHANGED <<queueVars, phase, state, mode, joinMutex, localVars, taskVars>>

CancelTask(t) ==
  /\ pc[t] = "cancel"
  /\ pending[t] # <<>>
  /\ future' = [future EXCEPT ![Head(pending[t])] = "cancelled"]
  /\ pending' = [pending EXCEPT ![t] = Tail(pending[t])]
  /\ UNCHANGED <<queueVars, poolVars, mutexVars, pc, localVars, current>>

CancelReturns(t) ==
  /\ pc[t] = "cancel"
  /\ pending[t] = <<>>
  /\ AfterShutdown(t)
  /\ UNCHANGED <<queueVars, poolVars, mutexVars, task, taskVars>>
-----------------------------------------------------------------------------
(* join(): join_mutex is held while the workers are waited for.            *)

Join(t) ==
  /\ Calls(t, "join", "join")
  /\ UNCHANGED <<queueVars, poolVars, mutexVars, task, taskVars>>

JoinLocks(t) ==
  /\ pc[t] = "join"
  /\ joinMutex = None
  /\ joinMutex' = t
  /\ Goes(t, "join_check")
  /\ UNCHANGED <<queueVars, poolVars, stateMutex, localVars, taskVars>>

\* The end of join: the destructor is done, a call returns.
JoinReturns(t) ==
  /\ joinMutex' = None
  /\ phase' = IF op[t] = "destroy" THEN "destroyed" ELSE phase
  /\ Returns(t)

\* Before shutdown, by a worker, or after an earlier join: nothing to wait for.
JoinRefused(t) ==
  /\ pc[t] = "join_check"
  /\ stateMutex = None
  /\ state # "ShuttingDown" \/ t \in Workers
  /\ JoinReturns(t)
  /\ UNCHANGED <<queueVars, state, mode, stop, stateMutex, task, taskVars>>

JoinWaits(t) ==
  /\ pc[t] = "join_check"
  /\ stateMutex = None
  /\ state = "ShuttingDown" /\ t \notin Workers
  /\ Goes(t, "join_wait")
  /\ UNCHANGED <<queueVars, poolVars, mutexVars, localVars, taskVars>>

\* Mutant: join is content with the first worker that has ended.
JoinCollectsOne(t) ==
  /\ pc[t] = "join_wait"
  /\ \E w \in Workers : pc[w] = "exited"
  /\ Goes(t, "join_done")
  /\ UNCHANGED <<queueVars, poolVars, mutexVars, localVars, taskVars>>

JoinCollects(t) ==
  /\ pc[t] = "join_wait"
  /\ \A w \in Workers : pc[w] = "exited"
  /\ Goes(t, "join_done")
  /\ UNCHANGED <<queueVars, poolVars, mutexVars, localVars, taskVars>>

JoinFinishes(t) ==
  /\ pc[t] = "join_done"
  /\ stateMutex = None
  /\ state' = "Joined"
  /\ JoinReturns(t)
  /\ UNCHANGED <<queueVars, mode, stop, stateMutex, task, taskVars>>
-----------------------------------------------------------------------------
\* ~ThreadPool: shutdown(Drain), then join.  The object's lifetime ends, so
\* no other caller may be inside an operation; tasks may.
Destroy(t) ==
  /\ t \in Callers
  /\ phase = "open"
  /\ \A u \in Callers : pc[u] = "idle"
  /\ phase' = "destroying"
  /\ op' = [op EXCEPT ![t] = "destroy"]
  /\ Goes(t, "shutdown")
  /\ UNCHANGED <<queueVars, state, mode, stop, mutexVars, task, taskVars>>

Wakes(t) ==
  /\ WakesAlone(t)
  /\ UNCHANGED <<poolVars, mutexVars, pc, localVars, taskVars>>
-----------------------------------------------------------------------------
\* The steps of the creating thread.
CreateStep ==
  \/ \E w \in Workers : StartWorker(w)
  \/ CreateReturns \/ CreateFails \/ CreateFailNotifies \/ CreateFailed

\* The steps thread t takes inside an operation.
OpStep(t) ==
  \/ CheckRunning(t) \/ SubmitFails(t) \/ SubmitBlocks(t)
  \/ SubmitAccepted(t) \/ SubmitNotifies(t)
  \/ ShutdownDecides(t) \/ ShutdownNothing(t) \/ ShutdownCloses(t)
  \/ ShutdownDrains(t) \/ ShutdownTakes(t) \/ ShutdownWakes(t)
  \/ ShutdownStops(t) \/ CancelTask(t) \/ CancelReturns(t)
  \/ JoinLocks(t) \/ JoinRefused(t) \/ JoinWaits(t) \/ JoinCollects(t)
  \/ JoinFinishes(t)

WorkerStep(w) ==
  \/ WorkerPops(w) \/ WorkerNotifies(w) \/ WorkerBlocks(w) \/ WorkerExits(w)
  \/ TaskEnds(w)

Call(t) ==
  \/ \E o \in SubmitOps, x \in Tasks : Submit(t, o, x)
  \/ \E m \in Modes : Shutdown(t, m)
  \/ Join(t)
  \/ Destroy(t)

\* The system rests when the pool object is gone, or was never created.
Done == phase \in {"failed", "destroyed"} /\ UNCHANGED vars

Next ==
  \/ CreateStep
  \/ \E t \in Threads : Call(t) \/ OpStep(t) \/ Wakes(t)
  \/ \E w \in Workers : WorkerStep(w)
  \/ Done

Spec == Init /\ [][Next]_vars

\* A thread that has a step to take inside the pool takes one, as the
\* scheduler runs every thread.  The body of a task terminates, whatever
\* operations it calls on the way.
Fairness ==
  /\ WF_vars(CreateStep)
  /\ \A t \in Threads : WF_vars(OpStep(t))
  /\ \A w \in Workers : WF_vars(WorkerStep(w)) /\ SF_vars(TaskEnds(w))

FairSpec == Spec /\ Fairness
-----------------------------------------------------------------------------
CallPcs == {"idle", "check", "push", "notify_empty", "shutdown", "close",
            "close_notify", "close_and_take", "take_notify", "request_stop",
            "cancel", "join", "join_check", "join_wait", "join_done"}
WorkerPcs == {"unstarted", "pop", "notify_full", "running", "exited"}

\* The pool, the queue, the mutexes, the threads and the futures hold values
\* of their types; in particular only submitted tasks are queued or run.
TypeOK ==
  /\ items \in Seq(Tasks)
  /\ closed \in BOOLEAN
  /\ waitFull \subseteq Threads
  /\ waitEmpty \subseteq Workers
  /\ phase \in {"creating", "failing", "joining", "failed", "open",
                "destroying", "destroyed"}
  /\ state \in {"Running", "ShuttingDown", "Joined"}
  /\ mode \in Modes
  /\ stop \in BOOLEAN
  /\ stateMutex \in Threads \cup {None}
  /\ joinMutex \in Threads \cup {None}
  /\ pc \in [Threads -> CallPcs \cup WorkerPcs]
  /\ op \in [Threads -> SubmitOps \cup Modes \cup {"none", "join", "destroy"}]
  /\ task \in [Threads -> Tasks \cup {None}]
  /\ current \in [Workers -> Tasks \cup {None}]
  /\ pending \in [Threads -> Seq(Tasks)]
  /\ future \in [Tasks -> {"none", "promised", "value", "exception", "cancelled"}]

\* Where an accepted task may be.
Queued(x)     == \E i \in 1..Len(items) : items[i] = x
Held(x)       == \E w \in Workers : current[w] = x
Cancelling(x) == \E t \in Threads : \E i \in 1..Len(pending[t]) : pending[t][i] = x

\* An accepted task whose future is not completed yet is in the queue, with a
\* worker or in the list of a shutdown that is going to cancel it: no race of
\* submissions, workers and (upgraded) shutdowns drops it, which would break
\* its promise.
NothingDropped ==
  \A x \in Tasks :
    future[x] = "promised" => Queued(x) \/ Held(x) \/ Cancelling(x)

\* A task is in one of these places, once, and only until its future is
\* completed: no task is run twice, or run and cancelled.
OneOwner ==
  /\ \A x \in Tasks :
       Queued(x) \/ Held(x) \/ Cancelling(x) => future[x] = "promised"
  /\ \A x \in Tasks :
       /\ ~(Queued(x) /\ Held(x))
       /\ ~(Queued(x) /\ Cancelling(x))
       /\ ~(Held(x) /\ Cancelling(x))
  /\ \A i, j \in 1..Len(items) : items[i] = items[j] => i = j
  /\ \A v, w \in Workers : current[v] = current[w] /\ current[v] # None => v = w
  /\ \A t, u \in Threads :
       \A i \in 1..Len(pending[t]), j \in 1..Len(pending[u]) :
         pending[t][i] = pending[u][j] => t = u /\ i = j

\* "Close and take the queue first, then wake the running tasks, so that a
\* task that ends cannot grab a task to be cancelled" (shutdown): once stop is
\* requested the queue is closed and empty for good.
StopAfterTake == stop => closed /\ items = <<>>

\* When join has returned successfully no worker is left, the queue is empty,
\* and the only futures still open are the ones a concurrent
\* shutdown(CancelPending) is just cancelling.
JoinedIsQuiet ==
  state = "Joined" =>
    /\ \A w \in Workers : pc[w] = "exited"
    /\ items = <<>>
    /\ \A x \in Tasks : future[x] = "promised" => Cancelling(x)

\* Tasks are cancelled only when CancelPending was asked for; a pool that is
\* only ever drained runs every task it accepted.
DrainCancelsNothing ==
  mode = "Drain" =>
    \A x \in Tasks : future[x] # "cancelled" /\ ~Cancelling(x)

\* The destructor leaves no future open: it returns after the workers and
\* every cancellation are done.
DestroyedIsComplete ==
  phase = "destroyed" => \A x \in Tasks : future[x] # "promised"

\* What a submitter sees of a task.
TaskStatus(x) ==
  IF future[x] # "promised" THEN future[x]
  ELSE IF Held(x) THEN "started"
  ELSE IF Cancelling(x) THEN "withdrawn"
  ELSE "waiting"

Service ==
  INSTANCE PoolService WITH open <- ~closed, order <- items,
                            status <- [x \in Tasks |-> TaskStatus(x)]

\* The pool keeps the promise of PoolService: acceptance, start, completion
\* and cancellation as a submitter sees them, in FIFO order, whatever the
\* threads inside do.
ImplementsService == Service!Spec

\* Every accepted task's future is completed.
AcceptedIsCompleted ==
  \A x \in Tasks : future[x] = "promised" ~> future[x] # "promised"

\* A join that waits returns, and so do a submission that blocks, a create
\* that has failed (it joins the workers it started) and the destructor.
BlockedCallsReturn ==
  /\ \A t \in Callers : pc[t] \in {"join_wait", "push"} ~> pc[t] = "idle"
  /\ phase = "failing" ~> phase = "failed"
  /\ phase = "destroying" ~> phase = "destroyed"

\* Nobody waits for ever: futures are completed and blocked calls return.
MakesProgress == AcceptedIsCompleted /\ BlockedCallsReturn

\* A worker may not wait for join_mutex while its holder waits for the workers.
WorkerJoinNeverBlocks ==
  \A w \in Workers :
    pc[w] = "join" /\ joinMutex # None => pc[joinMutex] # "join_wait"
=============================================================================
