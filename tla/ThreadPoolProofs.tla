--------------------------- MODULE ThreadPoolProofs ---------------------------
(***************************************************************************)
(* Proofs about ThreadPool for any callers, workers, tasks and capacity.   *)
(*                                                                         *)
(* The properties are not inductive by themselves: they need to know which *)
(* program points hold which mutex, task or list (Control), and that a     *)
(* task being submitted belongs to one thread only and is not accepted yet *)
(* (Submitting), and who is inside while the pool is destroyed             *)
(* (Destroying).                                                           *)
(***************************************************************************)
EXTENDS ThreadPool, TLAPS

\* The program points of a shutdown that holds state_mutex.
LockedPcs == {"close", "close_notify", "close_and_take", "take_notify",
              "request_stop"}
\* The program points of a shutdown that cancels.
CancelPcs == {"close_and_take", "take_notify", "request_stop", "cancel"}

\* The program points of a submission that still owns its task.
SubmitControl ==
  \A t \in Threads : pc[t] \in {"check", "push"} <=> task[t] # None

\* A worker holds a task from the pop to the end of the task's body.
WorkerControl ==
  \A w \in Workers :
    current[w] = None <=> pc[w] \in {"unstarted", "pop", "exited"}

CallerControl == \A t \in Callers : pc[t] \in CallPcs

\* Only a thread inside shutdown's locked section holds state_mutex.
LockControl ==
  \A t \in Threads : stateMutex = t <=> pc[t] \in LockedPcs

\* Tasks are withdrawn only by a cancelling shutdown.
PendingControl ==
  /\ \A t \in Threads :
       pending[t] # <<>> => pc[t] \in CancelPcs \ {"close_and_take"}
  /\ \A t \in Threads : pc[t] \in CancelPcs => mode = "CancelPending"
  /\ state = "Running" => mode = "Drain"
  /\ mode = "Drain" => \A x \in Tasks : future[x] # "cancelled"

\* Facts that, once true, stay true: the queue is closed and empty.
DrainedControl ==
  /\ \A t \in Threads :
       pc[t] \in {"take_notify", "request_stop"} => closed /\ items = <<>>
  /\ \A w \in Workers : pc[w] = "exited" => closed /\ items = <<>>
  /\ StopAfterTake

\* join finds every worker gone, and they stay gone.
JoinControl ==
  /\ \A t \in Threads :
       pc[t] = "join_done" => \A w \in Workers : pc[w] = "exited"
  /\ state = "Joined" => \A w \in Workers : pc[w] = "exited"

Control ==
  /\ SubmitControl /\ WorkerControl /\ CallerControl /\ LockControl
  /\ PendingControl /\ DrainedControl /\ JoinControl

\* A task being submitted has no future yet and one submitter.
Submitting ==
  /\ \A t \in Threads : task[t] # None => future[task[t]] = "none"
  /\ \A t, u \in Threads : task[t] = task[u] /\ task[t] # None => t = u

-------------------------------------------------------------------------------
USE DEF Threads, SubmitOps, Modes, CallPcs, WorkerPcs

\* No action but the one of Next's disjuncts, spelled out once.
LEMMA NextSplit ==
  ASSUME [Next]_vars
  PROVE  \/ \E w \in Workers : StartWorker(w)
         \/ CreateReturns \/ CreateFails \/ CreateFailNotifies \/ CreateFailed
         \/ \E t \in Threads :
              \/ \E o \in SubmitOps, x \in Tasks : Submit(t, o, x)
              \/ \E m \in Modes : Shutdown(t, m)
              \/ Join(t) \/ Destroy(t)
              \/ CheckRunning(t) \/ SubmitFails(t) \/ SubmitBlocks(t)
              \/ SubmitAccepted(t) \/ SubmitNotifies(t)
              \/ ShutdownDecides(t) \/ ShutdownNothing(t) \/ ShutdownCloses(t)
              \/ ShutdownDrains(t) \/ ShutdownTakes(t) \/ ShutdownWakes(t)
              \/ ShutdownStops(t) \/ CancelTask(t) \/ CancelReturns(t)
              \/ JoinLocks(t) \/ JoinRefused(t) \/ JoinWaits(t)
              \/ JoinCollects(t) \/ JoinFinishes(t) \/ Wakes(t)
         \/ \E w \in Workers :
              \/ WorkerPops(w) \/ WorkerNotifies(w) \/ WorkerBlocks(w)
              \/ WorkerExits(w) \/ TaskEnds(w)
         \/ UNCHANGED vars
  BY DEF Next, CreateStep, Call, OpStep, WorkerStep, Done

\* Initially everything holds.
LEMMA InitTyped == Init => TypeOK /\ Control
<1> SUFFICES ASSUME Init PROVE TypeOK /\ Control
  OBVIOUS
<1>1. items \in Seq(Tasks) /\ pending \in [Threads -> Seq(Tasks)]
  BY DEF Init, QueueInit
<1>2. closed \in BOOLEAN /\ stop \in BOOLEAN
  BY DEF Init, QueueInit
<1>3. pc \in [Threads -> CallPcs \cup WorkerPcs]
  BY DEF Init
<1>4. TypeOK
  BY <1>1, <1>2, <1>3 DEF Init, QueueInit, TypeOK
<1>5. Control
  BY ThreadsAssumption DEF Init, QueueInit, Control, SubmitControl, WorkerControl,
     CallerControl, LockControl, PendingControl, DrainedControl, JoinControl,
     StopAfterTake, LockedPcs, CancelPcs
<1>6. QED
  BY <1>4, <1>5

\* Every action preserves the types.
LEMMA TypeStep ==
  ASSUME TypeOK, Control, [Next]_vars
  PROVE  TypeOK'
<1> USE ThreadsAssumption DEF Goes, Returns, Home, vars, queueVars, poolVars,
        mutexVars, localVars, taskVars
<1>1. ASSUME NEW w \in Workers, StartWorker(w) PROVE TypeOK'
  BY <1>1 DEF StartWorker, TypeOK
<1>2. ASSUME CreateReturns PROVE TypeOK'
  BY <1>2 DEF CreateReturns, TypeOK
<1>3. ASSUME CreateFails PROVE TypeOK'
  BY <1>3 DEF CreateFails, CloseSection, TypeOK
<1>4. ASSUME CreateFailNotifies PROVE TypeOK'
  BY <1>4 DEF CreateFailNotifies, NotifyAll, TypeOK
<1>5. ASSUME CreateFailed PROVE TypeOK'
  BY <1>5 DEF CreateFailed, TypeOK
<1>6. ASSUME NEW t \in Threads, NEW o \in SubmitOps, NEW x \in Tasks, Submit(t, o, x)
      PROVE TypeOK'
  BY <1>6 DEF Submit, Calls, TypeOK
<1>7. ASSUME NEW t \in Threads, NEW m \in Modes, Shutdown(t, m) PROVE TypeOK'
  BY <1>7 DEF Shutdown, Calls, TypeOK
<1>8. ASSUME NEW t \in Threads, Join(t) PROVE TypeOK'
  BY <1>8 DEF Join, Calls, TypeOK
<1>9. ASSUME NEW t \in Threads, Destroy(t) PROVE TypeOK'
  BY <1>9 DEF Destroy, TypeOK
<1>10. ASSUME NEW t \in Threads, CheckRunning(t) PROVE TypeOK'
  BY <1>10 DEF CheckRunning, TypeOK
<1>11. ASSUME NEW t \in Threads, SubmitFails(t) PROVE TypeOK'
  BY <1>11 DEF SubmitFails, PushRefused, TryPushFull, PushTimesOut, HasRoom,
     TypeOK
<1>12. ASSUME NEW t \in Threads, SubmitBlocks(t) PROVE TypeOK'
  BY <1>12 DEF SubmitBlocks, PushWaits, TypeOK
<1>13. ASSUME NEW t \in Threads, SubmitAccepted(t) PROVE TypeOK'
  BY <1>13 DEF SubmitAccepted, PushAccepts, TypeOK, Control, SubmitControl
<1>14. ASSUME NEW t \in Threads, SubmitNotifies(t) PROVE TypeOK'
  BY <1>14 DEF SubmitNotifies, NotifyNotEmpty, TypeOK
<1>15. ASSUME NEW t \in Threads, ShutdownDecides(t) PROVE TypeOK'
  BY <1>15 DEF ShutdownDecides, Requested, TypeOK
<1>16. ASSUME NEW t \in Threads, ShutdownNothing(t) PROVE TypeOK'
  BY <1>16 DEF ShutdownNothing, AfterShutdown, TypeOK
<1>17. ASSUME NEW t \in Threads, ShutdownCloses(t) PROVE TypeOK'
  BY <1>17 DEF ShutdownCloses, CloseSection, TypeOK
<1>18. ASSUME NEW t \in Threads, ShutdownDrains(t) PROVE TypeOK'
  BY <1>18 DEF ShutdownDrains, NotifyAll, AfterShutdown, TypeOK
<1>19. ASSUME NEW t \in Threads, ShutdownTakes(t) PROVE TypeOK'
  BY <1>19 DEF ShutdownTakes, CloseAndTakeSection, TypeOK
<1>20. ASSUME NEW t \in Threads, ShutdownWakes(t) PROVE TypeOK'
  BY <1>20 DEF ShutdownWakes, NotifyAll, TypeOK
<1>21. ASSUME NEW t \in Threads, ShutdownStops(t) PROVE TypeOK'
  BY <1>21 DEF ShutdownStops, TypeOK
<1>22. ASSUME NEW t \in Threads, CancelTask(t) PROVE TypeOK'
  BY <1>22 DEF CancelTask, TypeOK
<1>23. ASSUME NEW t \in Threads, CancelReturns(t) PROVE TypeOK'
  BY <1>23 DEF CancelReturns, AfterShutdown, TypeOK
<1>24. ASSUME NEW t \in Threads, JoinLocks(t) PROVE TypeOK'
  BY <1>24 DEF JoinLocks, TypeOK
<1>25. ASSUME NEW t \in Threads, JoinRefused(t) PROVE TypeOK'
  BY <1>25 DEF JoinRefused, JoinReturns, TypeOK
<1>26. ASSUME NEW t \in Threads, JoinWaits(t) PROVE TypeOK'
  BY <1>26 DEF JoinWaits, TypeOK
<1>27. ASSUME NEW t \in Threads, JoinCollects(t) PROVE TypeOK'
  BY <1>27 DEF JoinCollects, TypeOK
<1>28. ASSUME NEW t \in Threads, JoinFinishes(t) PROVE TypeOK'
  BY <1>28 DEF JoinFinishes, JoinReturns, TypeOK
<1>29. ASSUME NEW t \in Threads, Wakes(t) PROVE TypeOK'
  BY <1>29 DEF Wakes, WakesAlone, TypeOK
<1>30. ASSUME NEW w \in Workers, WorkerPops(w) PROVE TypeOK'
  BY <1>30 DEF WorkerPops, PopTakes, TypeOK
<1>31. ASSUME NEW w \in Workers, WorkerNotifies(w) PROVE TypeOK'
  BY <1>31 DEF WorkerNotifies, NotifyNotFull, TypeOK
<1>32. ASSUME NEW w \in Workers, WorkerBlocks(w) PROVE TypeOK'
  BY <1>32 DEF WorkerBlocks, PopWaits, TypeOK
<1>33. ASSUME NEW w \in Workers, WorkerExits(w) PROVE TypeOK'
  BY <1>33 DEF WorkerExits, PopEnds, TypeOK
<1>34. ASSUME NEW w \in Workers, TaskEnds(w) PROVE TypeOK'
  <2>1. PICK r \in {"value", "exception"} :
          future' = [future EXCEPT ![current[w]] = r]
    BY <1>34 DEF TaskEnds
  <2>2. current[w] \in Tasks
    BY <1>34 DEF TaskEnds, TypeOK, Control, WorkerControl
  <2>3. QED
    BY <1>34, <2>1, <2>2 DEF TaskEnds, TypeOK
<1>35. ASSUME UNCHANGED vars PROVE TypeOK'
  BY <1>35 DEF TypeOK
<1> HIDE DEF Goes, Returns, Home, vars, queueVars, poolVars, mutexVars,
         localVars, taskVars
<1>36. QED
  BY NextSplit, <1>1, <1>2, <1>3, <1>4, <1>5, <1>6, <1>7, <1>8, <1>9, <1>10,
     <1>11, <1>12, <1>13, <1>14, <1>15, <1>16, <1>17, <1>18, <1>19, <1>20,
     <1>21, <1>22, <1>23, <1>24, <1>25, <1>26, <1>27, <1>28, <1>29, <1>30,
     <1>31, <1>32, <1>33, <1>34, <1>35

\* Every action preserves the control invariant.
LEMMA ControlStep ==
  ASSUME TypeOK, Control, [Next]_vars
  PROVE  Control'
<1> USE ThreadsAssumption DEF Goes, Returns, Home, vars, queueVars, poolVars,
        mutexVars, localVars, taskVars, TypeOK, Control, SubmitControl,
        WorkerControl, CallerControl, LockControl, PendingControl,
        DrainedControl, JoinControl, StopAfterTake, LockedPcs, CancelPcs
<1>1. ASSUME NEW w \in Workers, StartWorker(w) PROVE Control'
  BY <1>1 DEF StartWorker
<1>2. ASSUME CreateReturns PROVE Control'
  BY <1>2 DEF CreateReturns
<1>3. ASSUME CreateFails PROVE Control'
  BY <1>3 DEF CreateFails, CloseSection
<1>4. ASSUME CreateFailNotifies PROVE Control'
  BY <1>4 DEF CreateFailNotifies, NotifyAll
<1>5. ASSUME CreateFailed PROVE Control'
  BY <1>5 DEF CreateFailed
<1>6. ASSUME NEW t \in Threads, NEW o \in SubmitOps, NEW x \in Tasks, Submit(t, o, x)
      PROVE Control'
  BY <1>6 DEF Submit, Calls
<1>7. ASSUME NEW t \in Threads, NEW m \in Modes, Shutdown(t, m) PROVE Control'
  BY <1>7 DEF Shutdown, Calls
<1>8. ASSUME NEW t \in Threads, Join(t) PROVE Control'
  BY <1>8 DEF Join, Calls
<1>9. ASSUME NEW t \in Threads, Destroy(t) PROVE Control'
  BY <1>9 DEF Destroy
<1>10. ASSUME NEW t \in Threads, CheckRunning(t) PROVE Control'
  BY <1>10 DEF CheckRunning
<1>11. ASSUME NEW t \in Threads, SubmitFails(t) PROVE Control'
  BY <1>11 DEF SubmitFails, PushRefused, TryPushFull, PushTimesOut, HasRoom
<1>12. ASSUME NEW t \in Threads, SubmitBlocks(t) PROVE Control'
  BY <1>12 DEF SubmitBlocks, PushWaits
<1>13. ASSUME NEW t \in Threads, SubmitAccepted(t) PROVE Control'
  BY <1>13, SMTT(30) DEF SubmitAccepted, PushAccepts
<1>14. ASSUME NEW t \in Threads, SubmitNotifies(t) PROVE Control'
  BY <1>14 DEF SubmitNotifies, NotifyNotEmpty
<1>15. ASSUME NEW t \in Threads, ShutdownDecides(t) PROVE Control'
  BY <1>15 DEF ShutdownDecides, Requested, Effective
<1>16. ASSUME NEW t \in Threads, ShutdownNothing(t) PROVE Control'
  <2>1. PICK l \in {"join", "idle", "running"} :
          pc' = [pc EXCEPT ![t] = l] /\ (t \in Callers => l # "running")
    BY <1>16 DEF ShutdownNothing, AfterShutdown
  <2>2. QED
    BY <1>16, <2>1 DEF ShutdownNothing
<1>17. ASSUME NEW t \in Threads, ShutdownCloses(t) PROVE Control'
  BY <1>17 DEF ShutdownCloses, CloseSection
<1>18. ASSUME NEW t \in Threads, ShutdownDrains(t) PROVE Control'
  <2>1. PICK l \in {"join", "idle", "running"} :
          pc' = [pc EXCEPT ![t] = l] /\ (t \in Callers => l # "running")
    BY <1>18 DEF ShutdownDrains, NotifyAll, AfterShutdown
  <2>2. QED
    BY <1>18, <2>1 DEF ShutdownDrains, NotifyAll
<1>19. ASSUME NEW t \in Threads, ShutdownTakes(t) PROVE Control'
  BY <1>19, ZenonT(30) DEF ShutdownTakes, CloseAndTakeSection
<1>20. ASSUME NEW t \in Threads, ShutdownWakes(t) PROVE Control'
  BY <1>20 DEF ShutdownWakes, NotifyAll
<1>21. ASSUME NEW t \in Threads, ShutdownStops(t) PROVE Control'
  BY <1>21 DEF ShutdownStops
<1>22. ASSUME NEW t \in Threads, CancelTask(t) PROVE Control'
  BY <1>22 DEF CancelTask
<1>23. ASSUME NEW t \in Threads, CancelReturns(t) PROVE Control'
  <2>1. PICK l \in {"join", "idle", "running"} :
          pc' = [pc EXCEPT ![t] = l] /\ (t \in Callers => l # "running")
    BY <1>23 DEF CancelReturns, AfterShutdown
  <2>2. QED
    BY <1>23, <2>1, SMTT(30) DEF CancelReturns
<1>24. ASSUME NEW t \in Threads, JoinLocks(t) PROVE Control'
  BY <1>24, ZenonT(30) DEF JoinLocks
<1>25. ASSUME NEW t \in Threads, JoinRefused(t) PROVE Control'
  <2>1. PICK l \in {"join", "idle", "running"} :
          pc' = [pc EXCEPT ![t] = l] /\ (t \in Callers => l # "running")
    BY <1>25 DEF JoinRefused, JoinReturns
  <2>2. QED
    BY <1>25, <2>1 DEF JoinRefused, JoinReturns
<1>26. ASSUME NEW t \in Threads, JoinWaits(t) PROVE Control'
  BY <1>26, SMTT(30) DEF JoinWaits
<1>27. ASSUME NEW t \in Threads, JoinCollects(t) PROVE Control'
  BY <1>27 DEF JoinCollects
<1>28. ASSUME NEW t \in Threads, JoinFinishes(t) PROVE Control'
  BY <1>28 DEF JoinFinishes, JoinReturns
<1>29. ASSUME NEW t \in Threads, Wakes(t) PROVE Control'
  BY <1>29 DEF Wakes, WakesAlone
<1>30. ASSUME NEW w \in Workers, WorkerPops(w) PROVE Control'
  BY <1>30 DEF WorkerPops, PopTakes
<1>31. ASSUME NEW w \in Workers, WorkerNotifies(w) PROVE Control'
  BY <1>31 DEF WorkerNotifies, NotifyNotFull
<1>32. ASSUME NEW w \in Workers, WorkerBlocks(w) PROVE Control'
  BY <1>32 DEF WorkerBlocks, PopWaits
<1>33. ASSUME NEW w \in Workers, WorkerExits(w) PROVE Control'
  BY <1>33 DEF WorkerExits, PopEnds
<1>34. ASSUME NEW w \in Workers, TaskEnds(w) PROVE Control'
  BY <1>34 DEF TaskEnds
<1>35. ASSUME UNCHANGED vars PROVE Control'
  BY <1>35
<1> HIDE DEF Goes, Returns, Home, vars, queueVars, poolVars, mutexVars,
         localVars, taskVars, TypeOK, Control, SubmitControl, WorkerControl,
         CallerControl, LockControl, PendingControl, DrainedControl,
         JoinControl, StopAfterTake, LockedPcs, CancelPcs
<1>36. QED
  BY NextSplit, <1>1, <1>2, <1>3, <1>4, <1>5, <1>6, <1>7, <1>8, <1>9, <1>10,
     <1>11, <1>12, <1>13, <1>14, <1>15, <1>16, <1>17, <1>18, <1>19, <1>20,
     <1>21, <1>22, <1>23, <1>24, <1>25, <1>26, <1>27, <1>28, <1>29, <1>30,
     <1>31, <1>32, <1>33, <1>34, <1>35

\* The invariant of types and control.
LEMMA TypedControl == Spec => [](TypeOK /\ Control)
<1>1. TypeOK /\ Control /\ [Next]_vars => (TypeOK /\ Control)'
  BY TypeStep, ControlStep
<1>2. QED
  BY InitTyped, <1>1, PTL DEF Spec

\* The variables of ThreadPool always have their types.
THEOREM TypeCorrect == Spec => []TypeOK
  BY TypedControl, PTL

\* Once stop is requested the queue is closed and empty: shutdown takes the
\* pending tasks before it wakes the running ones.
THEOREM StopFollowsTake == Spec => []StopAfterTake
<1>1. TypeOK /\ Control => StopAfterTake
  BY DEF Control, DrainedControl
<1>2. QED
  BY TypedControl, <1>1, PTL

\* A pool that is only drained cancels no task.
THEOREM DrainKeepsTasks == Spec => []DrainCancelsNothing
<1>1. TypeOK /\ Control => DrainCancelsNothing
  <2> SUFFICES ASSUME TypeOK, Control, mode = "Drain", NEW x \in Tasks
               PROVE  future[x] # "cancelled" /\ ~Cancelling(x)
    BY DEF DrainCancelsNothing
  <2>1. \A t \in Threads : pending[t] = <<>>
    BY DEF Control, PendingControl, CancelPcs
  <2>2. ~Cancelling(x)
    BY <2>1 DEF Cancelling
  <2>3. QED
    BY <2>2 DEF Control, PendingControl
<1>2. QED
  BY TypedControl, <1>1, PTL
-------------------------------------------------------------------------------
(* Every accepted task has one owner until its future is completed.        *)

Owner == NothingDropped /\ OneOwner /\ Submitting

\* What Append and Tail do to a sequence, position by position.
LEMMA AppendAt ==
  ASSUME NEW S, NEW s \in Seq(S), NEW e \in S
  PROVE  /\ Append(s, e) \in Seq(S)
         /\ Len(Append(s, e)) = Len(s) + 1
         /\ \A i \in 1..Len(s) : Append(s, e)[i] = s[i]
         /\ Append(s, e)[Len(s) + 1] = e
  OBVIOUS

LEMMA TailAt ==
  ASSUME NEW S, NEW s \in Seq(S), s # <<>>
  PROVE  /\ Tail(s) \in Seq(S)
         /\ Len(s) \in Nat /\ Len(s) >= 1
         /\ Len(Tail(s)) = Len(s) - 1
         /\ \A i \in 1..(Len(s) - 1) : Tail(s)[i] = s[i + 1]
         /\ Head(s) = s[1] /\ Head(s) \in S
  OBVIOUS

\* What a step that touches no task, list or queue leaves alone.
LEMMA OwnerQuiet ==
  ASSUME Owner, UNCHANGED <<items, task, current, pending, future>>
  PROVE  Owner'
  BY DEF Owner, NothingDropped, OneOwner, Submitting, Queued, Held, Cancelling

\* A submission begins: a fresh task gets its one submitter.
LEMMA OwnerSubmit ==
  ASSUME TypeOK, Owner, NEW t \in Threads, NEW o \in SubmitOps, NEW x \in Tasks,
         Submit(t, o, x)
  PROVE  Owner'
<1>1. NothingDropped' /\ OneOwner'
  BY DEF Submit, Owner, NothingDropped, OneOwner, Queued, Held, Cancelling,
     taskVars, queueVars
<1>2. Submitting'
  BY DEF Submit, Owner, Submitting, TypeOK, taskVars
<1>3. QED
  BY <1>1, <1>2 DEF Owner

\* A submission fails: its task is nobody's again.
LEMMA OwnerSubmitFails ==
  ASSUME TypeOK, Owner, NEW t \in Threads, SubmitFails(t)
  PROVE  Owner'
<1>1. UNCHANGED <<items, current, pending, future>>
  BY DEF SubmitFails, taskVars, queueVars, PushRefused, TryPushFull, PushTimesOut
<1>2. NothingDropped' /\ OneOwner'
  BY <1>1 DEF Owner, NothingDropped, OneOwner, Queued, Held, Cancelling
<1>3. Submitting'
  BY <1>1 DEF SubmitFails, Owner, Submitting, TypeOK
<1>4. QED
  BY <1>2, <1>3 DEF Owner

\* The task moves from its submitter to the end of the queue.
LEMMA OwnerAccepted ==
  ASSUME TypeOK, Control, Owner, NEW t \in Threads, SubmitAccepted(t)
  PROVE  Owner'
<1> DEFINE x == task[t]
<1>1. /\ x \in Tasks /\ x # None /\ future[x] = "none"
      /\ items' = Append(items, x) /\ UNCHANGED <<current, pending>>
      /\ future' = [future EXCEPT ![x] = "promised"]
      /\ task' = [task EXCEPT ![t] = None]
  BY ThreadsAssumption DEF SubmitAccepted, PushAccepts, TypeOK, Control,
     SubmitControl, Owner, Submitting
<1>2. ~Queued(x) /\ ~Held(x) /\ ~Cancelling(x)
  BY <1>1 DEF Owner, OneOwner
<1>3. /\ Len(items') = Len(items) + 1 /\ Len(items) \in Nat
      /\ \A i \in 1..Len(items) : items'[i] = items[i]
      /\ items'[Len(items) + 1] = x
  BY <1>1, AppendAt DEF TypeOK
<1>4. \A y \in Tasks : Queued(y)' <=> Queued(y) \/ y = x
  BY <1>3 DEF Queued
<1>5. \A y \in Tasks : (Held(y)' <=> Held(y)) /\ (Cancelling(y)' <=> Cancelling(y))
  BY <1>1 DEF Held, Cancelling
<1>6. NothingDropped'
  BY <1>1, <1>4, <1>5 DEF Owner, NothingDropped, TypeOK
<1>7. OneOwner'
  <2>1. \A y \in Tasks : Queued(y)' \/ Held(y)' \/ Cancelling(y)' => future'[y] = "promised"
    BY <1>1, <1>4, <1>5 DEF Owner, OneOwner, TypeOK
  <2>2. \A y \in Tasks : /\ ~(Queued(y)' /\ Held(y)')
                         /\ ~(Queued(y)' /\ Cancelling(y)')
                         /\ ~(Held(y)' /\ Cancelling(y)')
    BY <1>2, <1>4, <1>5 DEF Owner, OneOwner
  <2>3. \A i, j \in 1..Len(items') : items'[i] = items'[j] => i = j
    BY <1>2, <1>3 DEF Owner, OneOwner, Queued
  <2>4. QED
    BY <1>1, <2>1, <2>2, <2>3 DEF Owner, OneOwner
<1>8. Submitting'
  BY <1>1 DEF Owner, Submitting, TypeOK
<1>9. QED
  BY <1>6, <1>7, <1>8 DEF Owner

\* The oldest task moves from the queue to a worker that held none.
LEMMA OwnerPops ==
  ASSUME TypeOK, Control, Owner, NEW w \in Workers, WorkerPops(w)
  PROVE  Owner'
<1> DEFINE x == Head(items)
<1>1. /\ items # <<>> /\ items' = Tail(items)
      /\ UNCHANGED <<task, pending, future>>
      /\ current' = [current EXCEPT ![w] = x] /\ current[w] = None
  BY DEF WorkerPops, PopTakes, localVars, Control, WorkerControl
<1>2. /\ Len(items) \in Nat /\ Len(items) >= 1
      /\ Len(items') = Len(items) - 1
      /\ \A i \in 1..(Len(items) - 1) : items'[i] = items[i + 1]
      /\ x = items[1] /\ x \in Tasks /\ x # None
  BY <1>1, TailAt, ThreadsAssumption DEF TypeOK
<1>3. \A y \in Tasks : Queued(y)' => Queued(y) /\ y # x
  BY <1>2 DEF Queued, Owner, OneOwner
<1>4. \A y \in Tasks : Queued(y) => Queued(y)' \/ y = x
  <2> SUFFICES ASSUME NEW y \in Tasks, NEW i \in 1..Len(items), items[i] = y, y # x
               PROVE  Queued(y)'
    BY DEF Queued
  <2>1. i - 1 \in 1..Len(items') /\ items'[i - 1] = y
    BY <1>2
  <2>2. QED
    BY <2>1 DEF Queued
<1>5. Queued(x)
  BY <1>2 DEF Queued
<1>6. \A y \in Tasks : (Held(y)' <=> Held(y) \/ y = x) /\ (Cancelling(y)' <=> Cancelling(y))
  BY <1>1, <1>2, ThreadsAssumption DEF Held, Cancelling, TypeOK
<1>7. NothingDropped'
  BY <1>1, <1>4, <1>6 DEF Owner, NothingDropped
<1>8. OneOwner'
  <2>1. \A y \in Tasks : Queued(y)' \/ Held(y)' \/ Cancelling(y)' => future'[y] = "promised"
    BY <1>1, <1>3, <1>5, <1>6 DEF Owner, OneOwner
  <2>2. \A y \in Tasks : /\ ~(Queued(y)' /\ Held(y)')
                         /\ ~(Queued(y)' /\ Cancelling(y)')
                         /\ ~(Held(y)' /\ Cancelling(y)')
    BY <1>3, <1>5, <1>6 DEF Owner, OneOwner
  <2>3. \A i, j \in 1..Len(items') : items'[i] = items'[j] => i = j
    BY <1>2 DEF Owner, OneOwner
  <2>4. \A u, v \in Workers : current'[u] = current'[v] /\ current'[u] # None => u = v
    <3>1. ~Held(x)
      BY <1>2, <1>5 DEF Owner, OneOwner
    <3>2. QED
      BY <1>1, <3>1 DEF Owner, OneOwner, Held, TypeOK
  <2>5. QED
    BY <1>1, <2>1, <2>2, <2>3, <2>4 DEF OneOwner, Owner
<1>9. Submitting'
  BY <1>1 DEF Owner, Submitting
<1>10. QED
  BY <1>7, <1>8, <1>9 DEF Owner

\* The task's body ends: its future is completed and the worker lets it go.
LEMMA OwnerTaskEnds ==
  ASSUME TypeOK, Control, Owner, NEW w \in Workers, TaskEnds(w)
  PROVE  Owner'
<1> DEFINE x == current[w]
<1>1. PICK r \in {"value", "exception"} : future' = [future EXCEPT ![x] = r]
  BY DEF TaskEnds
<1>2. /\ x \in Tasks /\ x # None
      /\ UNCHANGED <<items, task, pending>>
      /\ current' = [current EXCEPT ![w] = None]
  BY DEF TaskEnds, queueVars, localVars, TypeOK, Control, WorkerControl
<1>3. Held(x) /\ ~Queued(x) /\ ~Cancelling(x) /\ future[x] = "promised"
  BY <1>2 DEF Held, Owner, OneOwner
<1>4. \A y \in Tasks : /\ Queued(y)' <=> Queued(y)
                       /\ Cancelling(y)' <=> Cancelling(y)
  BY <1>2 DEF Queued, Cancelling
<1>5. \A y \in Tasks : Held(y)' <=> Held(y) /\ y # x
  BY <1>2, ThreadsAssumption DEF Held, TypeOK, Owner, OneOwner
<1>6. NothingDropped'
  BY <1>1, <1>2, <1>4, <1>5 DEF Owner, NothingDropped, TypeOK
<1>7. OneOwner'
  <2>1. \A y \in Tasks : Queued(y)' \/ Held(y)' \/ Cancelling(y)' => future'[y] = "promised"
    BY <1>1, <1>2, <1>3, <1>4, <1>5 DEF Owner, OneOwner, TypeOK
  <2>2. \A y \in Tasks : /\ ~(Queued(y)' /\ Held(y)')
                         /\ ~(Queued(y)' /\ Cancelling(y)')
                         /\ ~(Held(y)' /\ Cancelling(y)')
    BY <1>4, <1>5 DEF Owner, OneOwner
  <2>3. \A u, v \in Workers : current'[u] = current'[v] /\ current'[u] # None => u = v
    BY <1>2 DEF Owner, OneOwner, TypeOK
  <2>4. QED
    BY <1>2, <2>1, <2>2, <2>3 DEF OneOwner, Owner
<1>8. Submitting'
  BY <1>1, <1>2, <1>3 DEF Owner, Submitting, TypeOK
<1>9. QED
  BY <1>6, <1>7, <1>8 DEF Owner

\* A cancelling shutdown takes the whole queue into its own, empty, list.
LEMMA OwnerTakes ==
  ASSUME TypeOK, Control, Owner, NEW t \in Threads, ShutdownTakes(t)
  PROVE  Owner'
<1>1. /\ items' = <<>> /\ UNCHANGED <<task, current, future>>
      /\ pending' = [pending EXCEPT ![t] = items]
      /\ pending[t] = <<>>
  BY DEF ShutdownTakes, CloseAndTakeSection, localVars, Control,
     PendingControl, CancelPcs
<1>2. Len(items') = 0 /\ Len(pending[t]) = 0
  BY <1>1
<1>3. \A y \in Tasks : ~Queued(y)' /\ (Held(y)' <=> Held(y))
  BY <1>1, <1>2 DEF Queued, Held
<1>4. \A y \in Tasks : Cancelling(y)' <=> Cancelling(y) \/ Queued(y)
  BY <1>1, <1>2 DEF Cancelling, Queued, TypeOK
<1>5. NothingDropped'
  BY <1>1, <1>3, <1>4 DEF Owner, NothingDropped
<1>6. OneOwner'
  <2>1. \A y \in Tasks : Queued(y)' \/ Held(y)' \/ Cancelling(y)' => future'[y] = "promised"
    BY <1>1, <1>3, <1>4 DEF Owner, OneOwner
  <2>2. \A y \in Tasks : /\ ~(Queued(y)' /\ Held(y)')
                         /\ ~(Queued(y)' /\ Cancelling(y)')
                         /\ ~(Held(y)' /\ Cancelling(y)')
    BY <1>3, <1>4 DEF Owner, OneOwner
  <2>3. \A u, v \in Threads :
          \A i \in 1..Len(pending'[u]), j \in 1..Len(pending'[v]) :
            pending'[u][i] = pending'[v][j] => u = v /\ i = j
    <3> SUFFICES ASSUME NEW u \in Threads, NEW v \in Threads,
                        NEW i \in 1..Len(pending'[u]), NEW j \in 1..Len(pending'[v]),
                        pending'[u][i] = pending'[v][j]
                 PROVE  u = v /\ i = j
      OBVIOUS
    <3>1. CASE u = t /\ v = t
      BY <1>1, <3>1 DEF Owner, OneOwner, TypeOK
    <3>2. CASE u # t /\ v # t
      BY <1>1, <3>2 DEF Owner, OneOwner, TypeOK
    <3>3. CASE u = t /\ v # t
      <4>1. i \in 1..Len(items) /\ j \in 1..Len(pending[v]) /\ items[i] = pending[v][j]
        BY <1>1, <3>3 DEF TypeOK
      <4>2. items[i] \in Tasks /\ Queued(items[i]) /\ Cancelling(items[i])
        BY <4>1 DEF Queued, Cancelling, TypeOK
      <4>3. QED
        BY <4>2 DEF Owner, OneOwner
    <3>4. CASE u # t /\ v = t
      <4>1. j \in 1..Len(items) /\ i \in 1..Len(pending[u]) /\ items[j] = pending[u][i]
        BY <1>1, <3>4 DEF TypeOK
      <4>2. items[j] \in Tasks /\ Queued(items[j]) /\ Cancelling(items[j])
        BY <4>1 DEF Queued, Cancelling, TypeOK
      <4>3. QED
        BY <4>2 DEF Owner, OneOwner
    <3>5. QED
      BY <3>1, <3>2, <3>3, <3>4
  <2>4. \A i, j \in 1..Len(items') : items'[i] = items'[j] => i = j
    BY <1>2
  <2>5. QED
    BY <1>1, <2>1, <2>2, <2>3, <2>4 DEF OneOwner, Owner
<1>7. Submitting'
  BY <1>1 DEF Owner, Submitting
<1>8. QED
  BY <1>5, <1>6, <1>7 DEF Owner

\* A withdrawn task is cancelled and leaves the list.
LEMMA OwnerCancels ==
  ASSUME TypeOK, Control, Owner, NEW t \in Threads, CancelTask(t)
  PROVE  Owner'
<1> DEFINE x == Head(pending[t])
<1>1. /\ pending[t] # <<>> /\ pending[t] \in Seq(Tasks)
      /\ UNCHANGED <<items, task, current>>
      /\ pending' = [pending EXCEPT ![t] = Tail(pending[t])]
      /\ future' = [future EXCEPT ![x] = "cancelled"]
  BY DEF CancelTask, queueVars, localVars, TypeOK
<1>2. /\ Len(pending[t]) \in Nat /\ Len(pending[t]) >= 1
      /\ Len(Tail(pending[t])) = Len(pending[t]) - 1
      /\ \A i \in 1..(Len(pending[t]) - 1) : Tail(pending[t])[i] = pending[t][i + 1]
      /\ x = pending[t][1] /\ x \in Tasks
  BY <1>1, TailAt
<1>3. pending'[t] = Tail(pending[t]) /\ \A u \in Threads \ {t} : pending'[u] = pending[u]
  BY <1>1 DEF TypeOK
<1>4. Cancelling(x) /\ ~Queued(x) /\ ~Held(x) /\ future[x] = "promised"
  <2>1. Cancelling(x)
    BY <1>2 DEF Cancelling
  <2>2. QED
    BY <1>2, <2>1 DEF Owner, OneOwner
<1>5. \A y \in Tasks : (Queued(y)' <=> Queued(y)) /\ (Held(y)' <=> Held(y))
  BY <1>1 DEF Queued, Held
<1>6. \A u \in Threads : \A i \in 1..Len(pending'[u]) :
        \E k \in 1..Len(pending[u]) :
          /\ pending'[u][i] = pending[u][k]
          /\ k = IF u = t THEN i + 1 ELSE i
  <2> SUFFICES ASSUME NEW u \in Threads, NEW i \in 1..Len(pending'[u])
               PROVE  \E k \in 1..Len(pending[u]) :
                        /\ pending'[u][i] = pending[u][k]
                        /\ k = IF u = t THEN i + 1 ELSE i
    OBVIOUS
  <2>1. CASE u = t
    <3>1. Len(pending'[u]) = Len(pending[t]) - 1
      BY <1>2, <1>3, <2>1
    <3>2. i \in 1..(Len(pending[t]) - 1) /\ i + 1 \in 1..Len(pending[t])
      BY <1>2, <3>1
    <3>3. pending'[u][i] = pending[u][i + 1]
      BY <1>2, <1>3, <2>1, <3>2
    <3>4. QED
      BY <2>1, <3>2, <3>3
  <2>2. CASE u # t
    BY <1>3, <2>2
  <2>3. QED
    BY <2>1, <2>2
<1>7. \A y \in Tasks : Cancelling(y)' => Cancelling(y) /\ y # x
  <2> SUFFICES ASSUME NEW y \in Tasks, NEW u \in Threads,
                      NEW i \in 1..Len(pending'[u]), pending'[u][i] = y
               PROVE  Cancelling(y) /\ y # x
    BY DEF Cancelling
  <2>1. PICK k \in 1..Len(pending[u]) :
          /\ pending'[u][i] = pending[u][k]
          /\ k = IF u = t THEN i + 1 ELSE i
    BY <1>6
  <2>2. Cancelling(y)
    BY <2>1 DEF Cancelling
  <2>3. ~(u = t /\ k = 1)
    BY <2>1
  <2>4. y # x
    BY <1>2, <2>1, <2>3 DEF Owner, OneOwner
  <2>5. QED
    BY <2>2, <2>4
<1>8. \A y \in Tasks : Cancelling(y) => Cancelling(y)' \/ y = x
  <2> SUFFICES ASSUME NEW y \in Tasks, NEW u \in Threads,
                      NEW k \in 1..Len(pending[u]), pending[u][k] = y, y # x
               PROVE  Cancelling(y)'
    BY DEF Cancelling
  <2>1. CASE u # t
    BY <1>3, <2>1 DEF Cancelling
  <2>2. CASE u = t
    <3>1. k - 1 \in 1..Len(pending'[t]) /\ pending'[t][k - 1] = y
      BY <1>2, <1>3, <2>2
    <3>2. QED
      BY <3>1 DEF Cancelling
  <2>3. QED
    BY <2>1, <2>2
<1>9. NothingDropped'
  BY <1>1, <1>2, <1>5, <1>8 DEF Owner, NothingDropped, TypeOK
<1>10. OneOwner'
  <2>1. \A y \in Tasks : Queued(y)' \/ Held(y)' \/ Cancelling(y)' => future'[y] = "promised"
    BY <1>1, <1>4, <1>5, <1>7 DEF Owner, OneOwner, TypeOK
  <2>2. \A y \in Tasks : /\ ~(Queued(y)' /\ Held(y)')
                         /\ ~(Queued(y)' /\ Cancelling(y)')
                         /\ ~(Held(y)' /\ Cancelling(y)')
    BY <1>5, <1>7 DEF Owner, OneOwner
  <2>3. \A u, v \in Threads :
          \A i \in 1..Len(pending'[u]), j \in 1..Len(pending'[v]) :
            pending'[u][i] = pending'[v][j] => u = v /\ i = j
    <3> SUFFICES ASSUME NEW u \in Threads, NEW v \in Threads,
                        NEW i \in 1..Len(pending'[u]), NEW j \in 1..Len(pending'[v]),
                        pending'[u][i] = pending'[v][j]
                 PROVE  u = v /\ i = j
      OBVIOUS
    <3>1. PICK k \in 1..Len(pending[u]) : /\ pending'[u][i] = pending[u][k]
                                          /\ k = IF u = t THEN i + 1 ELSE i
      BY <1>6
    <3>2. PICK l \in 1..Len(pending[v]) : /\ pending'[v][j] = pending[v][l]
                                          /\ l = IF v = t THEN j + 1 ELSE j
      BY <1>6
    <3>3. u = v /\ k = l
      <4>1. pending[u][k] = pending[v][l]
        BY <3>1, <3>2
      <4>2. QED
        BY <4>1 DEF Owner, OneOwner
    <3>4. QED
      BY <3>1, <3>2, <3>3
  <2>4. QED
    BY <1>1, <2>1, <2>2, <2>3 DEF OneOwner, Owner
<1>11. Submitting'
  BY <1>1, <1>4 DEF Owner, Submitting, TypeOK
<1>12. QED
  BY <1>9, <1>10, <1>11 DEF Owner

\* Every action preserves the ownership of tasks.
LEMMA OwnerStep ==
  ASSUME TypeOK, Control, Owner, [Next]_vars
  PROVE  Owner'
<1>1. CASE UNCHANGED <<items, task, current, pending, future>>
  BY <1>1, OwnerQuiet
<1>2. ASSUME NEW t \in Threads, NEW o \in SubmitOps, NEW x \in Tasks, Submit(t, o, x)
      PROVE  Owner'
  BY <1>2, OwnerSubmit
<1>3. ASSUME NEW t \in Threads, SubmitFails(t) PROVE Owner'
  BY <1>3, OwnerSubmitFails
<1>4. ASSUME NEW t \in Threads, SubmitAccepted(t) PROVE Owner'
  BY <1>4, OwnerAccepted
<1>5. ASSUME NEW w \in Workers, WorkerPops(w) PROVE Owner'
  BY <1>5, OwnerPops
<1>6. ASSUME NEW w \in Workers, TaskEnds(w) PROVE Owner'
  BY <1>6, OwnerTaskEnds
<1>7. ASSUME NEW t \in Threads, ShutdownTakes(t) PROVE Owner'
  BY <1>7, OwnerTakes
<1>8. ASSUME NEW t \in Threads, CancelTask(t) PROVE Owner'
  BY <1>8, OwnerCancels
<1>9. ASSUME NEW t \in Threads,
             \/ \E m \in Modes : Shutdown(t, m)
             \/ Join(t) \/ Destroy(t) \/ CheckRunning(t) \/ SubmitBlocks(t)
             \/ SubmitNotifies(t) \/ ShutdownDecides(t) \/ ShutdownNothing(t)
             \/ ShutdownCloses(t) \/ ShutdownDrains(t) \/ ShutdownWakes(t)
             \/ ShutdownStops(t) \/ CancelReturns(t) \/ JoinLocks(t)
             \/ JoinRefused(t) \/ JoinWaits(t) \/ JoinCollects(t)
             \/ JoinFinishes(t) \/ Wakes(t)
      PROVE  UNCHANGED <<items, task, current, pending, future>>
  BY <1>9 DEF Shutdown, Join, Destroy, CheckRunning, SubmitBlocks,
     SubmitNotifies, ShutdownDecides, ShutdownNothing, ShutdownCloses,
     ShutdownDrains, ShutdownWakes, ShutdownStops, CancelReturns, JoinLocks,
     JoinRefused, JoinWaits, JoinCollects, JoinFinishes, Wakes, PushWaits,
     NotifyNotEmpty, CloseSection, NotifyAll, WakesAlone, queueVars, localVars,
     taskVars
<1>10. ASSUME NEW w \in Workers,
              \/ StartWorker(w) \/ WorkerNotifies(w) \/ WorkerBlocks(w)
              \/ WorkerExits(w)
       PROVE  UNCHANGED <<items, task, current, pending, future>>
  BY <1>10 DEF StartWorker, WorkerNotifies, WorkerBlocks, WorkerExits,
     NotifyNotFull, PopWaits, PopEnds, queueVars, localVars, taskVars
<1>11. ASSUME \/ CreateReturns \/ CreateFails \/ CreateFailNotifies
              \/ CreateFailed \/ UNCHANGED vars
       PROVE  UNCHANGED <<items, task, current, pending, future>>
  BY <1>11 DEF CreateReturns, CreateFails, CreateFailNotifies, CreateFailed,
     CloseSection, NotifyAll, vars, queueVars, localVars, taskVars
<1>12. QED
  BY NextSplit, <1>1, <1>2, <1>3, <1>4, <1>5, <1>6, <1>7, <1>8, <1>9, <1>10,
     <1>11

\* The whole inductive invariant.
LEMMA Invariance == Spec => [](TypeOK /\ Control /\ Owner)
<1>1. Init => Owner
  <2> SUFFICES ASSUME Init PROVE Owner
    OBVIOUS
  <2>1. Len(items) = 0 /\ \A t \in Threads : Len(pending[t]) = 0
    BY DEF Init, QueueInit
  <2>2. \A x \in Tasks : ~Queued(x) /\ ~Held(x) /\ ~Cancelling(x)
    BY <2>1, ThreadsAssumption DEF Init, Queued, Held, Cancelling
  <2>3. NothingDropped /\ Submitting
    BY DEF Init, NothingDropped, Submitting
  <2>4. OneOwner
    BY <2>1, <2>2 DEF Init, OneOwner
  <2>5. QED
    BY <2>3, <2>4 DEF Owner
<1>2. TypeOK /\ Control /\ Owner /\ [Next]_vars => Owner'
  BY OwnerStep
<1>3. QED
  BY TypedControl, <1>1, <1>2, PTL DEF Spec

\* No accepted task is dropped: its promise is never broken.
THEOREM NoTaskDropped == Spec => []NothingDropped
  BY Invariance, PTL DEF Owner

\* No accepted task is run twice, or run and cancelled.
THEOREM TasksHaveOneOwner == Spec => []OneOwner
  BY Invariance, PTL DEF Owner

\* A pool whose join succeeded has no worker and no queued task left.
THEOREM JoinIsFinal == Spec => []JoinedIsQuiet
<1>1. TypeOK /\ Control /\ Owner => JoinedIsQuiet
  <2> SUFFICES ASSUME TypeOK, Control, Owner, state = "Joined"
               PROVE  /\ \A w \in Workers : pc[w] = "exited"
                      /\ items = <<>>
                      /\ \A x \in Tasks : future[x] = "promised" => Cancelling(x)
    BY DEF JoinedIsQuiet
  <2>1. \A w \in Workers : pc[w] = "exited" /\ current[w] = None
    BY DEF Control, JoinControl, WorkerControl
  <2>2. items = <<>>
    BY <2>1, ThreadsAssumption DEF Control, DrainedControl
  <2>3. \A x \in Tasks : ~Held(x) /\ ~Queued(x)
    BY <2>1, <2>2, ThreadsAssumption DEF Held, Queued
  <2>4. QED
    BY <2>1, <2>2, <2>3 DEF Owner, NothingDropped
<1>2. QED
  BY Invariance, <1>1, PTL
-------------------------------------------------------------------------------
(* The destructor: which caller is in it, and what it finds.               *)

\* While the pool is destroyed one caller is inside, the destructor's; from
\* its shutdown on the pool does not run any more, and when it is done the
\* pool is joined and nobody is inside.
Destroying ==
  /\ \A t \in Threads :
       op[t] = "destroy" => /\ t \in Callers
                            /\ phase = "destroying"
                            /\ pc[t] # "shutdown" => state # "Running"
  /\ \A t, u \in Threads : op[t] = "destroy" /\ op[u] = "destroy" => t = u
  /\ phase = "destroying" =>
       \A t \in Callers : pc[t] = "idle" \/ op[t] = "destroy"
  /\ phase = "destroyed" =>
       state = "Joined" /\ \A t \in Callers : pc[t] = "idle"

\* Every action preserves what is known of the destructor.
LEMMA DestroyingStep ==
  ASSUME TypeOK, Control, Destroying, [Next]_vars
  PROVE  Destroying'
<1> USE ThreadsAssumption DEF Goes, Returns, Home, vars, poolVars, mutexVars,
        localVars, TypeOK, Destroying
<1>1. ASSUME NEW w \in Workers, StartWorker(w) PROVE Destroying'
  BY <1>1 DEF StartWorker
<1>2. ASSUME CreateReturns PROVE Destroying'
  BY <1>2 DEF CreateReturns
<1>3. ASSUME CreateFails PROVE Destroying'
  BY <1>3 DEF CreateFails
<1>4. ASSUME CreateFailNotifies PROVE Destroying'
  BY <1>4 DEF CreateFailNotifies
<1>5. ASSUME CreateFailed PROVE Destroying'
  BY <1>5 DEF CreateFailed
<1>6. ASSUME NEW t \in Threads, NEW o \in SubmitOps, NEW x \in Tasks, Submit(t, o, x)
      PROVE Destroying'
  BY <1>6 DEF Submit, Calls
<1>7. ASSUME NEW t \in Threads, NEW m \in Modes, Shutdown(t, m) PROVE Destroying'
  BY <1>7 DEF Shutdown, Calls
<1>8. ASSUME NEW t \in Threads, Join(t) PROVE Destroying'
  BY <1>8 DEF Join, Calls
<1>9. ASSUME NEW t \in Threads, Destroy(t) PROVE Destroying'
  BY <1>9 DEF Destroy
<1>10. ASSUME NEW t \in Threads, CheckRunning(t) PROVE Destroying'
  BY <1>10 DEF CheckRunning
<1>11. ASSUME NEW t \in Threads, SubmitFails(t) PROVE Destroying'
  BY <1>11 DEF SubmitFails
<1>12. ASSUME NEW t \in Threads, SubmitBlocks(t) PROVE Destroying'
  BY <1>12 DEF SubmitBlocks
<1>13. ASSUME NEW t \in Threads, SubmitAccepted(t) PROVE Destroying'
  BY <1>13 DEF SubmitAccepted
<1>14. ASSUME NEW t \in Threads, SubmitNotifies(t) PROVE Destroying'
  BY <1>14 DEF SubmitNotifies
<1>15. ASSUME NEW t \in Threads, ShutdownDecides(t) PROVE Destroying'
  BY <1>15 DEF ShutdownDecides, Requested, Effective
<1>16. ASSUME NEW t \in Threads, ShutdownNothing(t) PROVE Destroying'
  BY <1>16 DEF ShutdownNothing, AfterShutdown, Effective
<1>17. ASSUME NEW t \in Threads, ShutdownCloses(t) PROVE Destroying'
  BY <1>17 DEF ShutdownCloses
<1>18. ASSUME NEW t \in Threads, ShutdownDrains(t) PROVE Destroying'
  BY <1>18 DEF ShutdownDrains, AfterShutdown
<1>19. ASSUME NEW t \in Threads, ShutdownTakes(t) PROVE Destroying'
  BY <1>19 DEF ShutdownTakes
<1>20. ASSUME NEW t \in Threads, ShutdownWakes(t) PROVE Destroying'
  BY <1>20 DEF ShutdownWakes
<1>21. ASSUME NEW t \in Threads, ShutdownStops(t) PROVE Destroying'
  BY <1>21 DEF ShutdownStops
<1>22. ASSUME NEW t \in Threads, CancelTask(t) PROVE Destroying'
  BY <1>22 DEF CancelTask
<1>23. ASSUME NEW t \in Threads, CancelReturns(t) PROVE Destroying'
  BY <1>23 DEF CancelReturns, AfterShutdown
<1>24. ASSUME NEW t \in Threads, JoinLocks(t) PROVE Destroying'
  BY <1>24 DEF JoinLocks
<1>25. ASSUME NEW t \in Threads, JoinRefused(t) PROVE Destroying'
  BY <1>25 DEF JoinRefused, JoinReturns
<1>26. ASSUME NEW t \in Threads, JoinWaits(t) PROVE Destroying'
  BY <1>26 DEF JoinWaits
<1>27. ASSUME NEW t \in Threads, JoinCollects(t) PROVE Destroying'
  BY <1>27 DEF JoinCollects
<1>28. ASSUME NEW t \in Threads, JoinFinishes(t) PROVE Destroying'
  BY <1>28 DEF JoinFinishes, JoinReturns
<1>29. ASSUME NEW t \in Threads, Wakes(t) PROVE Destroying'
  BY <1>29 DEF Wakes
<1>30. ASSUME NEW w \in Workers, WorkerPops(w) PROVE Destroying'
  BY <1>30 DEF WorkerPops
<1>31. ASSUME NEW w \in Workers, WorkerNotifies(w) PROVE Destroying'
  BY <1>31 DEF WorkerNotifies
<1>32. ASSUME NEW w \in Workers, WorkerBlocks(w) PROVE Destroying'
  BY <1>32 DEF WorkerBlocks
<1>33. ASSUME NEW w \in Workers, WorkerExits(w) PROVE Destroying'
  BY <1>33 DEF WorkerExits
<1>34. ASSUME NEW w \in Workers, TaskEnds(w) PROVE Destroying'
  BY <1>34 DEF TaskEnds
<1>35. ASSUME UNCHANGED vars PROVE Destroying'
  BY <1>35
<1> HIDE DEF Goes, Returns, Home, vars, poolVars, mutexVars, localVars,
         TypeOK, Destroying
<1>36. QED
  BY NextSplit, <1>1, <1>2, <1>3, <1>4, <1>5, <1>6, <1>7, <1>8, <1>9, <1>10,
     <1>11, <1>12, <1>13, <1>14, <1>15, <1>16, <1>17, <1>18, <1>19, <1>20,
     <1>21, <1>22, <1>23, <1>24, <1>25, <1>26, <1>27, <1>28, <1>29, <1>30,
     <1>31, <1>32, <1>33, <1>34, <1>35

\* The destructor leaves no future open: when it is done the pool is joined,
\* and the thread of every shutdown that could still be cancelling has left.
THEOREM DestructorIsComplete == Spec => []DestroyedIsComplete
<1>1. Init => Destroying
  BY DEF Init, Destroying
<1>2. TypeOK /\ Control /\ Destroying /\ [Next]_vars => Destroying'
  BY DestroyingStep
<1>3. TypeOK /\ Control /\ JoinedIsQuiet /\ Destroying => DestroyedIsComplete
  <2> SUFFICES ASSUME TypeOK, Control, JoinedIsQuiet, Destroying,
                      phase = "destroyed", NEW x \in Tasks, future[x] = "promised"
               PROVE  FALSE
    BY DEF DestroyedIsComplete
  <2>1. PICK t \in Threads : \E i \in 1..Len(pending[t]) : pending[t][i] = x
    BY DEF JoinedIsQuiet, Destroying, Cancelling
  <2>2. pending[t] # <<>>
    BY <2>1
  <2>3. pc[t] \in CancelPcs
    BY <2>2 DEF Control, PendingControl
  <2>4. pc[t] \in {"idle", "exited"}
    BY DEF Destroying, Control, JoinControl
  <2>5. QED
    BY <2>3, <2>4 DEF CancelPcs
<1>4. QED
  BY <1>1, <1>2, <1>3, TypedControl, JoinIsFinal, PTL DEF Spec
-------------------------------------------------------------------------------
(* The pool implements PoolService: every step of a thread is one step of  *)
(* the service, or none of the service's business.                         *)

\* What the submitter of task x sees, from where x is.
LEMMA StatusByPlace ==
  ASSUME Owner, NEW x \in Tasks
  PROVE  /\ future[x] # "promised" => TaskStatus(x) = future[x]
         /\ Held(x) => TaskStatus(x) = "started"
         /\ Cancelling(x) => TaskStatus(x) = "withdrawn"
         /\ Queued(x) => TaskStatus(x) = "waiting"
<1>1. Queued(x) \/ Held(x) \/ Cancelling(x) => future[x] = "promised"
  BY DEF Owner, OneOwner
<1>2. /\ ~(Queued(x) /\ Held(x))
      /\ ~(Queued(x) /\ Cancelling(x))
      /\ ~(Held(x) /\ Cancelling(x))
  BY DEF Owner, OneOwner
<1> HIDE DEF Queued, Held, Cancelling
<1>3. QED
  BY <1>1, <1>2 DEF TaskStatus

\* A step that moves no task and does not close the queue.
LEMMA ServiceQuiet ==
  ASSUME UNCHANGED <<items, closed, current, pending, future>>
  PROVE  UNCHANGED Service!vars
<1>1. \A x \in Tasks : (Held(x)' <=> Held(x)) /\ (Cancelling(x)' <=> Cancelling(x))
  BY DEF Held, Cancelling
<1>2. \A x \in Tasks : TaskStatus(x)' = TaskStatus(x)
  BY <1>1 DEF TaskStatus
<1>3. QED
  BY <1>2 DEF Service!vars

\* The queue is closed and no task moves.
LEMMA ServiceCloses ==
  ASSUME closed' = TRUE, UNCHANGED <<items, current, pending, future>>
  PROVE  Service!Close
<1>1. \A x \in Tasks : (Held(x)' <=> Held(x)) /\ (Cancelling(x)' <=> Cancelling(x))
  BY DEF Held, Cancelling
<1>2. \A x \in Tasks : TaskStatus(x)' = TaskStatus(x)
  BY <1>1 DEF TaskStatus
<1>3. QED
  BY <1>2 DEF Service!Close

\* A submission that is accepted is the service's Accept.
LEMMA ServiceAccepts ==
  ASSUME TypeOK, Control, Owner, NEW t \in Threads, SubmitAccepted(t)
  PROVE  Service!Accept(task[t])
<1>1. PICK x \in Tasks : x = task[t] /\ future[x] = "none"
  BY ThreadsAssumption DEF SubmitAccepted, TypeOK, Control, SubmitControl,
     Owner, Submitting
<1>2. /\ future[x] = "none"
      /\ closed = FALSE /\ UNCHANGED closed
      /\ items' = Append(items, x) /\ UNCHANGED <<current, pending>>
      /\ future' = [future EXCEPT ![x] = "promised"]
  BY <1>1 DEF SubmitAccepted, PushAccepts, TypeOK
<1>3. \A y \in Tasks : (Held(y)' <=> Held(y)) /\ (Cancelling(y)' <=> Cancelling(y))
  BY <1>2 DEF Held, Cancelling
<1>4. ~Held(x) /\ ~Cancelling(x)
  BY <1>2 DEF Owner, OneOwner
<1>5. TaskStatus(x) = "none" /\ TaskStatus(x)' = "waiting"
  BY <1>2, <1>3, <1>4 DEF TaskStatus, TypeOK
<1>6. \A y \in Tasks : y # x => TaskStatus(y)' = TaskStatus(y)
  BY <1>2, <1>3 DEF TaskStatus, TypeOK
<1>7. [y \in Tasks |-> TaskStatus(y)]'
        = [[y \in Tasks |-> TaskStatus(y)] EXCEPT ![x] = "waiting"]
  BY <1>5, <1>6
<1>8. QED
  BY <1>1, <1>2, <1>5, <1>7 DEF Service!Accept

\* A worker's pop is the service's Start.
LEMMA ServiceStarts ==
  ASSUME TypeOK, Control, Owner, NEW w \in Workers, WorkerPops(w)
  PROVE  Service!Start
<1>1. PICK x \in Tasks : x = Head(items)
  BY TailAt DEF WorkerPops, PopTakes, TypeOK
<1>2. /\ items # <<>> /\ items' = Tail(items)
      /\ UNCHANGED <<closed, pending, future>>
      /\ current' = [current EXCEPT ![w] = x] /\ current[w] = None
  BY <1>1 DEF WorkerPops, PopTakes, Control, WorkerControl
<1>3. Len(items) >= 1 /\ x = items[1] /\ x \in Tasks /\ Len(items) \in Nat
  BY <1>1, <1>2, TailAt DEF TypeOK
<1>4. Queued(x) /\ future[x] = "promised"
  BY <1>3 DEF Queued, Owner, OneOwner
<1>5. \A y \in Tasks : (Held(y)' <=> Held(y) \/ y = x) /\ (Cancelling(y)' <=> Cancelling(y))
  BY <1>2, <1>3, ThreadsAssumption DEF Held, Cancelling, TypeOK
<1>6. TaskStatus(x)' = "started"
  BY <1>2, <1>3, <1>4, <1>5 DEF TaskStatus
<1>7. \A y \in Tasks : y # x => TaskStatus(y)' = TaskStatus(y)
  BY <1>2, <1>5 DEF TaskStatus
<1>8. [y \in Tasks |-> TaskStatus(y)]'
        = [[y \in Tasks |-> TaskStatus(y)] EXCEPT ![x] = "started"]
  BY <1>3, <1>6, <1>7
<1>9. QED
  BY <1>1, <1>2, <1>8 DEF Service!Start

\* The end of a task's body is the service's Finish.
LEMMA ServiceFinishes ==
  ASSUME TypeOK, Control, Owner, NEW w \in Workers, TaskEnds(w)
  PROVE  \E x \in Tasks : Service!Finish(x)
<1>1. PICK x \in Tasks : x = current[w] /\ x # None
  BY DEF TaskEnds, TypeOK, Control, WorkerControl
<1>2. PICK r \in {"value", "exception"} : future' = [future EXCEPT ![x] = r]
  BY <1>1 DEF TaskEnds
<1>3. /\ UNCHANGED <<items, closed, pending>>
      /\ current' = [current EXCEPT ![w] = None]
  BY DEF TaskEnds, queueVars
<1>4. Held(x) /\ TaskStatus(x) = "started"
  BY <1>1, StatusByPlace DEF Held
<1>5. \A y \in Tasks : /\ y # x => (Held(y)' <=> Held(y))
                       /\ Cancelling(y)' <=> Cancelling(y)
  BY <1>1, <1>3, ThreadsAssumption DEF Held, Cancelling, TypeOK
<1>6. TaskStatus(x)' = r
  BY <1>2 DEF TaskStatus, TypeOK
<1>7. \A y \in Tasks : y # x => TaskStatus(y)' = TaskStatus(y)
  BY <1>2, <1>5 DEF TaskStatus, TypeOK
<1>8. [y \in Tasks |-> TaskStatus(y)]'
        = [[y \in Tasks |-> TaskStatus(y)] EXCEPT ![x] = r]
  BY <1>6, <1>7
<1>9. Service!Finish(x)
  BY <1>3, <1>4, <1>8 DEF Service!Finish
<1>10. QED
  BY <1>9

\* A cancelling shutdown's taking of the queue is the service's Withdraw.
LEMMA ServiceWithdraws ==
  ASSUME TypeOK, Control, Owner, NEW t \in Threads, ShutdownTakes(t)
  PROVE  Service!Withdraw
<1>1. /\ closed' = TRUE /\ items' = <<>> /\ UNCHANGED <<current, future>>
      /\ pending' = [pending EXCEPT ![t] = items]
      /\ pending[t] = <<>>
  BY DEF ShutdownTakes, CloseAndTakeSection, Control, PendingControl, CancelPcs
<1>2. \A y \in Tasks : Held(y)' <=> Held(y)
  BY <1>1 DEF Held
<1>3. \A y \in Tasks : Cancelling(y)' <=> Cancelling(y) \/ Queued(y)
  <2>1. Len(pending[t]) = 0
    BY <1>1
  <2>2. QED
    BY <1>1, <2>1 DEF Cancelling, Queued, TypeOK
<1>4. \A y \in Tasks : Queued(y) => TaskStatus(y)' = "withdrawn"
  <2> SUFFICES ASSUME NEW y \in Tasks, Queued(y)
               PROVE  TaskStatus(y)' = "withdrawn"
    OBVIOUS
  <2>1. future[y] = "promised" /\ ~Held(y)
    BY DEF Owner, OneOwner
  <2>2. QED
    BY <1>1, <1>2, <1>3, <2>1 DEF TaskStatus
<1>5. \A y \in Tasks : ~Queued(y) => TaskStatus(y)' = TaskStatus(y)
  BY <1>1, <1>2, <1>3 DEF TaskStatus
<1>6. [y \in Tasks |-> TaskStatus(y)]'
        = [y \in Tasks |-> IF \E i \in 1..Len(items) : items[i] = y
                             THEN "withdrawn"
                             ELSE [z \in Tasks |-> TaskStatus(z)][y]]
  BY <1>4, <1>5 DEF Queued
<1>7. QED
  BY <1>1, <1>6 DEF Service!Withdraw

\* The cancellation of a withdrawn task is the service's Cancel.
LEMMA ServiceCancels ==
  ASSUME TypeOK, Control, Owner, NEW t \in Threads, CancelTask(t)
  PROVE  \E x \in Tasks : Service!Cancel(x)
<1>1. PICK x \in Tasks : x = Head(pending[t])
  BY TailAt DEF CancelTask, TypeOK
<1>2. /\ pending[t] # <<>> /\ pending[t] \in Seq(Tasks)
      /\ UNCHANGED <<items, closed, current>>
      /\ pending' = [pending EXCEPT ![t] = Tail(pending[t])]
      /\ future' = [future EXCEPT ![x] = "cancelled"]
  BY <1>1 DEF CancelTask, queueVars, TypeOK
<1>3. /\ Len(pending[t]) \in Nat /\ Len(pending[t]) >= 1
      /\ Len(Tail(pending[t])) = Len(pending[t]) - 1
      /\ \A i \in 1..(Len(pending[t]) - 1) : Tail(pending[t])[i] = pending[t][i + 1]
      /\ x = pending[t][1]
  BY <1>1, <1>2, TailAt
<1>4. Cancelling(x) /\ TaskStatus(x) = "withdrawn"
  BY <1>3, StatusByPlace DEF Cancelling
<1>5. \A y \in Tasks : Held(y)' <=> Held(y)
  BY <1>2 DEF Held
<1>6. \A y \in Tasks : y # x => (Cancelling(y)' <=> Cancelling(y))
  <2> SUFFICES ASSUME NEW y \in Tasks, y # x
               PROVE  Cancelling(y)' <=> Cancelling(y)
    OBVIOUS
  <2>1. pending'[t] = Tail(pending[t]) /\ \A u \in Threads \ {t} : pending'[u] = pending[u]
    BY <1>2 DEF TypeOK
  <2>2. (\E i \in 1..Len(pending'[t]) : pending'[t][i] = y)
          <=> \E i \in 1..Len(pending[t]) : pending[t][i] = y
    <3>1. ASSUME NEW i \in 1..Len(pending'[t]), pending'[t][i] = y
          PROVE  i + 1 \in 1..Len(pending[t]) /\ pending[t][i + 1] = y
      BY <1>3, <2>1, <3>1
    <3>2. ASSUME NEW i \in 1..Len(pending[t]), pending[t][i] = y
          PROVE  i - 1 \in 1..Len(pending'[t]) /\ pending'[t][i - 1] = y
      BY <1>3, <2>1, <3>2
    <3>3. QED
      BY <3>1, <3>2
  <2>3. QED
    BY <2>1, <2>2 DEF Cancelling
<1>7. TaskStatus(x)' = "cancelled"
  BY <1>2, <1>3 DEF TaskStatus, TypeOK
<1>8. \A y \in Tasks : y # x => TaskStatus(y)' = TaskStatus(y)
  BY <1>2, <1>5, <1>6 DEF TaskStatus, TypeOK
<1>9. [y \in Tasks |-> TaskStatus(y)]'
        = [[y \in Tasks |-> TaskStatus(y)] EXCEPT ![x] = "cancelled"]
  BY <1>7, <1>8
<1>10. Service!Cancel(x)
  BY <1>2, <1>3, <1>4, <1>9 DEF Service!Cancel
<1>11. QED
  BY <1>10

\* Every step of the pool is a step of the service or leaves it alone.
LEMMA ServiceStep ==
  ASSUME TypeOK, Control, Owner, [Next]_vars
  PROVE  [Service!Next]_(Service!vars)
<1>1. CASE UNCHANGED <<items, closed, current, pending, future>>
  BY <1>1, ServiceQuiet
<1>2. ASSUME closed' = TRUE, UNCHANGED <<items, current, pending, future>>
      PROVE  Service!Next
  BY <1>2, ServiceCloses DEF Service!Next
<1>3. ASSUME NEW t \in Threads, SubmitAccepted(t) PROVE Service!Next
  <2>1. task[t] \in Tasks
    BY <1>3 DEF SubmitAccepted, TypeOK, Control, SubmitControl
  <2>2. QED
    BY <1>3, <2>1, ServiceAccepts DEF Service!Next
<1>4. ASSUME NEW w \in Workers, WorkerPops(w) PROVE Service!Next
  BY <1>4, ServiceStarts DEF Service!Next
<1>5. ASSUME NEW w \in Workers, TaskEnds(w) PROVE Service!Next
  BY <1>5, ServiceFinishes DEF Service!Next
<1>6. ASSUME NEW t \in Threads, ShutdownTakes(t) PROVE Service!Next
  BY <1>6, ServiceWithdraws DEF Service!Next
<1>7. ASSUME NEW t \in Threads, CancelTask(t) PROVE Service!Next
  BY <1>7, ServiceCancels DEF Service!Next
<1>8. ASSUME CreateFails \/ \E t \in Threads : ShutdownCloses(t)
      PROVE  closed' = TRUE /\ UNCHANGED <<items, current, pending, future>>
  BY <1>8 DEF CreateFails, ShutdownCloses, CloseSection, taskVars
<1>9. ASSUME NEW t \in Threads,
             \/ \E o \in SubmitOps, x \in Tasks : Submit(t, o, x)
             \/ \E m \in Modes : Shutdown(t, m)
             \/ Join(t) \/ Destroy(t) \/ CheckRunning(t) \/ SubmitFails(t)
             \/ SubmitBlocks(t) \/ SubmitNotifies(t) \/ ShutdownDecides(t)
             \/ ShutdownNothing(t) \/ ShutdownDrains(t) \/ ShutdownWakes(t)
             \/ ShutdownStops(t) \/ CancelReturns(t) \/ JoinLocks(t)
             \/ JoinRefused(t) \/ JoinWaits(t) \/ JoinCollects(t)
             \/ JoinFinishes(t) \/ Wakes(t)
      PROVE  UNCHANGED <<items, closed, current, pending, future>>
  BY <1>9 DEF Submit, Shutdown, Join, Destroy, CheckRunning, SubmitFails,
     SubmitBlocks, SubmitNotifies, ShutdownDecides, ShutdownNothing,
     ShutdownDrains, ShutdownWakes, ShutdownStops, CancelReturns, JoinLocks,
     JoinRefused, JoinWaits, JoinCollects, JoinFinishes, Wakes, PushRefused,
     TryPushFull, PushTimesOut, PushWaits, NotifyNotEmpty, NotifyAll,
     WakesAlone, queueVars, taskVars
<1>10. ASSUME NEW w \in Workers,
              StartWorker(w) \/ WorkerNotifies(w) \/ WorkerBlocks(w) \/ WorkerExits(w)
       PROVE  UNCHANGED <<items, closed, current, pending, future>>
  BY <1>10 DEF StartWorker, WorkerNotifies, WorkerBlocks, WorkerExits,
     NotifyNotFull, PopWaits, PopEnds, queueVars, taskVars
<1>11. ASSUME \/ CreateReturns \/ CreateFailNotifies \/ CreateFailed
              \/ UNCHANGED vars
       PROVE  UNCHANGED <<items, closed, current, pending, future>>
  BY <1>11 DEF CreateReturns, CreateFailNotifies, CreateFailed, NotifyAll,
     vars, queueVars, taskVars
<1>12. QED
  BY NextSplit, <1>1, <1>2, <1>3, <1>4, <1>5, <1>6, <1>7, <1>8, <1>9, <1>10,
     <1>11

\* The pool keeps the promise of PoolService: tasks start in the order of
\* acceptance, run once, and a cancellation withdraws at one point exactly the
\* tasks that have not started.
THEOREM PoolImplementsService == Spec => ImplementsService
<1>1. Init => Service!Init
  <2> SUFFICES ASSUME Init PROVE Service!Init
    OBVIOUS
  <2>1. \A x \in Tasks : future[x] = "none"
    BY DEF Init
  <2>2. \A x \in Tasks : TaskStatus(x) = "none"
    BY <2>1 DEF TaskStatus
  <2>3. QED
    BY <2>2 DEF Init, QueueInit, Service!Init
<1>2. TypeOK /\ Control /\ Owner /\ [Next]_vars => [Service!Next]_(Service!vars)
  BY ServiceStep
<1>3. QED
  BY <1>1, <1>2, Invariance, PTL DEF Spec, ImplementsService, Service!Spec
===============================================================================
