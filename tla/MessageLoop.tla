---------------------------- MODULE MessageLoop -----------------------------
(***************************************************************************)
(* MessageLoop (message_loop.cpp): one loop thread runs the tasks that any *)
(* thread posts, at once or after a delay; stop discards what has not      *)
(* started, stop_and_drain runs what is ready first.                       *)
(*                                                                         *)
(* The state mutex is held from the first to the last read of an action,   *)
(* so each critical section is one action; a notification sent after the   *)
(* unlock is a step of its own.  The loop thread is the only waiter on     *)
(* wakeup: woken says that it has been notified and has yet to look at its *)
(* predicate.  Time is counted in units of the shortest delay.             *)
(***************************************************************************)
EXTENDS Naturals, Sequences, FiniteSets, Functions

CONSTANTS
  Callers,              \* threads that use the loop
  Loop,                 \* the loop thread
  Tasks,                \* the tasks, each posted by one call
  Delays,               \* the delays of post_delay_task; zero for a negative one
  MaxTime,              \* bound: the clock stops here
  NestedOps,            \* what tasks may call on their own loop
  None                  \* nobody

ASSUME LoopAssumption == Loop \notin Callers /\ None \notin Callers \cup {Loop}
ASSUME TimeAssumption == MaxTime \in Nat /\ Delays \subseteq Nat

Threads == Callers \cup {Loop}

VARIABLES
  now,                  \* steady_clock
  ready,                \* tasks to run, in order
  delayed,              \* entries that are not due
  next_seq,             \* the number of the next entry
  phase,                \* Running, Stopping or Joined
  stop_mode,            \* Discard or Drain
  stop_requested,       \* of the shared stop token
  pc,                   \* where each thread is
  woken,                \* the waiting loop thread has been notified
  next_due,             \* what it waits for in wait_until
  join_mutex,           \* who holds it
  destroying,           \* the destructor has begun
  posted,               \* history: the tasks that post_task accepted, in order
  scheduled,            \* history: the entries that post_delay_task accepted
  refused,              \* history: the tasks that either refused
  ran                   \* history: the tasks that have started, in order

queueVars == <<ready, delayed, next_seq>>
stopVars == <<phase, stop_mode, stop_requested>>
joinVars == <<join_mutex, destroying>>
history == <<posted, scheduled, refused, ran>>
vars == <<now, queueVars, stopVars, pc, woken, next_due, joinVars, history>>

Init ==
  /\ now = 0
  /\ ready = <<>>
  /\ delayed = {}
  /\ next_seq = 1
  /\ phase = "Running"
  /\ stop_mode = "Discard"
  /\ stop_requested = FALSE
  /\ pc = [t \in Threads |-> IF t = Loop THEN "scan" ELSE "idle"]
  /\ woken = FALSE
  /\ next_due = 0
  /\ join_mutex = None
  /\ destroying = FALSE
  /\ posted = <<>>
  /\ scheduled = {}
  /\ refused = {}
  /\ ran = <<>>

Goes(t, from, to) == pc[t] = from /\ pc' = [pc EXCEPT ![t] = to]

\* Where a thread is when it is in no operation: a task runs, or a caller is idle.
Home(t) == IF t = Loop THEN "run" ELSE "idle"

\* Thread t may begin operation o.  Nobody else uses a loop that is being
\* destroyed, except the tasks it still runs.
MayCall(t, o) ==
  /\ pc[t] = Home(t)
  /\ IF t = Loop THEN o \in NestedOps ELSE ~destroying

Tick ==
  /\ now < MaxTime
  /\ now' = now + 1
  /\ UNCHANGED <<queueVars, stopVars, pc, woken, next_due, joinVars, history>>
-----------------------------------------------------------------------------
(* run_loop *)

Before(e, f) == e.due < f.due \/ (e.due = f.due /\ e.seq < f.seq)

\* The first entry is due at time d.
HeadIsDue(d) ==
  /\ \E e \in delayed : e.due = d
  /\ \A e \in delayed : d <= e.due

\* Mutant: entries that are due now are left for later.
DueSkipsNow == IF phase = "Running" THEN {e \in delayed : e.due < now} ELSE {}

\* Mutant: whatever is first is moved when the loop comes round.
DueUnchecked == IF phase = "Running" THEN delayed ELSE {}

Due == IF phase = "Running" THEN {e \in delayed : e.due <= now} ELSE {}

\* The sequences in which the loop can take set S from the front of delayed.
InOrder(S) ==
  {s \in [1..Cardinality(S) -> S] :
     \A i, j \in 1..Cardinality(S) : i < j => Before(s[i], s[j])}

\* The ready queue once the entries that are due have been moved to its end.
Refills == {ready \o [i \in 1..Len(s) |-> s[i].task] : s \in InOrder(Due)}

\* Mutant: the newest task is taken.
LoopTakesLast ==
  /\ \E r \in Refills :
       /\ r # <<>>
       /\ ready' = SubSeq(r, 1, Len(r) - 1)
       /\ ran' = Append(ran, r[Len(r)])
  /\ delayed' = delayed \ Due
  /\ Goes(Loop, "scan", "run")
  /\ UNCHANGED <<now, next_seq, stopVars, woken, next_due, joinVars, posted, scheduled, refused>>

LoopTakes ==
  /\ \E r \in Refills :
       /\ r # <<>>
       /\ ready' = Tail(r)
       /\ ran' = Append(ran, Head(r))
  /\ delayed' = delayed \ Due
  /\ Goes(Loop, "scan", "run")
  /\ UNCHANGED <<now, next_seq, stopVars, woken, next_due, joinVars, posted, scheduled, refused>>

\* Nothing is ready or due.
NothingToRun == ready = <<>> /\ Due = {}

\* A task returns or throws; the loop goes on either way.
TaskEnds ==
  /\ Goes(Loop, "run", "scan")
  /\ UNCHANGED <<now, queueVars, stopVars, woken, next_due, joinVars, history>>

LoopExits ==
  /\ NothingToRun /\ phase # "Running"
  /\ Goes(Loop, "scan", "exited")
  /\ UNCHANGED <<now, queueVars, stopVars, woken, next_due, joinVars, history>>

LoopWaits ==
  /\ NothingToRun /\ phase = "Running"
  /\ delayed = {}
  /\ Goes(Loop, "scan", "wait")
  /\ UNCHANGED <<now, queueVars, stopVars, woken, next_due, joinVars, history>>

LoopWaitsUntil ==
  /\ NothingToRun /\ phase = "Running"
  /\ Goes(Loop, "scan", "wait_until")
  /\ \E e \in delayed : HeadIsDue(e.due) /\ next_due' = e.due
  /\ UNCHANGED <<now, queueVars, stopVars, woken, joinVars, history>>

Waiting == pc[Loop] \in {"wait", "wait_until"}

\* The predicates of the two waits.
Awaited ==
  \/ phase # "Running"
  \/ ready # <<>>
  \/ pc[Loop] = "wait_until" /\ ~HeadIsDue(next_due)

LoopResumes ==
  /\ \/ woken /\ Awaited
     \/ pc[Loop] = "wait_until" /\ now >= next_due
  /\ \E w \in {"wait", "wait_until"} : Goes(Loop, w, "scan")
  /\ woken' = FALSE
  /\ UNCHANGED <<now, queueVars, stopVars, next_due, joinVars, history>>

LoopSleepsOn ==
  /\ Waiting /\ woken /\ ~Awaited
  /\ woken' = FALSE
  /\ UNCHANGED <<now, queueVars, stopVars, pc, next_due, joinVars, history>>

\* A spurious wakeup.
LoopWakesAlone ==
  /\ Waiting /\ ~woken
  /\ woken' = TRUE
  /\ UNCHANGED <<now, queueVars, stopVars, pc, next_due, joinVars, history>>

\* wakeup.notify_one or notify_all: there is one waiter at most.
Notify == woken' = (woken \/ Waiting)
-----------------------------------------------------------------------------
(* post_task, post_delay_task *)

\* The tasks that have not been posted; which of them is next is of no account.
Unposted == Tasks \ ({e.task : e \in scheduled} \cup Range(posted) \cup refused)
NextTask == CHOOSE x \in Unposted : TRUE

Enqueue(t) ==
  /\ MayCall(t, "post_task")
  /\ phase = "Running"
  /\ Unposted # {}
  /\ ready' = Append(ready, NextTask)
  /\ posted' = Append(posted, NextTask)
  /\ pc' = [pc EXCEPT ![t] = "notify"]
  /\ UNCHANGED <<now, delayed, next_seq, stopVars, woken, next_due, joinVars, scheduled, refused, ran>>

\* Mutant: the loop is not told of a new entry.
EnqueueDelayQuietly(t) ==
  /\ MayCall(t, "post_delay_task")
  /\ phase = "Running"
  /\ Unposted # {}
  /\ \E d \in Delays :
       LET entry == [due |-> now + d, seq |-> next_seq, task |-> NextTask]
       IN  /\ now + d <= MaxTime
           /\ delayed' = delayed \cup {entry}
           /\ scheduled' = scheduled \cup {entry}
  /\ next_seq' = next_seq + 1
  /\ UNCHANGED <<now, ready, stopVars, pc, woken, next_due, joinVars, posted, refused, ran>>

\* Entries are due within the bound on time.
EnqueueDelay(t) ==
  /\ MayCall(t, "post_delay_task")
  /\ phase = "Running"
  /\ Unposted # {}
  /\ \E d \in Delays :
       LET entry == [due |-> now + d, seq |-> next_seq, task |-> NextTask]
       IN  /\ now + d <= MaxTime
           /\ delayed' = delayed \cup {entry}
           /\ scheduled' = scheduled \cup {entry}
  /\ next_seq' = next_seq + 1
  /\ pc' = [pc EXCEPT ![t] = "notify"]
  /\ UNCHANGED <<now, ready, stopVars, woken, next_due, joinVars, posted, refused, ran>>

PostRefused(t) ==
  /\ MayCall(t, "post_task") \/ MayCall(t, "post_delay_task")
  /\ phase # "Running"
  /\ Unposted # {}
  /\ refused' = refused \cup {NextTask}
  /\ UNCHANGED <<now, queueVars, stopVars, pc, woken, next_due, joinVars, posted, scheduled, ran>>

\* Mutant: nobody is notified.
NotifiesNobody(t) ==
  /\ Goes(t, "notify", Home(t))
  /\ UNCHANGED <<now, queueVars, stopVars, woken, next_due, joinVars, history>>

Notifies(t) ==
  /\ Goes(t, "notify", Home(t))
  /\ Notify
  /\ UNCHANGED <<now, queueVars, stopVars, next_due, joinVars, history>>
-----------------------------------------------------------------------------
(* stop, stop_and_drain, join, the destructor *)

\* The critical section that stop and stop_and_drain share.
StopSection(mode) ==
  /\ phase' = "Stopping"
  /\ stop_mode' = mode
  /\ stop_requested' = TRUE
  /\ ready' = IF mode = "Discard" THEN <<>> ELSE ready
  /\ delayed' = {}
  /\ UNCHANGED <<now, next_seq, woken, next_due, join_mutex, history>>

\* Mutant: only the delayed tasks are discarded.
StopKeepsReady(t) ==
  /\ MayCall(t, "stop")
  /\ phase = "Running"
  /\ pc' = [pc EXCEPT ![t] = "notify"]
  /\ phase' = "Stopping" /\ stop_mode' = "Discard" /\ stop_requested' = TRUE
  /\ delayed' = {}
  /\ UNCHANGED <<now, ready, next_seq, woken, next_due, joinVars, history>>

\* A stop of a loop that is no longer running changes nothing.
Stop(t) ==
  /\ MayCall(t, "stop")
  /\ phase = "Running"
  /\ pc' = [pc EXCEPT ![t] = "notify"]
  /\ StopSection("Discard")
  /\ UNCHANGED destroying

StopAndDrain(t) ==
  /\ MayCall(t, "stop_and_drain")
  /\ phase = "Running"
  /\ pc' = [pc EXCEPT ![t] = "notify"]
  /\ StopSection("Drain")
  /\ UNCHANGED destroying

Join(t) ==
  /\ MayCall(t, "join")
  /\ pc' = [pc EXCEPT ![t] = "join"]
  /\ UNCHANGED <<now, queueVars, stopVars, woken, next_due, joinVars, history>>

\* Not stopped, joined before, or called by a task: join returns at once.
JoinReturnsAtOnce(t) ==
  /\ join_mutex = None
  /\ phase # "Stopping" \/ t = Loop
  /\ Goes(t, "join", IF destroying /\ t # Loop THEN "gone" ELSE Home(t))
  /\ UNCHANGED <<now, queueVars, stopVars, woken, next_due, joinVars, history>>

\* Mutant: a task may join its own loop.
JoinBeginsAnywhere(t) ==
  /\ join_mutex = None
  /\ phase = "Stopping"
  /\ Goes(t, "join", "join_thread")
  /\ join_mutex' = t
  /\ UNCHANGED <<now, queueVars, stopVars, woken, next_due, destroying, history>>

JoinBegins(t) ==
  /\ join_mutex = None
  /\ phase = "Stopping" /\ t # Loop
  /\ Goes(t, "join", "join_thread")
  /\ join_mutex' = t
  /\ UNCHANGED <<now, queueVars, stopVars, woken, next_due, destroying, history>>

\* Mutant: join does not wait for the loop thread.
JoinEndsEarly(t) ==
  /\ Goes(t, "join_thread", IF destroying THEN "gone" ELSE "idle")
  /\ phase' = "Joined"
  /\ join_mutex' = None
  /\ UNCHANGED <<now, queueVars, stop_mode, stop_requested, woken, next_due, destroying, history>>

\* Mutant: join_mutex is not released.
JoinEndsHolding(t) ==
  /\ pc[Loop] = "exited"
  /\ Goes(t, "join_thread", IF destroying THEN "gone" ELSE "idle")
  /\ phase' = "Joined"
  /\ UNCHANGED <<now, queueVars, stop_mode, stop_requested, woken, next_due, joinVars, history>>

JoinEnds(t) ==
  /\ pc[Loop] = "exited"
  /\ Goes(t, "join_thread", IF destroying THEN "gone" ELSE "idle")
  /\ phase' = "Joined"
  /\ join_mutex' = None
  /\ UNCHANGED <<now, queueVars, stop_mode, stop_requested, woken, next_due, destroying, history>>

\* finish_noexcept: stop_and_drain, then join.  The owner destroys the loop
\* when no other caller is using it.
Destroy(t) ==
  /\ t # Loop /\ MayCall(t, "destroy")
  /\ \A c \in Callers \ {t} : pc[c] = "idle"
  /\ destroying' = TRUE
  /\ \/ /\ phase = "Running"
        /\ pc' = [pc EXCEPT ![t] = "notify_join"]
        /\ StopSection("Drain")
     \/ /\ phase # "Running"
        /\ pc' = [pc EXCEPT ![t] = "join"]
        /\ UNCHANGED <<now, queueVars, stopVars, woken, next_due, join_mutex, history>>

DestroyNotifies(t) ==
  /\ Goes(t, "notify_join", "join")
  /\ Notify
  /\ UNCHANGED <<now, queueVars, stopVars, next_due, joinVars, history>>
-----------------------------------------------------------------------------
LoopStep == LoopTakes \/ LoopExits \/ LoopWaits \/ LoopWaitsUntil \/ LoopResumes \/ LoopSleepsOn

\* The steps of an operation that has begun.
OpStep(t) ==
  Notifies(t) \/ JoinReturnsAtOnce(t) \/ JoinBegins(t) \/ JoinEnds(t) \/ DestroyNotifies(t)

Calls(t) ==
  \/ Enqueue(t) \/ EnqueueDelay(t) \/ PostRefused(t)
  \/ Stop(t) \/ StopAndDrain(t) \/ Join(t) \/ Destroy(t)

Next ==
  \/ Tick \/ LoopStep \/ TaskEnds \/ LoopWakesAlone
  \/ \E t \in Threads : OpStep(t) \/ Calls(t)

Spec == Init /\ [][Next]_vars

\* LoopResumes has a fairness of its own: a timed wait ends in time however
\* often the thread is woken for nothing.
Fairness ==
  /\ WF_vars(Tick) /\ WF_vars(LoopStep) /\ WF_vars(LoopResumes) /\ SF_vars(TaskEnds)
  /\ \A t \in Threads : WF_vars(OpStep(t))

FairSpec == Spec /\ Fairness
-----------------------------------------------------------------------------
Entries == [due : Nat, seq : Nat \ {0}, task : Tasks]

CallerLabels == {"idle", "notify", "notify_join", "join", "join_thread", "gone"}
LoopLabels == {"scan", "run", "wait", "wait_until", "exited", "notify", "join"}

\* The values of the variables.
TypeOK ==
  /\ now \in 0..MaxTime
  /\ ready \in Seq(Tasks)
  /\ delayed \subseteq Entries /\ scheduled \subseteq Entries
  /\ next_seq \in Nat \ {0}
  /\ phase \in {"Running", "Stopping", "Joined"}
  /\ stop_mode \in {"Discard", "Drain"}
  /\ stop_requested \in BOOLEAN
  /\ pc \in [Threads -> CallerLabels \cup LoopLabels]
  /\ pc[Loop] \in LoopLabels
  /\ \A c \in Callers : pc[c] \in CallerLabels
  /\ woken \in BOOLEAN
  /\ next_due \in 0..MaxTime
  /\ join_mutex \in Callers \cup {None}
  /\ destroying \in BOOLEAN
  /\ posted \in Seq(Tasks) /\ ran \in Seq(Tasks)
  /\ refused \subseteq Tasks

\* Tasks posted with post_task start in the order in which they were accepted,
\* whatever delayed tasks are moved in between and however the loop is stopped
\* (run_loop, enqueue): one starts only when all those before it have.
PostOrder ==
  \A i, j \in 1..Len(posted), n \in 1..Len(ran) :
    i < j /\ ran[n] = posted[j] => \E m \in 1..(n - 1) : ran[m] = posted[i]

\* No task starts twice.
StartsOnce == \A m, n \in 1..Len(ran) : ran[m] = ran[n] => m = n

\* Delayed tasks start in order of due time and, for equal times, of posting,
\* although they are moved in batches (run_loop 79-85).
DueOrder ==
  \A i, j \in 1..Len(ran) : \A e, f \in scheduled :
    i < j /\ e.task = ran[i] /\ f.task = ran[j] => Before(e, f)

\* Tasks start once each, in the order they were posted or fell due.
StartOrder == PostOrder /\ StartsOnce /\ DueOrder

\* No delayed task starts before it is due, though the time of a batch is read
\* once and the wait may end early (run_loop 80, 110).
NotBeforeDue ==
  [][\A e \in scheduled : ran' # ran /\ e.task = ran'[Len(ran')] => e.due <= now]_vars

\* Once stop has discarded the queues no task starts, though posters may be
\* between the check and the notification and tasks may post (stop 222-232).
StopDiscards ==
  [][phase # "Running" /\ stop_mode = "Discard" => ran' = ran]_vars

\* No task starts too early or, once discarded, at all.
StartsAreTimely == NotBeforeDue /\ StopDiscards

\* When join has ended the loop thread has exited and nothing is left; after
\* stop_and_drain every accepted immediate task has run (stop_and_drain, join).
JoinedIsComplete ==
  phase = "Joined" =>
    /\ pc[Loop] = "exited"
    /\ ready = <<>> /\ delayed = {}
    /\ stop_mode = "Drain" => Range(posted) \subseteq Range(ran)

\* A loop thread that sleeps has nothing to wake up for, by the predicate it
\* waits with, unless it or somebody on the way to notify it is about to act:
\* no post, stop or earlier entry is missed (run_loop 103, 110).
AsleepMeansIdle ==
  Waiting /\ ~woken /\ (\A t \in Threads : pc[t] \notin {"notify", "notify_join"})
    => ~Awaited

\* A task of the loop waits for join_mutex, whose holder waits for the loop:
\* the one way in which the loop can hang (join 262).
JoinedFromInside == pc[Loop] = "join" /\ join_mutex # None

\* An accepted immediate task starts or is discarded by stop (run_loop 86).
PostedIsRun ==
  \A x \in Tasks : x \in Range(ready) ~> x \notin Range(ready) \/ JoinedFromInside

InDelayed(x) == \E e \in delayed : e.task = x

\* A delayed task leaves the set, to run or discarded, if the loop was not in
\* the wait without a limit when it was posted (run_loop 107-114).
DelayedIsMoved ==
  \A x \in Tasks : InDelayed(x) /\ pc[Loop] # "wait" ~> ~InDelayed(x) \/ JoinedFromInside

\* What was posted is run, and what was delayed is moved when its time has come.
EntriesLeave == PostedIsRun /\ DelayedIsMoved

\* join and the destructor return (join, finish_noexcept).
JoinReturns ==
  \A c \in Callers :
    pc[c] \in {"join", "join_thread"} ~> pc[c] \in {"idle", "gone"} \/ JoinedFromInside

\* A delayed task runs after its delay, or is discarded by a stop: what
\* post_delay_task promises whatever the loop was doing when it was called.
DelayTaskFires ==
  \A x \in Tasks : InDelayed(x) ~> ~InDelayed(x) \/ JoinedFromInside
=============================================================================
