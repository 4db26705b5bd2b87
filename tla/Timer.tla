------------------------------- MODULE Timer --------------------------------
(***************************************************************************)
(* TimerManager and TimerHandle (timer.cpp): one scheduler thread, clients *)
(* that schedule, cancel and destroy, a mutex and a condition variable.    *)
(* A critical section is one step.  Callbacks run outside the lock, so     *)
(* what a callback does to the manager is a client's step taken while      *)
(* spc = "running".  Entries are named by their ids.                       *)
(***************************************************************************)
EXTENDS Integers

CONSTANTS
  MaxId,                \* bound: timers that are ever accepted
  MaxTime,              \* bound: the end of the clock
  Periods               \* delays (zero or less: at once) and periods

VARIABLES
  now,                  \* steady_clock
  timers,               \* the ids in TimerState::timers
  next_id, shutdown,
  entry,                \* id -> expiry, period (zero: once), cancelled
  spc,                  \* where the scheduler is
  current,              \* the entry it took from the queue
  doomed,               \* its snapshot of current's cancelled
  deadline,             \* what it sleeps for; zero: without a limit
  owed,                 \* calls of cancel between the unlock and notify_all
  mpc                   \* the manager: "alive", "clearing", "joining", "gone"

vars == <<now, timers, next_id, shutdown, entry, spc, current, doomed, deadline, owed, mpc>>

Ids == 1..MaxId

Init ==
  /\ now = 1 /\ timers = {} /\ next_id = 1 /\ shutdown = FALSE
  /\ entry = [i \in Ids |-> [expiry |-> 0, period |-> 0, cancelled |-> FALSE]]
  /\ spc = "loop" /\ current = 0 /\ doomed = FALSE /\ deadline = 0
  /\ owed = 0 /\ mpc = "alive"

\* TimerEntryComparator: by expiry, then by id.
Before(i, j) ==
  entry[i].expiry < entry[j].expiry \/ (entry[i].expiry = entry[j].expiry /\ i <= j)
IsHead(i) == i \in timers /\ \A j \in timers : Before(i, j)

\* notify_all: a scheduler that sleeps looks at the queue again.  Its wait
\* predicates are false exactly when that look would put it to sleep again.
Woken == IF spc = "asleep" THEN "loop" ELSE spc
-----------------------------------------------------------------------------
(* schedule_once, schedule_repeating, cancel, ~TimerManager *)

\* The critical section of add_timer; it is refused once the destructor has
\* run its first section.
Insert(n, delay, period) ==
  /\ n = next_id /\ next_id' = n + 1
  /\ mpc # "gone" /\ ~shutdown
  /\ entry' = [entry EXCEPT ![n] = [expiry |-> now + (IF delay > 0 THEN delay ELSE 0),
                                    period |-> period, cancelled |-> FALSE]]
  /\ timers' = timers \cup {n}
  /\ UNCHANGED <<now, shutdown, current, doomed, deadline, owed, mpc>>

\* Mutant: the scheduler is told of the first timer only.
AddNotifiesIfEmpty(n, delay, period) ==
  /\ Insert(n, delay, period)
  /\ spc' = IF timers = {} THEN Woken ELSE spc

\* It notifies when the new timer is the next to expire.
Add(n, delay, period) ==
  /\ Insert(n, delay, period)
  /\ spc' = IF IsHead(n)' THEN Woken ELSE spc

ScheduleOnce == \E n \in Ids, d \in Periods : Add(n, d, 0)
ScheduleRepeating == \E n \in Ids, p \in Periods : p > 0 /\ Add(n, p, p)

Cancel(i) ==
  /\ i < next_id /\ ~entry[i].cancelled /\ mpc # "gone"
  /\ entry' = [entry EXCEPT ![i].cancelled = TRUE]
  /\ timers' = timers \ {i}
  /\ owed' = owed + 1
  /\ UNCHANGED <<now, next_id, shutdown, spc, current, doomed, deadline, mpc>>

CancelNotifies ==
  /\ owed > 0 /\ owed' = owed - 1
  /\ spc' = Woken
  /\ UNCHANGED <<now, timers, next_id, shutdown, entry, current, doomed, deadline, mpc>>

Destroy ==
  /\ mpc = "alive" /\ mpc' = "clearing"
  /\ shutdown' = TRUE /\ timers' = {}
  /\ UNCHANGED <<now, next_id, entry, spc, current, doomed, deadline, owed>>

\* Mutant: the destructor wakes nobody.
DestroyForgets ==
  /\ mpc = "clearing" /\ mpc' = "joining"
  /\ UNCHANGED <<now, timers, next_id, shutdown, entry, spc, current, doomed, deadline, owed>>

DestroyNotifies ==
  /\ mpc = "clearing" /\ mpc' = "joining"
  /\ spc' = Woken
  /\ UNCHANGED <<now, timers, next_id, shutdown, entry, current, doomed, deadline, owed>>

DestroyJoins ==
  /\ mpc = "joining" /\ spc = "done" /\ mpc' = "gone"
  /\ UNCHANGED <<now, timers, next_id, shutdown, entry, spc, current, doomed, deadline, owed>>
-----------------------------------------------------------------------------
(* run_scheduler_loop *)

Exit ==
  /\ spc = "loop" /\ shutdown /\ spc' = "done"
  /\ UNCHANGED <<now, timers, next_id, shutdown, entry, current, doomed, deadline, owed, mpc>>

Sleep ==
  /\ spc = "loop" /\ ~shutdown /\ spc' = "asleep"
  /\ \/ timers = {} /\ deadline' = 0
     \/ \E i \in timers : IsHead(i) /\ entry[i].expiry > now /\ deadline' = entry[i].expiry
  /\ UNCHANGED <<now, timers, next_id, shutdown, entry, current, doomed, owed, mpc>>

\* The time is over, or the wakeup is spurious.
TimedOut == deadline > 0 /\ deadline <= now
WakeUp ==
  /\ spc = "asleep" /\ spc' = "loop"
  /\ UNCHANGED <<now, timers, next_id, shutdown, entry, current, doomed, deadline, owed, mpc>>

\* The head is due: it leaves the queue, and the lock is released.
Dequeue ==
  /\ spc = "loop" /\ ~shutdown /\ spc' = "taken"
  /\ \E i \in timers :
       /\ IsHead(i) /\ entry[i].expiry <= now
       /\ timers' = timers \ {i} /\ current' = i /\ doomed' = entry[i].cancelled
  /\ UNCHANGED <<now, next_id, shutdown, entry, deadline, owed, mpc>>

CallbackStarts ==
  /\ spc = "taken" /\ ~doomed /\ spc' = "running"
  /\ UNCHANGED <<now, timers, next_id, shutdown, entry, current, doomed, deadline, owed, mpc>>

\* The callback returns or throws (again is then FALSE), or was not called,
\* and the lock is taken again.
CallbackEnds(again) ==
  /\ spc = "running" \/ (spc = "taken" /\ doomed /\ ~again)
  /\ spc' = "loop"
  /\ IF again /\ entry[current].period > 0 /\ ~entry[current].cancelled
       THEN /\ timers' = timers \cup {current}
            /\ entry' = [entry EXCEPT ![current].expiry = now + entry[current].period]
       ELSE UNCHANGED <<timers, entry>>
  /\ UNCHANGED <<now, next_id, shutdown, current, doomed, deadline, owed, mpc>>

Tick ==
  /\ now < MaxTime /\ now' = now + 1
  /\ UNCHANGED <<timers, next_id, shutdown, entry, spc, current, doomed, deadline, owed, mpc>>
-----------------------------------------------------------------------------
Scheduler ==
  Exit \/ Sleep \/ WakeUp \/ Dequeue \/ CallbackStarts \/ \E again \in BOOLEAN : CallbackEnds(again)

Client ==
  \/ ScheduleOnce \/ ScheduleRepeating \/ CancelNotifies
  \/ Destroy \/ DestroyNotifies \/ DestroyJoins \/ \E i \in Ids : Cancel(i)

Next == Scheduler \/ Client \/ Tick

Spec == Init /\ [][Next]_vars

\* The scheduler runs, callbacks end and a notification that is due is sent.
\* Spurious wakeups and new calls are not promised.
Fairness ==
  /\ WF_vars(Exit) /\ WF_vars(Dequeue) /\ WF_vars(CallbackStarts)
  /\ WF_vars(CallbackEnds(FALSE)) /\ WF_vars(CancelNotifies)
  /\ WF_vars(DestroyNotifies) /\ WF_vars(DestroyJoins)
-----------------------------------------------------------------------------
\* The values of the variables.
TypeOK ==
  /\ now \in 1..MaxTime /\ timers \subseteq Ids /\ next_id \in 1..(MaxId + 1)
  /\ entry \in [Ids -> [expiry : Nat, period : Nat, cancelled : BOOLEAN]]
  /\ spc \in {"loop", "asleep", "taken", "running", "done"}
  /\ current \in 0..MaxId /\ deadline \in Nat /\ owed \in Nat
  /\ shutdown \in BOOLEAN /\ doomed \in BOOLEAN
  /\ mpc \in {"alive", "clearing", "joining", "gone"}

\* A timer that was cancelled is not in the queue again, whether it waited,
\* was taken but not yet called, or was running and asked to be renewed
\* (TimerHandle::cancel, run_scheduler_loop).
CancelIsFinal == \A i \in timers : ~entry[i].cancelled

\* While the scheduler sleeps and nobody is about to notify it, it sleeps for
\* the timer that is now at the head (wait_until, add_timer).
SleepsForTheHead ==
  spc = "asleep" /\ owed = 0 /\ mpc # "clearing" =>
    /\ ~shutdown
    /\ (deadline = 0) <=> (timers = {})
    /\ \A i \in timers : IsHead(i) => deadline <= entry[i].expiry

\* Together.
TimerSound == CancelIsFinal /\ SleepsForTheHead

\* The destructor returns: the scheduler wakes, or finishes its callback, and
\* leaves its loop, even if that callback's timer was to be renewed.
TimerIsDestroyed == mpc = "clearing" ~> mpc = "gone"
=============================================================================
