---------------------------- MODULE BoundedQueue ----------------------------
(***************************************************************************)
(* The shared state of ca::thread::BoundedQueue<T> (thread/bounded_queue.hpp) *)
(* and the critical sections of its operations.                            *)
(*                                                                         *)
(* Everything an operation does while it holds State::mutex is one step    *)
(* here: the mutex is released only by a wait on a condition variable or   *)
(* at the end of the section.  A condition variable is the set of the      *)
(* threads blocked on it.  notify_one and notify_all are called AFTER the  *)
(* mutex is released, so they are steps of their own, and a woken thread   *)
(* takes the mutex again and re-evaluates its predicate: other threads may *)
(* get between any two of these steps.                                     *)
(*                                                                         *)
(* The module has no next-state relation: QueueUsers calls every operation *)
(* from every thread, ThreadPool composes the queue with its workers.      *)
(***************************************************************************)
EXTENDS Naturals, Sequences, FiniteSets

CONSTANT Capacity       \* State::capacity, fixed by create()

\* create() refuses a capacity of zero with INVALID_ARGUMENT.
ASSUME CapacityAssumption == Capacity \in Nat \ {0}

VARIABLES
  items,                \* State::items, oldest first
  closed,               \* State::closed
  waitFull,             \* the threads blocked on State::not_full
  waitEmpty             \* the threads blocked on State::not_empty

queueVars == <<items, closed, waitFull, waitEmpty>>

QueueInit ==
  /\ items = <<>>
  /\ closed = FALSE
  /\ waitFull = {}
  /\ waitEmpty = {}
-----------------------------------------------------------------------------
\* The predicates the two condition variables are waited on with.
HasRoom == closed \/ Len(items) < Capacity
HasItem == closed \/ items # <<>>
-----------------------------------------------------------------------------
(* push, try_push and push_for: the outcomes of one critical section.      *)

\* Mutant: a value that is pushed jumps the queue.
PushJumps(t, v) ==
  /\ t \notin waitFull
  /\ ~closed
  /\ Len(items) < Capacity
  /\ items' = <<v>> \o items
  /\ UNCHANGED <<closed, waitFull, waitEmpty>>

\* The value is appended; the caller still has to notify one consumer.
PushAccepts(t, v) ==
  /\ t \notin waitFull
  /\ ~closed
  /\ Len(items) < Capacity
  /\ items' = Append(items, v)
  /\ UNCHANGED <<closed, waitFull, waitEmpty>>

\* A closed queue refuses the value (FAILED_PRECONDITION).
PushRefused(t) ==
  /\ t \notin waitFull
  /\ closed
  /\ UNCHANGED queueVars

\* push and push_for block while the queue is open and full.
PushWaits(t) ==
  /\ t \notin waitFull
  /\ ~HasRoom
  /\ waitFull' = waitFull \cup {t}
  /\ UNCHANGED <<items, closed, waitEmpty>>

\* push_for: the duration has passed and the predicate, evaluated once more
\* with the mutex held, is still false.
PushTimesOut(t) ==
  /\ ~HasRoom
  /\ waitFull' = waitFull \ {t}
  /\ UNCHANGED <<items, closed, waitEmpty>>

\* try_push: open and full is reported at once.
TryPushFull ==
  /\ ~closed
  /\ Len(items) >= Capacity
  /\ UNCHANGED queueVars
-----------------------------------------------------------------------------
(* pop, try_pop and pop_for.                                               *)

\* Mutant: the value is read and not removed.
PopPeeks(t) ==
  /\ t \notin waitEmpty
  /\ items # <<>>
  /\ UNCHANGED queueVars

PopTakes(t) ==
  /\ t \notin waitEmpty
  /\ items # <<>>
  /\ items' = Tail(items)
  /\ UNCHANGED <<closed, waitFull, waitEmpty>>

\* A closed queue ends its consumers only when it is drained.
PopEnds(t) ==
  /\ t \notin waitEmpty
  /\ closed
  /\ items = <<>>
  /\ UNCHANGED queueVars

PopWaits(t) ==
  /\ t \notin waitEmpty
  /\ ~HasItem
  /\ waitEmpty' = waitEmpty \cup {t}
  /\ UNCHANGED <<items, closed, waitFull>>

PopTimesOut(t) ==
  /\ ~HasItem
  /\ waitEmpty' = waitEmpty \ {t}
  /\ UNCHANGED <<items, closed, waitFull>>

TryPopEmpty ==
  /\ ~closed
  /\ items = <<>>
  /\ UNCHANGED queueVars
-----------------------------------------------------------------------------
(* close and close_and_take: the section under the mutex.  The two         *)
(* notify_all calls that follow only empty the wait sets; nobody can join  *)
(* one of them once closed is set, so the two are one step.                *)

CloseSection ==
  /\ closed' = TRUE
  /\ UNCHANGED <<items, waitFull, waitEmpty>>

\* Mutant: the values are copied out and not taken.
CloseAndCopySection ==
  /\ closed' = TRUE
  /\ UNCHANGED <<items, waitFull, waitEmpty>>

CloseAndTakeSection ==
  /\ closed' = TRUE
  /\ items' = <<>>
  /\ UNCHANGED <<waitFull, waitEmpty>>

\* Mutant: only the consumers are woken.
NotifyAllConsumers ==
  /\ waitEmpty' = {}
  /\ UNCHANGED <<items, closed, waitFull>>

NotifyAll ==
  /\ waitFull' = {}
  /\ waitEmpty' = {}
  /\ UNCHANGED <<items, closed>>
-----------------------------------------------------------------------------
(* notify_one wakes some blocked thread if there is one, and is lost       *)
(* otherwise.                                                              *)

\* Mutant: the wrong condition variable is notified.
NotifyWrong ==
  /\ \/ waitFull = {} /\ UNCHANGED waitFull
     \/ \E w \in waitFull : waitFull' = waitFull \ {w}
  /\ UNCHANGED <<items, closed, waitEmpty>>

NotifyNotEmpty ==
  /\ \/ waitEmpty = {} /\ UNCHANGED waitEmpty
     \/ \E w \in waitEmpty : waitEmpty' = waitEmpty \ {w}
  /\ UNCHANGED <<items, closed, waitFull>>

NotifyNotFull ==
  /\ \/ waitFull = {} /\ UNCHANGED waitFull
     \/ \E w \in waitFull : waitFull' = waitFull \ {w}
  /\ UNCHANGED <<items, closed, waitEmpty>>

\* std::condition_variable may wake a waiter without any notify, and a timed
\* wait wakes by itself when its time has passed.
WakesAlone(t) ==
  /\ t \in waitFull \cup waitEmpty
  /\ waitFull' = waitFull \ {t}
  /\ waitEmpty' = waitEmpty \ {t}
  /\ UNCHANGED <<items, closed>>
=============================================================================
