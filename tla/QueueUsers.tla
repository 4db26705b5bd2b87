----------------------------- MODULE QueueUsers -----------------------------
(***************************************************************************)
(* Any number of threads that call every operation of one BoundedQueue, in *)
(* any order and any interleaving.  Each value is pushed successfully at   *)
(* most once, so that values can be followed; a refused or timed-out push  *)
(* may be tried again.                                                     *)
(***************************************************************************)
EXTENDS BoundedQueue

CONSTANTS
  Threads,              \* the threads that share the queue
  Values,               \* the values they push
  NoValue               \* what a thread that pushes nothing carries

ASSUME NoValueAssumption == NoValue \notin Values

\* A process has finitely many threads; the wakeups are counted over them.
ASSUME ThreadsAssumption == IsFiniteSet(Threads)

PushOps == {"push", "try_push", "push_for"}
PopOps  == {"pop", "try_pop", "pop_for"}

VARIABLES
  pc,                   \* where each thread is
  op,                   \* the operation it is in
  value,                \* the value a push carries
  sent,                 \* history: the accepted values in order of acceptance
  got                   \* history: the values that left, in order of leaving

userVars == <<pc, op, value, sent, got>>
vars == <<items, closed, waitFull, waitEmpty, pc, op, value, sent, got>>

Init ==
  /\ QueueInit
  /\ pc = [t \in Threads |-> "idle"]
  /\ op = [t \in Threads |-> "none"]
  /\ value = [t \in Threads |-> NoValue]
  /\ sent = <<>>
  /\ got = <<>>

\* Thread t goes on at label l, still in its operation.
Goes(t, l) == pc' = [pc EXCEPT ![t] = l] /\ UNCHANGED op

\* Thread t's operation returns.
Returns(t) ==
  /\ pc' = [pc EXCEPT ![t] = "idle"]
  /\ op' = [op EXCEPT ![t] = "none"]
-----------------------------------------------------------------------------
\* A value is fresh when no push has delivered it and none carries it.
Fresh(v) ==
  /\ \A i \in DOMAIN sent : sent[i] # v
  /\ \A t \in Threads : value[t] # v

CallPush(t) ==
  /\ pc[t] = "idle"
  /\ \E o \in PushOps, v \in Values :
       /\ Fresh(v)
       /\ op' = [op EXCEPT ![t] = o]
       /\ value' = [value EXCEPT ![t] = v]
  /\ pc' = [pc EXCEPT ![t] = "push"]
  /\ UNCHANGED <<queueVars, sent, got>>

Push(t) ==
  /\ pc[t] = "push"
  /\ PushAccepts(t, value[t])
  /\ sent' = Append(sent, value[t])
  /\ value' = [value EXCEPT ![t] = NoValue]
  /\ Goes(t, "notify_empty")
  /\ UNCHANGED got

\* The push gives up: the queue is closed, full (try_push) or still full when
\* the time is over (push_for).
PushFails(t) ==
  /\ pc[t] = "push"
  /\ \/ PushRefused(t)
     \/ op[t] = "try_push" /\ TryPushFull
     \/ op[t] = "push_for" /\ PushTimesOut(t)
  /\ value' = [value EXCEPT ![t] = NoValue]
  /\ Returns(t)
  /\ UNCHANGED <<sent, got>>

\* Mutant: the value is moved from before the wait.
PushMovesAndBlocks(t) ==
  /\ pc[t] = "push"
  /\ op[t] # "try_push"
  /\ PushWaits(t)
  /\ value' = [value EXCEPT ![t] = NoValue]
  /\ UNCHANGED <<pc, op, sent, got>>

PushBlocks(t) ==
  /\ pc[t] = "push"
  /\ op[t] # "try_push"
  /\ PushWaits(t)
  /\ UNCHANGED userVars

PushNotifies(t) ==
  /\ pc[t] = "notify_empty"
  /\ NotifyNotEmpty
  /\ Returns(t)
  /\ UNCHANGED <<value, sent, got>>
-----------------------------------------------------------------------------
CallPop(t) ==
  /\ pc[t] = "idle"
  /\ \E o \in PopOps : op' = [op EXCEPT ![t] = o]
  /\ pc' = [pc EXCEPT ![t] = "pop"]
  /\ UNCHANGED <<queueVars, value, sent, got>>

\* Mutant: a pop notifies no producer.
PopForgets(t) ==
  /\ pc[t] = "pop"
  /\ PopTakes(t)
  /\ got' = Append(got, Head(items))
  /\ Returns(t)
  /\ UNCHANGED <<value, sent>>

Pop(t) ==
  /\ pc[t] = "pop"
  /\ PopTakes(t)
  /\ got' = Append(got, Head(items))
  /\ Goes(t, "notify_full")
  /\ UNCHANGED <<value, sent>>

\* The pop returns without a value: closed and drained, empty (try_pop) or
\* still empty when the time is over (pop_for).
PopFails(t) ==
  /\ pc[t] = "pop"
  /\ \/ PopEnds(t)
     \/ op[t] = "try_pop" /\ TryPopEmpty
     \/ op[t] = "pop_for" /\ PopTimesOut(t)
  /\ Returns(t)
  /\ UNCHANGED <<value, sent, got>>

PopBlocks(t) ==
  /\ pc[t] = "pop"
  /\ op[t] # "try_pop"
  /\ PopWaits(t)
  /\ UNCHANGED userVars

PopNotifies(t) ==
  /\ pc[t] = "notify_full"
  /\ NotifyNotFull
  /\ Returns(t)
  /\ UNCHANGED <<value, sent, got>>
-----------------------------------------------------------------------------
\* close() on a closed queue returns false and wakes nobody.
Close(t) ==
  /\ pc[t] = "idle"
  /\ ~closed
  /\ CloseSection
  /\ pc' = [pc EXCEPT ![t] = "notify_all"]
  /\ op' = [op EXCEPT ![t] = "close"]
  /\ UNCHANGED <<value, sent, got>>

\* close_and_take() closes, or finds the queue closed, and empties it.
CloseAndTake(t) ==
  /\ pc[t] = "idle"
  /\ CloseAndTakeSection
  /\ got' = got \o items
  /\ pc' = [pc EXCEPT ![t] = "notify_all"]
  /\ op' = [op EXCEPT ![t] = "close_and_take"]
  /\ UNCHANGED <<value, sent>>

CloseNotifies(t) ==
  /\ pc[t] = "notify_all"
  /\ NotifyAll
  /\ Returns(t)
  /\ UNCHANGED <<value, sent, got>>

Wakes(t) == WakesAlone(t) /\ UNCHANGED userVars
-----------------------------------------------------------------------------
\* The steps inside an operation, as opposed to the calls.
Step(t) ==
  \/ Push(t) \/ PushFails(t) \/ PushBlocks(t) \/ PushNotifies(t)
  \/ Pop(t) \/ PopFails(t) \/ PopBlocks(t) \/ PopNotifies(t)
  \/ CloseNotifies(t)

Call(t) == CallPush(t) \/ CallPop(t) \/ Close(t) \/ CloseAndTake(t)

Next == \E t \in Threads : Call(t) \/ Step(t) \/ Wakes(t)

\* A thread inside an operation keeps running; nobody has to call anything.
Spec == Init /\ [][Next]_vars /\ \A t \in Threads : WF_vars(Step(t))
-----------------------------------------------------------------------------
\* The queue, the condition variables and the threads hold values of their
\* types; in particular only values that were really pushed are queued.
TypeOK ==
  /\ items \in Seq(Values)
  /\ closed \in BOOLEAN
  /\ waitFull \subseteq Threads
  /\ waitEmpty \subseteq Threads
  /\ pc \in [Threads -> {"idle", "push", "pop", "notify_empty", "notify_full",
                         "notify_all"}]
  /\ op \in [Threads -> PushOps \cup PopOps \cup
                        {"none", "close", "close_and_take"}]
  /\ value \in [Threads -> Values \cup {NoValue}]
  /\ sent \in Seq(Values)
  /\ got \in Seq(Values)

\* What was accepted is what left the queue followed by what is still in it,
\* in the order of acceptance: no operation, and no race of close_and_take
\* with pushes and pops, loses, repeats or reorders a value.
Conservation == sent = got \o items

\* The threads that will look at the queue without being notified.
Awake(l, blocked) == {t \in Threads : pc[t] = l /\ t \notin blocked}
At(l) == {t \in Threads : pc[t] = l}

\* No wakeup is lost on not_empty: while a consumer is blocked there are at
\* least as many consumers awake or notifications still to be sent as there
\* are items, although each push notifies one waiter only, after unlocking,
\* and a notified, timed or barging consumer may get there first.
NoLostItemWakeup ==
  waitEmpty # {} =>
    Len(items) <= Cardinality(Awake("pop", waitEmpty))
                  + Cardinality(At("notify_empty"))

\* The same for not_full and the free places.
NoLostRoomWakeup ==
  waitFull # {} /\ ~closed =>
    Capacity - Len(items) <= Cardinality(Awake("push", waitFull))
                             + Cardinality(At("notify_full"))

\* No notification is lost on either condition variable.
NoLostWakeup == NoLostItemWakeup /\ NoLostRoomWakeup

\* Once the queue is closed every operation returns: close and
\* close_and_take wake every blocked thread.
ClosedReleases ==
  \A t \in Threads :
    closed /\ pc[t] \in {"push", "pop"} ~> pc[t] = "idle"
=============================================================================
