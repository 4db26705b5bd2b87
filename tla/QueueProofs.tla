---------------------------- MODULE QueueProofs ----------------------------
(***************************************************************************)
(* Proofs about BoundedQueue for any number of threads, values and places. *)
(*                                                                         *)
(* That no wakeup is lost is a statement about numbers of threads.  It is  *)
(* inductive once two things are known: a thread blocked on a condition    *)
(* variable is inside the operation that waits on it (Waiting), and a push *)
(* in progress carries a value (Carrying).  What a step does to a count is *)
(* said once, in the lemmas Gains and Loses.                               *)
(***************************************************************************)
EXTENDS QueueUsers, SequenceFacts, FiniteSetTheorems

\* A blocked thread is inside a push or a pop that may block.
Waiting ==
  /\ \A t \in waitFull : pc[t] = "push" /\ op[t] # "try_push"
  /\ \A t \in waitEmpty : pc[t] = "pop" /\ op[t] # "try_pop"

\* A push in progress carries its value.
Carrying == \A t \in Threads : pc[t] = "push" => value[t] \in Values

\* The queue never holds more than its capacity.
Bounded == Len(items) <= Capacity

Inv == TypeOK /\ Waiting /\ Carrying /\ Bounded /\ Conservation /\ NoLostWakeup
-----------------------------------------------------------------------------
USE DEF PushOps, PopOps, queueVars, userVars, vars

\* The counted sets are finite, so their sizes are numbers.
LEMMA Counted ==
  ASSUME NEW S, S \subseteq Threads
  PROVE  IsFiniteSet(S) /\ Cardinality(S) \in Nat
  BY ThreadsAssumption, FS_Subset, FS_CardinalityType

\* A thread that joins a counted set adds one to it.
LEMMA Gains ==
  ASSUME NEW S, S \subseteq Threads, NEW t, t \notin S
  PROVE  Cardinality(S \cup {t}) = Cardinality(S) + 1
  BY Counted, FS_AddElement

\* A thread that leaves a counted set takes one from it, whoever else stays.
LEMMA Loses ==
  ASSUME NEW S, S \subseteq Threads, NEW t, t \in S
  PROVE  Cardinality(S \ {t}) = Cardinality(S) - 1
  BY Counted, FS_RemoveElement

\* A larger set of threads counts at least as much.
LEMMA Grows ==
  ASSUME NEW S, NEW T, S \subseteq T, T \subseteq Threads
  PROVE  Cardinality(S) <= Cardinality(T)
  BY ThreadsAssumption, FS_Subset, FS_Subset

\* Every action, spelled out once.
LEMMA NextSplit ==
  ASSUME [Next]_vars
  PROVE  \/ \E t \in Threads :
              \/ CallPush(t) \/ CallPop(t) \/ Close(t) \/ CloseAndTake(t)
              \/ Push(t) \/ PushFails(t) \/ PushBlocks(t) \/ PushNotifies(t)
              \/ Pop(t) \/ PopFails(t) \/ PopBlocks(t) \/ PopNotifies(t)
              \/ CloseNotifies(t) \/ Wakes(t)
         \/ UNCHANGED vars
  BY DEF Next, Call, Step
-----------------------------------------------------------------------------
\* Every action keeps the types, the places of blocked threads and the bound.
LEMMA ControlStep ==
  ASSUME TypeOK, Waiting, Carrying, Bounded, [Next]_vars
  PROVE  TypeOK' /\ Waiting' /\ Carrying' /\ Bounded'
<1> USE CapacityAssumption, NoValueAssumption
    DEF TypeOK, Waiting, Carrying, Bounded, Goes, Returns
<1>1. ASSUME NEW t \in Threads, CallPush(t)
      PROVE  TypeOK' /\ Waiting' /\ Carrying' /\ Bounded'
  BY <1>1 DEF CallPush
<1>2. ASSUME NEW t \in Threads, CallPop(t)
      PROVE  TypeOK' /\ Waiting' /\ Carrying' /\ Bounded'
  BY <1>2 DEF CallPop
<1>3. ASSUME NEW t \in Threads, Close(t)
      PROVE  TypeOK' /\ Waiting' /\ Carrying' /\ Bounded'
  BY <1>3 DEF Close, CloseSection
<1>4. ASSUME NEW t \in Threads, CloseAndTake(t)
      PROVE  TypeOK' /\ Waiting' /\ Carrying' /\ Bounded'
  BY <1>4 DEF CloseAndTake, CloseAndTakeSection
<1>5. ASSUME NEW t \in Threads, Push(t)
      PROVE  TypeOK' /\ Waiting' /\ Carrying' /\ Bounded'
  BY <1>5 DEF Push, PushAccepts
<1>6. ASSUME NEW t \in Threads, PushFails(t)
      PROVE  TypeOK' /\ Waiting' /\ Carrying' /\ Bounded'
  BY <1>6 DEF PushFails, PushRefused, TryPushFull, PushTimesOut
<1>7. ASSUME NEW t \in Threads, PushBlocks(t)
      PROVE  TypeOK' /\ Waiting' /\ Carrying' /\ Bounded'
  BY <1>7 DEF PushBlocks, PushWaits
<1>8. ASSUME NEW t \in Threads, PushNotifies(t)
      PROVE  TypeOK' /\ Waiting' /\ Carrying' /\ Bounded'
  BY <1>8 DEF PushNotifies, NotifyNotEmpty
<1>9. ASSUME NEW t \in Threads, Pop(t)
      PROVE  TypeOK' /\ Waiting' /\ Carrying' /\ Bounded'
  BY <1>9 DEF Pop, PopTakes
<1>10. ASSUME NEW t \in Threads, PopFails(t)
       PROVE  TypeOK' /\ Waiting' /\ Carrying' /\ Bounded'
  BY <1>10 DEF PopFails, PopEnds, TryPopEmpty, PopTimesOut
<1>11. ASSUME NEW t \in Threads, PopBlocks(t)
       PROVE  TypeOK' /\ Waiting' /\ Carrying' /\ Bounded'
  BY <1>11 DEF PopBlocks, PopWaits
<1>12. ASSUME NEW t \in Threads, PopNotifies(t)
       PROVE  TypeOK' /\ Waiting' /\ Carrying' /\ Bounded'
  BY <1>12 DEF PopNotifies, NotifyNotFull
<1>13. ASSUME NEW t \in Threads, CloseNotifies(t)
       PROVE  TypeOK' /\ Waiting' /\ Carrying' /\ Bounded'
  BY <1>13 DEF CloseNotifies, NotifyAll
<1>14. ASSUME NEW t \in Threads, Wakes(t)
       PROVE  TypeOK' /\ Waiting' /\ Carrying' /\ Bounded'
  BY <1>14 DEF Wakes, WakesAlone
<1>15. ASSUME UNCHANGED vars
       PROVE  TypeOK' /\ Waiting' /\ Carrying' /\ Bounded'
  BY <1>15
<1>16. QED
  BY NextSplit, <1>1, <1>2, <1>3, <1>4, <1>5, <1>6, <1>7, <1>8, <1>9, <1>10, <1>11,
     <1>12, <1>13, <1>14, <1>15

\* No operation, and no race of close_and_take, loses or reorders a value.
LEMMA ConservationStep ==
  ASSUME TypeOK, Carrying, Conservation, [Next]_vars
  PROVE  Conservation'
<1> USE DEF TypeOK, Carrying, Conservation
<1>1. ASSUME NEW t \in Threads, Push(t) PROVE Conservation'
  <2>1. value[t] \in Values /\ items' = Append(items, value[t])
        /\ sent' = Append(sent, value[t]) /\ got' = got
    BY <1>1 DEF Push, PushAccepts
  <2>2. got \in Seq(Values) /\ items \in Seq(Values) /\ <<value[t]>> \in Seq(Values)
    BY <2>1
  <2>3. (got \o items) \o <<value[t]>> = got \o (items \o <<value[t]>>)
    BY <2>2, ConcatAssociative
  <2>4. /\ Append(items, value[t]) = items \o <<value[t]>>
        /\ Append(got \o items, value[t]) = (got \o items) \o <<value[t]>>
    BY <2>1, <2>2, AppendIsConcat
  <2>5. QED
    BY <2>1, <2>3, <2>4
<1>2. ASSUME NEW t \in Threads, Pop(t) PROVE Conservation'
  <2>1. items # <<>> /\ items' = Tail(items) /\ got' = Append(got, Head(items))
        /\ sent' = sent
    BY <1>2 DEF Pop, PopTakes
  <2>2. Append(got, Head(items)) \o Tail(items) = got \o items
    BY <2>1, HeadMovesOver
  <2>3. QED
    BY <2>1, <2>2
<1>3. ASSUME NEW t \in Threads, CloseAndTake(t) PROVE Conservation'
  <2>1. items' = <<>> /\ got' = got \o items /\ sent' = sent
    BY <1>3 DEF CloseAndTake, CloseAndTakeSection
  <2>2. (got \o items) \o <<>> = got \o items
    BY ConcatEmptySeq
  <2>3. QED
    BY <2>1, <2>2
<1>4. ASSUME UNCHANGED <<items, sent, got>> PROVE Conservation'
  BY <1>4
<1>5. QED
  BY NextSplit, <1>1, <1>2, <1>3, <1>4 DEF CallPush, CallPop, Close, CloseSection,
     PushFails, PushRefused, TryPushFull, PushTimesOut, PushBlocks, PushWaits,
     PushNotifies, NotifyNotEmpty, PopFails, PopEnds, TryPopEmpty, PopTimesOut,
     PopBlocks, PopWaits, PopNotifies, NotifyNotFull, CloseNotifies, NotifyAll,
     Wakes, WakesAlone
-----------------------------------------------------------------------------
\* Nobody is missed where the queue gets no item and no consumer goes away.
LEMMA ItemsKept ==
  ASSUME TypeOK, TypeOK', NoLostItemWakeup,
         waitEmpty' # {} => waitEmpty # {}, items' = items,
         Awake("pop", waitEmpty) \subseteq Awake("pop", waitEmpty)',
         At("notify_empty") \subseteq At("notify_empty")'
  PROVE  NoLostItemWakeup'
<1>1. /\ Awake("pop", waitEmpty) \subseteq Threads
      /\ Awake("pop", waitEmpty)' \subseteq Threads
      /\ At("notify_empty") \subseteq Threads
      /\ At("notify_empty")' \subseteq Threads
  BY DEF Awake, At
<1>2. /\ Cardinality(Awake("pop", waitEmpty)) <= Cardinality(Awake("pop", waitEmpty)')
      /\ Cardinality(At("notify_empty")) <= Cardinality(At("notify_empty")')
  BY <1>1, Grows
<1>3. /\ Cardinality(Awake("pop", waitEmpty)) \in Nat
      /\ Cardinality(Awake("pop", waitEmpty)') \in Nat
      /\ Cardinality(At("notify_empty")) \in Nat
      /\ Cardinality(At("notify_empty")') \in Nat
  BY <1>1, Counted
<1>4. Len(items) \in Nat
  BY DEF TypeOK
<1>5. QED
  BY <1>2, <1>3, <1>4 DEF NoLostItemWakeup

\* An empty queue owes nobody a wakeup.
LEMMA NoItems ==
  ASSUME TypeOK', items' = <<>>
  PROVE  NoLostItemWakeup'
<1>1. Awake("pop", waitEmpty)' \subseteq Threads /\ At("notify_empty")' \subseteq Threads
  BY DEF Awake, At
<1>2. /\ Cardinality(Awake("pop", waitEmpty)') \in Nat
      /\ Cardinality(At("notify_empty")') \in Nat
  BY <1>1, Counted
<1>3. Len(items') = 0
  OBVIOUS
<1>4. QED
  BY <1>2, <1>3 DEF NoLostItemWakeup

\* Every action keeps enough consumers awake, or notifications on their way,
\* for the items in the queue.
LEMMA ItemWakeupStep ==
  ASSUME TypeOK, TypeOK', Waiting, NoLostItemWakeup, [Next]_vars
  PROVE  NoLostItemWakeup'
<1> USE DEF Goes, Returns
<1>0. /\ Awake("pop", waitEmpty) \subseteq Threads
      /\ At("notify_empty") \subseteq Threads
  BY DEF Awake, At
<1>00. /\ Cardinality(Awake("pop", waitEmpty)) \in Nat
       /\ Cardinality(At("notify_empty")) \in Nat
       /\ Len(items) \in Nat
  BY <1>0, Counted DEF TypeOK
<1>1. ASSUME NEW t \in Threads, CallPush(t) PROVE NoLostItemWakeup'
  BY <1>1, ItemsKept DEF CallPush, TypeOK, Awake, At
<1>2. ASSUME NEW t \in Threads, CallPop(t) PROVE NoLostItemWakeup'
  BY <1>2, ItemsKept DEF CallPop, TypeOK, Awake, At
<1>3. ASSUME NEW t \in Threads, Close(t) PROVE NoLostItemWakeup'
  BY <1>3, ItemsKept DEF Close, CloseSection, TypeOK, Awake, At
<1>4. ASSUME NEW t \in Threads, CloseAndTake(t) PROVE NoLostItemWakeup'
  BY <1>4, NoItems DEF CloseAndTake, CloseAndTakeSection
<1>5. ASSUME NEW t \in Threads, Push(t) PROVE NoLostItemWakeup'
  <2>1. Len(items') = Len(items) + 1 /\ waitEmpty' = waitEmpty
    BY <1>5 DEF Push, PushAccepts, TypeOK
  <2>2. Awake("pop", waitEmpty)' = Awake("pop", waitEmpty)
    BY <1>5 DEF Push, PushAccepts, TypeOK, Awake
  <2>3. t \notin At("notify_empty") /\ At("notify_empty")' = At("notify_empty") \cup {t}
    BY <1>5 DEF Push, TypeOK, At
  <2>4. Cardinality(At("notify_empty")') = Cardinality(At("notify_empty")) + 1
    BY <1>0, <2>3, Gains
  <2>5. QED
    BY <1>00, <2>1, <2>2, <2>4 DEF NoLostItemWakeup
<1>6. ASSUME NEW t \in Threads, PushFails(t) PROVE NoLostItemWakeup'
  BY <1>6, ItemsKept DEF PushFails, PushRefused, TryPushFull, PushTimesOut, TypeOK,
     Awake, At
<1>7. ASSUME NEW t \in Threads, PushBlocks(t) PROVE NoLostItemWakeup'
  BY <1>7, ItemsKept DEF PushBlocks, PushWaits, Awake, At
<1>8. ASSUME NEW t \in Threads, PushNotifies(t) PROVE NoLostItemWakeup'
  <2>1. CASE waitEmpty' = {}
    BY <2>1 DEF NoLostItemWakeup
  <2>2. ASSUME NEW w \in waitEmpty, waitEmpty' = waitEmpty \ {w}
        PROVE  NoLostItemWakeup'
    <3>1. w \in Threads /\ pc[w] = "pop" /\ pc[t] = "notify_empty" /\ items' = items
          /\ pc' = [pc EXCEPT ![t] = "idle"]
      BY <1>8 DEF PushNotifies, NotifyNotEmpty, Waiting, TypeOK
    <3>2. w \notin Awake("pop", waitEmpty)
          /\ Awake("pop", waitEmpty)' = Awake("pop", waitEmpty) \cup {w}
      BY <2>2, <3>1 DEF TypeOK, Awake
    <3>3. t \in At("notify_empty") /\ At("notify_empty")' = At("notify_empty") \ {t}
      BY <3>1 DEF TypeOK, At
    <3>4. /\ Cardinality(Awake("pop", waitEmpty)') = Cardinality(Awake("pop", waitEmpty)) + 1
          /\ Cardinality(At("notify_empty")') = Cardinality(At("notify_empty")) - 1
      BY <1>0, <3>2, <3>3, Gains, Loses
    <3>5. waitEmpty # {}
      OBVIOUS
    <3>6. QED
      BY <1>00, <3>1, <3>4, <3>5 DEF NoLostItemWakeup
  <2>3. QED
    BY <1>8, <2>1, <2>2 DEF PushNotifies, NotifyNotEmpty
<1>9. ASSUME NEW t \in Threads, Pop(t) PROVE NoLostItemWakeup'
  <2>1. Len(items') = Len(items) - 1 /\ waitEmpty' = waitEmpty
    BY <1>9 DEF Pop, PopTakes, TypeOK
  <2>2. t \in Awake("pop", waitEmpty)
        /\ Awake("pop", waitEmpty)' = Awake("pop", waitEmpty) \ {t}
    BY <1>9 DEF Pop, PopTakes, TypeOK, Awake
  <2>3. At("notify_empty")' = At("notify_empty")
    BY <1>9 DEF Pop, TypeOK, At
  <2>4. Cardinality(Awake("pop", waitEmpty)') = Cardinality(Awake("pop", waitEmpty)) - 1
    BY <1>0, <2>2, Loses
  <2>5. QED
    BY <1>00, <2>1, <2>3, <2>4 DEF NoLostItemWakeup
<1>10. ASSUME NEW t \in Threads, PopFails(t) PROVE NoLostItemWakeup'
  BY <1>10, NoItems DEF PopFails, PopEnds, TryPopEmpty, PopTimesOut, HasItem
<1>11. ASSUME NEW t \in Threads, PopBlocks(t) PROVE NoLostItemWakeup'
  BY <1>11, NoItems DEF PopBlocks, PopWaits, HasItem
<1>12. ASSUME NEW t \in Threads, PopNotifies(t) PROVE NoLostItemWakeup'
  BY <1>12, ItemsKept DEF PopNotifies, NotifyNotFull, TypeOK, Awake, At
<1>13. ASSUME NEW t \in Threads, CloseNotifies(t) PROVE NoLostItemWakeup'
  BY <1>13 DEF CloseNotifies, NotifyAll, NoLostItemWakeup
<1>14. ASSUME NEW t \in Threads, Wakes(t) PROVE NoLostItemWakeup'
  BY <1>14, ItemsKept DEF Wakes, WakesAlone, Awake, At
<1>15. ASSUME UNCHANGED vars PROVE NoLostItemWakeup'
  BY <1>15, ItemsKept DEF Awake, At
<1>16. QED
  BY NextSplit, <1>1, <1>2, <1>3, <1>4, <1>5, <1>6, <1>7, <1>8, <1>9, <1>10, <1>11,
     <1>12, <1>13, <1>14, <1>15
-----------------------------------------------------------------------------
\* Nobody is missed where the queue gets no room and no producer goes away.
LEMMA RoomKept ==
  ASSUME TypeOK, TypeOK', NoLostRoomWakeup,
         waitFull' # {} => waitFull # {}, items' = items, closed => closed',
         Awake("push", waitFull) \subseteq Awake("push", waitFull)',
         At("notify_full") \subseteq At("notify_full")'
  PROVE  NoLostRoomWakeup'
<1>1. /\ Awake("push", waitFull) \subseteq Threads
      /\ Awake("push", waitFull)' \subseteq Threads
      /\ At("notify_full") \subseteq Threads
      /\ At("notify_full")' \subseteq Threads
  BY DEF Awake, At
<1>2. /\ Cardinality(Awake("push", waitFull)) <= Cardinality(Awake("push", waitFull)')
      /\ Cardinality(At("notify_full")) <= Cardinality(At("notify_full")')
  BY <1>1, Grows
<1>3. /\ Cardinality(Awake("push", waitFull)) \in Nat
      /\ Cardinality(Awake("push", waitFull)') \in Nat
      /\ Cardinality(At("notify_full")) \in Nat
      /\ Cardinality(At("notify_full")') \in Nat
  BY <1>1, Counted
<1>4. Len(items) \in Nat
  BY DEF TypeOK
<1>5. QED
  BY <1>2, <1>3, <1>4, CapacityAssumption DEF NoLostRoomWakeup

\* A full or closed queue owes no producer a wakeup.
LEMMA NoRoom ==
  ASSUME TypeOK', closed' \/ Len(items') >= Capacity
  PROVE  NoLostRoomWakeup'
<1>1. Awake("push", waitFull)' \subseteq Threads /\ At("notify_full")' \subseteq Threads
  BY DEF Awake, At
<1>2. /\ Cardinality(Awake("push", waitFull)') \in Nat
      /\ Cardinality(At("notify_full")') \in Nat
  BY <1>1, Counted
<1>3. Len(items') \in Nat
  BY DEF TypeOK
<1>4. QED
  BY <1>2, <1>3, CapacityAssumption DEF NoLostRoomWakeup

\* Every action keeps enough producers awake, or notifications on their way,
\* for the free places of an open queue.
LEMMA RoomWakeupStep ==
  ASSUME TypeOK, TypeOK', Waiting, NoLostRoomWakeup, [Next]_vars
  PROVE  NoLostRoomWakeup'
<1> USE DEF Goes, Returns
<1>0. /\ Awake("push", waitFull) \subseteq Threads
      /\ At("notify_full") \subseteq Threads
  BY DEF Awake, At
<1>00. /\ Cardinality(Awake("push", waitFull)) \in Nat
       /\ Cardinality(At("notify_full")) \in Nat
       /\ Len(items) \in Nat /\ Capacity \in Nat
  BY <1>0, Counted, CapacityAssumption DEF TypeOK
<1>1. ASSUME NEW t \in Threads, CallPush(t) PROVE NoLostRoomWakeup'
  BY <1>1, RoomKept DEF CallPush, TypeOK, Awake, At
<1>2. ASSUME NEW t \in Threads, CallPop(t) PROVE NoLostRoomWakeup'
  BY <1>2, RoomKept DEF CallPop, TypeOK, Awake, At
<1>3. ASSUME NEW t \in Threads, Close(t) PROVE NoLostRoomWakeup'
  BY <1>3, NoRoom DEF Close, CloseSection
<1>4. ASSUME NEW t \in Threads, CloseAndTake(t) PROVE NoLostRoomWakeup'
  BY <1>4, NoRoom DEF CloseAndTake, CloseAndTakeSection
<1>5. ASSUME NEW t \in Threads, Push(t) PROVE NoLostRoomWakeup'
  <2>1. Len(items') = Len(items) + 1 /\ waitFull' = waitFull /\ closed' = closed
    BY <1>5 DEF Push, PushAccepts, TypeOK
  <2>2. t \in Awake("push", waitFull)
        /\ Awake("push", waitFull)' = Awake("push", waitFull) \ {t}
    BY <1>5 DEF Push, PushAccepts, TypeOK, Awake
  <2>3. At("notify_full")' = At("notify_full")
    BY <1>5 DEF Push, TypeOK, At
  <2>4. Cardinality(Awake("push", waitFull)') = Cardinality(Awake("push", waitFull)) - 1
    BY <1>0, <2>2, Loses
  <2>5. QED
    BY <1>00, <2>1, <2>3, <2>4 DEF NoLostRoomWakeup
<1>6. ASSUME NEW t \in Threads, PushFails(t) PROVE NoLostRoomWakeup'
  BY <1>00, <1>6, NoRoom DEF PushFails, PushRefused, TryPushFull, PushTimesOut, HasRoom
<1>7. ASSUME NEW t \in Threads, PushBlocks(t) PROVE NoLostRoomWakeup'
  BY <1>00, <1>7, NoRoom DEF PushBlocks, PushWaits, HasRoom
<1>8. ASSUME NEW t \in Threads, PushNotifies(t) PROVE NoLostRoomWakeup'
  BY <1>8, RoomKept DEF PushNotifies, NotifyNotEmpty, TypeOK, Awake, At
<1>9. ASSUME NEW t \in Threads, Pop(t) PROVE NoLostRoomWakeup'
  <2>1. Len(items') = Len(items) - 1 /\ waitFull' = waitFull /\ closed' = closed
    BY <1>9 DEF Pop, PopTakes, TypeOK
  <2>2. Awake("push", waitFull)' = Awake("push", waitFull)
    BY <1>9 DEF Pop, PopTakes, TypeOK, Awake
  <2>3. t \notin At("notify_full") /\ At("notify_full")' = At("notify_full") \cup {t}
    BY <1>9 DEF Pop, TypeOK, At
  <2>4. Cardinality(At("notify_full")') = Cardinality(At("notify_full")) + 1
    BY <1>0, <2>3, Gains
  <2>5. QED
    BY <1>00, <2>1, <2>2, <2>4 DEF NoLostRoomWakeup
<1>10. ASSUME NEW t \in Threads, PopFails(t) PROVE NoLostRoomWakeup'
  BY <1>10, RoomKept DEF PopFails, PopEnds, TryPopEmpty, PopTimesOut, TypeOK, Awake, At
<1>11. ASSUME NEW t \in Threads, PopBlocks(t) PROVE NoLostRoomWakeup'
  BY <1>11, RoomKept DEF PopBlocks, PopWaits, Awake, At
<1>12. ASSUME NEW t \in Threads, PopNotifies(t) PROVE NoLostRoomWakeup'
  <2>1. CASE waitFull' = {}
    BY <2>1 DEF NoLostRoomWakeup
  <2>2. ASSUME NEW w \in waitFull, waitFull' = waitFull \ {w}
        PROVE  NoLostRoomWakeup'
    <3>1. w \in Threads /\ pc[w] = "push" /\ pc[t] = "notify_full" /\ items' = items
          /\ closed' = closed /\ pc' = [pc EXCEPT ![t] = "idle"]
      BY <1>12 DEF PopNotifies, NotifyNotFull, Waiting, TypeOK
    <3>2. w \notin Awake("push", waitFull)
          /\ Awake("push", waitFull)' = Awake("push", waitFull) \cup {w}
      BY <2>2, <3>1 DEF TypeOK, Awake
    <3>3. t \in At("notify_full") /\ At("notify_full")' = At("notify_full") \ {t}
      BY <3>1 DEF TypeOK, At
    <3>4. /\ Cardinality(Awake("push", waitFull)') = Cardinality(Awake("push", waitFull)) + 1
          /\ Cardinality(At("notify_full")') = Cardinality(At("notify_full")) - 1
      BY <1>0, <3>2, <3>3, Gains, Loses
    <3>5. waitFull # {}
      OBVIOUS
    <3>6. QED
      BY <1>00, <3>1, <3>4, <3>5 DEF NoLostRoomWakeup
  <2>3. QED
    BY <1>12, <2>1, <2>2 DEF PopNotifies, NotifyNotFull
<1>13. ASSUME NEW t \in Threads, CloseNotifies(t) PROVE NoLostRoomWakeup'
  BY <1>13 DEF CloseNotifies, NotifyAll, NoLostRoomWakeup
<1>14. ASSUME NEW t \in Threads, Wakes(t) PROVE NoLostRoomWakeup'
  BY <1>14, RoomKept DEF Wakes, WakesAlone, Awake, At
<1>15. ASSUME UNCHANGED vars PROVE NoLostRoomWakeup'
  BY <1>15, RoomKept DEF Awake, At
<1>16. QED
  BY NextSplit, <1>1, <1>2, <1>3, <1>4, <1>5, <1>6, <1>7, <1>8, <1>9, <1>10, <1>11,
     <1>12, <1>13, <1>14, <1>15
-----------------------------------------------------------------------------
\* The inductive invariant holds in every state of every behaviour.
LEMMA QueueInvariant == Spec => []Inv
<1>1. Init => Inv
  <2> SUFFICES ASSUME Init PROVE Inv
    OBVIOUS
  <2>1. TypeOK /\ Waiting /\ Carrying /\ Bounded
    <3>0. closed \in BOOLEAN
      BY DEF Init, QueueInit
    <3>1. items \in Seq(Values) /\ Len(items) = 0
      BY DEF Init, QueueInit
    <3>2. sent \in Seq(Values) /\ got \in Seq(Values)
      BY DEF Init
    <3>3. TypeOK
      BY <3>0, <3>1, <3>2 DEF Init, QueueInit, TypeOK
    <3>4. QED
      BY <3>1, <3>3, CapacityAssumption DEF Init, QueueInit, Waiting, Carrying, Bounded
  <2>2. Conservation
    BY ConcatEmptySeq DEF Init, QueueInit, Conservation
  <2>3. NoLostWakeup
    BY DEF Init, QueueInit, NoLostWakeup, NoLostItemWakeup, NoLostRoomWakeup
  <2>4. QED
    BY <2>1, <2>2, <2>3 DEF Inv
<1>2. Inv /\ [Next]_vars => Inv'
  BY ControlStep, ConservationStep, ItemWakeupStep, RoomWakeupStep
     DEF Inv, NoLostWakeup
<1>3. QED
  BY <1>1, <1>2, PTL DEF Spec

\* The queue, its condition variables and its users keep their types.
THEOREM QueueTypeCorrect == Spec => []TypeOK
<1>1. Inv => TypeOK
  BY DEF Inv
<1>2. QED
  BY <1>1, QueueInvariant, PTL

\* bounded_queue.hpp never holds more than capacity items, and the values
\* accepted are those that left followed by those still queued, in order:
\* push, pop, close and close_and_take lose, repeat and reorder nothing.
THEOREM QueueConserves == Spec => [](Conservation /\ Bounded)
<1>1. Inv => Conservation /\ Bounded
  BY DEF Inv
<1>2. QED
  BY <1>1, QueueInvariant, PTL

\* notify_one after the unlock is enough: while a thread is blocked, as many
\* threads are awake or about to be notified as there are items (free places)
\* to take.
THEOREM QueueLosesNoWakeup == Spec => []NoLostWakeup
<1>1. Inv => NoLostWakeup
  BY DEF Inv
<1>2. QED
  BY <1>1, QueueInvariant, PTL
=============================================================================
