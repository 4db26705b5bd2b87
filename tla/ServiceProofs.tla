---------------------------- MODULE ServiceProofs ----------------------------
(***************************************************************************)
(* What MCServices checks of the services on small instances, proved for   *)
(* every value of the constants.  Each service has an inductive invariant  *)
(* of its own (TimerInv, BusInv, ObjectsInv, ThreadInv, DnsInv,            *)
(* ProcessInv, IpcInv, ConfigInv, NetInv, TlsSafe): it holds at first,     *)
(* every step of the service keeps it, and it implies the property that    *)
(* the run checks.  The theorems put these facts together: only the        *)
(* service that "part" names moves, so its invariant is all that a step    *)
(* has to keep.                                                            *)
(***************************************************************************)
EXTENDS MCServices, FiniteSetTheorems, SequenceTheorems, SequenceFacts, TLAPS
-----------------------------------------------------------------------------
(* TimerManager *)

\* What else is true of the manager: the ids in the queue were given out, the
\* scheduler that is busy has an entry, and the destructor is what shuts down.
TimerFrame ==
  /\ \A i \in timers : i < next_id
  /\ spc \in {"taken", "running"} => current \in 1..(next_id - 1)
  /\ shutdown <=> mpc # "alive"

TimerInv == Tm!TypeOK /\ TimerFrame /\ Tm!TimerSound

\* A manager that was just made.
LEMMA TimerInit == Tm!Init => TimerInv
<1>1. Tm!Init => Tm!TypeOK
  <2>1. Tm!Init => entry \in [Tm!Ids -> [expiry : Nat, period : Nat, cancelled : BOOLEAN]]
    BY DEF Tm!Init
  <2>2. Tm!Init => /\ now \in 1..MaxTime /\ next_id \in 1..(MaxId + 1) /\ current \in 0..MaxId
                   /\ deadline \in Nat /\ owed \in Nat
    BY TimerAssumption DEF Tm!Init
  <2>3. QED
    BY <2>1, <2>2 DEF Tm!Init, Tm!TypeOK
<1>2. Tm!Init => TimerFrame
  BY TimerAssumption DEF Tm!Init, TimerFrame, Tm!Ids
<1>3. Tm!Init => Tm!TimerSound
  BY DEF Tm!Init, Tm!TimerSound, Tm!CancelIsFinal, Tm!SleepsForTheHead
<1>4. QED
  BY <1>1, <1>2, <1>3 DEF TimerInv

\* Every step keeps the variables in their types and ids apart.
LEMMA TimerTyped == ASSUME Tm!TypeOK, TimerFrame, Tm!Next PROVE Tm!TypeOK' /\ TimerFrame'
<1> USE TimerAssumption DEF Tm!TypeOK, TimerFrame, Tm!Ids, Tm!Woken
<1>1. CASE Tm!ScheduleOnce
  BY <1>1 DEF Tm!ScheduleOnce, Tm!Add, Tm!Insert
<1>2. CASE Tm!ScheduleRepeating
  BY <1>2 DEF Tm!ScheduleRepeating, Tm!Add, Tm!Insert
<1>3. ASSUME NEW i \in Tm!Ids, Tm!Cancel(i) PROVE Tm!TypeOK' /\ TimerFrame'
  <2>1. entry' \in [Tm!Ids -> [expiry : Nat, period : Nat, cancelled : BOOLEAN]]
    BY <1>3 DEF Tm!Cancel
  <2>2. owed' \in Nat /\ timers' \subseteq timers
    BY <1>3 DEF Tm!Cancel
  <2>3. UNCHANGED <<now, next_id, shutdown, spc, current, doomed, deadline, mpc>>
    BY <1>3 DEF Tm!Cancel
  <2>4. QED
    BY <2>1, <2>2, <2>3
<1>4. CASE Tm!CancelNotifies
  BY <1>4 DEF Tm!CancelNotifies
<1>5. CASE Tm!Destroy \/ Tm!DestroyNotifies \/ Tm!DestroyJoins
  BY <1>5 DEF Tm!Destroy, Tm!DestroyNotifies, Tm!DestroyJoins
<1>6. CASE Tm!Exit
  BY <1>6 DEF Tm!Exit
<1>62. CASE Tm!WakeUp
  BY <1>62 DEF Tm!WakeUp
<1>63. CASE Tm!CallbackStarts
  BY <1>63 DEF Tm!CallbackStarts
<1>61. CASE Tm!Tick
  BY <1>61 DEF Tm!Tick
<1>7. CASE Tm!Sleep
  BY <1>7 DEF Tm!Sleep
<1>8. CASE Tm!Dequeue
  BY <1>8 DEF Tm!Dequeue
<1>9. ASSUME NEW again \in BOOLEAN, Tm!CallbackEnds(again) PROVE Tm!TypeOK' /\ TimerFrame'
  <2>1. current \in Tm!Ids /\ current < next_id
    BY <1>9 DEF Tm!CallbackEnds
  <2>2. CASE again /\ entry[current].period > 0 /\ ~entry[current].cancelled
    <3>1. /\ timers' = timers \cup {current}
          /\ entry' = [entry EXCEPT ![current].expiry = now + entry[current].period]
      BY <1>9, <2>2 DEF Tm!CallbackEnds
    <3>2. now + entry[current].period \in Nat
      BY <2>1
    <3>3. entry' \in [Tm!Ids -> [expiry : Nat, period : Nat, cancelled : BOOLEAN]]
      BY <2>1, <3>1, <3>2
    <3>4. QED
      BY <1>9, <2>1, <3>1, <3>3 DEF Tm!CallbackEnds
  <2>3. CASE ~(again /\ entry[current].period > 0 /\ ~entry[current].cancelled)
    BY <1>9, <2>1, <2>3 DEF Tm!CallbackEnds
  <2>4. QED
    BY <2>2, <2>3
<1>10. QED
  BY <1>1, <1>2, <1>3, <1>4, <1>5, <1>6, <1>61, <1>62, <1>63, <1>7, <1>8, <1>9 DEF Tm!Next,
       Tm!Scheduler, Tm!Client

\* No step puts a cancelled timer into the queue.
LEMMA TimerCancels ==
  ASSUME Tm!TypeOK, TimerFrame, Tm!CancelIsFinal, Tm!Next  PROVE Tm!CancelIsFinal'
<1> USE DEF Tm!TypeOK, TimerFrame, Tm!Ids, Tm!CancelIsFinal
<1>1. ASSUME NEW n \in Tm!Ids, NEW d, NEW p, Tm!Add(n, d, p)  PROVE Tm!CancelIsFinal'
  <2>1. timers' = timers \cup {n} /\ ~entry'[n].cancelled
        /\ \A i \in timers \ {n} : entry'[i] = entry[i]
    BY <1>1 DEF Tm!Add, Tm!Insert
  <2>2. QED
    BY <2>1
<1>2. ASSUME NEW i \in Tm!Ids, Tm!Cancel(i)  PROVE Tm!CancelIsFinal'
  BY <1>2 DEF Tm!Cancel
<1>3. ASSUME NEW again \in BOOLEAN, Tm!CallbackEnds(again)  PROVE Tm!CancelIsFinal'
  <2>1. CASE again /\ entry[current].period > 0 /\ ~entry[current].cancelled
    <3>1. timers' = timers \cup {current} /\ \A i \in Tm!Ids : entry'[i].cancelled = entry[i].cancelled
      <4>1. entry \in [Tm!Ids -> [expiry : Nat, period : Nat, cancelled : BOOLEAN]]
        OBVIOUS
      <4>2. /\ timers' = timers \cup {current}
            /\ entry' = [entry EXCEPT ![current].expiry = now + entry[current].period]
        BY <1>3, <2>1 DEF Tm!CallbackEnds
      <4> HIDE DEF Tm!TypeOK, TimerFrame, Tm!Ids, Tm!CancelIsFinal
      <4>3. QED
        BY <4>1, <4>2
    <3>2. current \in Tm!Ids
      BY <1>3, TimerAssumption DEF Tm!CallbackEnds
    <3>3. QED
      BY <2>1, <3>1, <3>2
  <2>2. CASE ~(again /\ entry[current].period > 0 /\ ~entry[current].cancelled)
    BY <1>3, <2>2 DEF Tm!CallbackEnds
  <2>3. QED
    BY <2>1, <2>2
<1>4. CASE timers' \subseteq timers /\ UNCHANGED entry
  BY <1>4
<1>5. QED
  BY <1>1, <1>2, <1>3, <1>4 DEF Tm!Next, Tm!Scheduler, Tm!Client, Tm!ScheduleOnce,
     Tm!ScheduleRepeating, Tm!CancelNotifies, Tm!Destroy, Tm!DestroyNotifies, Tm!DestroyJoins,
          Tm!Exit, Tm!Sleep, Tm!WakeUp, Tm!Dequeue,
     Tm!CallbackStarts, Tm!Tick

\* A timer that is added behind the head leaves the head where it was.
LEMMA AddKeepsTheSleep ==
  ASSUME Tm!TypeOK, Tm!TypeOK', TimerFrame, Tm!SleepsForTheHead,
         NEW n \in Tm!Ids, NEW d, NEW p, Tm!Add(n, d, p)
  PROVE  Tm!SleepsForTheHead'
<1> SUFFICES ASSUME spc' = "asleep", owed' = 0, mpc' # "clearing"
             PROVE  /\ ~shutdown' /\ ((deadline = 0) <=> (timers = {}))'
                    /\ \A i \in timers' : Tm!IsHead(i)' => deadline' <= entry'[i].expiry
  BY DEF Tm!SleepsForTheHead
<1>1. spc = "asleep" /\ ~Tm!IsHead(n)'
  BY DEF Tm!Add, Tm!Woken
<1>2. /\ owed = 0 /\ mpc # "clearing" /\ n = next_id /\ timers' = timers \cup {n}
      /\ UNCHANGED <<shutdown, deadline>> /\ ~shutdown
      /\ \A i \in Tm!Ids \ {n} : entry'[i] = entry[i]
  BY DEF Tm!Add, Tm!Insert, Tm!TypeOK
<1>3. n \notin timers /\ timers \subseteq Tm!Ids
  BY <1>2 DEF TimerFrame, Tm!TypeOK, Tm!Ids
<1>4. timers # {}
  <2>1. entry'[n].expiry = entry'[n].expiry /\ n <= n
    BY DEF Tm!Ids
  <2>2. QED
    BY <1>1, <1>2, <2>1 DEF Tm!IsHead, Tm!Before
<1>5. ASSUME NEW i \in timers', Tm!IsHead(i)'  PROVE deadline' <= entry'[i].expiry
  <2>1. i \in timers /\ i # n
    BY <1>1, <1>2, <1>5
  <2>2. Tm!IsHead(i)
    BY <1>2, <1>3, <1>5, <2>1 DEF Tm!IsHead, Tm!Before
  <2>3. QED
    BY <1>1, <1>2, <1>3, <2>1, <2>2 DEF Tm!SleepsForTheHead
<1>6. QED
  BY <1>1, <1>2, <1>4, <1>5 DEF Tm!SleepsForTheHead

\* Whoever changes the head while the scheduler sleeps wakes it, or is still to.
LEMMA TimerSleeps ==
  ASSUME Tm!TypeOK, Tm!TypeOK', TimerFrame, Tm!SleepsForTheHead, Tm!Next  PROVE Tm!SleepsForTheHead'
<1>1. CASE Tm!ScheduleOnce \/ Tm!ScheduleRepeating
  BY <1>1, AddKeepsTheSleep DEF Tm!ScheduleOnce, Tm!ScheduleRepeating
<1>2. ASSUME NEW i \in Tm!Ids, Tm!Cancel(i)  PROVE Tm!SleepsForTheHead'
  BY <1>2 DEF Tm!Cancel, Tm!SleepsForTheHead, Tm!TypeOK
<1>3. CASE Tm!CancelNotifies \/ Tm!DestroyNotifies \/ Tm!Destroy
  BY <1>3 DEF Tm!CancelNotifies, Tm!DestroyNotifies, Tm!Destroy, Tm!Woken, Tm!SleepsForTheHead
<1>4. CASE Tm!Sleep
  <2>1. CASE timers = {} /\ deadline' = 0
    BY <1>4, <2>1 DEF Tm!Sleep, Tm!SleepsForTheHead
  <2>2. ASSUME NEW i \in timers, Tm!IsHead(i), entry[i].expiry > now, deadline' = entry[i].expiry
        PROVE  Tm!SleepsForTheHead'
    <3>1. deadline' # 0 /\ timers # {} /\ UNCHANGED <<timers, entry, shutdown>> /\ ~shutdown
      BY <1>4, <2>2 DEF Tm!Sleep, Tm!TypeOK, Tm!Ids
    <3>2. \A j \in timers : deadline' <= entry[j].expiry
      <4>1. \A j \in timers : entry[j].expiry \in Nat
        BY DEF Tm!TypeOK
      <4>2. QED
        BY <2>2, <4>1 DEF Tm!IsHead, Tm!Before
    <3>3. QED
      BY <3>1, <3>2 DEF Tm!SleepsForTheHead
  <2>3. QED
    BY <1>4, <2>1, <2>2 DEF Tm!Sleep
<1>5. CASE Tm!DestroyJoins
  BY <1>5 DEF Tm!DestroyJoins, Tm!SleepsForTheHead
<1>6. CASE spc' # "asleep"
  BY <1>6 DEF Tm!SleepsForTheHead
<1>7. CASE Tm!Tick
  BY <1>7 DEF Tm!Tick, Tm!SleepsForTheHead, Tm!IsHead, Tm!Before
<1>8. QED
  BY <1>1, <1>2, <1>3, <1>4, <1>5, <1>6, <1>7 DEF Tm!Next, Tm!Scheduler, Tm!Client, Tm!Exit,
     Tm!WakeUp, Tm!Dequeue, Tm!CallbackStarts, Tm!CallbackEnds

\* Every step of scheduler and clients keeps the invariant.
LEMMA TimerNext == TimerInv /\ Tm!Next => TimerInv'
BY TimerTyped, TimerCancels, TimerSleeps DEF TimerInv, Tm!TimerSound

\* A step of nobody keeps it.
LEMMA TimerStutters == TimerInv /\ UNCHANGED timerVars => TimerInv'
BY DEF timerVars, TimerInv, TimerFrame, Tm!TypeOK, Tm!TimerSound, Tm!CancelIsFinal,
   Tm!SleepsForTheHead, Tm!IsHead, Tm!Before

\* timer.cpp: a timer that cancel() has ended never fires again, and one that is
\* due is not slept over.
THEOREM TimersStayExact == Spec => []TimersAreExact
<1> DEFINE Inv == part = "timer" => TimerInv
<1>1. Init => Inv
  BY TimerInit DEF Init
<1>2. Inv /\ [Next]_vars => Inv'
  <2> SUFFICES ASSUME Inv, [Next]_vars, part' = "timer"  PROVE TimerInv'
    OBVIOUS
  <2>1. part = "timer" /\ (Tm!Next \/ UNCHANGED timerVars)
    BY DEF Next, vars, Rest
  <2>2. QED
    BY <2>1, TimerNext, TimerStutters
<1>3. Inv => TimersAreExact
  BY DEF TimersAreExact, TimerInv
<1>4. QED
  BY <1>1, <1>2, <1>3, PTL DEF Spec
-----------------------------------------------------------------------------
(* EventBus *)

\* The handles that were given out, and what was dropped of them before.
BusFrame ==
  /\ DOMAIN subscribed = 1..(next_sub - 1)
  /\ \A i \in DOMAIN subscribed : subscribed[i] \in Events
  /\ dropped \subseteq DOMAIN subscribed
  /\ before \in [Emitters -> SUBSET dropped]

BusInv == Eb!TypeOK /\ BusFrame /\ Eb!EventBusSound

\* A bus that was just made.
LEMMA BusInit == Eb!Init => BusInv
<1> SUFFICES ASSUME Eb!Init  PROVE BusInv
  OBVIOUS
<1>1. Eb!TypeOK
  BY ThreadAssumption DEF Eb!Init, Eb!TypeOK, Eb!Known, Eb!Subs, Eb!Idle
<1>2. BusFrame
  BY DEF Eb!Init, BusFrame
<1>3. Eb!EventBusSound
  BY DEF Eb!Init, Eb!EventBusSound, Eb!TableIsExact, Eb!NoCallAfterUnsubscribe, Eb!ListenersOf,
     Eb!Known, Eb!Idle
<1>4. QED
  BY <1>1, <1>2, <1>3 DEF BusInv

\* subscribe adds one listener to one event.
LEMMA BusSubscribes ==
  ASSUME BusInv, NEW e \in Events, Eb!Subscribe(e)  PROVE BusInv'
<1> USE DEF BusInv
<1>1. /\ bus /\ next_sub \in Eb!Subs /\ next_sub' = next_sub + 1
      /\ UNCHANGED <<bus, snapshot, counted, dropped, before>>
      /\ DOMAIN subscribed' = DOMAIN subscribed \cup {next_sub}
      /\ subscribed'[next_sub] = e
      /\ \A i \in DOMAIN subscribed : i # next_sub /\ subscribed'[i] = subscribed[i]
  BY DEF Eb!Subscribe, BusFrame, Eb!Subs
<1>2. /\ DOMAIN listeners' = DOMAIN listeners \cup {e}
      /\ listeners'[e] = Eb!ListenersOf(e) \cup {next_sub}
      /\ \A x \in DOMAIN listeners \ {e} : listeners'[x] = listeners[x]
  BY DEF Eb!Subscribe, Eb!With, Eb!Known
<1>3. Eb!TypeOK'
  BY <1>1, <1>2, ThreadAssumption DEF Eb!TypeOK, Eb!Known, Eb!ListenersOf, Eb!Subs
<1>4. BusFrame'
  <2>1. DOMAIN subscribed' = 1..(next_sub' - 1)
    BY <1>1, ThreadAssumption DEF BusFrame, Eb!Subs
  <2>2. QED
    BY <1>1, <2>1 DEF BusFrame
<1>5. Eb!TableIsExact'
  <2>1. \A x \in Events : Eb!ListenersOf(x)' = IF x = e THEN Eb!ListenersOf(e) \cup {next_sub}
                                                     ELSE Eb!ListenersOf(x)
    BY <1>2 DEF Eb!ListenersOf, Eb!Known
  <2>2. next_sub \notin DOMAIN subscribed /\ next_sub \notin dropped
    BY <1>1 DEF BusFrame
  <2>3. ASSUME NEW x \in Events
        PROVE  Eb!ListenersOf(x)' = {i \in DOMAIN subscribed' : subscribed'[i] = x /\ i \notin dropped'}
    <3>1. Eb!ListenersOf(x) = {i \in DOMAIN subscribed : subscribed[i] = x /\ i \notin dropped}
      BY <1>1 DEF Eb!EventBusSound, Eb!TableIsExact
    <3>2. QED
      BY <1>1, <2>1, <2>2, <3>1
  <2>4. \A x \in DOMAIN listeners' : listeners'[x] # {}
    BY <1>2 DEF Eb!EventBusSound, Eb!TableIsExact, Eb!Known
  <2>5. QED
    BY <2>3, <2>4 DEF Eb!TableIsExact, Eb!Known
<1>6. Eb!NoCallAfterUnsubscribe'
  BY <1>1 DEF Eb!EventBusSound, Eb!NoCallAfterUnsubscribe
<1>7. QED
  BY <1>3, <1>4, <1>5, <1>6 DEF Eb!EventBusSound

\* unsubscribe takes away one listener, and the event with the last of them.
LEMMA BusUnsubscribes ==
  ASSUME BusInv, NEW i \in Eb!Subs, Eb!Unsubscribe(i)  PROVE BusInv'
<1> USE DEF BusInv
<1> DEFINE e == subscribed[i]
<1>1. /\ i \in DOMAIN subscribed /\ e \in Events /\ dropped' = dropped \cup {i}
      /\ UNCHANGED <<next_sub, bus, snapshot, counted, subscribed, before>>
  BY DEF Eb!Unsubscribe, BusFrame
<1>2. Eb!TableIsExact' /\ Eb!Known' \subseteq Events /\ \A x \in Eb!Known' : listeners'[x] \subseteq Eb!Subs
  <2>1. CASE bus /\ e \in Eb!Known
    <3>1. listeners' = IF Eb!ListenersOf(e) \ {i} = {} THEN Eb!Without(e)
                       ELSE Eb!With(e, Eb!ListenersOf(e) \ {i})
      BY <2>1 DEF Eb!Unsubscribe, Eb!Dropped
    <3>2. /\ \A x \in Events : Eb!ListenersOf(x)' = IF x = e THEN Eb!ListenersOf(e) \ {i} ELSE Eb!ListenersOf(x)
          /\ \A x \in Eb!Known' : listeners'[x] # {}
          /\ Eb!Known' \subseteq Eb!Known
      <4>1. CASE Eb!ListenersOf(e) \ {i} = {}
        BY <2>1, <3>1, <4>1 DEF Eb!Without, Eb!ListenersOf, Eb!Known, Eb!EventBusSound,
             Eb!TableIsExact
      <4>2. CASE Eb!ListenersOf(e) \ {i} # {}
        BY <2>1, <3>1, <4>2 DEF Eb!With, Eb!ListenersOf, Eb!Known, Eb!EventBusSound, Eb!TableIsExact
      <4>3. QED
        BY <4>1, <4>2
    <3>3. ASSUME NEW x \in Events
          PROVE  Eb!ListenersOf(x)' = {k \in DOMAIN subscribed' : subscribed'[k] = x /\ k \notin dropped'}
      <4>1. Eb!ListenersOf(x) = {k \in DOMAIN subscribed : subscribed[k] = x /\ k \notin dropped}
        BY <2>1 DEF Eb!EventBusSound, Eb!TableIsExact
      <4>2. QED
        BY <1>1, <3>2, <4>1
    <3>4. \A x \in Eb!Known' : listeners'[x] \subseteq Eb!Subs
      BY <2>1, <3>2 DEF Eb!TypeOK, Eb!ListenersOf
    <3>5. QED
      BY <3>2, <3>3, <3>4 DEF Eb!TableIsExact, Eb!TypeOK
  <2>2. CASE ~(bus /\ e \in Eb!Known)
    <3>1. UNCHANGED listeners
      BY <2>2 DEF Eb!Unsubscribe
    <3>2. ASSUME bus, NEW x \in Events
          PROVE  Eb!ListenersOf(x)' = {k \in DOMAIN subscribed' : subscribed'[k] = x /\ k \notin dropped'}
      <4>1. Eb!ListenersOf(x) = {k \in DOMAIN subscribed : subscribed[k] = x /\ k \notin dropped}
        BY <3>2 DEF Eb!EventBusSound, Eb!TableIsExact
      <4>2. i \notin Eb!ListenersOf(x)
        BY <1>1, <2>2, <3>2, <4>1 DEF Eb!ListenersOf
      <4>3. Eb!ListenersOf(x)' = Eb!ListenersOf(x)
        BY <3>1 DEF Eb!ListenersOf, Eb!Known
      <4>4. QED
        BY <1>1, <4>1, <4>2, <4>3
    <3>3. QED
      BY <1>1, <3>1, <3>2 DEF Eb!EventBusSound, Eb!TableIsExact, Eb!TypeOK, Eb!Known
  <2>3. QED
    BY <2>1, <2>2
<1>3. Eb!TypeOK'
  BY <1>1, <1>2 DEF Eb!TypeOK
<1>4. BusFrame'
  BY <1>1 DEF BusFrame
<1>5. Eb!NoCallAfterUnsubscribe'
  BY <1>1 DEF Eb!EventBusSound, Eb!NoCallAfterUnsubscribe
<1>6. QED
  BY <1>2, <1>3, <1>4, <1>5 DEF Eb!EventBusSound

\* An emit takes its snapshot when every listener in the table is subscribed.
LEMMA BusEmits ==
  ASSUME BusInv, NEW m \in Emitters,
         (\E e \in Events : Eb!EmitBegins(m, e)) \/ Eb!EmitCalls(m) \/ Eb!EmitReturns(m)
  PROVE  BusInv'
<1> USE DEF BusInv
<1>1. UNCHANGED <<listeners, next_sub, bus, subscribed, dropped>>
  BY DEF Eb!EmitBegins, Eb!EmitCalls, Eb!EmitReturns, Eb!history
<1>2. Eb!TableIsExact'
  BY <1>1 DEF Eb!EventBusSound, Eb!TableIsExact, Eb!ListenersOf, Eb!Known
<1>3. ASSUME NEW e \in Events, Eb!EmitBegins(m, e)
      PROVE  Eb!TypeOK' /\ BusFrame' /\ Eb!NoCallAfterUnsubscribe'
  <2>1. listeners[e] \subseteq Eb!Subs /\ listeners[e] \cap dropped = {}
    BY <1>3 DEF Eb!EmitBegins, Eb!TypeOK, Eb!EventBusSound, Eb!TableIsExact, Eb!ListenersOf
  <2>2. Eb!TypeOK'
    BY <1>1, <1>3, <2>1 DEF Eb!TypeOK, Eb!EmitBegins, Eb!Known
  <2>3. BusFrame'
    BY <1>1, <1>3 DEF BusFrame, Eb!EmitBegins
  <2>4. Eb!NoCallAfterUnsubscribe'
    BY <1>3, <2>1 DEF Eb!EmitBegins, Eb!EventBusSound, Eb!NoCallAfterUnsubscribe, BusFrame,
         Eb!TypeOK
  <2>5. QED
    BY <2>2, <2>3, <2>4
<1>4. CASE Eb!EmitCalls(m)
  <2>1. PICK i \in snapshot[m] : snapshot' = [snapshot EXCEPT ![m] = @ \ {i}]
    BY <1>4 DEF Eb!EmitCalls
  <2>2. snapshot[m] \subseteq Eb!Subs
    BY <1>4 DEF Eb!EmitCalls, Eb!TypeOK
  <2>3. Eb!TypeOK'
    BY <1>1, <1>4, <2>1, <2>2 DEF Eb!TypeOK, Eb!EmitCalls, Eb!Known
  <2>4. BusFrame' /\ UNCHANGED before
    BY <1>1, <1>4 DEF BusFrame, Eb!EmitCalls, Eb!history
  <2>5. Eb!NoCallAfterUnsubscribe'
    BY <2>1, <2>4 DEF Eb!EventBusSound, Eb!NoCallAfterUnsubscribe, Eb!TypeOK
  <2>6. QED
    BY <2>3, <2>4, <2>5, <1>2 DEF Eb!EventBusSound
<1>5. CASE Eb!EmitReturns(m)
  <2>1. UNCHANGED <<before, counted>> /\ snapshot' = [snapshot EXCEPT ![m] = {0}]
    BY <1>5 DEF Eb!EmitReturns, Eb!history, Eb!Idle
  <2>2. Eb!TypeOK'
    BY <1>1, <2>1 DEF Eb!TypeOK, Eb!Idle, Eb!Known
  <2>3. BusFrame'
    BY <1>1, <2>1 DEF BusFrame
  <2>4. 0 \notin before[m]
    BY DEF BusFrame
  <2>5. Eb!NoCallAfterUnsubscribe'
    BY <2>1, <2>4 DEF Eb!EventBusSound, Eb!NoCallAfterUnsubscribe, Eb!TypeOK
  <2>6. QED
    BY <1>2, <2>2, <2>3, <2>5 DEF Eb!EventBusSound
<1>6. QED
  BY <1>2, <1>3, <1>4, <1>5 DEF Eb!EventBusSound

\* Every step of subscribers and posters keeps the invariant.
LEMMA BusNext == BusInv /\ Eb!Next => BusInv'
<1> SUFFICES ASSUME BusInv, Eb!Destroy  PROVE BusInv'
  BY BusSubscribes, BusUnsubscribes, BusEmits DEF Eb!Next
<1>1. bus' = FALSE /\ DOMAIN listeners' = {} /\ UNCHANGED <<next_sub, snapshot, counted, Eb!history>>
  BY DEF Eb!Destroy
<1>2. Eb!TypeOK'
  BY <1>1 DEF BusInv, Eb!TypeOK, Eb!Known, Eb!history
<1>3. BusFrame'
  BY <1>1 DEF BusInv, BusFrame, Eb!history
<1>4. Eb!EventBusSound'
  BY <1>1 DEF BusInv, Eb!EventBusSound, Eb!TableIsExact, Eb!NoCallAfterUnsubscribe, Eb!Known,
       Eb!history
<1>5. QED
  BY <1>2, <1>3, <1>4 DEF BusInv

\* A step of nobody keeps it.
LEMMA BusStutters == BusInv /\ UNCHANGED busVars => BusInv'
BY DEF busVars, BusInv, BusFrame, Eb!TypeOK, Eb!EventBusSound, Eb!TableIsExact,
   Eb!NoCallAfterUnsubscribe, Eb!ListenersOf, Eb!Known
-----------------------------------------------------------------------------
(* ObjectPool *)

\* An object is idle once, and a pool that is gone was shut down.
IdleIsDistinct == \A i, j \in DOMAIN idle : idle[i] = idle[j] => i = j

PoolIsExact ==
  /\ IdleIsDistinct
  /\ ~pool => pool_shutdown
  /\ Op!IdleSet \cap (lent \cup returning \cup freed \cup dirty) = {}
  /\ lent \cap returning = {} /\ (lent \cup returning) \cap freed = {}
  /\ ~Op!StateLives => idle = <<>>

ObjectsInv == Op!TypeOK /\ PoolIsExact

\* A sequence without repetitions has as many members as its range.
LEMMA DistinctSequence ==
  ASSUME NEW S, NEW s \in Seq(S), \A i, j \in DOMAIN s : s[i] = s[j] => i = j
  PROVE  Cardinality({s[k] : k \in DOMAIN s}) = Len(s)
<1>1. Len(s) \in Nat /\ DOMAIN s = 1..Len(s)
  OBVIOUS
<1> DEFINE R == {s[k] : k \in DOMAIN s}
<1>2. s \in Bijection(1..Len(s), R)
  <2>1. s \in [1..Len(s) -> R]
    BY <1>1
  <2>2. \A r \in R : \E k \in 1..Len(s) : s[k] = r
    BY <1>1
  <2>3. QED
    BY <1>1, <2>1, <2>2 DEF Bijection, Injection, Surjection, IsInjective
<1>3. ExistsBijection(1..Len(s), R)
  BY <1>2 DEF ExistsBijection
<1>4. QED
  BY <1>1, <1>3, FS_CountingElements

\* A pool that was just made.
LEMMA ObjectsInit == Op!Init => ObjectsInv
<1> SUFFICES ASSUME Op!Init  PROVE Op!TypeOK /\ PoolIsExact
  BY DEF ObjectsInv
<1>1. Op!TypeOK
  <2>1. idle \in Seq(Objects)
    BY DEF Op!Init
  <2>2. QED
    BY <2>1 DEF Op!Init, Op!TypeOK
<1>2. PoolIsExact
  BY DEF Op!Init, PoolIsExact, IdleIsDistinct, Op!IdleSet
<1>3. QED
  BY <1>1, <1>2

\* obtain takes the newest idle object, if there is one.
LEMMA IdleIsLent == ASSUME ObjectsInv, Op!ObtainIdle  PROVE ObjectsInv'
<1> DEFINE n == Len(idle)
<1>1. /\ idle \in Seq(Objects) /\ n \in Nat \ {0} /\ DOMAIN idle = 1..n /\ idle[n] \in Objects
      /\ idle' = SubSeq(idle, 1, n - 1)
  BY DEF ObjectsInv, Op!TypeOK, Op!ObtainIdle
<1>2. /\ idle' \in Seq(Objects) /\ DOMAIN idle' = 1..(n - 1)
      /\ \A i \in 1..(n - 1) : idle'[i] = idle[i]
  BY <1>1
<1>3. idle[n] \in Op!IdleSet /\ Op!IdleSet' \subseteq Op!IdleSet \ {idle[n]}
  BY <1>1, <1>2 DEF Op!IdleSet, ObjectsInv, PoolIsExact, IdleIsDistinct
<1>4. /\ lent' = lent \cup {idle[n]} /\ dirty' = dirty \cup {idle[n]} /\ pool
      /\ UNCHANGED <<pool_shutdown, pool, returning, freed>>
  BY DEF Op!ObtainIdle
<1>5. Op!TypeOK'
  BY <1>1, <1>2, <1>4 DEF ObjectsInv, Op!TypeOK
<1>6. IdleIsDistinct'
  BY <1>1, <1>2 DEF ObjectsInv, PoolIsExact, IdleIsDistinct
<1>7. PoolIsExact'
  BY <1>3, <1>4, <1>6 DEF ObjectsInv, PoolIsExact, Op!StateLives
<1>8. QED
  BY <1>5, <1>7 DEF ObjectsInv

\* The deleter gives an object back, or frees it and all that nobody can reach.
LEMMA ObjectReturns ==
  ASSUME ObjectsInv, NEW o \in Objects, NEW keep \in BOOLEAN, Op!Return(o, keep)  PROVE ObjectsInv'
<1>1. /\ o \in returning /\ returning' = returning \ {o} /\ (keep => ~pool_shutdown)
      /\ UNCHANGED <<pool_shutdown, pool, lent>>
  BY DEF Op!Return
<1>2. CASE keep
  <2>1. /\ idle' = Append(idle, o) /\ dirty' = dirty \ {o} /\ UNCHANGED freed
    BY <1>2 DEF Op!Return
  <2>2. /\ idle' \in Seq(Objects) /\ DOMAIN idle = 1..Len(idle) /\ Len(idle) \in Nat
        /\ DOMAIN idle' = 1..(Len(idle) + 1) /\ idle'[Len(idle) + 1] = o
        /\ \A i \in 1..Len(idle) : idle'[i] = idle[i]
    BY <2>1 DEF ObjectsInv, Op!TypeOK
  <2>3. o \notin Op!IdleSet
    BY <1>1 DEF ObjectsInv, PoolIsExact
  <2>4. Op!IdleSet' = Op!IdleSet \cup {o}
    BY <2>2 DEF Op!IdleSet
  <2>5. IdleIsDistinct'
    BY <2>2, <2>3 DEF ObjectsInv, PoolIsExact, IdleIsDistinct, Op!IdleSet
  <2>6. pool /\ Op!StateLives'
    BY <1>1, <1>2 DEF ObjectsInv, PoolIsExact, Op!StateLives
  <2>7. PoolIsExact'
    BY <1>1, <2>1, <2>4, <2>5, <2>6 DEF ObjectsInv, PoolIsExact
  <2>8. QED
    BY <1>1, <2>1, <2>2, <2>7 DEF ObjectsInv, Op!TypeOK
<1>3. CASE ~keep /\ Op!Survives(returning \ {o})
  <2>1. /\ UNCHANGED <<idle, dirty>> /\ freed' = freed \cup {o}
    BY <1>3 DEF Op!Return
  <2>2. PoolIsExact'
    BY <1>1, <1>3, <2>1 DEF ObjectsInv, PoolIsExact, IdleIsDistinct, Op!IdleSet, Op!StateLives,
         Op!Survives
  <2>3. QED
    BY <1>1, <2>1, <2>2 DEF ObjectsInv, Op!TypeOK
<1>4. CASE ~keep /\ ~Op!Survives(returning \ {o})
  <2>1. /\ idle' = <<>> /\ UNCHANGED dirty /\ freed' = freed \cup {o} \cup Op!IdleSet
    BY <1>4 DEF Op!Return
  <2>2. Op!IdleSet' = {} /\ IdleIsDistinct'
    BY <2>1 DEF Op!IdleSet, IdleIsDistinct
  <2>3. PoolIsExact'
    BY <1>1, <2>1, <2>2 DEF ObjectsInv, PoolIsExact
  <2>4. Op!IdleSet \subseteq Objects
    BY DEF ObjectsInv, Op!TypeOK, Op!IdleSet
  <2>5. QED
    BY <1>1, <2>1, <2>3, <2>4 DEF ObjectsInv, Op!TypeOK
<1>5. QED
  BY <1>2, <1>3, <1>4

\* Every step of borrowers and of the pool keeps the invariant.
LEMMA ObjectsNext == ObjectsInv /\ Op!Next => ObjectsInv'
<1> SUFFICES ASSUME ObjectsInv, Op!Next  PROVE ObjectsInv'
  OBVIOUS
<1>1. CASE Op!ObtainNew
  <2>1. PICK o \in Op!Fresh : lent' = lent \cup {o} /\ dirty' = dirty \cup {o}
    BY <1>1 DEF Op!ObtainNew
  <2>2. UNCHANGED <<idle, pool_shutdown, pool, returning, freed>>
    BY <1>1 DEF Op!ObtainNew
  <2>3. QED
    BY <2>1, <2>2 DEF ObjectsInv, Op!TypeOK, PoolIsExact, IdleIsDistinct, Op!IdleSet, Op!StateLives,
       Op!Fresh
<1>2. CASE Op!Shutdown
  BY <1>2 DEF Op!Shutdown, ObjectsInv, Op!TypeOK, PoolIsExact, IdleIsDistinct, Op!IdleSet,
       Op!StateLives
<1>3. CASE Op!Destroy
  <2>1. Op!IdleSet \subseteq Objects
    BY DEF ObjectsInv, Op!TypeOK, Op!IdleSet
  <2>2. CASE returning = {}
    <3>1. /\ idle' = <<>> /\ freed' = freed \cup Op!IdleSet /\ pool' = FALSE /\ pool_shutdown' = TRUE
          /\ UNCHANGED <<lent, returning, dirty>>
      BY <1>3, <2>2 DEF Op!Destroy
    <3>2. Op!IdleSet' = {} /\ IdleIsDistinct'
      BY <3>1 DEF Op!IdleSet, IdleIsDistinct
    <3>3. Op!TypeOK'
      <4>1. idle' \in Seq(Objects) /\ freed' \subseteq Objects
        BY <2>1, <3>1 DEF ObjectsInv, Op!TypeOK
      <4>2. QED
        BY <3>1, <4>1 DEF ObjectsInv, Op!TypeOK
    <3>4. PoolIsExact'
      BY <2>2, <3>1, <3>2 DEF ObjectsInv, PoolIsExact
    <3>5. QED
      BY <3>3, <3>4 DEF ObjectsInv
  <2>3. CASE returning # {}
    <3>1. pool' = FALSE /\ pool_shutdown' = TRUE /\ UNCHANGED <<idle, freed, lent, returning, dirty>>
      BY <1>3, <2>3 DEF Op!Destroy
    <3>2. QED
      BY <2>3, <3>1 DEF ObjectsInv, Op!TypeOK, PoolIsExact, IdleIsDistinct, Op!IdleSet,
           Op!StateLives
  <2>4. QED
    BY <2>2, <2>3
<1>4. ASSUME NEW o \in Objects, Op!Release(o)  PROVE ObjectsInv'
  <2>1. o \in lent /\ lent' = lent \ {o} /\ UNCHANGED <<idle, pool_shutdown, pool, dirty>>
    BY <1>4 DEF Op!Release
  <2>2. \/ Op!StateLives /\ returning' = returning \cup {o} /\ UNCHANGED freed
        \/ ~Op!StateLives /\ freed' = freed \cup {o} /\ UNCHANGED returning
    BY <1>4 DEF Op!Release
  <2>3. QED
    BY <2>1, <2>2 DEF ObjectsInv, Op!TypeOK, PoolIsExact, IdleIsDistinct, Op!IdleSet, Op!StateLives
<1>5. QED
  BY <1>1, <1>2, <1>3, <1>4, IdleIsLent, ObjectReturns DEF Op!Next

\* A step of nobody keeps it.
LEMMA ObjectsStutter == ObjectsInv /\ UNCHANGED objectsVars => ObjectsInv'
BY DEF objectsVars, ObjectsInv, Op!TypeOK, PoolIsExact, IdleIsDistinct, Op!IdleSet, Op!StateLives

\* The invariant implies what the run checks of the pool.
LEMMA ObjectsAreSound == ObjectsInv => Op!TypeOK /\ Op!ObjectPoolSound
<1> SUFFICES ASSUME ObjectsInv  PROVE Op!ObjectPoolSound
  BY DEF ObjectsInv
<1>1. Len(idle) = Cardinality(Op!IdleSet)
  BY DistinctSequence DEF ObjectsInv, Op!TypeOK, PoolIsExact, IdleIsDistinct, Op!IdleSet
<1>2. Cardinality(Op!IdleSet) = Op!Cardinality(Op!IdleSet)
  BY DEF Cardinality, Op!Cardinality
<1>3. QED
  BY <1>1, <1>2 DEF ObjectsInv, PoolIsExact, Op!ObjectPoolSound
-----------------------------------------------------------------------------
(* StopSource and StopToken, Thread, OnceLock *)

\* request_stop wakes the waiters: once, by the first call.
StopIsExact ==
  /\ requested \in BOOLEAN /\ stopOwed \in 0..1 /\ blocked \subseteq Th!Threads
  /\ firsts = IF requested THEN 1 ELSE 0
  /\ stopOwed <= firsts
  /\ Th!NoStopMissed

\* Who joins natively holds join_mutex_; what is cached is what the function did.
JoinIsExact ==
  /\ jpc \in [Th!Threads -> {"out", "enter", "native"}]
  /\ result \in [Th!Threads -> {"none", "ok", "internal", "failed_precondition"}]
  /\ fun \in {"runs", "ok", "threw"} /\ native \in {"joinable", "joined", "detached"}
  /\ object \in {"alive", "dying", "gone"} /\ join_mutex_ \in Th!Threads \cup {Th!NoThread}
  /\ joined_ \in BOOLEAN /\ join_status_ \in {"none", "ok", "internal"}
  /\ \A t \in Th!Threads : jpc[t] = "native" => join_mutex_ = t
  /\ native = "joined" => fun # "runs"
  /\ joined_ => native = "joined" /\ join_status_ = Th!completion_status
  /\ \A t \in Th!Threads : result[t] \in {"ok", "internal"} =>
       native = "joined" /\ result[t] = Th!completion_status
  /\ Th!GoneMeansEnded

\* The factory runs while there is no value, and makes the one that is seen.
OnceIsExact ==
  /\ once_mutex \in Th!Threads \cup {Th!NoThread} /\ value_ \in 0..MaxTries
  /\ tries \in 0..MaxTries /\ seen \subseteq (1..MaxTries) \cap {value_}
  /\ once_mutex # Th!NoThread => value_ = 0 /\ tries > 0

ThreadInv == StopIsExact /\ JoinIsExact /\ OnceIsExact

\* Nothing has started.
LEMMA ThreadInit == Th!Init => ThreadInv
<1> SUFFICES ASSUME Th!Init  PROVE ThreadInv
  OBVIOUS
<1>1. StopIsExact
  <2>1. requested = FALSE /\ stopOwed = 0 /\ blocked = {} /\ firsts = 0
    BY DEF Th!Init
  <2>2. stopOwed \in 0..1 /\ stopOwed <= firsts
    BY <2>1
  <2>3. QED
    BY <2>1, <2>2 DEF StopIsExact, Th!NoStopMissed
<1>2. JoinIsExact
  BY DEF Th!Init, JoinIsExact, Th!GoneMeansEnded, Th!NoThread
<1>3. OnceIsExact
  BY ThreadAssumption DEF Th!Init, OnceIsExact, Th!NoThread
<1>4. QED
  BY <1>1, <1>2, <1>3 DEF ThreadInv

\* A stop request is made once and told to everybody who registered.
LEMMA StopStays == StopIsExact /\ Th!Next => StopIsExact'
<1> SUFFICES ASSUME StopIsExact, Th!Next  PROVE StopIsExact'
  OBVIOUS
<1> USE DEF StopIsExact, Th!NoStopMissed
<1>1. ASSUME NEW t \in Th!Threads, Th!RequestStop(t)  PROVE StopIsExact'
  BY <1>1 DEF Th!RequestStop
<1>2. CASE Th!StopNotifies
  BY <1>2 DEF Th!StopNotifies
<1>3. ASSUME NEW t \in Th!Threads, Th!Wait(t) \/ Th!WaitTimesOut(t)  PROVE StopIsExact'
  BY <1>3 DEF Th!Wait, Th!WaitTimesOut
<1>4. ASSUME NEW t \in Th!Threads, Th!Destroy(t)  PROVE StopIsExact'
  <2>1. CASE native = "joinable" /\ ~requested
    BY <1>4, <2>1 DEF Th!Destroy
  <2>2. CASE native # "joinable"
    BY <1>4, <2>2 DEF Th!Destroy
  <2>3. CASE native = "joinable" /\ requested
    <3>1. requested' = TRUE /\ UNCHANGED <<stopOwed, firsts, blocked>>
      BY <1>4, <2>3 DEF Th!Destroy
    <3>2. QED
      BY <2>3, <3>1
  <2>4. QED
    BY <2>1, <2>2, <2>3
<1>5. CASE UNCHANGED Th!stopVars
  BY <1>5 DEF Th!stopVars
<1>6. QED
  BY <1>1, <1>2, <1>3, <1>4, <1>5 DEF Th!Next, Th!StopStep, Th!JoinStep, Th!DestroyJoins,
     Th!FunctionEnds, Th!Join, Th!JoinAnswers, Th!JoinStarts, Th!JoinEnds, Th!OnceFound,
     Th!OnceBegins, Th!OnceEnds

\* The thread is joined once, and its status is that of its end.
LEMMA JoinStays == JoinIsExact /\ Th!Next => JoinIsExact'
<1> SUFFICES ASSUME JoinIsExact, Th!Next  PROVE JoinIsExact'
  OBVIOUS
<1> USE DEF JoinIsExact, Th!completion_status, Th!GoneMeansEnded
<1>1. ASSUME NEW how \in {"ok", "threw"}, Th!FunctionEnds(how)  PROVE JoinIsExact'
  BY <1>1 DEF Th!FunctionEnds, Th!Free, Th!joinVars, Th!Threads
<1>2. ASSUME NEW t \in Th!Threads, Th!Join(t)  PROVE JoinIsExact'
  BY <1>2 DEF Th!Join
<1>3. ASSUME NEW t \in Th!Threads, Th!JoinAnswers(t)  PROVE JoinIsExact'
  BY <1>3 DEF Th!JoinAnswers
<1>4. ASSUME NEW t \in Th!Threads, Th!JoinStarts(t)  PROVE JoinIsExact'
  BY <1>4, ThreadAssumption DEF Th!JoinStarts, Th!NoThread, Th!Threads
<1>5. ASSUME NEW t \in Th!Threads, Th!JoinEnds(t)  PROVE JoinIsExact'
  BY <1>5 DEF Th!JoinEnds
<1>6. ASSUME NEW t \in Th!Threads, Th!Destroy(t)  PROVE JoinIsExact'
  BY <1>6 DEF Th!Destroy, Th!Free, Th!joinVars
<1>7. CASE Th!DestroyJoins
  BY <1>7 DEF Th!DestroyJoins, Th!joinVars
<1>8. CASE UNCHANGED <<fun, native, Th!joinVars, object>>
  BY <1>8 DEF Th!joinVars
<1>9. QED
  BY <1>1, <1>2, <1>3, <1>4, <1>5, <1>6, <1>7, <1>8 DEF Th!Next, Th!StopStep, Th!JoinStep,
     Th!RequestStop, Th!StopNotifies, Th!Wait, Th!WaitTimesOut, Th!OnceFound, Th!OnceBegins,
          Th!OnceEnds

\* The value of a once is made once, also when an attempt failed.
LEMMA OnceStays == OnceIsExact /\ Th!Next => OnceIsExact'
<1> SUFFICES ASSUME OnceIsExact, Th!Next  PROVE OnceIsExact'
  OBVIOUS
<1> USE DEF OnceIsExact
<1>1. ASSUME NEW t \in Th!Threads, Th!OnceFound(t)  PROVE OnceIsExact'
  BY <1>1 DEF Th!OnceFound
<1>2. ASSUME NEW t \in Th!Threads, Th!OnceBegins(t)  PROVE OnceIsExact'
  BY <1>2, ThreadAssumption DEF Th!OnceBegins
<1>3. ASSUME NEW t \in Th!Threads, NEW ok \in BOOLEAN, Th!OnceEnds(t, ok)  PROVE OnceIsExact'
  <2>1. once_mutex = t /\ t # Th!NoThread /\ value_ = 0 /\ tries > 0 /\ seen = {}
    BY <1>3, ThreadAssumption DEF Th!OnceEnds, Th!NoThread, Th!Threads
  <2>2. once_mutex' = Th!NoThread /\ tries' = tries
    BY <1>3 DEF Th!OnceEnds
  <2>3. CASE ok
    BY <1>3, <2>1, <2>2, <2>3 DEF Th!OnceEnds
  <2>4. CASE ~ok
    BY <1>3, <2>1, <2>2, <2>4 DEF Th!OnceEnds
  <2>5. QED
    BY <2>3, <2>4
<1>4. CASE UNCHANGED Th!onceVars
  BY <1>4 DEF Th!onceVars
<1>5. QED
  BY <1>1, <1>2, <1>3, <1>4 DEF Th!Next, Th!StopStep, Th!JoinStep, Th!DestroyJoins, Th!FunctionEnds,
     Th!Join, Th!JoinAnswers, Th!JoinStarts, Th!JoinEnds, Th!Destroy, Th!RequestStop,
          Th!StopNotifies,
     Th!Wait, Th!WaitTimesOut

\* Every step of the threads keeps the invariant.
LEMMA ThreadNext == ThreadInv /\ Th!Next => ThreadInv'
BY StopStays, JoinStays, OnceStays DEF ThreadInv

\* A step of nobody keeps it.
LEMMA ThreadStutters == ThreadInv /\ UNCHANGED threadVars => ThreadInv'
BY DEF threadVars, ThreadInv, StopIsExact, JoinIsExact, OnceIsExact, Th!NoStopMissed,
   Th!GoneMeansEnded, Th!completion_status

\* A set whose members are all the same has at most one.
LEMMA AtMostOne == ASSUME NEW S, \A x, y \in S : x = y  PROVE Cardinality(S) <= 1
<1>1. CASE S = {}
  BY <1>1, FS_EmptySet
<1>2. ASSUME NEW x \in S  PROVE Cardinality(S) <= 1
  <2>1. S = {x}
    BY <1>2
  <2>2. QED
    BY <2>1, FS_Singleton
<1>3. QED
  BY <1>1, <1>2

\* The invariant implies what the run checks of threads, tokens and cells.
LEMMA ThreadsAreSound == ThreadInv => Th!TypeOK /\ Th!ThreadSound
<1> SUFFICES ASSUME ThreadInv  PROVE Th!TypeOK /\ Th!ThreadSound
  OBVIOUS
<1>1. \A S : Th!Cardinality(S) = Cardinality(S)
  BY DEF Cardinality, Th!Cardinality
<1>2. Th!TypeOK
  BY DEF ThreadInv, StopIsExact, JoinIsExact, OnceIsExact, Th!TypeOK
<1>3. Th!JoinsAgree
  <2>1. Cardinality({t \in Th!Threads : jpc[t] = "native"}) <= 1
    BY AtMostOne DEF ThreadInv, JoinIsExact
  <2>2. QED
    BY <1>1, <2>1 DEF ThreadInv, StopIsExact, JoinIsExact, Th!JoinsAgree
<1>4. Th!OneValue
  <2>1. Cardinality(seen) <= 1
    BY AtMostOne DEF ThreadInv, OnceIsExact
  <2>2. QED
    BY <1>1, <2>1 DEF ThreadInv, OnceIsExact, Th!OneValue
<1>5. QED
  BY <1>2, <1>3, <1>4 DEF ThreadInv, StopIsExact, JoinIsExact, Th!ThreadSound
-----------------------------------------------------------------------------
\* event_bus.cpp: the table is what was subscribed, and an emit calls nobody whose handle
\* was dropped before; object_pool.hpp: an object is in one place and is reset before it is
\* lent again; thread.cpp, stop_token.cpp, once.hpp: a stop request reaches every waiter,
\* joins agree on one status and a once_value is made once.
THEOREM ThreadServicesStaySound == Spec => []ThreadServicesSound
<1> DEFINE Inv == /\ part = "bus" => BusInv
                  /\ part = "objects" => ObjectsInv
                  /\ part = "thread" => ThreadInv
<1>1. Init => Inv
  BY BusInit, ObjectsInit, ThreadInit DEF Init
<1>2. Inv /\ [Next]_vars => Inv'
  <2> SUFFICES ASSUME Inv, [Next]_vars  PROVE Inv'
    OBVIOUS
  <2>1. ASSUME part' = "bus"  PROVE BusInv'
    <3>1. part = "bus" /\ (Eb!Next \/ UNCHANGED busVars)
      BY <2>1 DEF Next, vars, Rest
    <3>2. QED
      BY <3>1, BusNext, BusStutters
  <2>2. ASSUME part' = "objects"  PROVE ObjectsInv'
    <3>1. part = "objects" /\ (Op!Next \/ UNCHANGED objectsVars)
      BY <2>2 DEF Next, vars, Rest
    <3>2. QED
      BY <3>1, ObjectsNext, ObjectsStutter
  <2>3. ASSUME part' = "thread"  PROVE ThreadInv'
    <3>1. part = "thread" /\ (Th!Next \/ UNCHANGED threadVars)
      BY <2>3 DEF Next, vars, Rest
    <3>2. QED
      BY <3>1, ThreadNext, ThreadStutters
  <2>4. QED
    BY <2>1, <2>2, <2>3
<1>3. Inv => ThreadServicesSound
  BY ObjectsAreSound, ThreadsAreSound DEF ThreadServicesSound, BusInv
<1>4. QED
  BY <1>1, <1>2, <1>3, PTL DEF Spec
-----------------------------------------------------------------------------
(* CachedDnsResolver and LruCache *)

CacheEntries == [key : Keys, expires_at : Nat]

\* The newest first: when[k] is the number of the last use of k.
NewestFirst(s, when) == \A i, j \in DOMAIN s : i < j => when[s[i].key] > when[s[j].key]

\* What the cache counts is of this type, and no use lies in the future.
DnsTyped ==
  /\ clock \in 0..DnsEnd /\ lru \in Seq(CacheEntries)
  /\ asking \in [Resolvers -> Keys \cup {Dn!NoKey}] /\ used \in [Keys -> Nat]
  /\ stats \in [{"hits", "misses", "expiries", "evictions", "resolver_calls"} -> Nat]
  /\ \A k \in Keys : used[k] <= Dn!Uses
  /\ answered = stats.hits + stats.resolver_calls

Asking == {r \in Resolvers : asking[r] # Dn!NoKey}

DnsCounts ==
  /\ stats.misses = stats.resolver_calls + Cardinality(Asking)
  /\ Len(lru) + stats.evictions + stats.expiries <= stats.resolver_calls

DnsInv == DnsTyped /\ Len(lru) <= DnsCapacity /\ NewestFirst(lru, used) /\ DnsCounts

\* What is left when one entry is taken out of the list is in order; no other
\* entry has its key.
LEMMA OneLess ==
  ASSUME NEW when \in [Keys -> Nat], NEW s \in Seq(CacheEntries), NewestFirst(s, when),
         NEW i \in 1..Len(s)
  PROVE  LET r == SubSeq(s, 1, i - 1) \o SubSeq(s, i + 1, Len(s))
         IN  /\ r \in Seq(CacheEntries) /\ Len(r) = Len(s) - 1 /\ NewestFirst(r, when)
             /\ \A j \in DOMAIN r : r[j].key # s[i].key
<1> DEFINE r == SubSeq(s, 1, i - 1) \o SubSeq(s, i + 1, Len(s))
<1>1. /\ r \in Seq(CacheEntries) /\ Len(r) = Len(s) - 1
      /\ \A j \in 1..(Len(s) - 1) : r[j] = IF j < i THEN s[j] ELSE s[j + 1]
  BY RemovedAt
<1> HIDE DEF r
<1>2. Len(s) \in Nat /\ i \in Nat /\ 1 <= i /\ i <= Len(s)
  OBVIOUS
<1>d. DOMAIN s = 1..Len(s) /\ DOMAIN r = 1..(Len(s) - 1)
  <2>1. DOMAIN r = 1..Len(r)
    BY <1>1
  <2>2. DOMAIN s = 1..Len(s)
    OBVIOUS
  <2>3. QED
    BY <1>1, <2>1, <2>2
<1>3. \A j \in 1..Len(s) : when[s[j].key] \in Nat
  <2>1. \A j \in 1..Len(s) : s[j] \in CacheEntries
    BY ElementOfSeq
  <2>2. \A j \in 1..Len(s) : s[j].key \in Keys
    BY <2>1 DEF CacheEntries
  <2>3. QED
    BY <2>2
<1>4. ASSUME NEW j \in 1..(Len(s) - 1)  PROVE r[j].key # s[i].key
  <2>1. j \in 1..Len(s) /\ j + 1 \in 1..Len(s) /\ j \in Nat
    BY <1>2
  <2>2. CASE j < i
    <3>1. when[s[j].key] > when[s[i].key] /\ r[j] = s[j]
      BY <1>1, <1>d, <2>1, <2>2 DEF NewestFirst
    <3>2. when[s[j].key] # when[s[i].key]
      BY <1>3, <2>1, <3>1
    <3>3. QED
      BY <3>1, <3>2
  <2>3. CASE ~(j < i)
    <3>1. i < j + 1
      BY <1>2, <2>1, <2>3
    <3>2. when[s[i].key] > when[s[j + 1].key] /\ r[j] = s[j + 1]
      BY <1>1, <1>d, <2>1, <2>3, <3>1 DEF NewestFirst
    <3>3. when[s[i].key] # when[s[j + 1].key]
      BY <1>3, <2>1, <3>2
    <3>4. QED
      BY <3>2, <3>3
  <2>4. QED
    BY <2>2, <2>3
<1>5. ASSUME NEW j \in 1..(Len(s) - 1), NEW k \in 1..(Len(s) - 1), j < k
      PROVE  when[r[j].key] > when[r[k].key]
  <2> DEFINE p == IF j < i THEN j ELSE j + 1
             q == IF k < i THEN k ELSE k + 1
  <2>1. p \in 1..Len(s) /\ q \in 1..Len(s) /\ p < q
    BY <1>2, <1>5
  <2>2. r[j] = s[p] /\ r[k] = s[q]
    BY <1>1
  <2>3. QED
    BY <1>d, <2>1, <2>2 DEF NewestFirst
<1>6. QED
  BY <1>1, <1>d, <1>4, <1>5 DEF NewestFirst, r

\* A key that is used now goes to the front.
LEMMA OneMore ==
  ASSUME NEW when \in [Keys -> Nat], NEW s \in Seq(CacheEntries), NewestFirst(s, when),
         NEW e \in CacheEntries, \A j \in DOMAIN s : s[j].key # e.key,
         NEW now_, now_ \in Nat, \A k \in Keys : when[k] < now_
  PROVE  /\ <<e>> \o s \in Seq(CacheEntries) /\ Len(<<e>> \o s) = Len(s) + 1
         /\ NewestFirst(<<e>> \o s, [when EXCEPT ![e.key] = now_])
<1> DEFINE t == <<e>> \o s
           then == [when EXCEPT ![e.key] = now_]
<1>1. /\ t \in Seq(CacheEntries) /\ Len(t) = Len(s) + 1 /\ t[1] = e
      /\ \A j \in 1..Len(s) : t[j + 1] = s[j]
  <2>1. <<e>> \in Seq(CacheEntries) /\ Len(<<e>>) = 1 /\ <<e>>[1] = e
    OBVIOUS
  <2>2. QED
    BY <2>1, ConcatProperties
<1>2. Len(s) \in Nat /\ DOMAIN s = 1..Len(s) /\ DOMAIN t = 1..(Len(s) + 1)
  BY <1>1
<1>3. \A j \in 1..Len(s) : then[s[j].key] = when[s[j].key] /\ when[s[j].key] < now_
  <2>1. \A j \in 1..Len(s) : s[j] \in CacheEntries
    BY ElementOfSeq
  <2>2. \A j \in 1..Len(s) : s[j].key \in Keys /\ s[j].key # e.key
    BY <1>2, <2>1 DEF CacheEntries
  <2>3. QED
    BY <2>2
<1>4. then[e.key] = now_
  BY DEF CacheEntries
<1>5. ASSUME NEW i \in DOMAIN t, NEW j \in DOMAIN t, i < j  PROVE then[t[i].key] > then[t[j].key]
  <2>1. j - 1 \in 1..Len(s) /\ t[j] = s[j - 1]
    BY <1>1, <1>2, <1>5
  <2>2. CASE i = 1
    BY <1>1, <1>3, <1>4, <2>1, <2>2 DEF CacheEntries
  <2>3. CASE i # 1
    <3>1. i - 1 \in 1..Len(s) /\ t[i] = s[i - 1] /\ i - 1 < j - 1
      BY <1>1, <1>2, <1>5, <2>3
    <3>2. QED
      BY <1>2, <1>3, <2>1, <3>1 DEF NewestFirst
  <2>4. QED
    BY <2>2, <2>3
<1>6. NewestFirst(t, then)
  BY <1>5 DEF NewestFirst
<1>7. QED
  BY <1>1, <1>6

\* A cache that was just made.
LEMMA DnsInit == Dn!Init => DnsInv
<1> SUFFICES ASSUME Dn!Init  PROVE DnsInv
  OBVIOUS
<1>1. lru \in Seq(CacheEntries) /\ lru = <<>> /\ Len(lru) = 0 /\ DOMAIN lru = {}
  BY DEF Dn!Init
<1>2. clock \in 0..DnsEnd
  BY DnsAssumption DEF Dn!Init
<1>3. DnsTyped
  BY <1>1, <1>2 DEF Dn!Init, DnsTyped, Dn!Uses, Dn!Calls
<1>4. Asking = {}
  BY DEF Dn!Init, Asking
<1>5. DnsCounts
  BY <1>1, <1>4, FS_EmptySet DEF Dn!Init, DnsCounts
<1>6. QED
  BY <1>1, <1>3, <1>5, DnsAssumption DEF DnsInv, NewestFirst

\* The list without a key, if it has it.
LEMMA WithoutKey ==
  ASSUME DnsInv, NEW k \in Keys
  PROVE  /\ Dn!Without(k) \in Seq(CacheEntries) /\ NewestFirst(Dn!Without(k), used)
         /\ Len(Dn!Without(k)) = IF Dn!Cached(k) THEN Len(lru) - 1 ELSE Len(lru)
         /\ \A j \in DOMAIN Dn!Without(k) : Dn!Without(k)[j].key # k
         /\ Dn!Cached(k) => Len(lru) > 0 /\ Dn!EntryOf(k) \in CacheEntries /\ Dn!EntryOf(k).key = k
<1>1. used \in [Keys -> Nat] /\ lru \in Seq(CacheEntries) /\ NewestFirst(lru, used)
  BY DEF DnsInv, DnsTyped
<1>2. CASE Dn!Cached(k)
  <2> DEFINE i == Dn!Place(k)
  <2>1. i \in DOMAIN lru /\ lru[i].key = k
    BY <1>2 DEF Dn!Cached, Dn!Place
  <2>2. i \in 1..Len(lru) /\ Len(lru) > 0
    BY <1>1, <2>1
  <2>3. Dn!Without(k) = SubSeq(lru, 1, i - 1) \o SubSeq(lru, i + 1, Len(lru))
    BY <1>2 DEF Dn!Without, Dn!RemoveAt
  <2>4. Dn!EntryOf(k) = lru[i] /\ lru[i] \in CacheEntries
    BY <1>1, <2>2, ElementOfSeq DEF Dn!EntryOf
  <2> DEFINE w == Dn!Without(k)
  <2> HIDE DEF i, w
  <2>5. /\ w \in Seq(CacheEntries) /\ Len(w) = Len(lru) - 1 /\ NewestFirst(w, used)
        /\ \A j \in DOMAIN w : w[j].key # lru[i].key
    <3>1. PICK p \in 1..Len(lru) : p = i
      BY <2>2
    <3>2. w = SubSeq(lru, 1, p - 1) \o SubSeq(lru, p + 1, Len(lru))
      BY <2>3, <3>1 DEF w
    <3>3. QED
      BY <1>1, <3>1, <3>2, OneLess
  <2>6. QED
    BY <1>2, <2>1, <2>2, <2>4, <2>5 DEF w
<1>3. CASE ~Dn!Cached(k)
  BY <1>1, <1>3 DEF Dn!Without, Dn!Cached
<1>4. QED
  BY <1>2, <1>3

\* The list without its oldest entry.
LEMMA WithoutOldest ==
  ASSUME DnsInv, NEW k \in Keys, Dn!Full(k)
  PROVE  /\ Dn!Front(lru) \in Seq(CacheEntries) /\ NewestFirst(Dn!Front(lru), used)
         /\ Len(Dn!Front(lru)) = Len(lru) - 1 /\ Len(lru) > 0
         /\ \A j \in DOMAIN Dn!Front(lru) : Dn!Front(lru)[j].key # k
<1>1. used \in [Keys -> Nat] /\ lru \in Seq(CacheEntries) /\ NewestFirst(lru, used)
  BY DEF DnsInv, DnsTyped
<1>2. Len(lru) \in Nat /\ Len(lru) > 0
  BY <1>1, DnsAssumption DEF Dn!Full
<1> DEFINE f == Dn!Front(lru)
<1>3. f = SubSeq(lru, 1, Len(lru) - 1)
  BY DEF Dn!Front
<1>4. /\ f \in Seq(CacheEntries) /\ Len(f) = Len(lru) - 1
      /\ \A j \in 1..(Len(lru) - 1) : f[j] = lru[j]
  BY <1>1, <1>2, <1>3, WithoutLast
<1>5. DOMAIN lru = 1..Len(lru) /\ DOMAIN f = 1..(Len(lru) - 1) /\ DOMAIN f \subseteq DOMAIN lru
  BY <1>1, <1>2, <1>4
<1> HIDE DEF f
<1>6. \A j \in DOMAIN f : f[j].key # k
  BY <1>4, <1>5 DEF Dn!Full, Dn!Cached
<1>7. NewestFirst(f, used)
  <2>1. \A j \in DOMAIN f : j \in DOMAIN lru /\ f[j] = lru[j]
    BY <1>4, <1>5
  <2>2. QED
    BY <1>1, <2>1 DEF NewestFirst
<1>8. QED
  BY <1>2, <1>4, <1>6, <1>7 DEF f

\* Every use is later than those before it.
LEMMA UseIsLatest ==
  ASSUME DnsInv
  PROVE  /\ Dn!Uses \in Nat /\ Dn!Uses + 1 \in Nat /\ \A k \in Keys : used[k] < Dn!Uses + 1
         /\ stats.hits \in Nat /\ stats.misses \in Nat /\ stats.expiries \in Nat
         /\ stats.evictions \in Nat /\ stats.resolver_calls \in Nat /\ answered \in Nat
         /\ answered = stats.hits + stats.resolver_calls
         /\ stats.misses = stats.resolver_calls + Cardinality(Asking)
         /\ Len(lru) + stats.evictions + stats.expiries <= stats.resolver_calls
         /\ IsFiniteSet(Asking) /\ Cardinality(Asking) \in Nat /\ Len(lru) \in Nat
<1>1. \A f \in {"hits", "misses", "expiries", "evictions", "resolver_calls"} : stats[f] \in Nat
  BY DEF DnsInv, DnsTyped
<1>2. Dn!Uses \in Nat /\ Dn!Uses + 1 \in Nat
  BY <1>1 DEF Dn!Uses, Dn!Calls
<1>3. \A k \in Keys : used[k] < Dn!Uses + 1
  BY <1>2 DEF DnsInv, DnsTyped
<1>4. IsFiniteSet(Asking) /\ Cardinality(Asking) \in Nat
  <2>1. Asking \subseteq Resolvers
    BY DEF Asking
  <2>2. QED
    BY <2>1, DnsAssumption, FS_Subset, FS_CardinalityType
<1>5. QED
  BY <1>1, <1>2, <1>3, <1>4 DEF DnsInv, DnsCounts, DnsTyped

\* A name that is found and fresh.
LEMMA DnsHits ==
  ASSUME DnsInv, NEW r \in Resolvers, NEW k \in Keys, Dn!ResolveHits(r, k)  PROVE DnsInv'
<1> DEFINE w == Dn!Without(k)
           e == Dn!EntryOf(k)
<1>1. /\ w \in Seq(CacheEntries) /\ NewestFirst(w, used) /\ Len(lru) > 0 /\ Len(w) = Len(lru) - 1
      /\ \A j \in DOMAIN w : w[j].key # e.key
      /\ e \in CacheEntries /\ e.key = k
  BY WithoutKey DEF Dn!ResolveHits, Dn!Fresh
<1>2. lru' = <<e>> \o w /\ used' = [used EXCEPT ![k] = Dn!Uses + 1]
  BY DEF Dn!ResolveHits, Dn!Touch
<1> HIDE DEF w, e
<1>3. /\ lru' \in Seq(CacheEntries) /\ Len(lru') = Len(w) + 1 /\ NewestFirst(lru', used')
      /\ used' \in [Keys -> Nat]
  <2>1. used \in [Keys -> Nat]
    BY DEF DnsInv, DnsTyped
  <2>2. QED
    BY <1>1, <1>2, <2>1, OneMore, UseIsLatest
<1>4. stats' = [stats EXCEPT !.hits = @ + 1] /\ UNCHANGED <<clock, asking>> /\ answered' = answered + 1
  BY DEF Dn!ResolveHits
<1>5. /\ stats' \in [{"hits", "misses", "expiries", "evictions", "resolver_calls"} -> Nat]
      /\ stats'.hits = stats.hits + 1 /\ stats'.misses = stats.misses
      /\ stats'.expiries = stats.expiries /\ stats'.evictions = stats.evictions
      /\ stats'.resolver_calls = stats.resolver_calls
  <2>1. stats \in [{"hits", "misses", "expiries", "evictions", "resolver_calls"} -> Nat]
    BY DEF DnsInv, DnsTyped
  <2>2. stats.hits \in Nat
    BY <2>1
  <2>3. \A n \in Nat : n + 1 \in Nat
    OBVIOUS
  <2>4. stats.hits + 1 \in Nat
    BY <2>2, <2>3
  <2>5. QED
    BY <1>4, <2>1, <2>4
<1>6. Dn!Uses' = Dn!Uses + 1 /\ answered' = stats'.hits + stats'.resolver_calls
  <2>1. Dn!Uses' = ((stats.hits + 1) + stats.misses) + stats.resolver_calls
    BY <1>5 DEF Dn!Uses, Dn!Calls
  <2>2. Dn!Uses = (stats.hits + stats.misses) + stats.resolver_calls
    BY DEF Dn!Uses, Dn!Calls
  <2>3. answered' = (stats.hits + stats.resolver_calls) + 1
    BY <1>4, UseIsLatest
  <2>4. stats.hits \in Nat /\ stats.misses \in Nat /\ stats.resolver_calls \in Nat
    BY UseIsLatest
  <2>5. \A a, b, c \in Nat : ((a + 1) + b) + c = ((a + b) + c) + 1 /\ (a + c) + 1 = (a + 1) + c
    OBVIOUS
  <2>6. Dn!Uses' = Dn!Uses + 1
    BY <2>1, <2>2, <2>4, <2>5
  <2>7. answered' = stats'.hits + stats'.resolver_calls
    BY <1>5, <2>3, <2>4, <2>5
  <2>8. QED
    BY <2>6, <2>7
<1>7. \A j \in Keys : used'[j] <= Dn!Uses'
  <2>1. ASSUME NEW j \in Keys  PROVE used'[j] = IF j = k THEN Dn!Uses + 1 ELSE used[j]
    BY <1>2 DEF DnsInv, DnsTyped
  <2>2. ASSUME NEW j \in Keys  PROVE used[j] \in Nat /\ used[j] <= Dn!Uses
    BY DEF DnsInv, DnsTyped
  <2>3. Dn!Uses' = Dn!Uses + 1 /\ Dn!Uses \in Nat
    BY <1>6, UseIsLatest
  <2>4. QED
    BY <2>1, <2>2, <2>3
<1>8. Asking' = Asking
  BY <1>4 DEF Asking
<1>9. Len(lru') = Len(lru)
  BY <1>1, <1>3, UseIsLatest
<1>a. DnsCounts'
  BY <1>5, <1>8, <1>9, UseIsLatest DEF DnsCounts
<1>b. DnsTyped'
  BY <1>3, <1>4, <1>5, <1>6, <1>7 DEF DnsInv, DnsTyped
<1>c. QED
  BY <1>3, <1>9, <1>a, <1>b DEF DnsInv

\* A name that is absent or has expired: the resolver is asked without the lock.
LEMMA DnsMisses ==
  ASSUME DnsInv, NEW r \in Resolvers, NEW k \in Keys, Dn!ResolveMisses(r, k)  PROVE DnsInv'
<1> DEFINE gone == IF Dn!Cached(k) THEN 1 ELSE 0
<1>1. /\ lru' \in Seq(CacheEntries) /\ NewestFirst(lru', used)
      /\ gone \in {0, 1} /\ Len(lru') = Len(lru) - gone
  <2>1. lru' = Dn!Without(k)
    BY DEF Dn!ResolveMisses
  <2>2. QED
    BY <2>1, WithoutKey, UseIsLatest
<1>2. /\ stats' = [stats EXCEPT !.misses = @ + 1, !.expiries = @ + gone]
      /\ asking[r] = Dn!NoKey /\ asking' = [asking EXCEPT ![r] = k]
      /\ UNCHANGED <<clock, answered, used>>
  BY DEF Dn!ResolveMisses
<1> HIDE DEF gone
<1>3. /\ stats.hits \in Nat /\ stats.misses \in Nat /\ stats.resolver_calls \in Nat
      /\ stats.expiries \in Nat /\ stats.evictions \in Nat /\ Len(lru) \in Nat /\ gone \in Nat
      /\ IsFiniteSet(Asking) /\ Cardinality(Asking) \in Nat
      /\ stats.expiries + gone \in Nat /\ stats.misses + 1 \in Nat
  <2>1. gone \in Nat
    BY <1>1
  <2>2. /\ stats.hits \in Nat /\ stats.misses \in Nat /\ stats.resolver_calls \in Nat
        /\ stats.expiries \in Nat /\ stats.evictions \in Nat /\ Len(lru) \in Nat
        /\ IsFiniteSet(Asking) /\ Cardinality(Asking) \in Nat
    BY UseIsLatest
  <2>3. QED
    BY <2>1, <2>2
<1>4. /\ stats' \in [{"hits", "misses", "expiries", "evictions", "resolver_calls"} -> Nat]
      /\ stats'.hits = stats.hits /\ stats'.misses = stats.misses + 1
      /\ stats'.expiries = stats.expiries + gone /\ stats'.evictions = stats.evictions
      /\ stats'.resolver_calls = stats.resolver_calls
  BY <1>2, <1>3 DEF DnsInv, DnsTyped
<1>5. Dn!Uses' = Dn!Uses + 1
  <2>1. Dn!Uses' = (stats.hits + (stats.misses + 1)) + stats.resolver_calls
    BY <1>4 DEF Dn!Uses, Dn!Calls
  <2>2. Dn!Uses = (stats.hits + stats.misses) + stats.resolver_calls
    BY DEF Dn!Uses, Dn!Calls
  <2>3. \A a, b, c \in Nat : (a + (b + 1)) + c = ((a + b) + c) + 1
    OBVIOUS
  <2>4. stats.hits \in Nat /\ stats.misses \in Nat /\ stats.resolver_calls \in Nat
    BY <1>3
  <2>5. QED
    BY <2>1, <2>2, <2>3, <2>4
<1>6. DnsTyped'
  <2>1. \A j \in Keys : used'[j] <= Dn!Uses'
    <3>1. ASSUME NEW j \in Keys  PROVE used[j] \in Nat /\ used[j] <= Dn!Uses
      BY DEF DnsInv, DnsTyped
    <3>2. QED
      BY <1>2, <1>5, <3>1, UseIsLatest
  <2>2. asking' \in [Resolvers -> Keys \cup {Dn!NoKey}]
    BY <1>2 DEF DnsInv, DnsTyped
  <2>3. QED
    BY <1>1, <1>2, <1>4, <2>1, <2>2 DEF DnsInv, DnsTyped
<1>7. Asking' = Asking \cup {r} /\ r \notin Asking
  BY <1>2, DnsAssumption DEF DnsInv, DnsTyped, Asking, Dn!NoKey
<1>8. Cardinality(Asking') = Cardinality(Asking) + 1
  BY <1>3, <1>7, FS_AddElement
<1>9. DnsCounts'
  <2>1. stats.misses = stats.resolver_calls + Cardinality(Asking)
    BY UseIsLatest
  <2>2. Len(lru) + stats.evictions + stats.expiries <= stats.resolver_calls
    BY UseIsLatest
  <2>3. stats'.misses = stats'.resolver_calls + Cardinality(Asking')
    BY <1>3, <1>4, <1>8, <2>1
  <2>4. Len(lru') + stats'.evictions + stats'.expiries <= stats'.resolver_calls
    BY <1>1, <1>3, <1>4, <2>2
  <2>5. QED
    BY <2>3, <2>4 DEF DnsCounts
<1>a. Len(lru') <= DnsCapacity
  BY <1>1, <1>3, DnsAssumption DEF DnsInv
<1>b. QED
  BY <1>1, <1>2, <1>6, <1>9, <1>a DEF DnsInv

\* The resolver has called back: one call more, one thread less that waits.
LEMMA CallIsCounted ==
  ASSUME DnsInv, NEW r \in Resolvers, asking[r] # Dn!NoKey, asking' = [asking EXCEPT ![r] = Dn!NoKey],
         answered' = answered + 1, NEW full \in {0, 1}, NEW s, stats' = s,
         s = [stats EXCEPT !.resolver_calls = @ + 1, !.evictions = @ + full]
  PROVE  /\ s \in [{"hits", "misses", "expiries", "evictions", "resolver_calls"} -> Nat]
         /\ s.evictions = stats.evictions + full /\ s.expiries = stats.expiries
         /\ s.resolver_calls = stats.resolver_calls + 1
         /\ Dn!Uses' = Dn!Uses + 1 /\ answered' = s.hits + s.resolver_calls
         /\ s.misses = s.resolver_calls + Cardinality(Asking')
         /\ asking' \in [Resolvers -> Keys \cup {Dn!NoKey}]
<1>1. /\ stats.hits \in Nat /\ stats.misses \in Nat /\ stats.resolver_calls \in Nat
      /\ stats.expiries \in Nat /\ stats.evictions \in Nat /\ full \in Nat
      /\ IsFiniteSet(Asking) /\ Cardinality(Asking) \in Nat
      /\ stats.evictions + full \in Nat /\ stats.resolver_calls + 1 \in Nat
      /\ answered = stats.hits + stats.resolver_calls
      /\ stats.misses = stats.resolver_calls + Cardinality(Asking)
  <2>1. full \in Nat
    OBVIOUS
  <2>2. /\ stats.hits \in Nat /\ stats.misses \in Nat /\ stats.resolver_calls \in Nat
        /\ stats.expiries \in Nat /\ stats.evictions \in Nat
        /\ IsFiniteSet(Asking) /\ Cardinality(Asking) \in Nat
        /\ answered = stats.hits + stats.resolver_calls
        /\ stats.misses = stats.resolver_calls + Cardinality(Asking)
    BY UseIsLatest
  <2>3. QED
    BY <2>1, <2>2
<1>2. stats \in [{"hits", "misses", "expiries", "evictions", "resolver_calls"} -> Nat]
      /\ asking \in [Resolvers -> Keys \cup {Dn!NoKey}]
  BY DEF DnsInv, DnsTyped
<1>3. /\ s \in [{"hits", "misses", "expiries", "evictions", "resolver_calls"} -> Nat]
      /\ s.hits = stats.hits /\ s.misses = stats.misses
      /\ s.evictions = stats.evictions + full /\ s.expiries = stats.expiries
      /\ s.resolver_calls = stats.resolver_calls + 1
  BY <1>1, <1>2
<1>4. Dn!Uses' = Dn!Uses + 1
  <2>1. Dn!Uses' = (stats.hits + stats.misses) + (stats.resolver_calls + 1)
    BY <1>3 DEF Dn!Uses, Dn!Calls
  <2>2. Dn!Uses = (stats.hits + stats.misses) + stats.resolver_calls
    BY DEF Dn!Uses, Dn!Calls
  <2>3. \A a, b, c \in Nat : (a + b) + (c + 1) = ((a + b) + c) + 1
    OBVIOUS
  <2>4. QED
    BY <1>1, <2>1, <2>2, <2>3
<1>5. answered' = s.hits + s.resolver_calls
  BY <1>1, <1>3
<1>6. asking' \in [Resolvers -> Keys \cup {Dn!NoKey}]
  BY <1>2
<1>7. Asking' = Asking \ {r} /\ r \in Asking
  BY <1>2 DEF Asking
<1>8. Cardinality(Asking') = Cardinality(Asking) - 1
  BY <1>1, <1>7, FS_RemoveElement
<1>9. s.misses = s.resolver_calls + Cardinality(Asking')
  BY <1>1, <1>3, <1>8
<1>a. QED
  BY <1>3, <1>4, <1>5, <1>6, <1>9

\* The answer enters the cache, which may evict a name (put).
LEMMA DnsAnswers ==
  ASSUME DnsInv, NEW r \in Resolvers, Dn!ResolverAnswers(r)  PROVE DnsInv'
<1> DEFINE k == asking[r]
           e == [key |-> k, expires_at |-> clock + Ttl]
           full == IF Dn!Full(k) THEN 1 ELSE 0
           w == IF Dn!Full(k) THEN Dn!Front(lru) ELSE Dn!Without(k)
<1>1. /\ k # Dn!NoKey /\ lru' = Dn!Put(e)
      /\ stats' = [stats EXCEPT !.resolver_calls = @ + 1, !.evictions = @ + full]
      /\ asking' = [asking EXCEPT ![r] = Dn!NoKey]
      /\ answered' = answered + 1 /\ used' = [used EXCEPT ![k] = Dn!Uses + 1] /\ UNCHANGED clock
  BY DEF Dn!ResolverAnswers
<1>2. k \in Keys /\ e.key = k /\ e \in CacheEntries /\ full \in {0, 1}
  BY <1>1, DnsAssumption DEF DnsInv, DnsTyped, CacheEntries
<1>3. lru' = <<e>> \o w
  BY <1>1, <1>2 DEF Dn!Put
<1>4. /\ w \in Seq(CacheEntries) /\ NewestFirst(w, used) /\ \A j \in DOMAIN w : w[j].key # k
      /\ Len(w) + full <= Len(lru) /\ Len(w) + 1 <= DnsCapacity
  <2>1. Len(lru) \in Nat /\ Len(lru) <= DnsCapacity
    BY UseIsLatest DEF DnsInv
  <2>2. CASE Dn!Full(k)
    BY <1>2, <2>1, <2>2, WithoutOldest, DnsAssumption
  <2>3. CASE ~Dn!Full(k)
    <3>1. w \in Seq(CacheEntries) /\ NewestFirst(w, used) /\ \A j \in DOMAIN w : w[j].key # k
      BY <1>2, <2>3, WithoutKey
    <3>2. Len(w) = IF Dn!Cached(k) THEN Len(lru) - 1 ELSE Len(lru)
      BY <1>2, <2>3, WithoutKey
    <3>3. Dn!Cached(k) \/ Len(lru) < DnsCapacity
      BY <2>1, <2>3, DnsAssumption DEF Dn!Full
    <3>4. full = 0
      BY <2>3
    <3> HIDE DEF w, full
    <3>5. QED
      BY <2>1, <3>1, <3>2, <3>3, <3>4, DnsAssumption
  <2>4. QED
    BY <2>2, <2>3
<1> HIDE DEF e, full, w, k
<1>5. /\ lru' \in Seq(CacheEntries) /\ Len(lru') = Len(w) + 1 /\ NewestFirst(lru', used')
      /\ used' \in [Keys -> Nat] /\ used \in [Keys -> Nat]
  <2>1. used \in [Keys -> Nat]
    BY DEF DnsInv, DnsTyped
  <2>2. used' = [used EXCEPT ![k] = Dn!Uses + 1]
    BY <1>1
  <2>3. Dn!Uses + 1 \in Nat /\ \A x \in Keys : used[x] < Dn!Uses + 1
    BY UseIsLatest
  <2>4. QED
    BY <1>2, <1>3, <1>4, <2>1, <2>2, <2>3, OneMore
<1>6. /\ stats' \in [{"hits", "misses", "expiries", "evictions", "resolver_calls"} -> Nat]
      /\ stats'.evictions = stats.evictions + full /\ stats'.expiries = stats.expiries
      /\ stats'.resolver_calls = stats.resolver_calls + 1
      /\ Dn!Uses' = Dn!Uses + 1 /\ answered' = stats'.hits + stats'.resolver_calls
      /\ stats'.misses = stats'.resolver_calls + Cardinality(Asking')
      /\ asking' \in [Resolvers -> Keys \cup {Dn!NoKey}]
  BY <1>1, <1>2, CallIsCounted DEF k
<1>7. \A j \in Keys : used'[j] <= Dn!Uses'
  <2>1. ASSUME NEW j \in Keys  PROVE used'[j] = IF j = k THEN Dn!Uses + 1 ELSE used[j]
    BY <1>1 DEF DnsInv, DnsTyped
  <2>2. ASSUME NEW j \in Keys  PROVE used[j] \in Nat /\ used[j] <= Dn!Uses
    BY DEF DnsInv, DnsTyped
  <2>3. Dn!Uses' = Dn!Uses + 1 /\ Dn!Uses \in Nat
    BY <1>6, UseIsLatest
  <2>4. QED
    BY <2>1, <2>2, <2>3
<1>8. DnsTyped'
  BY <1>1, <1>5, <1>6, <1>7 DEF DnsInv, DnsTyped
<1>9. Len(lru') + stats'.evictions + stats'.expiries <= stats'.resolver_calls
  <2>1. /\ stats.expiries \in Nat /\ stats.evictions \in Nat /\ stats.resolver_calls \in Nat
        /\ Len(lru) + stats.evictions + stats.expiries <= stats.resolver_calls /\ Len(lru) \in Nat
    BY UseIsLatest
  <2>2. Len(w) \in Nat
    BY <1>4
  <2>3. full \in Nat /\ Len(w) + full <= Len(lru)
    BY <1>2, <1>4
  <2>4. (Len(w) + 1) + (stats.evictions + full) + stats.expiries <= stats.resolver_calls + 1
    <3>1. \A n, m, x, y, z, c \in Nat :
            n + x <= m /\ m + y + z <= c => (n + 1) + (y + x) + z <= c + 1
      OBVIOUS
    <3>2. QED
      BY <2>1, <2>2, <2>3, <3>1
  <2>5. QED
    BY <1>5, <1>6, <2>4
<1>a. QED
  BY <1>4, <1>5, <1>6, <1>8, <1>9 DEF DnsInv, DnsCounts

\* A resolver that fails leaves the cache as it is.
LEMMA DnsFails ==
  ASSUME DnsInv, NEW r \in Resolvers, Dn!ResolverFails(r)  PROVE DnsInv'
<1>1. /\ asking[r] # Dn!NoKey /\ asking' = [asking EXCEPT ![r] = Dn!NoKey]
      /\ stats' = [stats EXCEPT !.resolver_calls = @ + 1]
      /\ answered' = answered + 1 /\ UNCHANGED <<clock, lru, used>>
  BY DEF Dn!ResolverFails
<1>2. stats' = [stats EXCEPT !.resolver_calls = @ + 1, !.evictions = @ + 0]
  <2>1. stats.evictions + 0 = stats.evictions
    BY UseIsLatest
  <2>2. stats \in [{"hits", "misses", "expiries", "evictions", "resolver_calls"} -> Nat]
    BY DEF DnsInv, DnsTyped
  <2>3. QED
    BY <1>1, <2>1, <2>2
<1>3. /\ stats' \in [{"hits", "misses", "expiries", "evictions", "resolver_calls"} -> Nat]
      /\ stats'.evictions = stats.evictions + 0 /\ stats'.expiries = stats.expiries
      /\ stats'.resolver_calls = stats.resolver_calls + 1
      /\ Dn!Uses' = Dn!Uses + 1 /\ answered' = stats'.hits + stats'.resolver_calls
      /\ stats'.misses = stats'.resolver_calls + Cardinality(Asking')
      /\ asking' \in [Resolvers -> Keys \cup {Dn!NoKey}]
  BY <1>1, <1>2, CallIsCounted
<1>4. \A j \in Keys : used'[j] <= Dn!Uses'
  <2>1. ASSUME NEW j \in Keys  PROVE used[j] \in Nat /\ used[j] <= Dn!Uses
    BY DEF DnsInv, DnsTyped
  <2>2. Dn!Uses' = Dn!Uses + 1 /\ Dn!Uses \in Nat
    BY <1>3, UseIsLatest
  <2>3. QED
    BY <1>1, <2>1, <2>2
<1>5. Len(lru') + stats'.evictions + stats'.expiries <= stats'.resolver_calls
  <2>1. /\ stats.expiries \in Nat /\ stats.evictions \in Nat /\ stats.resolver_calls \in Nat
        /\ Len(lru) + stats.evictions + stats.expiries <= stats.resolver_calls /\ Len(lru) \in Nat
    BY UseIsLatest
  <2>2. Len(lru) + (stats.evictions + 0) + stats.expiries <= stats.resolver_calls + 1
    BY <2>1
  <2>3. QED
    BY <1>1, <1>3, <2>2
<1>6. QED
  BY <1>1, <1>3, <1>4, <1>5 DEF DnsInv, DnsCounts, DnsTyped

\* A step of the clock alone keeps the invariant.
LEMMA DnsStutters == DnsInv /\ UNCHANGED <<lru, stats, asking, answered, used>> /\ clock' \in 0..DnsEnd
                       => DnsInv'
<1> SUFFICES ASSUME DnsInv, UNCHANGED <<lru, stats, asking, answered, used>>, clock' \in 0..DnsEnd
             PROVE  DnsInv'
  OBVIOUS
<1>1. Asking' = Asking /\ Dn!Uses' = Dn!Uses
  BY DEF Asking, Dn!Uses, Dn!Calls
<1>2. QED
  BY <1>1 DEF DnsInv, DnsTyped, DnsCounts, NewestFirst

\* Every step of the callers keeps it.
LEMMA DnsNext == DnsInv /\ (Dn!Next \/ UNCHANGED dnsVars) => DnsInv'
<1> SUFFICES ASSUME DnsInv, Dn!Next \/ UNCHANGED dnsVars  PROVE DnsInv'
  OBVIOUS
<1>1. CASE Dn!Tick
  <2>1. clock' \in 0..DnsEnd
    BY <1>1, DnsAssumption DEF Dn!Tick, DnsInv, DnsTyped
  <2>2. QED
    BY <1>1, <2>1, DnsStutters DEF Dn!Tick
<1>2. CASE UNCHANGED dnsVars
  <2>1. clock' \in 0..DnsEnd
    BY <1>2 DEF dnsVars, DnsInv, DnsTyped
  <2>2. QED
    BY <1>2, <2>1, DnsStutters DEF dnsVars
<1>3. QED
  BY <1>1, <1>2, DnsHits, DnsMisses, DnsAnswers, DnsFails DEF Dn!Next

\* The invariant implies what the run checks of the cache.
LEMMA DnsIsSound == DnsInv => Dn!TypeOK /\ Dn!DnsCacheSound
<1> SUFFICES ASSUME DnsInv  PROVE Dn!TypeOK /\ Dn!DnsCacheSound
  OBVIOUS
<1>1. \A S : Dn!Cardinality(S) = Cardinality(S)
  BY DEF Cardinality, Dn!Cardinality
<1>2. QED
  BY <1>1 DEF DnsInv, DnsTyped, DnsCounts, NewestFirst, Asking, CacheEntries, Dn!TypeOK,
     Dn!DnsCacheSound, Dn!LruOrdered, Dn!CallsAddUp

\* dns_cache.cpp, lru_cache.hpp: the cache keeps the order of use and its
\* capacity, and its counters add up, however the resolvers interleave.
THEOREM NamesStayCached == Spec => []NamesAreCached
<1> DEFINE Inv == part = "dns" => DnsInv
<1>1. Init => Inv
  BY DnsInit DEF Init
<1>2. Inv /\ [Next]_vars => Inv'
  <2> SUFFICES ASSUME Inv, [Next]_vars, part' = "dns"  PROVE DnsInv'
    OBVIOUS
  <2>1. part = "dns" /\ (Dn!Next \/ UNCHANGED dnsVars)
    BY DEF Next, vars, Rest
  <2>2. QED
    BY <2>1, DnsNext
<1>3. Inv => NamesAreCached
  BY DnsIsSound DEF NamesAreCached
<1>4. QED
  BY <1>1, <1>2, <1>3, PTL DEF Spec
-----------------------------------------------------------------------------
(* Subprocess *)

Holders == {Sp!Parent} \cup {Sp!Child(k) : k \in Kids} \cup {Sp!Grandchild(k) : k \in Kids}

ProcessTyped ==
  /\ Sp!TypeOK
  /\ stdout_ \in [Kids -> {"open", "closed", "taken"}] /\ exit_status_ \in [Kids -> BOOLEAN]
  /\ writers \in [Kids -> SUBSET Holders]
  /\ collected_stdout_ \in [Kids -> Nat] /\ handed \in [Kids -> Nat] /\ written \in [Kids -> Nat]
  /\ gathered \in [Kids -> Nat] /\ forgone \in [Kids -> Nat]

\* How far a spawn is goes with the process, and a process that runs holds
\* the write end of its own pipe; no other process holds one.
SpawnIsExact == \A k \in Kids :
  /\ spawning[k] \in {"none", "pipes"} => process[k] = "none"
  /\ spawning[k] = "forked" => process[k] = "running"
  /\ spawning[k] \in {"pipes", "forked"} => stdout_[k] = "open"
  /\ spawning[k] = "pipes" => Sp!Parent \in writers[k]
  /\ process[k] = "running" => Sp!Child(k) \in writers[k]
  /\ \A j \in Kids : Sp!Child(k) \in writers[j] => process[k] = "running"

ProcessInv == ProcessTyped /\ SpawnIsExact /\ Sp!SubprocessSound

\* Every holder of a descriptor has a name of its own.
LEMMA HoldersDiffer ==
  /\ \A k \in Kids : Sp!Child(k) # Sp!Parent /\ Sp!Grandchild(k) # Sp!Parent
  /\ \A j, k \in Kids : Sp!Child(k) # Sp!Grandchild(j) /\ (Sp!Child(j) = Sp!Child(k) => j = k)
  /\ \A k \in Kids : {Sp!Parent, Sp!Child(k), Sp!Grandchild(k)} \subseteq Holders
BY DEF Sp!Child, Sp!Parent, Sp!Grandchild, Holders

\* No child was spawned.
LEMMA ProcessInit == Sp!Init => ProcessInv
<1> SUFFICES ASSUME Sp!Init  PROVE ProcessInv
  OBVIOUS
<1>1. ProcessTyped
  BY ProcessAssumption DEF Sp!Init, ProcessTyped, Sp!TypeOK
<1>2. SpawnIsExact
  BY DEF Sp!Init, SpawnIsExact
<1>3. Sp!NothingLost
  BY DEF Sp!Init, Sp!NothingLost
<1>4. Sp!ReapedOnce
  BY DEF Sp!Init, Sp!ReapedOnce
<1>5. QED
  BY <1>1, <1>2, <1>3, <1>4 DEF ProcessInv, Sp!SubprocessSound

\* Every step keeps the variables in their types.
LEMMA ProcessTypes == ProcessInv /\ Sp!Next => ProcessTyped'
<1> SUFFICES ASSUME ProcessInv, NEW k \in Kids,
                    \/ Sp!CreatePipes(k) \/ Sp!Fork(k) \/ Sp!ForkFails(k) \/ Sp!Started(k)
                    \/ Sp!ExecFails(k) \/ Sp!Writes(k) \/ Sp!Forks(k) \/ Sp!Exits(k)
                    \/ Sp!GrandchildExits(k) \/ Sp!WaitEnds(k) \/ Sp!Kill(k) \/ Sp!TakeStdout(k)
                    \/ Sp!Waiting(k) \/ \E limited \in BOOLEAN : Sp!WaitWithOutput(k, limited)
             PROVE  ProcessTyped'
  BY DEF Sp!Next
<1> USE DEF ProcessInv, ProcessTyped, Sp!TypeOK, Sp!rest
<1>1. CASE Sp!CreatePipes(k)
  BY <1>1, HoldersDiffer DEF Sp!CreatePipes
<1>2. CASE Sp!Fork(k)
  BY <1>2, HoldersDiffer DEF Sp!Fork, Sp!handle
<1>3. CASE Sp!ForkFails(k)
  BY <1>3 DEF Sp!ForkFails
<1>4. CASE Sp!Started(k)
  BY <1>4 DEF Sp!Started, Sp!handle
<1>5. CASE Sp!ExecFails(k)
  BY <1>5 DEF Sp!ExecFails, Sp!Reaped
<1>6. CASE Sp!Writes(k)
  <2>1. buffered[k] + 1 \in 0..PipeSize /\ written[k] + 1 \in Nat
    BY <1>6, ProcessAssumption DEF Sp!Writes
  <2>2. QED
    BY <1>6, <2>1 DEF Sp!Writes, Sp!handle
<1>7. CASE Sp!Forks(k)
  BY <1>7, HoldersDiffer DEF Sp!Forks, Sp!handle
<1>8. CASE Sp!Exits(k)
  BY <1>8 DEF Sp!Exits, Sp!handle, Sp!WithoutProcess
<1>9. CASE Sp!GrandchildExits(k)
  BY <1>9 DEF Sp!GrandchildExits, Sp!handle
<1>10. CASE Sp!WaitEnds(k)
  BY <1>10 DEF Sp!WaitEnds, Sp!pipes, Sp!Reaped
<1>11. CASE Sp!Kill(k)
  BY <1>11 DEF Sp!Kill, Sp!handle, Sp!WithoutProcess
<1>12. CASE Sp!TakeStdout(k)
  BY <1>12 DEF Sp!TakeStdout, Sp!pipes
<1>13. CASE \E limited \in BOOLEAN : Sp!WaitWithOutput(k, limited)
  BY <1>13 DEF Sp!WaitWithOutput, Sp!pipes
<1>14. CASE Sp!Waiting(k)
  <2>1. /\ collected_stdout_[k] + buffered[k] \in Nat /\ handed[k] + collected_stdout_[k] \in Nat
        /\ gathered[k] + buffered[k] \in Nat /\ forgone[k] + gathered[k] \in Nat
        /\ collected_stdout_[k] + gathered[k] \in Nat /\ 0 \in 0..PipeSize
    BY ProcessAssumption
  <2>2. CASE Sp!Drain(k)
    BY <2>1, <2>2 DEF Sp!Drain
  <2>3. CASE Sp!DrainFails(k)
    <3>1. PICK n \in 0..buffered[k] :
            /\ collected_stdout_' = [collected_stdout_ EXCEPT ![k] = @ + n]
            /\ buffered' = [buffered EXCEPT ![k] = @ - n]
      BY <2>3 DEF Sp!DrainFails
    <3>2. collected_stdout_[k] + n \in Nat /\ buffered[k] - n \in 0..PipeSize
      BY ProcessAssumption
    <3>3. QED
      BY <2>3, <3>1, <3>2 DEF Sp!DrainFails, Sp!Returns
  <2>4. CASE Sp!Poll(k)
    BY <2>4 DEF Sp!Poll, Sp!Returns, Sp!pipes, Sp!Reaped, Sp!AtTimeout
  <2>5. CASE Sp!OtherFails(k)
    BY <2>5 DEF Sp!OtherFails, Sp!Returns, Sp!pipes
  <2>6. CASE Sp!RestRead(k)
    BY <2>1, <2>6 DEF Sp!RestRead
  <2>7. CASE Sp!RestFails(k)
    BY <2>1, <2>7 DEF Sp!RestFails, Sp!Returns, Sp!pipes
  <2>8. CASE Sp!RestEnds(k)
    BY <2>1, <2>8 DEF Sp!RestEnds, Sp!pipes
  <2>9. CASE Sp!HandsOver(k)
    BY <2>1, <2>9 DEF Sp!HandsOver, Sp!Returns, Sp!pipes
  <2>10. QED
    BY <1>14, <2>2, <2>3, <2>4, <2>5, <2>6, <2>7, <2>8, <2>9 DEF Sp!Waiting
<1>15. QED
  BY <1>1, <1>2, <1>3, <1>4, <1>5, <1>6, <1>7, <1>8, <1>9, <1>10, <1>11, <1>12, <1>13, <1>14

\* How far a spawn is goes with the process and with the pipe ends that are held.
LEMMA SpawnStays == ProcessInv /\ Sp!Next => SpawnIsExact'
<1> SUFFICES ASSUME ProcessInv, NEW k \in Kids,
                    \/ Sp!CreatePipes(k) \/ Sp!Fork(k) \/ Sp!ForkFails(k) \/ Sp!Started(k)
                    \/ Sp!ExecFails(k) \/ Sp!Writes(k) \/ Sp!Forks(k) \/ Sp!Exits(k)
                    \/ Sp!GrandchildExits(k) \/ Sp!WaitEnds(k) \/ Sp!Kill(k) \/ Sp!TakeStdout(k)
                    \/ Sp!Waiting(k) \/ \E limited \in BOOLEAN : Sp!WaitWithOutput(k, limited)
             PROVE  SpawnIsExact'
  BY DEF Sp!Next
<1>1. CASE Sp!CreatePipes(k)
  BY <1>1, HoldersDiffer DEF Sp!CreatePipes, Sp!rest, ProcessInv, ProcessTyped, Sp!TypeOK, SpawnIsExact
<1>2. CASE Sp!Fork(k)
  BY <1>2, HoldersDiffer DEF Sp!Fork, Sp!handle, Sp!rest, ProcessInv, ProcessTyped, Sp!TypeOK, SpawnIsExact
<1>3. CASE Sp!ForkFails(k)
  BY <1>3, HoldersDiffer DEF Sp!ForkFails, Sp!rest, ProcessInv, ProcessTyped, Sp!TypeOK, SpawnIsExact
<1>4. CASE Sp!Started(k)
  BY <1>4, HoldersDiffer DEF Sp!Started, Sp!handle, Sp!rest, ProcessInv, ProcessTyped, Sp!TypeOK,
       SpawnIsExact
<1>5. CASE Sp!ExecFails(k)
  BY <1>5, HoldersDiffer DEF Sp!ExecFails, Sp!rest, Sp!Reaped, ProcessInv, ProcessTyped, Sp!TypeOK,
       SpawnIsExact
<1>6. CASE Sp!Writes(k)
  BY <1>6, HoldersDiffer DEF Sp!Writes, Sp!handle, Sp!rest, ProcessInv, ProcessTyped, Sp!TypeOK, SpawnIsExact
<1>7. CASE Sp!Forks(k)
  BY <1>7, HoldersDiffer DEF Sp!Forks, Sp!handle, Sp!rest, ProcessInv, ProcessTyped, Sp!TypeOK, SpawnIsExact
<1>8. CASE Sp!Exits(k)
  BY <1>8, HoldersDiffer DEF Sp!Exits, Sp!handle, Sp!rest, Sp!WithoutProcess, ProcessInv, ProcessTyped,
       Sp!TypeOK, SpawnIsExact
<1>9. CASE Sp!GrandchildExits(k)
  BY <1>9, HoldersDiffer DEF Sp!GrandchildExits, Sp!handle, Sp!rest, ProcessInv, ProcessTyped, Sp!TypeOK,
       SpawnIsExact
<1>10. CASE Sp!WaitEnds(k)
  BY <1>10, HoldersDiffer DEF Sp!WaitEnds, Sp!pipes, Sp!rest, Sp!Reaped, Sp!At, Sp!Owned, ProcessInv,
       ProcessTyped, Sp!TypeOK, SpawnIsExact
<1>11. CASE Sp!Kill(k)
  BY <1>11, HoldersDiffer DEF Sp!Kill, Sp!handle, Sp!rest, Sp!WithoutProcess, Sp!At, Sp!Owned, Sp!MayKill,
       ProcessInv, ProcessTyped, Sp!TypeOK, SpawnIsExact
<1>12. CASE Sp!TakeStdout(k)
  BY <1>12, HoldersDiffer DEF Sp!TakeStdout, Sp!pipes, Sp!rest, Sp!At, Sp!Owned, ProcessInv, ProcessTyped,
       Sp!TypeOK, SpawnIsExact
<1>13. CASE \E limited \in BOOLEAN : Sp!WaitWithOutput(k, limited)
  BY <1>13, HoldersDiffer DEF Sp!WaitWithOutput, Sp!At, Sp!Owned, Sp!pipes, Sp!rest, ProcessInv, ProcessTyped, Sp!TypeOK,
       SpawnIsExact
<1>14. CASE Sp!Drain(k)
  BY <1>14, HoldersDiffer DEF Sp!Drain, Sp!rest, Sp!At, Sp!Owned, ProcessInv, ProcessTyped,
       Sp!TypeOK, SpawnIsExact
<1>15. CASE Sp!Poll(k)
  BY <1>15, HoldersDiffer DEF Sp!Poll, Sp!Returns, Sp!rest, Sp!pipes, Sp!Reaped, Sp!AtTimeout, Sp!At, Sp!Owned,
       ProcessInv, ProcessTyped, Sp!TypeOK, SpawnIsExact, Sp!SubprocessSound, Sp!ReapedOnce
<1>16. CASE Sp!DrainFails(k)
  BY <1>16, HoldersDiffer DEF Sp!DrainFails, Sp!Returns, Sp!At, Sp!Owned, Sp!rest, ProcessInv, ProcessTyped,
       Sp!TypeOK, SpawnIsExact
<1>17. CASE Sp!OtherFails(k)
  BY <1>17, HoldersDiffer DEF Sp!OtherFails, Sp!Returns, Sp!pipes, Sp!At, Sp!Owned, Sp!rest, ProcessInv, ProcessTyped,
       Sp!TypeOK, SpawnIsExact
<1>18. CASE Sp!RestRead(k)
  BY <1>18, HoldersDiffer DEF Sp!RestRead, Sp!At, Sp!Owned, Sp!rest, ProcessInv, ProcessTyped,
       Sp!TypeOK, SpawnIsExact
<1>19. CASE Sp!RestFails(k)
  BY <1>19, HoldersDiffer DEF Sp!RestFails, Sp!Returns, Sp!pipes, Sp!At, Sp!Owned, Sp!rest, ProcessInv, ProcessTyped,
       Sp!TypeOK, SpawnIsExact
<1>20. CASE Sp!RestEnds(k)
  BY <1>20, HoldersDiffer DEF Sp!RestEnds, Sp!pipes, Sp!At, Sp!Owned, Sp!rest, ProcessInv, ProcessTyped,
       Sp!TypeOK, SpawnIsExact
<1>21. CASE Sp!HandsOver(k)
  BY <1>21, HoldersDiffer DEF Sp!HandsOver, Sp!Returns, Sp!pipes, Sp!At, Sp!Owned, Sp!rest, ProcessInv, ProcessTyped,
       Sp!TypeOK, SpawnIsExact
<1>22. QED
  BY <1>1, <1>2, <1>3, <1>4, <1>5, <1>6, <1>7, <1>8, <1>9, <1>10, <1>11, <1>12, <1>13, <1>14,
       <1>15, <1>16, <1>17, <1>18, <1>19, <1>20, <1>21 DEF Sp!Waiting

\* What a child wrote is in its pipe, collected, or handed out.
LEMMA OutputIsKept == ProcessInv /\ Sp!Next => Sp!NothingLost'
<1> SUFFICES ASSUME ProcessInv, NEW k \in Kids,
                    \/ Sp!CreatePipes(k) \/ Sp!Fork(k) \/ Sp!ForkFails(k) \/ Sp!Started(k)
                    \/ Sp!ExecFails(k) \/ Sp!Writes(k) \/ Sp!Forks(k) \/ Sp!Exits(k)
                    \/ Sp!GrandchildExits(k) \/ Sp!WaitEnds(k) \/ Sp!Kill(k) \/ Sp!TakeStdout(k)
                    \/ Sp!Waiting(k) \/ \E limited \in BOOLEAN : Sp!WaitWithOutput(k, limited)
             PROVE  Sp!NothingLost'
  BY DEF Sp!Next
<1>1. CASE Sp!CreatePipes(k)
  BY <1>1, HoldersDiffer DEF Sp!CreatePipes, Sp!rest, ProcessInv, ProcessTyped, Sp!TypeOK, SpawnIsExact,
       Sp!SubprocessSound, Sp!NothingLost
<1>2. CASE Sp!Fork(k)
  BY <1>2, HoldersDiffer DEF Sp!Fork, Sp!handle, Sp!rest, ProcessInv, ProcessTyped, Sp!TypeOK,
       SpawnIsExact, Sp!SubprocessSound, Sp!NothingLost
<1>3. CASE Sp!ForkFails(k)
  BY <1>3, HoldersDiffer DEF Sp!ForkFails, Sp!rest, ProcessInv, ProcessTyped, Sp!TypeOK, SpawnIsExact,
       Sp!SubprocessSound, Sp!NothingLost
<1>4. CASE Sp!Started(k)
  BY <1>4, HoldersDiffer DEF Sp!Started, Sp!handle, Sp!rest, ProcessInv, ProcessTyped, Sp!TypeOK,
       SpawnIsExact, Sp!SubprocessSound, Sp!NothingLost
<1>5. CASE Sp!ExecFails(k)
  BY <1>5, HoldersDiffer DEF Sp!ExecFails, Sp!rest, Sp!Reaped, ProcessInv, ProcessTyped, Sp!TypeOK,
       SpawnIsExact, Sp!SubprocessSound, Sp!NothingLost
<1>6. CASE Sp!Writes(k)
  BY <1>6, HoldersDiffer DEF Sp!Writes, Sp!handle, Sp!rest, ProcessInv, ProcessTyped, Sp!TypeOK,
       SpawnIsExact, Sp!SubprocessSound, Sp!NothingLost
<1>7. CASE Sp!Forks(k)
  BY <1>7, HoldersDiffer DEF Sp!Forks, Sp!handle, Sp!rest, ProcessInv, ProcessTyped, Sp!TypeOK,
       SpawnIsExact, Sp!SubprocessSound, Sp!NothingLost
<1>8. CASE Sp!Exits(k)
  BY <1>8, HoldersDiffer DEF Sp!Exits, Sp!handle, Sp!rest, Sp!WithoutProcess, ProcessInv, ProcessTyped,
       Sp!TypeOK, SpawnIsExact, Sp!SubprocessSound, Sp!NothingLost
<1>9. CASE Sp!GrandchildExits(k)
  BY <1>9, HoldersDiffer DEF Sp!GrandchildExits, Sp!handle, Sp!rest, ProcessInv, ProcessTyped, Sp!TypeOK,
       SpawnIsExact, Sp!SubprocessSound, Sp!NothingLost
<1>10. CASE Sp!WaitEnds(k)
  BY <1>10, HoldersDiffer DEF Sp!WaitEnds, Sp!pipes, Sp!rest, Sp!Reaped, Sp!At, Sp!Owned, ProcessInv,
       ProcessTyped, Sp!TypeOK, SpawnIsExact, Sp!SubprocessSound, Sp!NothingLost
<1>11. CASE Sp!Kill(k)
  BY <1>11, HoldersDiffer DEF Sp!Kill, Sp!handle, Sp!rest, Sp!WithoutProcess, Sp!At, Sp!Owned, Sp!MayKill,
       ProcessInv, ProcessTyped, Sp!TypeOK, SpawnIsExact, Sp!SubprocessSound, Sp!NothingLost
<1>12. CASE Sp!TakeStdout(k)
  BY <1>12, HoldersDiffer DEF Sp!TakeStdout, Sp!pipes, Sp!rest, Sp!At, Sp!Owned, ProcessInv, ProcessTyped,
       Sp!TypeOK, SpawnIsExact, Sp!SubprocessSound, Sp!NothingLost
<1>13. CASE \E limited \in BOOLEAN : Sp!WaitWithOutput(k, limited)
  BY <1>13, HoldersDiffer DEF Sp!WaitWithOutput, Sp!At, Sp!Owned, Sp!pipes, Sp!rest, ProcessInv, ProcessTyped, Sp!TypeOK,
       SpawnIsExact, Sp!SubprocessSound, Sp!NothingLost
<1>14. CASE Sp!Drain(k)
  <2>1. \A j \in Kids : collected_stdout_'[j] + buffered'[j] = collected_stdout_[j] + buffered[j]
    BY <1>14 DEF Sp!Drain, ProcessInv, ProcessTyped, Sp!TypeOK
  <2>2. \A j \in Kids : /\ buffered[j] \in Nat /\ collected_stdout_[j] \in Nat
                        /\ buffered'[j] \in Nat /\ collected_stdout_'[j] \in Nat
                        /\ gathered[j] \in Nat /\ handed[j] \in Nat /\ forgone[j] \in Nat
    BY ProcessTypes, <1>14 DEF Sp!Next, Sp!Waiting, ProcessInv, ProcessTyped, Sp!TypeOK
  <2>3. /\ gathered' = gathered /\ handed' = handed /\ forgone' = forgone /\ written' = written
    BY <1>14 DEF Sp!Drain, Sp!rest
  <2>4. \A j \in Kids : buffered'[j] + collected_stdout_'[j] + gathered'[j] + handed'[j] + forgone'[j] = written'[j]
    BY <2>1, <2>2, <2>3 DEF ProcessInv, Sp!SubprocessSound, Sp!NothingLost
  <2>5. \A j \in Kids : /\ wpc'[j] # "rest" => gathered'[j] = 0
                        /\ stdout_'[j] = "closed" /\ spawning'[j] = "started" => buffered'[j] = 0 /\ writers'[j] = {}
    BY <1>14, <2>3 DEF Sp!Drain, Sp!At, Sp!Owned, ProcessInv, ProcessTyped, Sp!TypeOK,
         Sp!SubprocessSound, Sp!NothingLost
  <2>6. QED
    BY <2>4, <2>5 DEF Sp!NothingLost
<1>15. CASE Sp!Poll(k)
  BY <1>15, HoldersDiffer DEF Sp!Poll, Sp!Returns, Sp!rest, Sp!pipes, Sp!Reaped, Sp!AtTimeout, Sp!At, Sp!Owned,
       ProcessInv, ProcessTyped, Sp!TypeOK, SpawnIsExact, Sp!SubprocessSound, Sp!NothingLost
<1>16. CASE Sp!DrainFails(k)
  BY <1>16, HoldersDiffer DEF Sp!DrainFails, Sp!Returns, Sp!At, Sp!Owned, Sp!rest, ProcessInv, ProcessTyped,
       Sp!TypeOK, SpawnIsExact, Sp!SubprocessSound, Sp!NothingLost
<1>17. CASE Sp!OtherFails(k)
  BY <1>17, HoldersDiffer DEF Sp!OtherFails, Sp!Returns, Sp!pipes, Sp!At, Sp!Owned, Sp!rest, ProcessInv, ProcessTyped,
       Sp!TypeOK, SpawnIsExact, Sp!SubprocessSound, Sp!NothingLost
<1>18. CASE Sp!RestRead(k)
  BY <1>18, HoldersDiffer DEF Sp!RestRead, Sp!At, Sp!Owned, Sp!rest, ProcessInv, ProcessTyped,
       Sp!TypeOK, SpawnIsExact, Sp!SubprocessSound, Sp!NothingLost
<1>19. CASE Sp!RestFails(k)
  BY <1>19, HoldersDiffer DEF Sp!RestFails, Sp!Returns, Sp!pipes, Sp!At, Sp!Owned, Sp!rest, ProcessInv, ProcessTyped,
       Sp!TypeOK, SpawnIsExact, Sp!SubprocessSound, Sp!NothingLost
<1>20. CASE Sp!RestEnds(k)
  BY <1>20, HoldersDiffer DEF Sp!RestEnds, Sp!pipes, Sp!At, Sp!Owned, Sp!rest, ProcessInv, ProcessTyped,
       Sp!TypeOK, SpawnIsExact, Sp!SubprocessSound, Sp!NothingLost
<1>21. CASE Sp!HandsOver(k)
  BY <1>21, HoldersDiffer DEF Sp!HandsOver, Sp!Returns, Sp!pipes, Sp!At, Sp!Owned, Sp!rest, ProcessInv, ProcessTyped,
       Sp!TypeOK, SpawnIsExact, Sp!SubprocessSound, Sp!NothingLost
<1>22. QED
  BY <1>1, <1>2, <1>3, <1>4, <1>5, <1>6, <1>7, <1>8, <1>9, <1>10, <1>11, <1>12, <1>13, <1>14,
       <1>15, <1>16, <1>17, <1>18, <1>19, <1>20, <1>21 DEF Sp!Waiting

\* A pid is reaped once, by the call that learns the status.
LEMMA ChildIsReaped == ProcessInv /\ Sp!Next => Sp!ReapedOnce'
<1> SUFFICES ASSUME ProcessInv, NEW k \in Kids,
                    \/ Sp!CreatePipes(k) \/ Sp!Fork(k) \/ Sp!ForkFails(k) \/ Sp!Started(k)
                    \/ Sp!ExecFails(k) \/ Sp!Writes(k) \/ Sp!Forks(k) \/ Sp!Exits(k)
                    \/ Sp!GrandchildExits(k) \/ Sp!WaitEnds(k) \/ Sp!Kill(k) \/ Sp!TakeStdout(k)
                    \/ Sp!Waiting(k) \/ \E limited \in BOOLEAN : Sp!WaitWithOutput(k, limited)
             PROVE  Sp!ReapedOnce'
  BY DEF Sp!Next
<1>1. CASE Sp!CreatePipes(k)
  BY <1>1, HoldersDiffer DEF Sp!CreatePipes, Sp!rest, ProcessInv, ProcessTyped, Sp!TypeOK, SpawnIsExact,
       Sp!SubprocessSound, Sp!ReapedOnce
<1>2. CASE Sp!Fork(k)
  BY <1>2, HoldersDiffer DEF Sp!Fork, Sp!handle, Sp!rest, ProcessInv, ProcessTyped, Sp!TypeOK,
       SpawnIsExact, Sp!SubprocessSound, Sp!ReapedOnce
<1>3. CASE Sp!ForkFails(k)
  BY <1>3, HoldersDiffer DEF Sp!ForkFails, Sp!rest, ProcessInv, ProcessTyped, Sp!TypeOK, SpawnIsExact,
       Sp!SubprocessSound, Sp!ReapedOnce
<1>4. CASE Sp!Started(k)
  BY <1>4, HoldersDiffer DEF Sp!Started, Sp!handle, Sp!rest, ProcessInv, ProcessTyped, Sp!TypeOK,
       SpawnIsExact, Sp!SubprocessSound, Sp!ReapedOnce
<1>5. CASE Sp!ExecFails(k)
  BY <1>5, HoldersDiffer DEF Sp!ExecFails, Sp!rest, Sp!Reaped, ProcessInv, ProcessTyped, Sp!TypeOK,
       SpawnIsExact, Sp!SubprocessSound, Sp!ReapedOnce
<1>6. CASE Sp!Writes(k)
  BY <1>6, HoldersDiffer DEF Sp!Writes, Sp!handle, Sp!rest, ProcessInv, ProcessTyped, Sp!TypeOK,
       SpawnIsExact, Sp!SubprocessSound, Sp!ReapedOnce
<1>7. CASE Sp!Forks(k)
  BY <1>7, HoldersDiffer DEF Sp!Forks, Sp!handle, Sp!rest, ProcessInv, ProcessTyped, Sp!TypeOK,
       SpawnIsExact, Sp!SubprocessSound, Sp!ReapedOnce
<1>8. CASE Sp!Exits(k)
  BY <1>8, HoldersDiffer DEF Sp!Exits, Sp!handle, Sp!rest, Sp!WithoutProcess, ProcessInv, ProcessTyped,
       Sp!TypeOK, SpawnIsExact, Sp!SubprocessSound, Sp!ReapedOnce
<1>9. CASE Sp!GrandchildExits(k)
  BY <1>9, HoldersDiffer DEF Sp!GrandchildExits, Sp!handle, Sp!rest, ProcessInv, ProcessTyped, Sp!TypeOK,
       SpawnIsExact, Sp!SubprocessSound, Sp!ReapedOnce
<1>10. CASE Sp!WaitEnds(k)
  BY <1>10, HoldersDiffer DEF Sp!WaitEnds, Sp!pipes, Sp!rest, Sp!Reaped, Sp!At, Sp!Owned, ProcessInv,
       ProcessTyped, Sp!TypeOK, SpawnIsExact, Sp!SubprocessSound, Sp!ReapedOnce
<1>11. CASE Sp!Kill(k)
  BY <1>11, HoldersDiffer DEF Sp!Kill, Sp!handle, Sp!rest, Sp!WithoutProcess, Sp!At, Sp!Owned, Sp!MayKill,
       ProcessInv, ProcessTyped, Sp!TypeOK, SpawnIsExact, Sp!SubprocessSound, Sp!ReapedOnce
<1>12. CASE Sp!TakeStdout(k)
  BY <1>12, HoldersDiffer DEF Sp!TakeStdout, Sp!pipes, Sp!rest, Sp!At, Sp!Owned, ProcessInv, ProcessTyped,
       Sp!TypeOK, SpawnIsExact, Sp!SubprocessSound, Sp!ReapedOnce
<1>13. CASE \E limited \in BOOLEAN : Sp!WaitWithOutput(k, limited)
  BY <1>13, HoldersDiffer DEF Sp!WaitWithOutput, Sp!At, Sp!Owned, Sp!pipes, Sp!rest, ProcessInv, ProcessTyped, Sp!TypeOK,
       SpawnIsExact, Sp!SubprocessSound, Sp!ReapedOnce
<1>14. CASE Sp!Drain(k)
  BY <1>14, HoldersDiffer DEF Sp!Drain, Sp!rest, Sp!At, Sp!Owned, ProcessInv, ProcessTyped,
       Sp!TypeOK, SpawnIsExact, Sp!SubprocessSound, Sp!ReapedOnce
<1>15. CASE Sp!Poll(k)
  BY <1>15, HoldersDiffer DEF Sp!Poll, Sp!Returns, Sp!rest, Sp!pipes, Sp!Reaped, Sp!AtTimeout, Sp!At, Sp!Owned,
       ProcessInv, ProcessTyped, Sp!TypeOK, SpawnIsExact, Sp!SubprocessSound, Sp!ReapedOnce
<1>16. CASE Sp!DrainFails(k)
  BY <1>16, HoldersDiffer DEF Sp!DrainFails, Sp!Returns, Sp!At, Sp!Owned, Sp!rest, ProcessInv, ProcessTyped,
       Sp!TypeOK, SpawnIsExact, Sp!SubprocessSound, Sp!ReapedOnce
<1>17. CASE Sp!OtherFails(k)
  BY <1>17, HoldersDiffer DEF Sp!OtherFails, Sp!Returns, Sp!pipes, Sp!At, Sp!Owned, Sp!rest, ProcessInv, ProcessTyped,
       Sp!TypeOK, SpawnIsExact, Sp!SubprocessSound, Sp!ReapedOnce
<1>18. CASE Sp!RestRead(k)
  BY <1>18, HoldersDiffer DEF Sp!RestRead, Sp!At, Sp!Owned, Sp!rest, ProcessInv, ProcessTyped,
       Sp!TypeOK, SpawnIsExact, Sp!SubprocessSound, Sp!ReapedOnce
<1>19. CASE Sp!RestFails(k)
  BY <1>19, HoldersDiffer DEF Sp!RestFails, Sp!Returns, Sp!pipes, Sp!At, Sp!Owned, Sp!rest, ProcessInv, ProcessTyped,
       Sp!TypeOK, SpawnIsExact, Sp!SubprocessSound, Sp!ReapedOnce
<1>20. CASE Sp!RestEnds(k)
  BY <1>20, HoldersDiffer DEF Sp!RestEnds, Sp!pipes, Sp!At, Sp!Owned, Sp!rest, ProcessInv, ProcessTyped,
       Sp!TypeOK, SpawnIsExact, Sp!SubprocessSound, Sp!ReapedOnce
<1>21. CASE Sp!HandsOver(k)
  BY <1>21, HoldersDiffer DEF Sp!HandsOver, Sp!Returns, Sp!pipes, Sp!At, Sp!Owned, Sp!rest, ProcessInv, ProcessTyped,
       Sp!TypeOK, SpawnIsExact, Sp!SubprocessSound, Sp!ReapedOnce
<1>22. QED
  BY <1>1, <1>2, <1>3, <1>4, <1>5, <1>6, <1>7, <1>8, <1>9, <1>10, <1>11, <1>12, <1>13, <1>14,
       <1>15, <1>16, <1>17, <1>18, <1>19, <1>20, <1>21 DEF Sp!Waiting

\* A step of nobody keeps the invariant.
LEMMA ProcessStutters == ProcessInv /\ UNCHANGED processVars => ProcessInv'
BY DEF processVars, ProcessInv, ProcessTyped, SpawnIsExact, Sp!TypeOK, Sp!SubprocessSound,
   Sp!NothingLost, Sp!ReapedOnce

\* Every step of parent and children keeps it.
LEMMA ProcessNext == ProcessInv /\ (Sp!Next \/ UNCHANGED processVars) => ProcessInv'
<1>1. ProcessInv /\ Sp!Next => ProcessInv'
  <2> SUFFICES ASSUME ProcessInv, Sp!Next  PROVE ProcessInv'
    OBVIOUS
  <2>1. ProcessTyped' /\ SpawnIsExact' /\ Sp!NothingLost' /\ Sp!ReapedOnce'
    BY ProcessTypes, SpawnStays, OutputIsKept, ChildIsReaped
  <2>2. QED
    BY <2>1 DEF ProcessInv, Sp!SubprocessSound
<1>2. QED
  BY <1>1, ProcessStutters
-----------------------------------------------------------------------------
(* Named IPC objects *)

Messages == Nat \X (Procs \cup {0})

IpcTyped ==
  /\ Ni!TypeOK /\ kind \in {"pipe", "memory", "semaphore", "queue"}
  /\ sized \in [Ni!Named -> BOOLEAN] /\ peers \in [Ni!Named -> SUBSET Procs]
  /\ backlog \in [Ni!Named -> Seq(Procs)] /\ content \in [Ni!Named -> Seq(Messages)]
  /\ given \in [Ni!Named -> Seq(Messages)] /\ taken \in [Ni!Named -> Seq(Messages)]
  /\ \A p \in Procs : role[p] # "none" => handle[p] \in 1..made

Roles == {"none", "creating", "owner", "user", "peer"}
Serves(p) == role[p] \in {"creating", "owner"}

\* Without a crash a path is that of its only server.
PathIsExact == kind = "pipe" /\ dead = {} =>
  /\ \A p \in Procs : Serves(p) => handle[p] = bound
  /\ \A p, q \in Procs : Serves(p) /\ Serves(q) => p = q
  /\ bound # 0 => \E p \in Procs : Serves(p)

\* What was given (g) is taken (t) or still inside (c), numbered in order, and
\* nothing that is inside is older than what was taken of the same sender.
Flows(g, c, t) ==
  /\ Len(t) + Len(c) = Len(g)
  /\ \A i \in DOMAIN c : c[i][1] <= Len(g)
  /\ \A i \in DOMAIN t : t[i][1] <= Len(g)
  /\ \A i, j \in DOMAIN c : i < j => c[i][1] < c[j][1]
  /\ \A i, j \in DOMAIN t : i < j /\ t[i][2] = t[j][2] => t[i][1] < t[j][1]
  /\ \A i \in DOMAIN t, j \in DOMAIN c : t[i][2] = c[j][2] => t[i][1] < c[j][1]

\* The server of a pipe is the one that made it, and before it has accepted
\* nobody is joined.
PairsAreExact == kind = "pipe" =>
  /\ \A p, q \in Procs : Serves(p) /\ Serves(q) /\ handle[p] = handle[q] => p = q
  /\ \A p \in Procs : Serves(p) => peers[handle[p]] = {}
  /\ \A o \in Ni!Named : o > made => peers[o] = {}

IpcInv ==
  /\ IpcTyped /\ Ni!OpenedIsComplete /\ PathIsExact /\ PairsAreExact /\ Ni!JoinedInPairs
  /\ \A o \in Ni!Named : Flows(given[o], content[o], taken[o])
  /\ kind = "queue" => \A o \in Ni!Named : Len(content[o]) <= QueueLimit

\* A message more.
LEMMA FlowIn ==
  ASSUME NEW g \in Seq(Messages), NEW c \in Seq(Messages), NEW t \in Seq(Messages),
         Flows(g, c, t), NEW from \in Procs \cup {0}
  PROVE  LET m == <<Len(g) + 1, from>>
         IN  /\ Append(g, m) \in Seq(Messages) /\ Append(c, m) \in Seq(Messages)
             /\ Len(Append(c, m)) = Len(c) + 1 /\ Flows(Append(g, m), Append(c, m), t)
<1> DEFINE m == <<Len(g) + 1, from>>
<1>1. m \in Messages /\ m[1] = Len(g) + 1 /\ m[2] = from
  BY DEF Messages
<1> HIDE DEF m
<1>2. /\ Len(g) \in Nat /\ Len(c) \in Nat /\ Len(t) \in Nat
      /\ DOMAIN c = 1..Len(c) /\ DOMAIN t = 1..Len(t)
  OBVIOUS
<1>3. /\ Append(g, m) \in Seq(Messages) /\ Append(c, m) \in Seq(Messages)
      /\ Len(Append(g, m)) = Len(g) + 1 /\ Len(Append(c, m)) = Len(c) + 1
      /\ Append(c, m)[Len(c) + 1] = m /\ DOMAIN Append(c, m) = 1..(Len(c) + 1)
      /\ \A i \in 1..Len(c) : Append(c, m)[i] = c[i]
  <2> HIDE DEF Messages
  <2>1. QED
    BY <1>1
<1>4. /\ \A i \in 1..Len(c) : c[i][1] \in Nat /\ c[i][1] <= Len(g)
      /\ \A i \in 1..Len(t) : t[i][1] \in Nat /\ t[i][1] <= Len(g)
  <2>1. \A i \in 1..Len(c) : c[i] \in Messages
    BY ElementOfSeq
  <2>2. \A i \in 1..Len(t) : t[i] \in Messages
    BY ElementOfSeq
  <2>3. QED
    BY <1>2, <2>1, <2>2 DEF Messages, Flows
<1> DEFINE d == Append(c, m)
           f == Append(g, m)
<1> HIDE DEF d, f
<1>5. Flows(f, d, t)
  <2>1. Len(t) + Len(d) = Len(f)
    BY <1>2, <1>3 DEF Flows, d, f
  <2>2. \A i \in DOMAIN d : d[i][1] <= Len(f)
    BY <1>1, <1>2, <1>3, <1>4 DEF d, f
  <2>3. \A i \in DOMAIN t : t[i][1] <= Len(f)
    BY <1>2, <1>3, <1>4 DEF f
  <2>4. \A i, j \in DOMAIN d : i < j => d[i][1] < d[j][1]
    BY <1>1, <1>2, <1>3, <1>4 DEF Flows, d
  <2>5. \A i \in DOMAIN t, j \in DOMAIN d : t[i][2] = d[j][2] => t[i][1] < d[j][1]
    <3> SUFFICES ASSUME NEW i \in 1..Len(t), NEW j \in 1..(Len(c) + 1), t[i][2] = d[j][2]
                 PROVE  t[i][1] < d[j][1]
      BY <1>2, <1>3 DEF d
    <3>1. CASE j \in 1..Len(c)
      BY <1>2, <1>3, <3>1 DEF Flows, d
    <3>2. CASE j = Len(c) + 1
      BY <1>1, <1>2, <1>3, <1>4, <3>2 DEF d
    <3>3. QED
      BY <1>2, <3>1, <3>2
  <2>6. QED
    BY <2>1, <2>2, <2>3, <2>4, <2>5 DEF Flows
<1>6. QED
  BY <1>3, <1>5 DEF d, f, m

\* A message less: none before it is of its sender.
LEMMA FlowOut ==
  ASSUME NEW g \in Seq(Messages), NEW c \in Seq(Messages), NEW t \in Seq(Messages),
         Flows(g, c, t), NEW i \in 1..Len(c), \A j \in 1..(i - 1) : c[j][2] # c[i][2]
  PROVE  LET d == SubSeq(c, 1, i - 1) \o SubSeq(c, i + 1, Len(c))
         IN  /\ d \in Seq(Messages) /\ Append(t, c[i]) \in Seq(Messages)
             /\ Len(d) <= Len(c) /\ Flows(g, d, Append(t, c[i]))
<1> DEFINE d == SubSeq(c, 1, i - 1) \o SubSeq(c, i + 1, Len(c))
<1>1. d \in Seq(Messages) /\ Len(d) = Len(c) - 1
      /\ \A j \in 1..(Len(c) - 1) : d[j] = IF j < i THEN c[j] ELSE c[j + 1]
  BY RemovedAt
<1> HIDE DEF d
<1>2. Len(g) \in Nat /\ Len(c) \in Nat /\ Len(t) \in Nat /\ i \in Nat /\ 1 <= i /\ i <= Len(c)
  OBVIOUS
<1>3. DOMAIN c = 1..Len(c) /\ DOMAIN t = 1..Len(t)
  OBVIOUS
<1>4. DOMAIN d = 1..(Len(c) - 1)
  <2>1. DOMAIN d = 1..Len(d)
    BY <1>1
  <2>2. QED
    BY <1>1, <2>1
<1>5. /\ \A j \in 1..Len(c) : c[j][1] \in Nat /\ c[j][1] <= Len(g)
      /\ \A j \in 1..Len(t) : t[j][1] \in Nat /\ t[j][1] <= Len(g)
      /\ c[i] \in Messages
  <2>1. \A j \in 1..Len(c) : c[j] \in Messages
    BY ElementOfSeq
  <2>2. \A j \in 1..Len(t) : t[j] \in Messages
    BY ElementOfSeq
  <2>3. QED
    BY <1>2, <1>3, <2>1, <2>2 DEF Messages, Flows
<1>6. /\ Append(t, c[i]) \in Seq(Messages) /\ Len(Append(t, c[i])) = Len(t) + 1
      /\ DOMAIN Append(t, c[i]) = 1..(Len(t) + 1) /\ Append(t, c[i])[Len(t) + 1] = c[i]
      /\ \A j \in 1..Len(t) : Append(t, c[i])[j] = t[j]
  <2> HIDE DEF Messages
  <2>1. QED
    BY <1>5
<1> DEFINE u == Append(t, c[i])
           Old(j) == IF j < i THEN j ELSE j + 1
<1>7. ASSUME NEW j \in 1..(Len(c) - 1)
      PROVE  Old(j) \in Nat /\ Old(j) \in 1..Len(c) /\ Old(j) # i /\ d[j] = c[Old(j)]
  <2>1. j \in Nat /\ j \in 1..Len(c) /\ j + 1 \in 1..Len(c) /\ j + 1 \in Nat
    BY <1>2
  <2>d. d[j] = IF j < i THEN c[j] ELSE c[j + 1]
    BY <1>1
  <2>2. CASE j < i
    <3>1. Old(j) = j /\ d[j] = c[j] /\ j # i
      BY <1>2, <2>1, <2>2, <2>d
    <3>2. QED
      BY <2>1, <3>1
  <2>3. CASE ~(j < i)
    <3>1. d[j] = c[j + 1]
      BY <2>3, <2>d
    <3>2. j + 1 # i
      BY <1>2, <2>1, <2>3
    <3>3. Old(j) = j + 1
      BY <2>3
    <3>4. QED
      BY <2>1, <3>1, <3>2, <3>3
  <2>4. QED
    BY <2>2, <2>3
<1>8. \A j, k \in 1..(Len(c) - 1) : j < k => Old(j) < Old(k)
  BY <1>2
<1> HIDE DEF u, Old
<1>9. Flows(g, d, u)
  <2>1. Len(u) + Len(d) = Len(g)
    <3>1. Len(t) + Len(c) = Len(g)
      BY DEF Flows
    <3>2. Len(u) = Len(t) + 1 /\ Len(d) = Len(c) - 1
      BY <1>1, <1>6 DEF u
    <3>3. \A a, b \in Nat : (a + 1) + (b - 1) = a + b
      OBVIOUS
    <3>4. QED
      BY <1>2, <3>1, <3>2, <3>3
  <2>2. \A j \in DOMAIN d : d[j][1] <= Len(g)
    BY <1>4, <1>5, <1>7
  <2>3. \A j \in DOMAIN u : u[j][1] <= Len(g)
    BY <1>2, <1>5, <1>6 DEF u
  <2>4. \A j, k \in DOMAIN d : j < k => d[j][1] < d[k][1]
    <3>1. ASSUME NEW j \in 1..(Len(c) - 1), NEW k \in 1..(Len(c) - 1), j < k
          PROVE  d[j][1] < d[k][1]
      <4>1. Old(j) < Old(k) /\ Old(j) \in DOMAIN c /\ Old(k) \in DOMAIN c
        BY <1>3, <1>7, <1>8, <3>1
      <4>2. c[Old(j)][1] < c[Old(k)][1]
        BY <4>1 DEF Flows
      <4>3. QED
        BY <1>7, <4>2
    <3>2. QED
      BY <1>4, <3>1
  <2>5. \A j, k \in DOMAIN u : j < k /\ u[j][2] = u[k][2] => u[j][1] < u[k][1]
    <3>1. ASSUME NEW j \in 1..(Len(t) + 1), NEW k \in 1..(Len(t) + 1), j < k, u[j][2] = u[k][2]
          PROVE  u[j][1] < u[k][1]
      <4>1. j \in 1..Len(t) /\ (k \in 1..Len(t) \/ k = Len(t) + 1)
        BY <1>2, <3>1
      <4>2. u[j] = t[j]
        BY <1>6, <4>1 DEF u
      <4>3. CASE k \in 1..Len(t)
        BY <1>3, <1>6, <3>1, <4>1, <4>2, <4>3 DEF Flows, u
      <4>4. CASE k = Len(t) + 1
        <5>1. u[k] = c[i] /\ t[j][2] = c[i][2] /\ i \in DOMAIN c
          BY <1>3, <1>6, <3>1, <4>2, <4>4 DEF u
        <5>2. t[j][1] < c[i][1]
          BY <1>3, <4>1, <5>1 DEF Flows
        <5>3. QED
          BY <4>2, <5>1, <5>2
      <4>5. QED
        BY <4>1, <4>3, <4>4
    <3>2. QED
      BY <1>6, <3>1 DEF u
  <2>6. \A j \in DOMAIN u, k \in DOMAIN d : u[j][2] = d[k][2] => u[j][1] < d[k][1]
    <3>1. ASSUME NEW j \in DOMAIN u, NEW k \in DOMAIN d, u[j][2] = d[k][2]  PROVE u[j][1] < d[k][1]
      <4>1. CASE j \in 1..Len(t)
        <5>1. u[j] = t[j] /\ Old(k) \in 1..Len(c) /\ d[k] = c[Old(k)]
          BY <1>4, <1>6, <1>7, <4>1 DEF u
        <5>2. QED
          BY <1>3, <3>1, <4>1, <5>1 DEF Flows
      <4>2. CASE j = Len(t) + 1
        <5>1. u[j] = c[i] /\ Old(k) \in 1..Len(c) /\ Old(k) # i /\ d[k] = c[Old(k)]
          BY <1>4, <1>6, <1>7, <4>2 DEF u
        <5>2. ~(Old(k) < i)
          <6>1. c[Old(k)][2] = c[i][2]
            BY <3>1, <5>1
          <6>2. Old(k) < i => Old(k) \in 1..(i - 1)
            BY <1>2, <5>1
          <6>3. QED
            BY <6>1, <6>2
        <5>3. i < Old(k)
          BY <1>2, <5>1, <5>2
        <5>4. QED
          BY <1>2, <1>3, <5>1, <5>3 DEF Flows
      <4>3. j \in 1..(Len(t) + 1)
        BY <1>6 DEF u
      <4>4. j \in 1..Len(t) \/ j = Len(t) + 1
        BY <1>2, <4>3
      <4>5. QED
        BY <4>1, <4>2, <4>4
    <3>2. QED
      BY <3>1
  <2>7. QED
    BY <2>1, <2>2, <2>3, <2>4, <2>5, <2>6 DEF Flows
<1>10. Len(d) <= Len(c)
  BY <1>1, <1>2
<1>11. u \in Seq(Messages)
  BY <1>6 DEF u
<1>12. QED
  BY <1>1, <1>9, <1>10, <1>11 DEF u, d

\* No name exists.
LEMMA IpcInit == Ni!Init => IpcInv
<1> SUFFICES ASSUME Ni!Init  PROVE IpcInv
  OBVIOUS
<1>1. <<>> \in Seq(Messages) /\ Len(<<>>) = 0 /\ DOMAIN <<>> = {}
  OBVIOUS
<1>2. IpcTyped
  BY <1>1, IpcAssumption DEF Ni!Init, IpcTyped, Ni!TypeOK
<1>3. \A o \in Ni!Named : content[o] = <<>> /\ given[o] = <<>> /\ taken[o] = <<>>
  BY DEF Ni!Init
<1>4. Flows(<<>>, <<>>, <<>>)
  BY <1>1 DEF Flows
<1>5. Ni!OpenedIsComplete /\ PathIsExact
  BY DEF Ni!Init, Ni!OpenedIsComplete, PathIsExact, Serves
<1>7. PairsAreExact /\ Ni!JoinedInPairs
  BY <1>1, <1>3 DEF Ni!Init, PairsAreExact, Ni!JoinedInPairs, Serves
<1>6. QED
  BY <1>1, <1>2, <1>3, <1>4, <1>5, <1>7, IpcAssumption DEF IpcInv

\* The calls that make, find and drop a name or a handle.
NameMoves(p) ==
  \/ Ni!Made(p, FALSE) /\ kind \in {"pipe", "memory"}
  \/ Ni!Made(p, TRUE) /\ kind \in {"semaphore", "queue"}
  \/ Ni!Complete(p)
  \/ Ni!CompleteFails(p)
  \/ Ni!Found(p) /\ kind # "pipe"
  \/ Ni!connect(p)
  \/ Ni!accept(p)
  \/ Ni!NamedPipeServer_close(p)
  \/ Ni!close(p)
  \/ Ni!remove(p)
  \/ Ni!Crash(p)

\* A process gets a handle, or none, and the others keep theirs.
LEMMA HandleIsSet ==
  ASSUME IpcTyped, NEW p \in Procs, NEW o \in Nat, NEW as \in Roles, Ni!Sets(p, o, as),
         made' \in {made, made + 1}, o <= made', as # "none" => o # 0
  PROVE  /\ handle' \in [Procs -> 0..made'] /\ role' \in [Procs -> Roles]
         /\ \A q \in Procs : role'[q] # "none" => handle'[q] \in 1..made'
         /\ handle'[p] = o /\ role'[p] = as
         /\ \A q \in Procs \ {p} : handle'[q] = handle[q] /\ role'[q] = role[q]
<1>1. made \in Nat /\ handle \in [Procs -> 0..made] /\ role \in [Procs -> Roles]
  BY IpcAssumption DEF IpcTyped, Ni!TypeOK, Roles
<1>2. handle' = [handle EXCEPT ![p] = o] /\ role' = [role EXCEPT ![p] = as]
  BY DEF Ni!Sets
<1>3. made' \in Nat /\ o \in 0..made' /\ \A h \in 0..made : h \in 0..made'
      /\ \A i \in 1..made : i \in 1..made'
  BY <1>1
<1>4. /\ handle' \in [Procs -> 0..made'] /\ role' \in [Procs -> Roles]
      /\ handle'[p] = o /\ role'[p] = as
      /\ \A q \in Procs \ {p} : handle'[q] = handle[q] /\ role'[q] = role[q]
  BY <1>1, <1>2, <1>3
<1>5. o # 0 => o \in 1..made'
  BY <1>3
<1>6. ASSUME NEW q \in Procs, role'[q] # "none"  PROVE handle'[q] \in 1..made'
  <2>1. CASE q = p
    BY <1>4, <1>5, <1>6, <2>1
  <2>2. CASE q # p
    <3>1. handle'[q] = handle[q] /\ role[q] # "none"
      BY <1>4, <1>6, <2>2
    <3>2. handle[q] \in 1..made
      BY <3>1 DEF IpcTyped
    <3>3. QED
      BY <1>3, <3>1, <3>2
  <2>3. QED
    BY <2>1, <2>2
<1>7. QED
  BY <1>4, <1>6

\* Nobody waits any more.
LEMMA BacklogDiscarded ==
  ASSUME IpcTyped, NEW o \in Ni!Named, Ni!Discards(o)  PROVE backlog' \in [Ni!Named -> Seq(Procs)]
<1>1. <<>> \in Seq(Procs)
  OBVIOUS
<1>2. QED
  BY <1>1 DEF Ni!Discards, IpcTyped

\* What makes, opens or closes a name keeps the variables in their types.
LEMMA NamesTyped == ASSUME IpcInv, NEW p \in Procs, NameMoves(p)  PROVE IpcTyped'
<1>0. /\ IpcTyped /\ made \in Nat /\ made <= MaxObjects /\ bound \in 0..made
      /\ handle[p] \in 0..made /\ (role[p] # "none" => handle[p] # 0)
  BY IpcAssumption DEF IpcInv, IpcTyped, Ni!TypeOK
<1>1. CASE Ni!Made(p, FALSE) /\ kind \in {"pipe", "memory"}
  <2>1. /\ made < MaxObjects /\ made' = made + 1 /\ bound' = made + 1 /\ Ni!Sets(p, made + 1, "creating")
        /\ sized' = [sized EXCEPT ![made + 1] = FALSE]
        /\ UNCHANGED <<kind, content, given, taken, backlog, peers, dead>>
    BY <1>1 DEF Ni!Made
  <2>2. made + 1 \in Nat /\ made + 1 <= made' /\ made + 1 # 0 /\ made + 1 \in 1..MaxObjects
    BY <1>0, <2>1, IpcAssumption
  <2>3. /\ handle' \in [Procs -> 0..made'] /\ role' \in [Procs -> Roles]
        /\ \A q \in Procs : role'[q] # "none" => handle'[q] \in 1..made'
    BY <1>0, <2>1, <2>2, HandleIsSet DEF Roles
  <2>4. sized' \in [Ni!Named -> BOOLEAN]
    BY <1>0, <2>1 DEF IpcTyped
  <2>5. bound' \in 0..made' /\ made' \in 0..MaxObjects
    BY <1>0, <2>1, <2>2
  <2>6. QED
    BY <1>0, <2>1, <2>3, <2>4, <2>5 DEF IpcTyped, Ni!TypeOK, Roles
<1>2. CASE Ni!Made(p, TRUE) /\ kind \in {"semaphore", "queue"}
  <2>1. /\ made < MaxObjects /\ made' = made + 1 /\ bound' = made + 1 /\ Ni!Sets(p, made + 1, "owner")
        /\ sized' = [sized EXCEPT ![made + 1] = TRUE]
        /\ UNCHANGED <<kind, content, given, taken, backlog, peers, dead>>
    BY <1>2 DEF Ni!Made
  <2>2. made + 1 \in Nat /\ made + 1 <= made' /\ made + 1 # 0 /\ made + 1 \in 1..MaxObjects
    BY <1>0, <2>1, IpcAssumption
  <2>3. /\ handle' \in [Procs -> 0..made'] /\ role' \in [Procs -> Roles]
        /\ \A q \in Procs : role'[q] # "none" => handle'[q] \in 1..made'
    BY <1>0, <2>1, <2>2, HandleIsSet DEF Roles
  <2>4. sized' \in [Ni!Named -> BOOLEAN]
    BY <1>0, <2>1 DEF IpcTyped
  <2>5. bound' \in 0..made' /\ made' \in 0..MaxObjects
    BY <1>0, <2>1, <2>2
  <2>6. QED
    BY <1>0, <2>1, <2>3, <2>4, <2>5 DEF IpcTyped, Ni!TypeOK, Roles
<1>3. CASE Ni!Complete(p)
  <2>1. /\ role[p] = "creating" /\ Ni!Sets(p, handle[p], "owner")
        /\ sized' = [sized EXCEPT ![handle[p]] = TRUE]
        /\ UNCHANGED <<kind, bound, made, content, given, taken, backlog, peers, dead>>
    BY <1>3 DEF Ni!Complete
  <2>2. handle[p] \in Nat /\ handle[p] <= made' /\ handle[p] # 0
    BY <1>0, <2>1
  <2>3. /\ handle' \in [Procs -> 0..made'] /\ role' \in [Procs -> Roles]
        /\ \A q \in Procs : role'[q] # "none" => handle'[q] \in 1..made'
    BY <1>0, <2>1, <2>2, HandleIsSet DEF Roles
  <2>4. QED
    BY <1>0, <2>1, <2>2, <2>3 DEF IpcTyped, Ni!TypeOK, Ni!Named, Roles
<1>4. CASE Ni!CompleteFails(p)
  BY <1>4, IpcAssumption DEF Ni!CompleteFails, Ni!Sets, IpcInv, IpcTyped, Ni!TypeOK, Ni!Named
<1>5. CASE Ni!Found(p) /\ kind # "pipe"
  <2>1. /\ bound # 0 /\ Ni!Sets(p, bound, "user")
        /\ UNCHANGED <<kind, bound, made, sized, content, given, taken, backlog, peers, dead>>
    BY <1>5 DEF Ni!Found
  <2>2. bound \in Nat /\ bound <= made' /\ bound # 0
    BY <1>0, <2>1
  <2>3. /\ handle' \in [Procs -> 0..made'] /\ role' \in [Procs -> Roles]
        /\ \A q \in Procs : role'[q] # "none" => handle'[q] \in 1..made'
    BY <1>0, <2>1, <2>2, HandleIsSet DEF Roles
  <2>4. QED
    BY <1>0, <2>1, <2>2, <2>3 DEF IpcTyped, Ni!TypeOK, Ni!Named, Roles
<1>6. CASE Ni!connect(p)
  <2>1. /\ bound # 0 /\ Ni!Sets(p, bound, "peer")
        /\ backlog' = [backlog EXCEPT ![bound] = Append(@, p)]
        /\ UNCHANGED <<kind, bound, made, sized, content, given, taken, peers, dead>>
    BY <1>6 DEF Ni!connect
  <2>2. bound \in Nat /\ bound <= made' /\ bound # 0 /\ bound \in Ni!Named
    BY <1>0, <2>1, IpcAssumption DEF Ni!Named
  <2>3. /\ handle' \in [Procs -> 0..made'] /\ role' \in [Procs -> Roles]
        /\ \A q \in Procs : role'[q] # "none" => handle'[q] \in 1..made'
    BY <1>0, <2>1, <2>2, HandleIsSet DEF Roles
  <2>4. Append(backlog[bound], p) \in Seq(Procs)
    BY <1>0, <2>2 DEF IpcTyped
  <2>5. backlog' \in [Ni!Named -> Seq(Procs)]
    BY <1>0, <2>1, <2>4 DEF IpcTyped
  <2>6. QED
    BY <1>0, <2>1, <2>2, <2>3, <2>5 DEF IpcTyped, Ni!TypeOK, Roles
<1>7. CASE Ni!accept(p)
  <2>1. /\ role[p] = "owner" /\ Ni!Sets(p, handle[p], "peer") /\ bound' = 0
        /\ peers' = [peers EXCEPT ![handle[p]] = {p, Head(backlog[handle[p]])}]
        /\ Ni!Discards(handle[p]) /\ backlog[handle[p]] # <<>>
        /\ UNCHANGED <<kind, made, sized, content, given, taken, dead>>
    BY <1>7 DEF Ni!accept
  <2>2. handle[p] \in Nat /\ handle[p] <= made' /\ handle[p] # 0 /\ handle[p] \in Ni!Named
    BY <1>0, <2>1, IpcAssumption DEF Ni!Named
  <2>3. /\ handle' \in [Procs -> 0..made'] /\ role' \in [Procs -> Roles]
        /\ \A q \in Procs : role'[q] # "none" => handle'[q] \in 1..made'
    BY <1>0, <2>1, <2>2, HandleIsSet DEF Roles
  <2>4. Head(backlog[handle[p]]) \in Procs
    BY <1>0, <2>1, <2>2 DEF IpcTyped
  <2>5. peers' \in [Ni!Named -> SUBSET Procs]
    BY <1>0, <2>1, <2>4 DEF IpcTyped
  <2>6. backlog' \in [Ni!Named -> Seq(Procs)]
    BY <1>0, <2>1, <2>2, BacklogDiscarded
  <2>7. bound' \in 0..made'
    BY <1>0, <2>1
  <2>8. QED
    BY <1>0, <2>1, <2>3, <2>5, <2>6, <2>7 DEF IpcTyped, Ni!TypeOK, Roles
<1>8. CASE Ni!NamedPipeServer_close(p)
  <2>1. handle[p] \in Ni!Named
    BY <1>0, <1>8, IpcAssumption DEF Ni!NamedPipeServer_close, Ni!Named
  <2>2. backlog' \in [Ni!Named -> Seq(Procs)]
    BY <1>0, <1>8, <2>1, BacklogDiscarded DEF Ni!NamedPipeServer_close
  <2>3. /\ bound' = 0 /\ Ni!Sets(p, 0, "none")
        /\ UNCHANGED <<kind, made, sized, content, given, taken, peers, dead>>
    BY <1>8 DEF Ni!NamedPipeServer_close
  <2>4. /\ handle' \in [Procs -> 0..made'] /\ role' \in [Procs -> Roles]
        /\ \A q \in Procs : role'[q] # "none" => handle'[q] \in 1..made'
    BY <1>0, <2>3, HandleIsSet DEF Roles
  <2>5. QED
    BY <1>0, <2>2, <2>3, <2>4 DEF IpcTyped, Ni!TypeOK, Roles
<1>9. CASE Ni!close(p)
  BY <1>9, IpcAssumption DEF Ni!close, Ni!Sets, Ni!Holds, IpcInv, IpcTyped, Ni!TypeOK, Ni!Named
<1>10. CASE Ni!remove(p)
  BY <1>10, IpcAssumption DEF Ni!remove, IpcInv, IpcTyped, Ni!TypeOK, Ni!Named
<1>11. CASE Ni!Crash(p)
  <2>1. backlog' \in [Ni!Named -> Seq(Procs)]
    <3>1. CASE role[p] = "owner"
      <4>1. handle[p] \in Ni!Named
        BY <1>0, <3>1, IpcAssumption DEF Ni!Named
      <4>2. Ni!Discards(handle[p]) \/ backlog' = backlog
        BY <1>11 DEF Ni!Crash
      <4>3. QED
        BY <1>0, <4>1, <4>2, BacklogDiscarded DEF IpcTyped
    <3>2. CASE role[p] # "owner"
      BY <1>0, <1>11, <3>2 DEF Ni!Crash, IpcTyped
    <3>3. QED
      BY <3>1, <3>2
  <2>2. QED
    BY <1>11, <2>1, IpcAssumption DEF Ni!Crash, Ni!Sets, Ni!Up, IpcInv, IpcTyped, Ni!TypeOK, Ni!Named
<1>12. QED
  BY <1>1, <1>2, <1>3, <1>4, <1>5, <1>6, <1>7, <1>8, <1>9, <1>10, <1>11 DEF NameMoves

\* Who opens a name while it is made, removed or made again finds it complete.
LEMMA NamesComplete == ASSUME IpcInv, NEW p \in Procs, NameMoves(p)  PROVE Ni!OpenedIsComplete'
<1>0. /\ IpcTyped /\ Ni!OpenedIsComplete /\ made \in Nat /\ made <= MaxObjects
      /\ handle[p] \in 0..made /\ (role[p] # "none" => handle[p] # 0)
  BY IpcAssumption DEF IpcInv, IpcTyped, Ni!TypeOK
<1>1. CASE Ni!Made(p, FALSE) /\ kind \in {"pipe", "memory"}
  <2>1. /\ Ni!Sets(p, made + 1, "creating") /\ sized' = [sized EXCEPT ![made + 1] = FALSE]
        /\ made < MaxObjects /\ made' = made + 1
    BY <1>1 DEF Ni!Made
  <2>2. made + 1 \in Nat /\ made + 1 <= made' /\ made + 1 # 0 /\ made + 1 \in 1..MaxObjects
    BY <1>0, <2>1, IpcAssumption
  <2>3. /\ role'[p] = "creating" /\ handle'[p] = made + 1
        /\ \A q \in Procs \ {p} : handle'[q] = handle[q] /\ role'[q] = role[q]
    BY <1>0, <2>1, <2>2, HandleIsSet DEF Roles
  <2>4. \A h \in 1..made : h \in 1..MaxObjects /\ h # made + 1
    BY <1>0, IpcAssumption
  <2>5. sized'[made + 1] = FALSE /\ \A h \in 1..made : sized'[h] = sized[h]
    BY <1>0, <2>1, <2>2, <2>4 DEF IpcTyped, Ni!Named
  <2>6. QED
    BY <1>0, <2>3, <2>5 DEF IpcTyped, Ni!OpenedIsComplete
<1>2. CASE Ni!Made(p, TRUE) /\ kind \in {"semaphore", "queue"}
  <2>1. /\ Ni!Sets(p, made + 1, "owner") /\ sized' = [sized EXCEPT ![made + 1] = TRUE]
        /\ made < MaxObjects /\ made' = made + 1
    BY <1>2 DEF Ni!Made
  <2>2. made + 1 \in Nat /\ made + 1 <= made' /\ made + 1 # 0 /\ made + 1 \in 1..MaxObjects
    BY <1>0, <2>1, IpcAssumption
  <2>3. /\ role'[p] = "owner" /\ handle'[p] = made + 1
        /\ \A q \in Procs \ {p} : handle'[q] = handle[q] /\ role'[q] = role[q]
    BY <1>0, <2>1, <2>2, HandleIsSet DEF Roles
  <2>4. \A h \in 1..made : h \in 1..MaxObjects /\ h # made + 1
    BY <1>0, IpcAssumption
  <2>5. sized'[made + 1] = TRUE /\ \A h \in 1..made : sized'[h] = sized[h]
    BY <1>0, <2>1, <2>2, <2>4 DEF IpcTyped, Ni!Named
  <2>6. QED
    BY <1>0, <2>3, <2>5 DEF IpcTyped, Ni!OpenedIsComplete
<1>3. CASE Ni!Complete(p)
  <2>1. /\ Ni!Sets(p, handle[p], "owner") /\ sized' = [sized EXCEPT ![handle[p]] = TRUE]
        /\ made' = made /\ role[p] = "creating"
    BY <1>3 DEF Ni!Complete
  <2>2. handle[p] \in Nat /\ handle[p] <= made' /\ handle[p] # 0 /\ handle[p] \in Ni!Named
    BY <1>0, <2>1, IpcAssumption DEF Ni!Named
  <2>3. /\ handle'[p] = handle[p]
        /\ \A q \in Procs \ {p} : handle'[q] = handle[q] /\ role'[q] = role[q]
    BY <1>0, <2>1, <2>2, HandleIsSet DEF Roles
  <2>4. sized'[handle[p]] = TRUE /\ \A h \in Ni!Named : sized[h] => sized'[h]
    BY <1>0, <2>1, <2>2 DEF IpcTyped
  <2>5. \A h \in 1..made : h \in Ni!Named
    BY <1>0, IpcAssumption DEF Ni!Named
  <2>6. QED
    BY <1>0, <2>3, <2>4, <2>5 DEF IpcTyped, Ni!OpenedIsComplete
<1>4. CASE Ni!CompleteFails(p)
  BY <1>4, IpcAssumption DEF Ni!CompleteFails, Ni!Sets, IpcInv, IpcTyped, Ni!TypeOK, Ni!Named,
       Ni!OpenedIsComplete
<1>5. CASE Ni!Found(p) /\ kind # "pipe"
  BY <1>5, IpcAssumption DEF Ni!Found, Ni!Sets, Ni!Openable, IpcInv, IpcTyped, Ni!TypeOK,
       Ni!Named, Ni!OpenedIsComplete
<1>6. CASE Ni!connect(p)
  BY <1>6, IpcAssumption DEF Ni!connect, Ni!Sets, IpcInv, IpcTyped, Ni!TypeOK, Ni!Named,
       Ni!OpenedIsComplete
<1>7. CASE Ni!accept(p)
  BY <1>7, IpcAssumption DEF Ni!accept, Ni!Sets, IpcInv, IpcTyped, Ni!TypeOK, Ni!Named,
       Ni!OpenedIsComplete
<1>8. CASE Ni!NamedPipeServer_close(p)
  BY <1>8, IpcAssumption DEF Ni!NamedPipeServer_close, Ni!Sets, Ni!Holds, IpcInv, IpcTyped,
       Ni!TypeOK, Ni!Named, Ni!OpenedIsComplete
<1>9. CASE Ni!close(p)
  BY <1>9, IpcAssumption DEF Ni!close, Ni!Sets, Ni!Holds, IpcInv, IpcTyped, Ni!TypeOK, Ni!Named,
       Ni!OpenedIsComplete
<1>10. CASE Ni!remove(p)
  BY <1>10, IpcAssumption DEF Ni!remove, IpcInv, IpcTyped, Ni!TypeOK, Ni!Named, Ni!OpenedIsComplete
<1>11. CASE Ni!Crash(p)
  BY <1>11, IpcAssumption DEF Ni!Crash, Ni!Sets, Ni!Up, IpcInv, IpcTyped, Ni!TypeOK, Ni!Named,
       Ni!OpenedIsComplete
<1>12. QED
  BY <1>1, <1>2, <1>3, <1>4, <1>5, <1>6, <1>7, <1>8, <1>9, <1>10, <1>11 DEF NameMoves

\* The path of a pipe stays that of its only server.
LEMMA PathsStay == ASSUME IpcInv, NEW p \in Procs, NameMoves(p)  PROVE PathIsExact'
<1>0. IpcTyped /\ PathIsExact /\ made \in Nat /\ made <= MaxObjects
  BY IpcAssumption DEF IpcInv, IpcTyped, Ni!TypeOK
<1>1. CASE Ni!Made(p, FALSE) /\ kind \in {"pipe", "memory"}
  <2>1. /\ Ni!Sets(p, made + 1, "creating") /\ made < MaxObjects /\ made' = made + 1
        /\ bound = 0 /\ bound' = made + 1 /\ UNCHANGED <<kind, dead>>
    BY <1>1 DEF Ni!Made
  <2>2. made + 1 \in Nat /\ made + 1 <= made' /\ made + 1 # 0
    BY <1>0, <2>1, IpcAssumption
  <2>3. /\ role'[p] = "creating" /\ handle'[p] = made + 1
        /\ \A q \in Procs \ {p} : handle'[q] = handle[q] /\ role'[q] = role[q]
    BY <1>0, <2>1, <2>2, HandleIsSet DEF Roles
  <2>4. ASSUME kind = "pipe", dead = {}, NEW q \in Procs, Serves(q)  PROVE FALSE
    <3>1. handle[q] \in 1..made /\ handle[q] = 0
      BY <1>0, <2>1, <2>4 DEF PathIsExact, IpcTyped, Serves
    <3>2. QED
      BY <1>0, <3>1
  <2>5. QED
    BY <2>1, <2>3, <2>4 DEF PathIsExact, Serves
<1>2. CASE Ni!Made(p, TRUE) /\ kind \in {"semaphore", "queue"}
  BY <1>2, IpcAssumption DEF Ni!Made, Ni!Sets, Ni!Up, IpcInv, IpcTyped, Ni!TypeOK, Ni!Named,
       PathIsExact, Serves
<1>3. CASE Ni!Complete(p)
  BY <1>3, IpcAssumption DEF Ni!Complete, Ni!Sets, IpcInv, IpcTyped, Ni!TypeOK, Ni!Named,
       PathIsExact, Serves
<1>4. CASE Ni!CompleteFails(p)
  BY <1>4, IpcAssumption DEF Ni!CompleteFails, Ni!Sets, IpcInv, IpcTyped, Ni!TypeOK, Ni!Named,
       PathIsExact, Serves
<1>5. CASE Ni!Found(p) /\ kind # "pipe"
  BY <1>5, IpcAssumption DEF Ni!Found, Ni!Sets, Ni!Openable, IpcInv, IpcTyped, Ni!TypeOK,
       Ni!Named, PathIsExact, Serves
<1>6. CASE Ni!connect(p)
  BY <1>6, IpcAssumption DEF Ni!connect, Ni!Sets, IpcInv, IpcTyped, Ni!TypeOK, Ni!Named,
       PathIsExact, Serves
<1>7. CASE Ni!accept(p)
  BY <1>7, IpcAssumption DEF Ni!accept, Ni!Sets, IpcInv, IpcTyped, Ni!TypeOK, Ni!Named,
       PathIsExact, Serves
<1>8. CASE Ni!NamedPipeServer_close(p)
  BY <1>8, IpcAssumption DEF Ni!NamedPipeServer_close, Ni!Sets, Ni!Holds, IpcInv, IpcTyped,
       Ni!TypeOK, Ni!Named, PathIsExact, Serves
<1>9. CASE Ni!close(p)
  BY <1>9, IpcAssumption DEF Ni!close, Ni!Sets, Ni!Holds, IpcInv, IpcTyped, Ni!TypeOK, Ni!Named,
       PathIsExact, Serves
<1>10. CASE Ni!remove(p)
  BY <1>10, IpcAssumption DEF Ni!remove, IpcInv, IpcTyped, Ni!TypeOK, Ni!Named, PathIsExact, Serves
<1>11. CASE Ni!Crash(p)
  BY <1>11, IpcAssumption DEF Ni!Crash, Ni!Sets, Ni!Up, IpcInv, IpcTyped, Ni!TypeOK, Ni!Named,
       PathIsExact, Serves
<1>12. QED
  BY <1>1, <1>2, <1>3, <1>4, <1>5, <1>6, <1>7, <1>8, <1>9, <1>10, <1>11 DEF NameMoves

\* A pipe joins two processes, once.
LEMMA PairsStay ==
  ASSUME IpcInv, NEW p \in Procs, NameMoves(p)  PROVE PairsAreExact' /\ Ni!JoinedInPairs'
<1>0. /\ IpcTyped /\ PairsAreExact /\ Ni!JoinedInPairs /\ made \in Nat /\ made <= MaxObjects
      /\ bound \in 0..made /\ handle[p] \in 0..made
      /\ \A q \in Procs : role[q] # "none" => handle[q] \in 1..made
  BY IpcAssumption DEF IpcInv, IpcTyped, Ni!TypeOK
<1>0a. \A h \in 1..made : h \in Ni!Named
  BY <1>0, IpcAssumption DEF Ni!Named
<1>00. UNCHANGED <<kind, taken>>
  BY DEF NameMoves, Ni!Made, Ni!Complete, Ni!CompleteFails, Ni!Found, Ni!connect, Ni!accept,
     Ni!NamedPipeServer_close, Ni!close, Ni!remove, Ni!Crash
<1>1. CASE Ni!Made(p, FALSE) /\ kind \in {"pipe", "memory"}
  <2>1. /\ Ni!Sets(p, made + 1, "creating") /\ made < MaxObjects /\ made' = made + 1
        /\ UNCHANGED <<kind, taken, peers>>
    BY <1>1 DEF Ni!Made
  <2>2. made + 1 \in Nat /\ made + 1 <= made' /\ made + 1 # 0 /\ made + 1 \in Ni!Named
    BY <1>0, <2>1, IpcAssumption DEF Ni!Named
  <2>3. /\ role'[p] = "creating" /\ handle'[p] = made + 1
        /\ \A q \in Procs \ {p} : handle'[q] = handle[q] /\ role'[q] = role[q]
    BY <1>0, <2>1, <2>2, HandleIsSet DEF Roles
  <2>4. \A q \in Procs : Serves(q) => handle[q] # made + 1
    BY <1>0 DEF Serves
  <2>5. kind = "pipe" => peers[made + 1] = {}
    BY <1>0, <2>2 DEF PairsAreExact
  <2>6. PairsAreExact'
    BY <1>0, <2>1, <2>2, <2>3, <2>4, <2>5 DEF PairsAreExact, Serves, Ni!Named
  <2>7. QED
    BY <1>0, <2>1, <2>6 DEF Ni!JoinedInPairs
<1>2. CASE Ni!Made(p, TRUE) /\ kind \in {"semaphore", "queue"}
  BY <1>00, <1>2 DEF PairsAreExact, Ni!JoinedInPairs
<1>3. CASE Ni!Complete(p)
  BY <1>0, <1>3 DEF Ni!Complete, Ni!Sets, IpcTyped, Ni!TypeOK, PairsAreExact, Ni!JoinedInPairs, Serves
<1>4. CASE Ni!CompleteFails(p)
  BY <1>0, <1>4 DEF Ni!CompleteFails, Ni!Sets, IpcTyped, Ni!TypeOK, PairsAreExact,
       Ni!JoinedInPairs, Serves
<1>5. CASE Ni!Found(p) /\ kind # "pipe"
  BY <1>00, <1>5 DEF PairsAreExact, Ni!JoinedInPairs
<1>6. CASE Ni!connect(p)
  <2>1. /\ role[p] = "none" /\ bound # 0 /\ Ni!Sets(p, bound, "peer") /\ UNCHANGED <<kind, made, taken, peers>>
    BY <1>6 DEF Ni!connect
  <2>2. bound \in Nat /\ bound <= made' /\ bound # 0
    BY <1>0, <2>1
  <2>3. /\ role'[p] = "peer"
        /\ \A q \in Procs \ {p} : handle'[q] = handle[q] /\ role'[q] = role[q]
    BY <1>0, <2>1, <2>2, HandleIsSet DEF Roles
  <2>4. QED
    BY <1>0, <2>1, <2>3 DEF PairsAreExact, Ni!JoinedInPairs, Serves
<1>7. CASE Ni!accept(p)
  <2>1. /\ role[p] = "owner" /\ kind = "pipe" /\ Ni!Sets(p, handle[p], "peer")
        /\ \E q : peers' = [peers EXCEPT ![handle[p]] = {p, q}]
        /\ UNCHANGED <<kind, made, taken>>
    BY <1>7 DEF Ni!accept
  <2>2. PICK q : peers' = [peers EXCEPT ![handle[p]] = {p, q}]
    BY <2>1
  <2>3. handle[p] \in Ni!Named /\ handle[p] \in 1..made /\ handle[p] \in Nat /\ handle[p] <= made'
        /\ handle[p] # 0
    BY <1>0, <1>0a, <2>1
  <2>4. /\ role'[p] = "peer" /\ handle'[p] = handle[p]
        /\ \A r \in Procs \ {p} : handle'[r] = handle[r] /\ role'[r] = role[r]
    BY <1>0, <2>1, <2>3, HandleIsSet DEF Roles
  <2>5. /\ peers'[handle[p]] = {p, q} /\ peers[handle[p]] = {}
        /\ \A o \in Ni!Named \ {handle[p]} : peers'[o] = peers[o]
    BY <1>0, <2>1, <2>2, <2>3 DEF IpcTyped, PairsAreExact, Serves
  <2>6. \A r \in Procs \ {p} : Serves(r) => handle[r] # handle[p] /\ handle[r] \in Ni!Named
    BY <1>0, <1>0a, <2>1 DEF PairsAreExact, Serves
  <2>7. \A o \in Ni!Named : o > made => o # handle[p]
    BY <1>0, <2>3
  <2>8. PairsAreExact'
    BY <1>0, <2>1, <2>4, <2>5, <2>6, <2>7 DEF PairsAreExact, Serves
  <2>9. \A i \in DOMAIN taken[handle[p]] : FALSE
    BY <1>0, <2>1, <2>3, <2>5 DEF Ni!JoinedInPairs
  <2>10. Ni!JoinedInPairs'
    BY <1>0, <2>1, <2>3, <2>5, <2>9 DEF Ni!JoinedInPairs
  <2>11. QED
    BY <2>8, <2>10
<1>8. CASE Ni!NamedPipeServer_close(p)
  BY <1>0, <1>8 DEF Ni!NamedPipeServer_close, Ni!Sets, IpcTyped, Ni!TypeOK, PairsAreExact,
       Ni!JoinedInPairs, Serves
<1>9. CASE Ni!close(p)
  BY <1>0, <1>9 DEF Ni!close, Ni!Sets, IpcTyped, Ni!TypeOK, PairsAreExact, Ni!JoinedInPairs, Serves
<1>10. CASE Ni!remove(p)
  BY <1>0, <1>10 DEF Ni!remove, PairsAreExact, Ni!JoinedInPairs, Serves
<1>11. CASE Ni!Crash(p)
  BY <1>0, <1>11 DEF Ni!Crash, Ni!Sets, IpcTyped, Ni!TypeOK, PairsAreExact, Ni!JoinedInPairs, Serves
<1>12. QED
  BY <1>1, <1>2, <1>3, <1>4, <1>5, <1>6, <1>7, <1>8, <1>9, <1>10, <1>11 DEF NameMoves

\* Every step on the names keeps the invariant; messages are left alone.
LEMMA NamesMove == ASSUME IpcInv, NEW p \in Procs, NameMoves(p)  PROVE IpcInv'
<1>1. UNCHANGED <<kind, content, given, taken>>
  BY DEF NameMoves, Ni!Made, Ni!Complete, Ni!CompleteFails, Ni!Found, Ni!connect, Ni!accept,
     Ni!NamedPipeServer_close, Ni!close, Ni!remove, Ni!Crash
<1>2. \A o \in Ni!Named : Flows(given'[o], content'[o], taken'[o])
  BY <1>1 DEF IpcInv
<1>3. kind' = "queue" => \A o \in Ni!Named : Len(content'[o]) <= QueueLimit
  BY <1>1 DEF IpcInv
<1>4. QED
  BY <1>2, <1>3, NamesTyped, NamesComplete, PathsStay, PairsStay DEF IpcInv

\* release, send and write_all; what blocks a sender is a full queue.
LEMMA IpcPuts ==
  ASSUME IpcInv, NEW p \in Procs, NEW from \in Procs \cup {0}, Ni!Put(p, from),
         kind = "queue" => Len(content[handle[p]]) < QueueLimit
  PROVE  IpcInv'
<1> DEFINE o == handle[p]
           m == <<Len(given[o]) + 1, from>>
<1>1. o \in Ni!Named
  BY IpcAssumption DEF Ni!Put, Ni!Holds, IpcInv, IpcTyped, Ni!TypeOK, Ni!Named
<1>2. /\ given' = [given EXCEPT ![o] = Append(given[o], m)]
      /\ content' = [content EXCEPT ![o] = Append(content[o], m)]
      /\ UNCHANGED <<kind, bound, made, sized, taken, handle, role, backlog, peers, dead>>
  BY DEF Ni!Put
<1>3. given[o] \in Seq(Messages) /\ content[o] \in Seq(Messages) /\ taken[o] \in Seq(Messages)
  BY <1>1 DEF IpcInv, IpcTyped
<1>4. /\ Append(given[o], m) \in Seq(Messages) /\ Append(content[o], m) \in Seq(Messages)
      /\ Len(Append(content[o], m)) = Len(content[o]) + 1
      /\ Flows(Append(given[o], m), Append(content[o], m), taken[o])
  <2>1. Flows(given[o], content[o], taken[o])
    BY <1>1 DEF IpcInv
  <2> HIDE DEF o
  <2>2. QED
    BY <1>3, <2>1, FlowIn
<1> HIDE DEF m, o
<1>5. IpcTyped'
  BY <1>1, <1>2, <1>4 DEF IpcInv, IpcTyped, Ni!TypeOK
<1>6. \A x \in Ni!Named : Flows(given'[x], content'[x], taken'[x])
  <2>1. ASSUME NEW x \in Ni!Named, x # o  PROVE Flows(given'[x], content'[x], taken'[x])
    BY <1>2, <2>1 DEF IpcInv, IpcTyped
  <2>2. given'[o] = Append(given[o], m) /\ content'[o] = Append(content[o], m) /\ taken'[o] = taken[o]
    BY <1>1, <1>2 DEF IpcInv, IpcTyped
  <2>3. QED
    BY <1>4, <2>1, <2>2
<1>7. kind' = "queue" => \A x \in Ni!Named : Len(content'[x]) <= QueueLimit
  <2>1. ASSUME NEW x \in Ni!Named, kind = "queue"
        PROVE  Len(content'[x]) <= QueueLimit
    <3>1. CASE x = o
      <4>1. content'[x] = Append(content[o], m) /\ Len(content[o]) < QueueLimit /\ Len(content[o]) \in Nat
        BY <1>1, <1>2, <1>3, <2>1, <3>1 DEF IpcInv, IpcTyped, o
      <4>2. QED
        BY <1>4, <4>1, IpcAssumption
    <3>2. CASE x # o
      BY <1>2, <2>1, <3>2 DEF IpcInv, IpcTyped
    <3>3. QED
      BY <3>1, <3>2
  <2>2. QED
    BY <1>2, <2>1
<1>8. Ni!OpenedIsComplete' /\ PathIsExact' /\ PairsAreExact' /\ Ni!JoinedInPairs'
  BY <1>2 DEF IpcInv, Ni!OpenedIsComplete, PathIsExact, PairsAreExact, Ni!JoinedInPairs, Serves
<1>9. QED
  BY <1>5, <1>6, <1>7, <1>8 DEF IpcInv

\* acquire, receive and read.
LEMMA IpcTakes == ASSUME IpcInv, NEW p \in Procs, Ni!Take(p)  PROVE IpcInv'
<1> DEFINE o == handle[p]
           c == content[o]
           i == Ni!First(p, o)
           d == SubSeq(c, 1, i - 1) \o SubSeq(c, i + 1, Len(c))
<1>1. o \in Ni!Named
  BY IpcAssumption DEF Ni!Take, Ni!Holds, IpcInv, IpcTyped, Ni!TypeOK, Ni!Named
<1>2. /\ taken' = [taken EXCEPT ![o] = Append(taken[o], c[i])]
      /\ content' = [content EXCEPT ![o] = d]
      /\ UNCHANGED <<kind, bound, made, sized, given, handle, role, backlog, peers, dead>>
  BY DEF Ni!Take
<1>3. given[o] \in Seq(Messages) /\ c \in Seq(Messages) /\ taken[o] \in Seq(Messages)
  BY <1>1 DEF IpcInv, IpcTyped
<1>4. i \in 1..Len(c) /\ Ni!ForMe(p, o, c[i]) /\ \A j \in 1..(i - 1) : ~Ni!ForMe(p, o, c[j])
  <2> DEFINE T == {j \in 1..Len(c) : Ni!ForMe(p, o, c[j])}
  <2>1. DOMAIN c = 1..Len(c) /\ Len(c) \in Nat
    BY <1>3
  <2>2. T \in SUBSET Nat /\ T # {}
    BY <2>1 DEF Ni!Take
  <2>3. PICK x \in T : \A y \in T : x <= y
    BY <2>2, LeastNumber
  <2>4. \A j \in 1..(x - 1) : ~Ni!ForMe(p, o, c[j])
    <3>1. ASSUME NEW j \in 1..(x - 1), Ni!ForMe(p, o, c[j])  PROVE FALSE
      <4>1. j \in 1..Len(c) /\ x \in Nat /\ j \in Nat /\ ~(x <= j)
        BY <2>1, <2>3
      <4>2. QED
        BY <2>3, <3>1, <4>1
    <3>2. QED
      BY <3>1
  <2>5. x \in DOMAIN c /\ Ni!ForMe(p, o, c[x])
    BY <2>1, <2>3
  <2>6. QED
    BY <2>1, <2>4, <2>5 DEF Ni!First
<1>5. \A j \in 1..(i - 1) : c[j][2] # c[i][2]
  BY <1>4 DEF Ni!ForMe
<1>12. kind = "pipe" => c[i][2] \in peers[o]
  BY <1>4 DEF Ni!ForMe
<1> HIDE DEF i
<1>6. /\ d \in Seq(Messages) /\ Append(taken[o], c[i]) \in Seq(Messages)
      /\ Len(d) <= Len(c) /\ Flows(given[o], d, Append(taken[o], c[i]))
  <2>1. Flows(given[o], c, taken[o])
    BY <1>1 DEF IpcInv
  <2>2. PICK g \in Seq(Messages), b \in Seq(Messages), t \in Seq(Messages) :
          g = given[o] /\ b = c /\ t = taken[o]
    BY <1>3
  <2>3. PICK k \in 1..Len(b) : k = i
    BY <1>4, <2>2
  <2>4. Flows(g, b, t) /\ \A j \in 1..(k - 1) : b[j][2] # b[k][2]
    BY <1>5, <2>1, <2>2, <2>3
  <2>5. LET r == SubSeq(b, 1, k - 1) \o SubSeq(b, k + 1, Len(b))
        IN  /\ r \in Seq(Messages) /\ Append(t, b[k]) \in Seq(Messages)
            /\ Len(r) <= Len(b) /\ Flows(g, r, Append(t, b[k]))
    BY <2>4, FlowOut
  <2>6. QED
    BY <2>2, <2>3, <2>5
<1> HIDE DEF d, o
<1>7. IpcTyped'
  BY <1>1, <1>2, <1>6 DEF IpcInv, IpcTyped, Ni!TypeOK
<1>8. \A x \in Ni!Named : Flows(given'[x], content'[x], taken'[x])
  <2>1. ASSUME NEW x \in Ni!Named, x # o  PROVE Flows(given'[x], content'[x], taken'[x])
    BY <1>2, <2>1 DEF IpcInv, IpcTyped
  <2>2. given'[o] = given[o] /\ content'[o] = d /\ taken'[o] = Append(taken[o], c[i])
    BY <1>1, <1>2 DEF IpcInv, IpcTyped
  <2>3. QED
    BY <1>6, <2>1, <2>2
<1>9. kind' = "queue" => \A x \in Ni!Named : Len(content'[x]) <= QueueLimit
  <2>1. ASSUME NEW x \in Ni!Named, kind = "queue"
        PROVE  Len(content'[x]) <= QueueLimit
    <3>1. CASE x = o
      <4>1. content'[x] = d /\ Len(c) <= QueueLimit /\ Len(c) \in Nat /\ Len(d) \in Nat
        BY <1>1, <1>2, <1>3, <1>6, <2>1, <3>1 DEF IpcInv, IpcTyped
      <4>2. QED
        BY <1>6, <4>1, IpcAssumption
    <3>2. CASE x # o
      BY <1>2, <2>1, <3>2 DEF IpcInv, IpcTyped
    <3>3. QED
      BY <3>1, <3>2
  <2>2. QED
    BY <1>2, <2>1
<1>10. Ni!OpenedIsComplete' /\ PathIsExact' /\ PairsAreExact'
  BY <1>2 DEF IpcInv, Ni!OpenedIsComplete, PathIsExact, PairsAreExact, Serves
<1>13. Ni!JoinedInPairs'
  <2> SUFFICES ASSUME kind' = "pipe", NEW x \in Ni!Named
               PROVE  /\ \A r, q, u \in peers'[x] : r = q \/ q = u \/ r = u
                      /\ \A n \in DOMAIN taken'[x] : taken'[x][n][2] \in peers'[x]
    BY DEF Ni!JoinedInPairs
  <2>1. /\ peers' = peers /\ kind = "pipe"
        /\ \A r, q, u \in peers[x] : r = q \/ q = u \/ r = u
        /\ \A n \in DOMAIN taken[x] : taken[x][n][2] \in peers[x]
    BY <1>2 DEF IpcInv, Ni!JoinedInPairs
  <2>2. CASE x # o
    BY <1>2, <2>1, <2>2 DEF IpcInv, IpcTyped
  <2>3. CASE x = o
    <3>1. taken'[o] = Append(taken[o], c[i])
      BY <1>1, <1>2 DEF IpcInv, IpcTyped
    <3>2. PICK t \in Seq(Messages), m \in Messages : t = taken[o] /\ m = c[i]
      BY <1>3, <1>4, ElementOfSeq
    <3>3. \A n \in DOMAIN Append(t, m) : Append(t, m)[n] = m \/ (n \in DOMAIN t /\ Append(t, m)[n] = t[n])
      OBVIOUS
    <3>4. QED
      BY <1>12, <2>1, <2>3, <3>1, <3>2, <3>3
  <2>4. QED
    BY <2>2, <2>3
<1>11. QED
  BY <1>7, <1>8, <1>9, <1>10, <1>13 DEF IpcInv

\* A step of nobody keeps it.
LEMMA IpcStutters == IpcInv /\ UNCHANGED ipcVars => IpcInv'
BY DEF ipcVars, IpcInv, IpcTyped, Ni!TypeOK, Ni!OpenedIsComplete, PathIsExact, PairsAreExact,
   Ni!JoinedInPairs, Serves

\* Every step of the processes keeps it.
LEMMA IpcNext == IpcInv /\ (Ni!Next \/ UNCHANGED ipcVars) => IpcInv'
<1> SUFFICES ASSUME IpcInv, Ni!Next  PROVE IpcInv'
  BY IpcStutters
<1>1. PICK p \in Procs :
    \/ NameMoves(p)
    \/ Ni!release(p) \/ Ni!send(p) \/ Ni!write_all(p) \/ Ni!acquire(p) \/ Ni!receive(p) \/ Ni!read(p)
  BY DEF Ni!Next, NameMoves, Ni!NamedPipeServer_create, Ni!SharedMemory_create,
     Ni!NamedSemaphore_create, Ni!MessageQueue_create, Ni!SharedMemory_open,
     Ni!NamedSemaphore_open, Ni!MessageQueue_open
<1>2. CASE NameMoves(p)
  BY <1>2, NamesMove
<1>3. CASE Ni!release(p) \/ Ni!send(p) \/ Ni!write_all(p)
  BY <1>3, IpcPuts DEF Ni!release, Ni!send, Ni!write_all
<1>4. CASE Ni!acquire(p) \/ Ni!receive(p) \/ Ni!read(p)
  BY <1>4, IpcTakes DEF Ni!acquire, Ni!receive, Ni!read
<1>5. QED
  BY <1>1, <1>2, <1>3, <1>4

\* The invariant implies what the run checks of the named objects.
LEMMA IpcIsSound == IpcInv => Ni!TypeOK /\ Ni!NamedIpcSound
<1> SUFFICES ASSUME IpcInv  PROVE Ni!TypeOK /\ Ni!NamedIpcSound
  OBVIOUS
<1>1. Ni!PathIsOwned
  <2> SUFFICES ASSUME kind = "pipe", dead = {}
               PROVE  (bound # 0) = \E p \in Procs : role[p] \in {"creating", "owner"} /\ handle[p] = bound
    BY DEF Ni!PathIsOwned
  <2>1. ASSUME NEW p \in Procs, Serves(p)  PROVE handle[p] = bound /\ bound # 0
    <3>1. handle[p] = bound
      BY <2>1 DEF IpcInv, PathIsExact
    <3>2. handle[p] \in 1..made /\ made \in Nat
      BY <2>1 DEF IpcInv, IpcTyped, Ni!TypeOK, Serves
    <3>3. QED
      BY <3>1, <3>2
  <2>2. QED
    BY <2>1 DEF IpcInv, PathIsExact, Serves
<1>2. Ni!TakenWasGiven
  BY DEF IpcInv, Flows, Ni!TakenWasGiven
<1>3. QED
  BY <1>1, <1>2 DEF IpcInv, IpcTyped, Ni!NamedIpcSound
-----------------------------------------------------------------------------
\* subprocess.cpp: what a child wrote is handed out whole and in order, and the child is
\* reaped once; ipc.cpp: an object that is opened is complete, its path is the one its maker
\* bound, and what is taken was given.
THEOREM ProcessesStaySound == Spec => []ProcessesAreSound
<1> DEFINE Inv == /\ part = "process" => ProcessInv
                  /\ part = "ipc" => IpcInv
<1>1. Init => Inv
  BY ProcessInit, IpcInit DEF Init
<1>2. Inv /\ [Next]_vars => Inv'
  <2> SUFFICES ASSUME Inv, [Next]_vars  PROVE Inv'
    OBVIOUS
  <2>1. ASSUME part' = "process"  PROVE ProcessInv'
    <3>1. part = "process" /\ (Sp!Next \/ UNCHANGED processVars)
      BY <2>1 DEF Next, vars, Rest
    <3>2. QED
      BY <3>1, ProcessNext
  <2>2. ASSUME part' = "ipc"  PROVE IpcInv'
    <3>1. part = "ipc" /\ (Ni!Next \/ UNCHANGED ipcVars)
      BY <2>2 DEF Next, vars, Rest
    <3>2. QED
      BY <3>1, IpcNext
  <2>3. QED
    BY <2>1, <2>2
<1>3. Inv => ProcessesAreSound
  BY IpcIsSound DEF ProcessesAreSound, ProcessInv, ProcessTyped
<1>4. QED
  BY <1>1, <1>2, <1>3, PTL DEF Spec
-----------------------------------------------------------------------------
(* Config *)

Jobs == [var : DOMAIN instances, new : Values \cup {Bad}]
Calls == (1..Len(changes)) \X (1..Len(told))

RegistryTyped ==
  /\ \E n \in Nat : DOMAIN instances = 1..n
  /\ DOMAIN registry \subseteq Names /\ DOMAIN pending \subseteq Names
  /\ DOMAIN registry \cap DOMAIN pending = {}
  /\ \A n \in DOMAIN registry : registry[n] \in DOMAIN instances /\ instances[registry[n]] = n
  /\ \A n \in DOMAIN pending : pending[n] \in Values \cup {Bad}
  /\ stored \in [DOMAIN instances -> Values]

LoadsTyped ==
  /\ writes \in 0..MaxWrites /\ loading \in [Writers -> BOOLEAN]
  /\ failed \in [Writers -> SUBSET DOMAIN instances]
  /\ todo \in [Writers -> Seq(Jobs)] /\ asked \in [Writers -> SUBSET Jobs]
  /\ start \in [Writers -> 0..Len(changes)]

CallsTyped ==
  /\ changes \in Seq(DOMAIN instances)
  /\ told \in Seq(Seq(1..Len(changes)))
  /\ added \in Seq((DOMAIN instances) \X (0..Len(changes))) /\ Len(added) = Len(told)
  /\ listeners_ \in [DOMAIN instances -> SUBSET (1..Len(told))]
  /\ notify \in [Writers -> SUBSET Calls]
  /\ cut \subseteq (1..Len(changes)) \X (1..Len(told)) \X Writers

\* What a writer still has to tell is one change, of the variable of those it
\* calls, which they have not heard of and no other writer tells them; whatever
\* changed that variable since is in a race with it.
Telling ==
  /\ \A w \in Writers : \A a, b \in notify[w] : a[1] = b[1]
  /\ \A w, u \in Writers : \A a \in notify[w] : a \in notify[u] => w = u
  /\ \A w \in Writers : \A a \in notify[w] :
       /\ changes[a[1]] = added[a[2]][1]
       /\ \A i \in DOMAIN told[a[2]] : told[a[2]][i] # a[1]
       /\ \A n \in DOMAIN changes : n > a[1] /\ changes[n] = changes[a[1]] => <<a[1], n>> \in raced
  /\ \A l \in DOMAIN told : \A i \in DOMAIN told[l] : changes[told[l][i]] = added[l][1]
  /\ \A v \in DOMAIN instances : \A l \in listeners_[v] : added[l][1] = v

\* What a load has left to do it was asked to do, and what it has to tell is its own;
\* nothing is failed outside a load.
LoadsLeft ==
  \A w \in Writers :
    /\ loading[w] => \A i \in DOMAIN todo[w] : todo[w][i] \in asked[w]
    /\ loading[w] => \A a \in notify[w] : a[1] > start[w]
    /\ ~loading[w] => failed[w] = {}

ConfigInv ==
  /\ RegistryTyped /\ LoadsTyped /\ CallsTyped /\ LoadsLeft /\ Telling
  /\ Cf!LoadIsComplete /\ Cf!EveryChangeIsTold /\ Cf!ToldInOrder

\* An empty registry.
LEMMA ConfigInit == Cf!Init => ConfigInv
<1> SUFFICES ASSUME Cf!Init  PROVE ConfigInv
  OBVIOUS
<1> USE DEF Cf!Init, Cf!Empty
<1>1. RegistryTyped
  <2>1. DOMAIN instances = {} /\ DOMAIN instances = 1..0 /\ 0 \in Nat
    OBVIOUS
  <2>2. QED
    BY <2>1 DEF RegistryTyped
<1>2. LoadsTyped /\ LoadsLeft
  <2>1. \A S : <<>> \in Seq(S)
    OBVIOUS
  <2>2. 0 \in 0..MaxWrites /\ 0 \in 0..Len(changes)
    BY ConfigAssumption
  <2>3. QED
    BY <2>1, <2>2 DEF LoadsTyped, LoadsLeft
<1>3. CallsTyped
  <2>1. \A S : <<>> \in Seq(S)
    OBVIOUS
  <2>2. QED
    BY <2>1 DEF CallsTyped, Calls
<1>4. Telling /\ Cf!ToldInOrder
  BY DEF Telling, Cf!ToldInOrder
<1>5. Cf!LoadIsComplete /\ Cf!EveryChangeIsTold
  BY DEF Cf!LoadIsComplete, Cf!EveryChangeIsTold
<1>6. QED
  BY <1>1, <1>2, <1>3, <1>4, <1>5 DEF ConfigInv

\* The next instance number is new.
LEMMA NextInstance ==
  ASSUME RegistryTyped
  PROVE  LET n == Cf!Cardinality(DOMAIN instances)
         IN  n \in Nat /\ DOMAIN instances = 1..n
<1>1. PICK n \in Nat : DOMAIN instances = 1..n
  BY DEF RegistryTyped
<1>2. Cardinality(1..n) = n
  BY <1>1, FS_Interval
<1>3. Cf!Cardinality(1..n) = Cardinality(1..n)
  BY DEF Cardinality, Cf!Cardinality
<1>4. QED
  BY <1>1, <1>2, <1>3

\* Steps that leave the listeners and the changes alone.
LEMMA ConfigQuiet ==
  ASSUME ConfigInv, UNCHANGED <<instances, listeners_, notify, changes, told, added, cut, raced>>
  PROVE  CallsTyped' /\ Telling' /\ Cf!EveryChangeIsTold' /\ Cf!ToldInOrder'
<1>1. CallsTyped'
  BY DEF ConfigInv, CallsTyped, Calls
<1>2. Telling'
  BY DEF ConfigInv, Telling
<1>3. Cf!EveryChangeIsTold' /\ Cf!ToldInOrder'
  BY DEF ConfigInv, Cf!EveryChangeIsTold, Cf!ToldInOrder
<1>4. QED
  BY <1>1, <1>2, <1>3

\* Steps that leave the loads, the values and the changes alone.
LEMMA ConfigStill ==
  ASSUME ConfigInv, UNCHANGED <<instances, stored, todo, loading, failed, asked, start, changes, cut>>,
         \A w \in Writers : notify'[w] \subseteq notify[w]
  PROVE  LoadsLeft' /\ Cf!LoadIsComplete'
  BY DEF ConfigInv, LoadsLeft, Cf!LoadIsComplete, Cf!WasApplied, Cf!Threw

\* A variable is registered and takes the pending value of its name (lookup).
LEMMA ConfigRegisters == ASSUME ConfigInv, NEW n \in Names, Cf!LookupNew(n)  PROVE ConfigInv'
<1> DEFINE k == Cf!Cardinality(DOMAIN instances)
           v == k + 1
           init == IF n \in DOMAIN pending /\ Cf!Converts(pending[n]) THEN pending[n] ELSE Default
<1>t. RegistryTyped /\ LoadsTyped /\ CallsTyped /\ LoadsLeft /\ Telling
      /\ Cf!LoadIsComplete /\ Cf!EveryChangeIsTold /\ Cf!ToldInOrder
  BY DEF ConfigInv
<1>1. k \in Nat /\ DOMAIN instances = 1..k
  BY <1>t, NextInstance
<1>2. v \notin DOMAIN instances /\ DOMAIN instances \cup {v} = 1..v /\ v \in Nat
  BY <1>1
<1>3. init \in Values
  BY <1>t, ConfigAssumption DEF RegistryTyped, Cf!Converts
<1>4. /\ registry' = Cf!Put(registry, n, v) /\ instances' = Cf!Put(instances, v, n)
      /\ stored' = Cf!Put(stored, v, init) /\ listeners_' = Cf!Put(listeners_, v, {})
      /\ pending' = Cf!Drop(pending, n) /\ n \notin DOMAIN registry
      /\ UNCHANGED <<todo, notify, loading, failed, writes, asked, start, changes, told, added,
                     cut, raced>>
  BY DEF Cf!LookupNew, Cf!writerVars, Cf!Registered, Cf!history, Cf!loadHistory, Cf!listenHistory,
         Cf!changeHistory
<1> HIDE DEF k, init
<1>5. /\ DOMAIN instances' = DOMAIN instances \cup {v}
      /\ \A u \in DOMAIN instances : instances'[u] = instances[u]
  BY <1>4, <1>2 DEF Cf!Put
<1>6. instances'[v] = n /\ registry'[n] = v /\ DOMAIN registry' = DOMAIN registry \cup {n}
      /\ \A m \in DOMAIN registry : registry'[m] = registry[m]
  BY <1>4 DEF Cf!Put
<1>7. /\ stored' \in [DOMAIN instances' -> Values]
      /\ \A u \in DOMAIN instances : stored'[u] = stored[u] /\ listeners_'[u] = listeners_[u]
      /\ listeners_'[v] = {} /\ DOMAIN listeners_' = DOMAIN instances'
  BY <1>t, <1>2, <1>3, <1>4, <1>5 DEF RegistryTyped, CallsTyped, Cf!Put
<1>8. RegistryTyped'
  <2>1. \E i \in Nat : DOMAIN instances' = 1..i
    BY <1>2, <1>5
  <2>2. /\ DOMAIN registry' \subseteq Names /\ DOMAIN pending' \subseteq Names
        /\ DOMAIN registry' \cap DOMAIN pending' = {}
        /\ \A m \in DOMAIN pending' : pending'[m] \in Values \cup {Bad}
    BY <1>t, <1>4, <1>6 DEF RegistryTyped, Cf!Drop
  <2>3. \A m \in DOMAIN registry' : registry'[m] \in DOMAIN instances' /\ instances'[registry'[m]] = m
    BY <1>t, <1>5, <1>6 DEF RegistryTyped
  <2>4. QED
    BY <1>7, <2>1, <2>2, <2>3 DEF RegistryTyped
<1>9. LoadsTyped' /\ LoadsLeft'
  <2>1. Jobs \subseteq Jobs'
    BY <1>5 DEF Jobs
  <2>2. todo \in [Writers -> Seq(Jobs')]
    <3>1. \A w \in Writers : todo[w] \in Seq(Jobs')
      BY <1>t, <2>1 DEF LoadsTyped
    <3>2. QED
      BY <1>t, <3>1 DEF LoadsTyped
  <2>3. asked \in [Writers -> SUBSET Jobs'] /\ failed \in [Writers -> SUBSET DOMAIN instances']
    BY <1>t, <1>5, <2>1 DEF LoadsTyped
  <2>4. QED
    BY <1>t, <1>4, <2>2, <2>3 DEF LoadsTyped, LoadsLeft
<1>10. CallsTyped'
  <2>1. changes \in Seq(DOMAIN instances') /\ added \in Seq((DOMAIN instances') \X (0..Len(changes)))
    BY <1>t, <1>5 DEF CallsTyped
  <2>2. listeners_' \in [DOMAIN instances' -> SUBSET (1..Len(told))]
    <3>1. \A u \in DOMAIN instances' : listeners_'[u] \in SUBSET (1..Len(told))
      BY <1>t, <1>5, <1>7 DEF CallsTyped
    <3>2. listeners_' = [u \in DOMAIN listeners_' |-> listeners_'[u]]
      BY <1>4 DEF Cf!Put
    <3>3. QED
      BY <3>1, <3>2, <1>7
  <2>3. QED
    BY <1>t, <1>4, <2>1, <2>2 DEF CallsTyped, Calls
<1>11. Telling' /\ Cf!EveryChangeIsTold' /\ Cf!ToldInOrder'
  <2>1. Telling'
    BY <1>t, <1>4, <1>5, <1>7 DEF Telling
  <2>2. Cf!EveryChangeIsTold' /\ Cf!ToldInOrder'
    BY <1>t, <1>4, <1>5, <1>7 DEF Cf!EveryChangeIsTold, Cf!ToldInOrder
  <2>3. QED
    BY <2>1, <2>2
<1>12. Cf!LoadIsComplete'
  <2> SUFFICES ASSUME NEW w \in Writers, loading[w]
               PROVE  /\ \A a \in asked[w] :
                           \/ \E i \in DOMAIN todo[w] : todo[w][i] = a
                           \/ IF Cf!Converts(a.new) THEN Cf!WasApplied(w, a)' ELSE a.var \in failed[w]
                      /\ \A z \in failed[w] :
                           Cf!Threw(w, z) \/ \E a \in asked[w] : a.var = z /\ ~Cf!Converts(a.new)
                      /\ \A z \in DOMAIN instances' : Cf!Threw(w, z) => z \in failed[w]
    BY <1>4 DEF Cf!LoadIsComplete, Cf!Threw
  <2>1. \A a \in asked[w] : Cf!WasApplied(w, a)' <=> Cf!WasApplied(w, a)
    <3>1. \A a \in asked[w] : a.var \in DOMAIN instances
      BY <1>t DEF LoadsTyped, Jobs
    <3>2. QED
      BY <3>1, <1>4, <1>7 DEF Cf!WasApplied
  <2>2. ~Cf!Threw(w, v)
    <3>1. \A c \in cut : changes[c[1]] \in DOMAIN instances
      BY <1>t, ElementOfSeq DEF CallsTyped
    <3>2. QED
      BY <3>1, <1>2 DEF Cf!Threw
  <2>3. QED
    BY <2>1, <2>2, <1>5, <1>t DEF Cf!LoadIsComplete
<1>13. QED
  BY <1>8, <1>9, <1>10, <1>11, <1>12 DEF ConfigInv

\* A step that leaves the registry and the values alone.
LEMMA RegistryStays ==
  ASSUME ConfigInv, UNCHANGED <<registry, pending, instances, stored>>
  PROVE  RegistryTyped'
  BY DEF ConfigInv, RegistryTyped

\* A listener is added.
LEMMA ConfigListens ==
  ASSUME ConfigInv, NEW v, Cf!AddListener(v)  PROVE ConfigInv'
<1>t. LoadsTyped /\ CallsTyped /\ Telling /\ Cf!EveryChangeIsTold /\ Cf!ToldInOrder
  BY DEF ConfigInv
<1> DEFINE k == Len(told)
           l == Len(told) + 1
           n == Len(changes)
<1>1. /\ v \in DOMAIN instances /\ listeners_' = [listeners_ EXCEPT ![v] = @ \cup {l}]
      /\ told' = Append(told, <<>>) /\ added' = Append(added, <<v, n>>)
      /\ UNCHANGED <<registry, pending, instances, stored, todo, notify, loading, failed, writes,
                     asked, start, changes, cut, raced>>
  BY DEF Cf!AddListener, Cf!writerVars, Cf!loadHistory, Cf!changeHistory
<1>0. UNCHANGED <<instances, notify, changes, cut, raced>>
  BY <1>1
<1>2. k \in Nat /\ n \in Nat /\ Len(added) = k /\ 1..k \subseteq 1..l /\ l \notin 1..k /\ 1..l = (1..k) \cup {l}
  <2>1. Len(told) \in Nat /\ Len(changes) \in Nat /\ Len(added) = Len(told)
    BY <1>t DEF CallsTyped
  <2>2. QED
    BY <2>1
<1>3. /\ told' \in Seq(Seq(1..n)) /\ DOMAIN told = 1..k /\ DOMAIN told' = 1..l /\ Len(told') = l
      /\ told'[l] = <<>> /\ \A i \in 1..k : told'[i] = told[i]
  <2>1. <<>> \in Seq(1..n) /\ told \in Seq(Seq(1..n))
    BY <1>t DEF CallsTyped
  <2>2. QED
    BY <2>1, <1>1, AppendProperties
<1>4. /\ added' \in Seq((DOMAIN instances) \X (0..n)) /\ Len(added') = l
      /\ added'[l] = <<v, n>> /\ \A i \in 1..k : added'[i] = added[i]
  <2>1. <<v, n>> \in (DOMAIN instances) \X (0..n) /\ added \in Seq((DOMAIN instances) \X (0..n))
    BY <1>t, <1>1, <1>2 DEF CallsTyped
  <2>2. QED
    BY <2>1, <1>1, <1>2, AppendProperties
<1>5. /\ listeners_'[v] = listeners_[v] \cup {l}
      /\ \A u \in DOMAIN instances : listeners_[u] \subseteq 1..k /\ (u # v => listeners_'[u] = listeners_[u])
      /\ DOMAIN listeners_' = DOMAIN instances
  BY <1>t, <1>1 DEF CallsTyped
<1>6. \A w \in Writers : \A a \in notify[w] : a[2] \in 1..k
  BY <1>t DEF CallsTyped, Calls
<1> HIDE DEF k, l, n
<1>7. CallsTyped'
  <2>1. listeners_' \in [DOMAIN instances -> SUBSET (1..l)]
    <3>1. listeners_' = [u \in DOMAIN instances |-> listeners_'[u]]
      BY <1>t, <1>1 DEF CallsTyped
    <3>2. \A u \in DOMAIN instances : listeners_'[u] \subseteq 1..l
      BY <1>2, <1>5
    <3>3. QED
      BY <3>1, <3>2
  <2>2. Calls \subseteq Calls' /\ cut \subseteq (1..n) \X (1..l) \X Writers
    BY <1>t, <1>1, <1>2, <1>3 DEF Calls, CallsTyped, k, n
  <2>3. notify' \in [Writers -> SUBSET Calls']
    <3>1. \A w \in Writers : notify[w] \in SUBSET Calls'
      BY <2>2, <1>t DEF CallsTyped
    <3>2. QED
      BY <3>1, <1>t, <1>1 DEF CallsTyped
  <2>4. changes' \in Seq(DOMAIN instances) /\ Len(changes') = n
    BY <1>t, <1>1 DEF CallsTyped, n
  <2>5. QED
    BY <1>1, <1>3, <1>4, <2>1, <2>2, <2>3, <2>4 DEF CallsTyped
<1>8. Telling'
  <2>1. /\ \A w \in Writers : \A a, b \in notify'[w] : a[1] = b[1]
        /\ \A w, u \in Writers : \A a \in notify'[w] : a \in notify'[u] => w = u
    BY <1>t, <1>1 DEF Telling
  <2>2. \A w \in Writers : \A a \in notify'[w] :
          /\ changes'[a[1]] = added'[a[2]][1]
          /\ \A i \in DOMAIN told'[a[2]] : told'[a[2]][i] # a[1]
          /\ \A m \in DOMAIN changes' : m > a[1] /\ changes'[m] = changes'[a[1]] => <<a[1], m>> \in raced'
    <3> SUFFICES ASSUME NEW w \in Writers, NEW a \in notify[w]
                 PROVE  /\ changes[a[1]] = added'[a[2]][1]
                        /\ \A i \in DOMAIN told'[a[2]] : told'[a[2]][i] # a[1]
                        /\ \A m \in DOMAIN changes : m > a[1] /\ changes[m] = changes[a[1]]
                                                       => <<a[1], m>> \in raced
      BY <1>0
    <3>1. told'[a[2]] = told[a[2]] /\ added'[a[2]] = added[a[2]]
      BY <1>3, <1>4, <1>6
    <3>2. QED
      BY <3>1, <1>t DEF Telling
  <2>3. \A j \in DOMAIN told' : \A i \in DOMAIN told'[j] : changes'[told'[j][i]] = added'[j][1]
    <3>1. \A j \in 1..k : \A i \in DOMAIN told[j] : changes[told[j][i]] = added[j][1]
      BY <1>t, <1>3 DEF Telling
    <3>2. \A i \in DOMAIN told'[l] : FALSE
      BY <1>3
    <3>3. QED
      BY <3>1, <3>2, <1>1, <1>2, <1>3, <1>4
  <2>4. \A u \in DOMAIN instances' : \A j \in listeners_'[u] : added'[j][1] = u
    <3> SUFFICES ASSUME NEW u \in DOMAIN instances, NEW j \in listeners_'[u]  PROVE added'[j][1] = u
      BY <1>1
    <3>1. CASE j = l
      <4>1. u = v
        BY <3>1, <1>2, <1>5
      <4>2. QED
        BY <3>1, <4>1, <1>4
    <3>2. CASE j # l
      <4>1. j \in listeners_[u] /\ j \in 1..k
        BY <3>2, <1>5
      <4>2. QED
        BY <4>1, <1>4, <1>t DEF Telling
    <3>3. QED
      BY <3>1, <3>2
  <2>5. QED
    BY <2>1, <2>2, <2>3, <2>4 DEF Telling
<1>9. Cf!EveryChangeIsTold'
  <2> SUFFICES ASSUME NEW u \in DOMAIN instances, NEW j \in listeners_'[u], NEW m \in DOMAIN changes,
                      changes[m] = u, m > added'[j][2]
               PROVE  \/ \E i \in DOMAIN told'[j] : told'[j][i] = m
                      \/ \E w \in Writers : <<m, j>> \in notify[w]
                      \/ \E c \in cut : c[1] = m /\ c[2] < j
    BY <1>0 DEF Cf!EveryChangeIsTold
  <2>1. j # l
    <3>1. m \in 1..n
      BY <1>t DEF CallsTyped, n
    <3>2. QED
      BY <3>1, <1>2, <1>4
  <2>2. j \in listeners_[u] /\ j \in 1..k
    BY <2>1, <1>5
  <2>3. told'[j] = told[j] /\ added'[j] = added[j]
    BY <2>2, <1>3, <1>4
  <2>4. QED
    BY <2>2, <2>3, <1>t DEF Cf!EveryChangeIsTold
<1>10. Cf!ToldInOrder'
  <2> SUFFICES ASSUME NEW j \in DOMAIN told', NEW a \in DOMAIN told'[j], NEW b \in DOMAIN told'[j], a < b
               PROVE  told'[j][a] < told'[j][b] \/ <<told'[j][b], told'[j][a]>> \in raced
    BY <1>0 DEF Cf!ToldInOrder
  <2>1. j \in 1..k
    BY <1>2, <1>3
  <2>2. QED
    BY <2>1, <1>3, <1>t DEF Cf!ToldInOrder
<1>11. RegistryTyped' /\ LoadsTyped' /\ LoadsLeft' /\ Cf!LoadIsComplete'
  <2>1. LoadsTyped'
    BY <1>t, <1>1 DEF LoadsTyped, Jobs
  <2>2. QED
    BY <2>1, <1>1, RegistryStays, ConfigStill
<1>12. QED
  BY <1>7, <1>8, <1>9, <1>10, <1>11 DEF ConfigInv

\* A listener is removed.
LEMMA ConfigUnlistens ==
  ASSUME ConfigInv, NEW v, Cf!RemoveListener(v)  PROVE ConfigInv'
<1>t. LoadsTyped /\ CallsTyped /\ Telling /\ Cf!EveryChangeIsTold /\ Cf!ToldInOrder
  BY DEF ConfigInv
<1>1. PICK l : listeners_' = [listeners_ EXCEPT ![v] = @ \ {l}]
  BY DEF Cf!RemoveListener
<1>2. UNCHANGED <<registry, pending, instances, stored, todo, notify, loading, failed, writes,
                  asked, start, changes, told, added, cut, raced>>
  BY DEF Cf!RemoveListener, Cf!writerVars, Cf!history, Cf!loadHistory, Cf!listenHistory, Cf!changeHistory
<1>3. /\ \A u \in DOMAIN instances : listeners_'[u] \subseteq listeners_[u]
      /\ listeners_' \in [DOMAIN instances -> SUBSET (1..Len(told))]
  BY <1>1, <1>t DEF CallsTyped
<1>4. CallsTyped' /\ LoadsTyped'
  BY <1>t, <1>2, <1>3 DEF CallsTyped, Calls, LoadsTyped, Jobs
<1>5. Telling' /\ Cf!EveryChangeIsTold' /\ Cf!ToldInOrder'
  <2>1. Telling'
    <3>1. \A u \in DOMAIN instances' : \A j \in listeners_'[u] : added'[j][1] = u
      BY <1>t, <1>2, <1>3 DEF Telling
    <3>2. \A w \in Writers : \A a \in notify[w] :
            /\ changes[a[1]] = added[a[2]][1]
            /\ \A i \in DOMAIN told[a[2]] : told[a[2]][i] # a[1]
            /\ \A m \in DOMAIN changes : m > a[1] /\ changes[m] = changes[a[1]] => <<a[1], m>> \in raced
      BY <1>t DEF Telling
    <3>3. /\ \A w \in Writers : \A a, b \in notify[w] : a[1] = b[1]
          /\ \A w, u \in Writers : \A a \in notify[w] : a \in notify[u] => w = u
          /\ \A j \in DOMAIN told : \A i \in DOMAIN told[j] : changes[told[j][i]] = added[j][1]
      BY <1>t DEF Telling
    <3>4. QED
      BY <1>2, <3>1, <3>2, <3>3 DEF Telling
  <2>2. Cf!EveryChangeIsTold'
    BY <1>t, <1>2, <1>3 DEF Cf!EveryChangeIsTold
  <2>3. Cf!ToldInOrder'
    BY <1>t, <1>2 DEF Cf!ToldInOrder
  <2>4. QED
    BY <2>1, <2>2, <2>3
<1>6. RegistryTyped' /\ LoadsLeft' /\ Cf!LoadIsComplete'
  BY <1>2, RegistryStays, ConfigStill
<1>7. QED
  BY <1>4, <1>5, <1>6 DEF ConfigInv

\* The locked part of set, by a writer that owes nothing: either nothing happens, or the
\* value is stored, the change counted and owed to the listeners of the variable.
LEMMA StoreEffect ==
  ASSUME ConfigInv, NEW w \in Writers, NEW v \in DOMAIN instances, NEW x \in Values,
         Cf!Store(w, v, x), UNCHANGED <<instances, listeners_, told, added>>
  PROVE  LET n == Len(changes)
             m == Len(changes) + 1
         IN  \/ stored[v] = x /\ UNCHANGED <<stored, notify, changes, cut, raced>>
             \/ /\ stored' = [stored EXCEPT ![v] = x] /\ cut' = cut
                /\ notify'[w] = {m} \X listeners_[v]
                /\ \A u \in Writers \ {w} : notify'[u] = notify[u]
                /\ notify' \in [Writers -> SUBSET Calls']
                /\ changes' \in Seq(DOMAIN instances) /\ Len(changes') = m /\ n \in Nat
                /\ DOMAIN changes = 1..n /\ DOMAIN changes' = 1..m
                /\ changes'[m] = v /\ \A i \in 1..n : changes'[i] = changes[i]
                /\ raced \subseteq raced'
                /\ \A u \in Writers : \A a \in notify[u] : changes[a[1]] = v => <<a[1], m>> \in raced'
<1> DEFINE n == Len(changes)
           m == Len(changes) + 1
<1>t. CallsTyped
  BY DEF ConfigInv
<1>1. CASE stored[v] = x
  BY <1>1 DEF Cf!Store, Cf!changeHistory
<1>2. CASE stored[v] # x
  <2>1. /\ stored' = [stored EXCEPT ![v] = x] /\ cut' = cut
        /\ notify' = [notify EXCEPT ![w] = {m} \X listeners_[v]]
        /\ changes' = Append(changes, v)
        /\ raced' = raced \cup {<<a[1], m>> : a \in {b \in UNION {notify[u] : u \in Writers} :
                                                         changes[b[1]] = v}}
    BY <1>2 DEF Cf!Store
  <2>2. /\ changes \in Seq(DOMAIN instances) /\ n \in Nat /\ DOMAIN changes = 1..n
        /\ 1..n \subseteq 1..m /\ m \in 1..m
    <3>1. changes \in Seq(DOMAIN instances)
      BY <1>t DEF CallsTyped
    <3>2. QED
      BY <3>1
  <2>3. /\ changes' \in Seq(DOMAIN instances) /\ Len(changes') = m /\ DOMAIN changes' = 1..m
        /\ changes'[m] = v /\ \A i \in 1..n : changes'[i] = changes[i]
    BY <2>1, <2>2, AppendProperties
  <2>4. /\ notify'[w] = {m} \X listeners_[v]
        /\ \A u \in Writers \ {w} : notify'[u] = notify[u]
    BY <2>1, <1>t DEF CallsTyped
  <2>5. notify' \in [Writers -> SUBSET Calls']
    <3>1. Calls \subseteq Calls' /\ {m} \X listeners_[v] \subseteq Calls'
      BY <2>2, <2>3, <1>t DEF Calls, CallsTyped
    <3>2. \A u \in Writers : notify'[u] \in SUBSET Calls'
      BY <3>1, <2>4, <1>t DEF CallsTyped
    <3>3. notify' = [u \in Writers |-> notify'[u]]
      BY <2>1, <1>t DEF CallsTyped
    <3>4. QED
      BY <3>2, <3>3
  <2>6. /\ raced \subseteq raced'
        /\ \A u \in Writers : \A a \in notify[u] : changes[a[1]] = v => <<a[1], m>> \in raced'
    BY <2>1
  <2>7. QED
    BY <2>1, <2>2, <2>3, <2>4, <2>5, <2>6
<1>3. QED
  BY <1>1, <1>2

\* What a change leaves true of the listeners.
LEMMA StoreTells ==
  ASSUME ConfigInv, NEW w \in Writers, notify[w] = {}, NEW v \in DOMAIN instances, NEW x \in Values,
         Cf!Store(w, v, x), UNCHANGED <<instances, listeners_, told, added>>
  PROVE  /\ stored' \in [DOMAIN instances -> Values]
         /\ CallsTyped' /\ Telling' /\ Cf!EveryChangeIsTold' /\ Cf!ToldInOrder'
<1> DEFINE n == Len(changes)
           m == Len(changes) + 1
<1>t. RegistryTyped /\ CallsTyped /\ Telling /\ Cf!EveryChangeIsTold /\ Cf!ToldInOrder
  BY DEF ConfigInv
<1>1. CASE UNCHANGED <<stored, notify, changes, cut, raced>>
  <2>1. CallsTyped' /\ Telling' /\ Cf!EveryChangeIsTold' /\ Cf!ToldInOrder'
    BY <1>1, ConfigQuiet
  <2>2. QED
    BY <2>1, <1>1, <1>t DEF RegistryTyped
<1>2. CASE ~UNCHANGED <<stored, notify, changes, cut, raced>>
  <2>1. /\ stored' = [stored EXCEPT ![v] = x] /\ cut' = cut
        /\ notify'[w] = {m} \X listeners_[v]
        /\ \A u \in Writers \ {w} : notify'[u] = notify[u]
        /\ notify' \in [Writers -> SUBSET Calls']
        /\ changes' \in Seq(DOMAIN instances) /\ Len(changes') = m /\ n \in Nat
        /\ DOMAIN changes = 1..n /\ DOMAIN changes' = 1..m
        /\ changes'[m] = v /\ \A i \in 1..n : changes'[i] = changes[i]
        /\ raced \subseteq raced'
        /\ \A u \in Writers : \A a \in notify[u] : changes[a[1]] = v => <<a[1], m>> \in raced'
    BY <1>2, StoreEffect
  <2>0. UNCHANGED <<instances, listeners_, told, added, cut>>
    BY <2>1
  <2>2. stored' \in [DOMAIN instances -> Values]
    BY <2>1, <1>t DEF RegistryTyped
  <2>3. 1..n \subseteq 1..m /\ 0..n \subseteq 0..m /\ m \notin 1..n /\ 1..m = (1..n) \cup {m}
    BY <2>1
  <2>4. /\ \A u \in Writers : \A a \in notify[u] : a[1] \in 1..n /\ a[2] \in 1..Len(told) /\ a = <<a[1], a[2]>>
        /\ DOMAIN told = 1..Len(told) /\ told \in Seq(Seq(1..n))
        /\ \A u \in DOMAIN instances : listeners_[u] \subseteq 1..Len(told)
    BY <1>t DEF CallsTyped, Calls
  <2>5. \A l \in DOMAIN told : told[l] \in Seq(1..n) /\ \A i \in DOMAIN told[l] : told[l][i] \in 1..n
    <3>1. \A l \in DOMAIN told : told[l] \in Seq(1..n)
      BY <2>4, ElementOfSeq
    <3>2. QED
      BY <3>1, ElementOfSeq
  <2> HIDE DEF n, m
  <2>6. CallsTyped'
    <3>1. told' \in Seq(Seq(1..m)) /\ added' \in Seq((DOMAIN instances') \X (0..m))
      <4>1. added \in Seq((DOMAIN instances) \X (0..n)) /\ Seq(1..n) \subseteq Seq(1..m)
        BY <1>t, <2>3 DEF CallsTyped, n
      <4>2. QED
        BY <4>1, <2>3, <2>4
    <3>2. cut' \subseteq (1..m) \X (1..Len(told')) \X Writers
      BY <1>t, <2>1, <2>3 DEF CallsTyped, n
    <3>3. QED
      BY <3>1, <3>2, <2>1, <1>t DEF CallsTyped
  <2>7. \A a \in notify'[w] : a[1] = m /\ a[2] \in listeners_[v]
    BY <2>1
  <2>8. Telling'
    <3>1. \A u \in Writers : \A a, b \in notify'[u] : a[1] = b[1]
      BY <2>1, <2>7, <1>t DEF Telling
    <3>2. \A y, u \in Writers : \A a \in notify'[y] : a \in notify'[u] => y = u
      <4> SUFFICES ASSUME NEW y \in Writers, NEW u \in Writers, NEW a, a \in notify'[y], a \in notify'[u]
                   PROVE  y = u
        OBVIOUS
      <4>1. CASE y # w /\ u # w
        BY <4>1, <2>1, <1>t DEF Telling
      <4>2. \A z \in Writers \ {w} : a \in notify'[z] => a[1] # m
        BY <2>1, <2>3, <2>4
      <4>3. a \in notify'[w] => a[1] = m
        BY <2>7
      <4>4. QED
        BY <4>1, <4>2, <4>3
    <3>3. ASSUME NEW u \in Writers, NEW a \in notify'[u]
          PROVE  /\ changes'[a[1]] = added'[a[2]][1]
                 /\ \A i \in DOMAIN told'[a[2]] : told'[a[2]][i] # a[1]
                 /\ \A j \in DOMAIN changes' : j > a[1] /\ changes'[j] = changes'[a[1]] => <<a[1], j>> \in raced'
      <4>1. CASE u = w
        <5>1. a[1] = m /\ a[2] \in listeners_[v] /\ a[2] \in DOMAIN told
          BY <4>1, <2>4, <2>7, <3>3
        <5>2. \A j \in 1..m : ~(j > m)
          BY <2>1, <2>3 DEF m
        <5>3. changes'[a[1]] = added'[a[2]][1]
          BY <5>1, <2>1, <1>t DEF Telling
        <5>4. \A i \in DOMAIN told'[a[2]] : told'[a[2]][i] # a[1]
          BY <5>1, <2>3, <2>5
        <5>5. QED
          BY <5>1, <5>2, <5>3, <5>4, <2>1
      <4>2. CASE u # w
        <5>1. a \in notify[u] /\ a[1] \in 1..n
          BY <4>2, <2>1, <2>4, <3>3
        <5>2. changes'[a[1]] = changes[a[1]] /\ DOMAIN changes' = DOMAIN changes \cup {m}
          BY <5>1, <2>1, <2>3
        <5>3. /\ changes[a[1]] = added[a[2]][1]
              /\ \A i \in DOMAIN told[a[2]] : told[a[2]][i] # a[1]
              /\ \A j \in DOMAIN changes : j > a[1] /\ changes[j] = changes[a[1]] => <<a[1], j>> \in raced
          BY <5>1, <1>t DEF Telling
        <5>4. ASSUME NEW j \in DOMAIN changes', j > a[1], changes'[j] = changes'[a[1]]
              PROVE  <<a[1], j>> \in raced'
          <6>1. CASE j = m
            BY <6>1, <5>1, <5>2, <5>4, <2>1
          <6>2. CASE j # m
            BY <6>2, <5>2, <5>3, <5>4, <2>1
          <6>3. QED
            BY <6>1, <6>2
        <5>5. QED
          BY <5>2, <5>3, <5>4
      <4>3. QED
        BY <4>1, <4>2
    <3>4. \A l \in DOMAIN told' : \A i \in DOMAIN told'[l] : changes'[told'[l][i]] = added'[l][1]
      BY <2>1, <2>5, <1>t DEF Telling
    <3>5. \A u \in DOMAIN instances' : \A l \in listeners_'[u] : added'[l][1] = u
      BY <1>t DEF Telling
    <3>6. QED
      BY <3>1, <3>2, <3>3, <3>4, <3>5 DEF Telling
  <2>9. Cf!EveryChangeIsTold'
    <3> SUFFICES ASSUME NEW u \in DOMAIN instances, NEW l \in listeners_[u], NEW j \in DOMAIN changes',
                        changes'[j] = u, j > added[l][2]
                 PROVE  \/ \E i \in DOMAIN told[l] : told[l][i] = j
                        \/ \E y \in Writers : <<j, l>> \in notify'[y]
                        \/ \E c \in cut : c[1] = j /\ c[2] < l
      BY <2>0 DEF Cf!EveryChangeIsTold
    <3>1. CASE j = m
      <4>1. u = v
        BY <3>1, <2>1
      <4>2. QED
        BY <3>1, <4>1, <2>1
    <3>2. CASE j # m
      <4>1. j \in DOMAIN changes /\ changes[j] = u
        BY <3>2, <2>1, <2>3
      <4>2. \A y \in Writers : <<j, l>> \in notify[y] => <<j, l>> \in notify'[y]
        BY <2>1
      <4>3. QED
        BY <4>1, <4>2, <1>t DEF Cf!EveryChangeIsTold
    <3>3. QED
      BY <3>1, <3>2
  <2>10. Cf!ToldInOrder'
    BY <2>1, <1>t DEF Cf!ToldInOrder
  <2>11. QED
    BY <2>2, <2>6, <2>8, <2>9, <2>10
<1>3. QED
  BY <1>1, <1>2

\* What a change leaves true of the loads: what one of them has applied was stored, and
\* no listener has thrown.
LEMMA StoreLoads ==
  ASSUME ConfigInv, NEW w \in Writers, NEW v \in DOMAIN instances, NEW x \in Values,
         Cf!Store(w, v, x), UNCHANGED <<instances, listeners_, told, added, asked, start>>
  PROVE  /\ start \in [Writers -> 0..Len(changes')]
         /\ \A u \in Writers : \A a \in asked[u] : Cf!WasApplied(u, a) => Cf!WasApplied(u, a)'
         /\ \A u \in Writers, z \in DOMAIN instances : Cf!Threw(u, z)' <=> Cf!Threw(u, z)
         /\ \A u \in Writers, a \in Jobs : a.var = v /\ a.new = x => Cf!WasApplied(u, a)'
         /\ \A a \in notify'[w] : a \in notify[w] \/ a[1] > start[w]
         /\ \A u \in Writers \ {w} : notify'[u] = notify[u]
<1> DEFINE n == Len(changes)
           m == Len(changes) + 1
<1>t. RegistryTyped /\ LoadsTyped /\ CallsTyped
  BY DEF ConfigInv
<1>1. CASE stored[v] = x /\ UNCHANGED <<stored, notify, changes, cut, raced>>
  BY <1>1, <1>t DEF LoadsTyped, Cf!WasApplied, Cf!Threw
<1>2. CASE ~(stored[v] = x /\ UNCHANGED <<stored, notify, changes, cut, raced>>)
  <2>1. /\ stored' = [stored EXCEPT ![v] = x] /\ cut' = cut
        /\ Len(changes') = m /\ n \in Nat
        /\ DOMAIN changes = 1..n /\ DOMAIN changes' = 1..m
        /\ changes'[m] = v /\ \A i \in 1..n : changes'[i] = changes[i]
        /\ notify'[w] = {m} \X listeners_[v] /\ \A u \in Writers \ {w} : notify'[u] = notify[u]
    BY <1>2, StoreEffect
  <2>2. 1..n \subseteq 1..m /\ m \in 1..m /\ 0..n \subseteq 0..m /\ \A i \in 0..n : m > i
    BY <2>1
  <2>3. \A u \in Writers : start[u] \in 0..n
    BY <1>t DEF LoadsTyped
  <2>4. \A c \in cut : c[1] \in 1..n
    BY <1>t DEF CallsTyped
  <2>5. stored'[v] = x /\ \A z \in DOMAIN instances : z # v => stored'[z] = stored[z]
    BY <2>1, <1>t DEF RegistryTyped
  <2> HIDE DEF n, m
  <2>6. start \in [Writers -> 0..Len(changes')]
    BY <2>1, <2>2, <1>t DEF LoadsTyped, n
  <2>7. ASSUME NEW u \in Writers, NEW a \in asked[u], Cf!WasApplied(u, a)  PROVE Cf!WasApplied(u, a)'
    <3>1. CASE a.var = v
      BY <3>1, <2>1, <2>2, <2>3 DEF Cf!WasApplied
    <3>2. CASE a.var # v
      <4>1. a.var \in DOMAIN instances
        BY <1>t DEF LoadsTyped, Jobs
      <4>2. QED
        BY <3>2, <4>1, <2>1, <2>2, <2>5, <2>7 DEF Cf!WasApplied
    <3>3. QED
      BY <3>1, <3>2
  <2>8. \A u \in Writers, z \in DOMAIN instances : Cf!Threw(u, z)' <=> Cf!Threw(u, z)
    BY <2>1, <2>4 DEF Cf!Threw
  <2>9. \A u \in Writers, a \in Jobs : a.var = v /\ a.new = x => Cf!WasApplied(u, a)'
    BY <2>5 DEF Cf!WasApplied
  <2>10. \A a \in notify'[w] : a[1] > start[w]
    BY <2>1, <2>2, <2>3
  <2>11. QED
    BY <2>1, <2>6, <2>7, <2>8, <2>9, <2>10
<1>3. QED
  BY <1>1, <1>2

\* A value is stored by a caller of set.
LEMMA ConfigSets ==
  ASSUME ConfigInv, NEW w \in Writers, NEW v, NEW x \in Values, Cf!Set(w, v, x)  PROVE ConfigInv'
<1>t. RegistryTyped /\ LoadsTyped /\ LoadsLeft /\ Cf!LoadIsComplete
  BY DEF ConfigInv
<1>1. /\ notify[w] = {} /\ v \in DOMAIN instances /\ Cf!Store(w, v, x)
      /\ writes < MaxWrites /\ writes' = writes + 1
  BY DEF Cf!Set, Cf!Free
<1>2. UNCHANGED <<registry, pending, instances, listeners_, todo, loading, failed, asked, start, told, added>>
  BY DEF Cf!Set, Cf!loadHistory, Cf!listenHistory
<1>3. writes' \in 0..MaxWrites
  <2>1. writes \in 0..MaxWrites /\ MaxWrites \in Nat
    BY <1>t, ConfigAssumption DEF LoadsTyped
  <2>2. QED
    BY <2>1, <1>1
<1>4. /\ stored' \in [DOMAIN instances -> Values]
      /\ CallsTyped' /\ Telling' /\ Cf!EveryChangeIsTold' /\ Cf!ToldInOrder'
  BY <1>1, <1>2, StoreTells
<1>5. /\ start \in [Writers -> 0..Len(changes')]
      /\ \A u \in Writers : \A a \in asked[u] : Cf!WasApplied(u, a) => Cf!WasApplied(u, a)'
      /\ \A u \in Writers, z \in DOMAIN instances : Cf!Threw(u, z)' <=> Cf!Threw(u, z)
      /\ \A a \in notify'[w] : a \in notify[w] \/ a[1] > start[w]
      /\ \A u \in Writers \ {w} : notify'[u] = notify[u]
  BY <1>1, <1>2, StoreLoads
<1>6. RegistryTyped' /\ LoadsTyped' /\ LoadsLeft'
  <2>1. LoadsLeft'
    BY <1>2, <1>5, <1>t DEF LoadsLeft
  <2>2. QED
    BY <2>1, <1>2, <1>3, <1>4, <1>5, <1>t DEF RegistryTyped, LoadsTyped, Jobs
<1>7. Cf!LoadIsComplete'
  <2> SUFFICES ASSUME NEW u \in Writers, loading[u]
               PROVE  /\ \A a \in asked[u] :
                           \/ \E i \in DOMAIN todo[u] : todo[u][i] = a
                           \/ IF Cf!Converts(a.new) THEN Cf!WasApplied(u, a)' ELSE a.var \in failed[u]
                      /\ \A z \in failed[u] :
                           Cf!Threw(u, z)' \/ \E a \in asked[u] : a.var = z /\ ~Cf!Converts(a.new)
                      /\ \A z \in DOMAIN instances : Cf!Threw(u, z)' => z \in failed[u]
    BY <1>2 DEF Cf!LoadIsComplete
  <2>1. failed[u] \subseteq DOMAIN instances
    BY <1>t DEF LoadsTyped
  <2>2. QED
    BY <2>1, <1>5, <1>t DEF Cf!LoadIsComplete
<1>8. QED
  BY <1>4, <1>6, <1>7 DEF ConfigInv

\* The listener whose turn it is is called; after that its writer owes the others
\* (Notify), or nobody, because it threw (ListenerThrows).
LEMMA CallTells ==
  ASSUME ConfigInv, NEW w \in Writers, NEW a \in notify[w], Cf!IsNext(w, a), Cf!Tell(a),
         \/ notify' = [notify EXCEPT ![w] = @ \ {a}] /\ cut' = cut
         \/ notify' = [notify EXCEPT ![w] = {}] /\ cut' = cut \cup {<<a[1], a[2], w>>},
         UNCHANGED <<instances, listeners_, changes, added, raced>>
  PROVE  /\ CallsTyped' /\ Telling' /\ Cf!EveryChangeIsTold' /\ Cf!ToldInOrder'
         /\ \A u \in Writers : notify'[u] \subseteq notify[u]
<1>t. CallsTyped /\ Telling /\ Cf!EveryChangeIsTold /\ Cf!ToldInOrder
  BY DEF ConfigInv
<1> DEFINE n == a[1]
           l == a[2]
           s == told[l]
<1>1. /\ n \in 1..Len(changes) /\ l \in 1..Len(told) /\ a = <<n, l>> /\ DOMAIN told = 1..Len(told)
      /\ DOMAIN changes = 1..Len(changes)
  BY <1>t DEF CallsTyped, Calls
<1>2. told \in Seq(Seq(1..Len(changes))) /\ s \in Seq(1..Len(changes))
  BY <1>1, <1>t, ElementOfSeq DEF CallsTyped
<1>3. told' = [told EXCEPT ![l] = Append(s, n)]
  BY DEF Cf!Tell
<1>4. /\ Append(s, n) \in Seq(1..Len(changes)) /\ Len(Append(s, n)) = Len(s) + 1 /\ Len(s) \in Nat
      /\ \A i \in 1..Len(s) : Append(s, n)[i] = s[i]
      /\ Append(s, n)[Len(s) + 1] = n
      /\ DOMAIN s = 1..Len(s) /\ DOMAIN Append(s, n) = 1..(Len(s) + 1)
  BY <1>1, <1>2, AppendProperties
<1>5. /\ told' \in Seq(Seq(1..Len(changes))) /\ Len(told') = Len(told) /\ DOMAIN told' = DOMAIN told
      /\ told'[l] = Append(s, n) /\ \A k \in DOMAIN told : k # l => told'[k] = told[k]
  <2>1. told' \in Seq(Seq(1..Len(changes))) /\ Len(told') = Len(told)
    BY <1>1, <1>2, <1>3, <1>4, ExceptSeq
  <2>2. \A k \in 1..Len(told) : told'[k] = IF k = l THEN Append(s, n) ELSE told[k]
    BY <1>1, <1>2, <1>3, <1>4, ExceptSeq
  <2>3. DOMAIN told' = 1..Len(told')
    BY <2>1
  <2>4. QED
    BY <2>1, <2>2, <2>3, <1>1
<1>6. /\ \A u \in Writers : notify'[u] \subseteq notify[u] /\ a \notin notify'[u]
      /\ \A u \in Writers \ {w} : notify'[u] = notify[u]
      /\ notify' \in [Writers -> SUBSET Calls]
      /\ cut \subseteq cut' /\ cut' \subseteq cut \cup {<<n, l, w>>}
      /\ \A b \in notify[w] : b = a \/ b \in notify'[w] \/ <<n, l, w>> \in cut'
  <2>1. notify \in [Writers -> SUBSET Calls]
    BY <1>t DEF CallsTyped
  <2>2. \A u \in Writers : a \in notify[u] => u = w
    BY <1>t DEF Telling
  <2>3. QED
    BY <2>1, <2>2
<1>7. \A b \in notify[w] : b[1] = n /\ l <= b[2] /\ b = <<b[1], b[2]>> /\ b[2] \in 1..Len(told)
  BY <1>t DEF Telling, Cf!IsNext, CallsTyped, Calls
<1>8. /\ changes[n] = added[l][1] /\ \A i \in DOMAIN s : s[i] # n
      /\ \A m \in DOMAIN changes : m > n /\ changes[m] = changes[n] => <<n, m>> \in raced
      /\ \A i \in DOMAIN s : changes[s[i]] = added[l][1]
  BY <1>1, <1>t DEF Telling
<1> HIDE DEF n, l, s
<1>9. CallsTyped'
  <2>1. Calls' = Calls /\ cut' \subseteq (1..Len(changes)) \X (1..Len(told)) \X Writers
    <3>1. <<n, l, w>> \in (1..Len(changes)) \X (1..Len(told)) \X Writers
      BY <1>1
    <3>2. cut \subseteq (1..Len(changes)) \X (1..Len(told)) \X Writers
      BY <1>t DEF CallsTyped
    <3>3. Calls' = Calls
      BY <1>5 DEF Calls
    <3>4. QED
      BY <3>1, <3>2, <3>3, <1>6
  <2>2. QED
    BY <2>1, <1>5, <1>6, <1>t DEF CallsTyped
<1>10. \A k \in DOMAIN told : \A i \in DOMAIN told'[k] :
         (i \in DOMAIN told[k] /\ told'[k][i] = told[k][i]) \/ (k = l /\ told'[k][i] = n /\ i = Len(s) + 1)
  <2>1. ASSUME NEW i \in DOMAIN told'[l]
        PROVE  (i \in DOMAIN s /\ told'[l][i] = s[i]) \/ (told'[l][i] = n /\ i = Len(s) + 1)
    <3>1. i \in 1..(Len(s) + 1) /\ (i \in 1..Len(s) \/ i = Len(s) + 1)
      BY <1>4, <1>5
    <3>2. QED
      BY <3>1, <1>4, <1>5
  <2>2. QED
    BY <2>1, <1>5 DEF s
<1>11. Telling'
  <2>1. /\ \A u \in Writers : \A b, c \in notify'[u] : b[1] = c[1]
        /\ \A y, u \in Writers : \A b \in notify'[y] : b \in notify'[u] => y = u
    BY <1>6, <1>t DEF Telling
  <2>2. ASSUME NEW u \in Writers, NEW b \in notify'[u]
        PROVE  /\ changes[b[1]] = added[b[2]][1]
               /\ \A i \in DOMAIN told'[b[2]] : told'[b[2]][i] # b[1]
               /\ \A m \in DOMAIN changes : m > b[1] /\ changes[m] = changes[b[1]] => <<b[1], m>> \in raced
    <3>1. b \in notify[u] /\ b # a
      BY <1>6, <2>2
    <3>2. /\ changes[b[1]] = added[b[2]][1]
          /\ \A i \in DOMAIN told[b[2]] : told[b[2]][i] # b[1]
          /\ \A m \in DOMAIN changes : m > b[1] /\ changes[m] = changes[b[1]] => <<b[1], m>> \in raced
      BY <3>1, <1>t DEF Telling
    <3>3. b = <<b[1], b[2]>> /\ b[2] \in DOMAIN told
      BY <3>1, <1>1, <1>t DEF CallsTyped, Calls
    <3>4. b[2] = l => b[1] # n
      BY <3>1, <3>3, <1>1
    <3>5. QED
      BY <3>2, <3>3, <3>4, <1>10
  <2>3. \A k \in DOMAIN told' : \A i \in DOMAIN told'[k] : changes[told'[k][i]] = added[k][1]
    <3> SUFFICES ASSUME NEW k \in DOMAIN told, NEW i \in DOMAIN told'[k]
                 PROVE  changes[told'[k][i]] = added[k][1]
      BY <1>5
    <3>1. CASE i \in DOMAIN told[k] /\ told'[k][i] = told[k][i]
      BY <3>1, <1>t DEF Telling
    <3>2. CASE k = l /\ told'[k][i] = n
      BY <3>2, <1>8
    <3>3. QED
      BY <3>1, <3>2, <1>10
  <2>4. \A v \in DOMAIN instances : \A k \in listeners_[v] : added[k][1] = v
    BY <1>t DEF Telling
  <2>5. QED
    BY <2>1, <2>2, <2>3, <2>4 DEF Telling
<1>12. Cf!EveryChangeIsTold'
  <2> SUFFICES ASSUME NEW v \in DOMAIN instances, NEW k \in listeners_[v], NEW m \in DOMAIN changes,
                      changes[m] = v, m > added[k][2]
               PROVE  \/ \E i \in DOMAIN told'[k] : told'[k][i] = m
                      \/ \E u \in Writers : <<m, k>> \in notify'[u]
                      \/ \E c \in cut' : c[1] = m /\ c[2] < k
    BY DEF Cf!EveryChangeIsTold
  <2>1. k \in DOMAIN told
    BY <1>1, <1>t DEF CallsTyped
  <2>2. CASE \E i \in DOMAIN told[k] : told[k][i] = m
    <3>1. \A i \in DOMAIN told[k] : i \in DOMAIN told'[k] /\ told'[k][i] = told[k][i]
      <4>1. \A i \in 1..Len(s) : i \in 1..(Len(s) + 1)
        BY <1>4
      <4>2. QED
        BY <2>1, <4>1, <1>4, <1>5 DEF s
    <3>2. QED
      BY <2>2, <3>1
  <2>3. CASE \E u \in Writers : <<m, k>> \in notify[u]
    <3>1. PICK u \in Writers : <<m, k>> \in notify[u]
      BY <2>3
    <3>2. CASE u # w \/ <<m, k>> \in notify'[w]
      BY <3>1, <3>2, <1>6
    <3>3. CASE u = w /\ <<m, k>> = a
      <4>1. k = l /\ m = n
        BY <3>3, <1>1
      <4>2. Len(s) + 1 \in DOMAIN told'[k] /\ told'[k][Len(s) + 1] = m
        BY <4>1, <1>4, <1>5
      <4>3. QED
        BY <4>2
    <3>4. CASE u = w /\ <<m, k>> # a /\ <<n, l, w>> \in cut'
      <4>1. m = n /\ l <= k /\ l # k
        <5>1. <<m, k>>[1] = m /\ <<m, k>>[2] = k
          OBVIOUS
        <5>2. QED
          BY <5>1, <3>1, <3>4, <1>1, <1>7
      <4>2. l < k
        BY <4>1, <1>1, <2>1
      <4>3. <<n, l, w>>[1] = n /\ <<n, l, w>>[2] = l
        OBVIOUS
      <4>4. QED
        BY <4>1, <4>2, <4>3, <3>4
    <3>5. QED
      BY <3>1, <3>2, <3>3, <3>4, <1>6
  <2>4. CASE \E c \in cut : c[1] = m /\ c[2] < k
    BY <2>4, <1>6
  <2>5. QED
    BY <2>2, <2>3, <2>4, <1>t DEF Cf!EveryChangeIsTold
<1>13. Cf!ToldInOrder'
  <2> SUFFICES ASSUME NEW k \in DOMAIN told, NEW i \in DOMAIN told'[k], NEW j \in DOMAIN told'[k], i < j
               PROVE  told'[k][i] < told'[k][j] \/ <<told'[k][j], told'[k][i]>> \in raced
    BY <1>5 DEF Cf!ToldInOrder
  <2>1. CASE j \in DOMAIN told[k] /\ told'[k][j] = told[k][j]
    <3>1. k = l => ~(Len(s) + 1 < j)
      BY <2>1, <1>4 DEF s
    <3>2. i \in DOMAIN told[k] /\ told'[k][i] = told[k][i]
      BY <3>1, <1>10
    <3>3. QED
      BY <2>1, <3>2, <1>t DEF Cf!ToldInOrder
  <2>2. CASE k = l /\ told'[k][j] = n /\ j = Len(s) + 1
    <3>1. i \in DOMAIN s /\ told'[k][i] = s[i]
      BY <2>2, <1>4, <1>10 DEF s
    <3>2. s[i] \in DOMAIN changes /\ s[i] # n /\ changes[s[i]] = changes[n]
      BY <3>1, <1>1, <1>2, <1>8, ElementOfSeq
    <3>3. s[i] < n \/ <<n, s[i]>> \in raced
      BY <3>2, <1>1, <1>8
    <3>4. QED
      BY <2>2, <3>1, <3>3
  <2>3. QED
    BY <2>1, <2>2, <1>10
<1>14. QED
  BY <1>6, <1>9, <1>11, <1>12, <1>13

\* A listener is called and returns.
LEMMA ConfigNotifies == ASSUME ConfigInv, NEW w \in Writers, Cf!Notify(w)  PROVE ConfigInv'
<1>1. PICK a \in notify[w] : Cf!IsNext(w, a) /\ Cf!Tell(a) /\ notify' = [notify EXCEPT ![w] = @ \ {a}]
  BY DEF Cf!Notify
<1>2. UNCHANGED <<registry, pending, instances, stored, listeners_, todo, loading, failed, writes,
                  added, asked, start, changes, cut, raced>>
  BY DEF Cf!Notify, Cf!loadHistory, Cf!changeHistory
<1>3. /\ CallsTyped' /\ Telling' /\ Cf!EveryChangeIsTold' /\ Cf!ToldInOrder'
      /\ \A u \in Writers : notify'[u] \subseteq notify[u]
  BY <1>1, <1>2, CallTells
<1>4. LoadsTyped'
  BY <1>2 DEF ConfigInv, LoadsTyped, Jobs
<1>5. QED
  BY <1>2, <1>3, <1>4, RegistryStays, ConfigStill DEF ConfigInv

\* A listener throws.
LEMMA ConfigThrows == ASSUME ConfigInv, NEW w \in Writers, Cf!ListenerThrows(w)  PROVE ConfigInv'
<1>t. LoadsTyped /\ CallsTyped /\ LoadsLeft /\ Cf!LoadIsComplete
  BY DEF ConfigInv
<1>1. PICK a \in notify[w] :
        /\ Cf!IsNext(w, a) /\ Cf!Tell(a) /\ cut' = cut \cup {<<a[1], a[2], w>>}
        /\ failed' = IF loading[w] THEN [failed EXCEPT ![w] = @ \cup {changes[a[1]]}] ELSE failed
  BY DEF Cf!ListenerThrows
<1>2. /\ notify' = [notify EXCEPT ![w] = {}]
      /\ UNCHANGED <<registry, pending, instances, stored, listeners_, todo, loading, writes, added,
                     asked, start, changes, raced>>
  BY DEF Cf!ListenerThrows, Cf!loadHistory
<1>3. /\ CallsTyped' /\ Telling' /\ Cf!EveryChangeIsTold' /\ Cf!ToldInOrder'
      /\ \A u \in Writers : notify'[u] \subseteq notify[u]
  BY <1>1, <1>2, CallTells
<1>4. /\ a[1] \in DOMAIN changes /\ changes[a[1]] \in DOMAIN instances
      /\ \A c \in cut : c[1] \in DOMAIN changes
  <2>1. changes \in Seq(DOMAIN instances) /\ a[1] \in 1..Len(changes)
    BY <1>t DEF CallsTyped, Calls
  <2>2. QED
    BY <2>1, <1>t, ElementOfSeq DEF CallsTyped
<1>5. /\ failed' \in [Writers -> SUBSET DOMAIN instances]
      /\ \A u \in Writers \ {w} : failed'[u] = failed[u]
      /\ loading[w] => failed'[w] = failed[w] \cup {changes[a[1]]}
      /\ ~loading[w] => failed'[w] = failed[w]
  <2>1. failed \in [Writers -> SUBSET DOMAIN instances]
    BY <1>t DEF LoadsTyped
  <2>2. CASE loading[w]
    BY <2>1, <2>2, <1>1, <1>4
  <2>3. CASE ~loading[w]
    BY <2>1, <2>3, <1>1
  <2>4. QED
    BY <2>2, <2>3
<1>6. LoadsTyped' /\ LoadsLeft'
  BY <1>2, <1>3, <1>5, <1>t DEF LoadsTyped, LoadsLeft, Jobs
<1>7. Cf!LoadIsComplete'
  <2> SUFFICES ASSUME NEW u \in Writers, loading[u]
               PROVE  /\ \A b \in asked[u] :
                           \/ \E i \in DOMAIN todo[u] : todo[u][i] = b
                           \/ IF Cf!Converts(b.new) THEN Cf!WasApplied(u, b) ELSE b.var \in failed'[u]
                      /\ \A z \in failed'[u] :
                           Cf!Threw(u, z)' \/ \E b \in asked[u] : b.var = z /\ ~Cf!Converts(b.new)
                      /\ \A z \in DOMAIN instances : Cf!Threw(u, z)' => z \in failed'[u]
    BY <1>2 DEF Cf!LoadIsComplete, Cf!WasApplied
  <2>1. failed[u] \subseteq failed'[u]
    BY <1>5
  <2>2. \A z : Cf!Threw(u, z) => Cf!Threw(u, z)'
    BY <1>1, <1>2 DEF Cf!Threw
  <2>3. CASE u # w
    <3>1. \A z : Cf!Threw(u, z)' => Cf!Threw(u, z)
      BY <2>3, <1>1, <1>2 DEF Cf!Threw
    <3>2. QED
      BY <2>2, <2>3, <3>1, <1>5, <1>t DEF Cf!LoadIsComplete
  <2>4. CASE u = w
    <3>1. failed'[u] = failed[u] \cup {changes[a[1]]}
      BY <2>4, <1>5
    <3>2. \A z : Cf!Threw(u, z)' => Cf!Threw(u, z) \/ z = changes[a[1]]
      BY <2>4, <1>1, <1>2 DEF Cf!Threw
    <3>3. Cf!Threw(u, changes[a[1]])' \/ changes[a[1]] \in failed[u]
      <4>1. a[1] > start[w]
        <5>1. loading[w]
          BY <2>4
        <5>2. \A y \in Writers : loading[y] => \A b \in notify[y] : b[1] > start[y]
          BY <1>t DEF LoadsLeft
        <5>3. QED
          BY <5>1, <5>2
      <4>2. <<a[1], a[2], w>> \in cut' /\ <<a[1], a[2], w>>[1] = a[1] /\ <<a[1], a[2], w>>[3] = w
        BY <1>1
      <4>3. QED
        BY <2>4, <4>1, <4>2, <1>2 DEF Cf!Threw
    <3>4. QED
      <4>1. /\ \A b \in asked[u] :
                 \/ \E i \in DOMAIN todo[u] : todo[u][i] = b
                 \/ IF Cf!Converts(b.new) THEN Cf!WasApplied(u, b) ELSE b.var \in failed[u]
            /\ \A z \in failed[u] :
                 Cf!Threw(u, z) \/ \E b \in asked[u] : b.var = z /\ ~Cf!Converts(b.new)
            /\ \A z \in DOMAIN instances : Cf!Threw(u, z) => z \in failed[u]
        BY <1>t DEF Cf!LoadIsComplete
      <4>2. \A z \in failed'[u] :
              Cf!Threw(u, z)' \/ \E b \in asked[u] : b.var = z /\ ~Cf!Converts(b.new)
        <5> SUFFICES ASSUME NEW z \in failed'[u]
                     PROVE  Cf!Threw(u, z)' \/ \E b \in asked[u] : b.var = z /\ ~Cf!Converts(b.new)
          OBVIOUS
        <5>1. CASE z \in failed[u]
          BY <5>1, <4>1, <2>2
        <5>2. CASE z = changes[a[1]]
          <6>1. CASE changes[a[1]] \in failed[u]
            BY <6>1, <5>2, <4>1, <2>2
          <6>2. CASE Cf!Threw(u, changes[a[1]])'
            <7>1. PICK y : y = changes[a[1]]
              OBVIOUS
            <7>2. Cf!Threw(u, y)'
              BY <7>1, <6>2, <1>2 DEF Cf!Threw
            <7>3. QED
              BY <7>1, <7>2, <5>2
          <6>3. QED
            BY <6>1, <6>2, <3>3
        <5>3. QED
          BY <5>1, <5>2, <3>1
      <4>3. \A z \in DOMAIN instances : Cf!Threw(u, z)' => z \in failed'[u]
        BY <3>1, <3>2, <4>1
      <4>4. QED
        BY <2>1, <4>1, <4>2, <4>3
  <2>5. QED
    BY <2>3, <2>4
<1>8. QED
  BY <1>2, <1>3, <1>6, <1>7, RegistryStays DEF ConfigInv

\* A document is split into registered names and pending values (load).
LEMMA ConfigSplits ==
  ASSUME ConfigInv, NEW w \in Writers, NEW doc \in Cf!Documents, Cf!LoadSplits(w, doc)
  PROVE  ConfigInv'
<1>t. RegistryTyped /\ LoadsTyped /\ CallsTyped /\ LoadsLeft /\ Cf!LoadIsComplete
  BY DEF ConfigInv
<1> DEFINE jobs == Cf!Claimed(doc)
           k == Cf!Cardinality(jobs)
           n == Len(changes)
<1>1. DOMAIN doc \subseteq Names /\ \A m \in DOMAIN doc : doc[m] \in Values \cup {Bad}
  BY ConfigAssumption DEF Cf!Documents
<1>2. jobs \subseteq Jobs
  BY <1>1, <1>t DEF Cf!Claimed, Cf!Registered, Jobs, RegistryTyped
<1>3. k \in Nat
  <2> DEFINE known == DOMAIN doc \cap DOMAIN registry
             job(m) == [var |-> registry[m], new |-> doc[m]]
  <2>1. IsFiniteSet(known)
    BY <1>1, FS_Subset, ConfigAssumption
  <2>2. jobs = {job(m) : m \in known}
    BY DEF Cf!Claimed, Cf!Registered
  <2>3. IsFiniteSet(jobs)
    <3> HIDE DEF known
    <3>1. jobs = {[var |-> registry[m], new |-> doc[m]] : m \in known}
      BY <2>2
    <3> DEFINE f == [m \in known |-> job(m)]
    <3>2. f \in Surjection(known, jobs)
      BY <3>1 DEF Surjection
    <3>3. QED
      BY <2>1, <3>2, FS_Surjection
  <2>4. Cf!Cardinality(jobs) = Cardinality(jobs)
    BY DEF Cardinality, Cf!Cardinality
  <2>5. QED
    BY <2>3, <2>4, FS_CardinalityType
<1>4. PICK order \in [1..k -> jobs] :
        /\ \A a \in jobs : \E i \in DOMAIN order : order[i] = a
        /\ todo' = [todo EXCEPT ![w] = order]
  BY DEF Cf!LoadSplits
<1>5. /\ notify[w] = {} /\ ~loading[w] /\ writes < MaxWrites /\ writes' = writes + 1
      /\ pending' = [m \in DOMAIN pending \cup (DOMAIN doc \ DOMAIN registry) |->
                       IF m \in DOMAIN doc \ DOMAIN registry THEN doc[m] ELSE pending[m]]
      /\ loading' = [loading EXCEPT ![w] = TRUE] /\ start' = [start EXCEPT ![w] = n]
      /\ asked' = [asked EXCEPT ![w] = jobs]
      /\ UNCHANGED <<registry, instances, stored, listeners_, notify, failed, told, added, changes, cut, raced>>
  BY DEF Cf!LoadSplits, Cf!Unclaimed, Cf!Registered, Cf!Free, Cf!listenHistory, Cf!changeHistory
<1> HIDE DEF k, jobs
<1>6. writes' \in 0..MaxWrites
  <2>1. writes \in 0..MaxWrites /\ MaxWrites \in Nat
    BY <1>t, ConfigAssumption DEF LoadsTyped
  <2>2. QED
    BY <2>1, <1>5
<1>7. /\ todo' \in [Writers -> Seq(Jobs)] /\ todo'[w] = order
      /\ \A u \in Writers \ {w} : todo'[u] = todo[u]
  <2>1. order \in Seq(Jobs)
    BY <1>2, <1>3, <1>4
  <2>2. QED
    BY <2>1, <1>4, <1>t DEF LoadsTyped
<1>8. n \in Nat /\ n \in 0..n /\ \A i \in 1..n : ~(i > n)
  BY <1>t DEF CallsTyped
<1>9. /\ asked' \in [Writers -> SUBSET Jobs] /\ asked'[w] = jobs
      /\ start' \in [Writers -> 0..n] /\ start'[w] = n
      /\ loading' \in [Writers -> BOOLEAN] /\ loading'[w] = TRUE
      /\ \A u \in Writers \ {w} : asked'[u] = asked[u] /\ start'[u] = start[u] /\ loading'[u] = loading[u]
      /\ failed[w] = {}
  BY <1>2, <1>5, <1>8, <1>t DEF LoadsTyped, LoadsLeft
<1>10. RegistryTyped'
  <2>1. /\ DOMAIN pending' \subseteq Names /\ DOMAIN registry' \cap DOMAIN pending' = {}
        /\ \A m \in DOMAIN pending' : pending'[m] \in Values \cup {Bad}
    BY <1>t, <1>1, <1>5 DEF RegistryTyped
  <2>2. QED
    BY <2>1, <1>5, <1>t DEF RegistryTyped
<1>11. LoadsTyped'
  BY <1>5, <1>6, <1>7, <1>9, <1>t DEF LoadsTyped, Jobs
<1>12. LoadsLeft'
  <2>1. \A i \in DOMAIN order : order[i] \in jobs
    BY <1>4
  <2>2. ASSUME NEW u \in Writers
        PROVE  /\ loading'[u] => \A i \in DOMAIN todo'[u] : todo'[u][i] \in asked'[u]
               /\ loading'[u] => \A a \in notify'[u] : a[1] > start'[u]
               /\ ~loading'[u] => failed'[u] = {}
    <3>1. CASE u = w
      BY <3>1, <2>1, <1>5, <1>7, <1>9
    <3>2. CASE u # w
      BY <3>2, <1>5, <1>7, <1>9, <1>t DEF LoadsLeft
    <3>3. QED
      BY <3>1, <3>2
  <2>3. QED
    BY <2>2 DEF LoadsLeft
<1>13. Cf!LoadIsComplete'
  <2> SUFFICES ASSUME NEW u \in Writers, loading'[u]
               PROVE  /\ \A b \in asked'[u] :
                           \/ \E i \in DOMAIN todo'[u] : todo'[u][i] = b
                           \/ IF Cf!Converts(b.new) THEN Cf!WasApplied(u, b)' ELSE b.var \in failed[u]
                      /\ \A z \in failed[u] :
                           Cf!Threw(u, z)' \/ \E b \in asked'[u] : b.var = z /\ ~Cf!Converts(b.new)
                      /\ \A z \in DOMAIN instances : Cf!Threw(u, z)' => z \in failed[u]
    BY <1>5 DEF Cf!LoadIsComplete
  <2>1. CASE u = w
    <3>1. \A c \in cut : c[1] \in 1..n
      BY <1>t DEF CallsTyped
    <3>2. \A z : ~Cf!Threw(w, z)'
      BY <3>1, <1>5, <1>8, <1>9 DEF Cf!Threw
    <3>3. \A b \in asked'[w] : \E i \in DOMAIN todo'[w] : todo'[w][i] = b
      BY <1>4, <1>7, <1>9
    <3>4. QED
      BY <2>1, <3>2, <3>3, <1>9
  <2>2. CASE u # w
    <3>1. asked'[u] = asked[u] /\ start'[u] = start[u] /\ loading[u] /\ todo'[u] = todo[u]
      BY <2>2, <1>7, <1>9
    <3>2. /\ \A b : Cf!WasApplied(u, b)' <=> Cf!WasApplied(u, b)
          /\ \A z : Cf!Threw(u, z)' <=> Cf!Threw(u, z)
      BY <3>1, <1>5 DEF Cf!WasApplied, Cf!Threw
    <3>3. QED
      BY <3>1, <3>2, <1>t DEF Cf!LoadIsComplete
  <2>3. QED
    BY <2>1, <2>2
<1>14. CallsTyped' /\ Telling' /\ Cf!EveryChangeIsTold' /\ Cf!ToldInOrder'
  BY <1>5, ConfigQuiet
<1>15. QED
  BY <1>10, <1>11, <1>12, <1>13, <1>14 DEF ConfigInv

\* The next value of a document is applied to its variable.
LEMMA ConfigApplies ==
  ASSUME ConfigInv, NEW w \in Writers, Cf!LoadApplies(w)  PROVE ConfigInv'
<1>t. RegistryTyped /\ LoadsTyped /\ CallsTyped /\ LoadsLeft /\ Cf!LoadIsComplete
  BY DEF ConfigInv
<1>0. PICK a : a = Head(todo[w])
  OBVIOUS
<1>1. /\ loading[w] /\ notify[w] = {} /\ todo[w] # <<>> /\ todo' = [todo EXCEPT ![w] = Tail(@)]
      /\ \/ Cf!Converts(a.new) /\ Cf!Store(w, a.var, a.new) /\ failed' = failed
         \/ /\ ~Cf!Converts(a.new) /\ failed' = [failed EXCEPT ![w] = @ \cup {a.var}]
            /\ UNCHANGED <<stored, notify, changes, cut, raced>>
  BY <1>0 DEF Cf!LoadApplies, Cf!changeHistory
<1>2. UNCHANGED <<registry, pending, instances, listeners_, loading, writes, asked, start, told, added>>
  BY DEF Cf!LoadApplies, Cf!loadHistory, Cf!listenHistory
<1>3. todo \in [Writers -> Seq(Jobs)] /\ todo[w] \in Seq(Jobs)
  BY <1>t DEF LoadsTyped
<1>4. /\ a \in Jobs /\ Tail(todo[w]) \in Seq(Jobs) /\ 1 \in DOMAIN todo[w] /\ a = todo[w][1]
      /\ \A i \in DOMAIN Tail(todo[w]) : i + 1 \in DOMAIN todo[w] /\ Tail(todo[w])[i] = todo[w][i + 1]
      /\ \A i \in DOMAIN todo[w] : i # 1 => i - 1 \in DOMAIN Tail(todo[w]) /\ todo[w][i] = Tail(todo[w])[i - 1]
  <2>1. /\ a \in Jobs /\ Tail(todo[w]) \in Seq(Jobs) /\ a = todo[w][1]
        /\ Len(todo[w]) \in Nat /\ Len(todo[w]) > 0
        /\ Len(Tail(todo[w])) = Len(todo[w]) - 1 /\ DOMAIN todo[w] = 1..Len(todo[w])
        /\ \A i \in 1..Len(Tail(todo[w])) : Tail(todo[w])[i] = todo[w][i + 1]
    BY <1>0, <1>1, <1>3, HeadTailProperties, EmptySeq
  <2>2. DOMAIN Tail(todo[w]) = 1..(Len(todo[w]) - 1)
    BY <2>1
  <2>3. /\ \A i \in 1..(Len(todo[w]) - 1) : i + 1 \in 1..Len(todo[w])
        /\ \A i \in 1..Len(todo[w]) : i # 1 => i - 1 \in 1..(Len(todo[w]) - 1) /\ (i - 1) + 1 = i
        /\ 1 \in 1..Len(todo[w])
    BY <2>1
  <2>4. QED
    BY <2>1, <2>2, <2>3
<1>5. /\ todo' \in [Writers -> Seq(Jobs)] /\ todo'[w] = Tail(todo[w])
      /\ \A u \in Writers \ {w} : todo'[u] = todo[u]
  BY <1>1, <1>3, <1>4
<1>6. a.var \in DOMAIN instances /\ a \in asked[w]
  BY <1>1, <1>4, <1>t DEF Jobs, LoadsLeft
<1>7. /\ stored' \in [DOMAIN instances -> Values]
      /\ CallsTyped' /\ Telling' /\ Cf!EveryChangeIsTold' /\ Cf!ToldInOrder'
  <2>1. CASE Cf!Converts(a.new) /\ Cf!Store(w, a.var, a.new)
    <3>1. a.new \in Values
      BY <2>1, <1>4 DEF Jobs, Cf!Converts
    <3>2. QED
      BY <2>1, <3>1, <1>1, <1>2, <1>6, StoreTells
  <2>2. CASE UNCHANGED <<stored, notify, changes, cut, raced>>
    <3>1. stored' \in [DOMAIN instances -> Values]
      BY <2>2, <1>t DEF RegistryTyped
    <3>2. QED
      BY <2>2, <3>1, <1>2, ConfigQuiet
  <2>3. QED
    BY <2>1, <2>2, <1>1
<1>8. /\ start \in [Writers -> 0..Len(changes')]
      /\ \A u \in Writers : \A b \in asked[u] : Cf!WasApplied(u, b) => Cf!WasApplied(u, b)'
      /\ \A u \in Writers, z \in DOMAIN instances : Cf!Threw(u, z)' <=> Cf!Threw(u, z)
      /\ Cf!Converts(a.new) => Cf!WasApplied(w, a)'
      /\ \A b \in notify'[w] : b \in notify[w] \/ b[1] > start[w]
      /\ \A u \in Writers \ {w} : notify'[u] = notify[u]
  <2>1. CASE Cf!Converts(a.new) /\ Cf!Store(w, a.var, a.new)
    <3>1. a.new \in Values
      BY <2>1, <1>4 DEF Jobs, Cf!Converts
    <3>2. QED
      BY <2>1, <3>1, <1>2, <1>4, <1>6, StoreLoads
  <2>2. CASE ~Cf!Converts(a.new) /\ UNCHANGED <<stored, notify, changes, cut, raced>>
    BY <2>2, <1>2, <1>t DEF LoadsTyped, Cf!WasApplied, Cf!Threw
  <2>3. QED
    BY <2>1, <2>2, <1>1
<1>9. /\ failed' \in [Writers -> SUBSET DOMAIN instances]
      /\ \A u \in Writers \ {w} : failed'[u] = failed[u]
      /\ Cf!Converts(a.new) => failed'[w] = failed[w]
      /\ ~Cf!Converts(a.new) => failed'[w] = failed[w] \cup {a.var}
  <2>1. failed \in [Writers -> SUBSET DOMAIN instances]
    BY <1>t DEF LoadsTyped
  <2>2. CASE failed' = failed /\ Cf!Converts(a.new)
    BY <2>1, <2>2
  <2>3. CASE ~Cf!Converts(a.new) /\ failed' = [failed EXCEPT ![w] = @ \cup {a.var}]
    BY <2>1, <2>3, <1>6
  <2>4. QED
    BY <2>2, <2>3, <1>1
<1>10. RegistryTyped' /\ LoadsTyped'
  BY <1>2, <1>5, <1>7, <1>8, <1>9, <1>t DEF RegistryTyped, LoadsTyped, Jobs
<1>11. LoadsLeft'
  <2>1. ASSUME NEW u \in Writers
        PROVE  /\ loading[u] => \A i \in DOMAIN todo'[u] : todo'[u][i] \in asked[u]
               /\ loading[u] => \A b \in notify'[u] : b[1] > start[u]
               /\ ~loading[u] => failed'[u] = {}
    <3>1. CASE u = w
      <4>1. \A i \in DOMAIN todo'[w] : todo'[w][i] \in asked[w]
        BY <1>1, <1>4, <1>5, <1>t DEF LoadsLeft
      <4>2. QED
        BY <3>1, <4>1, <1>1, <1>8
    <3>2. CASE u # w
      BY <3>2, <1>5, <1>8, <1>9, <1>t DEF LoadsLeft
    <3>3. QED
      BY <3>1, <3>2
  <2>2. QED
    BY <2>1, <1>2 DEF LoadsLeft
<1>12. Cf!LoadIsComplete'
  <2> SUFFICES ASSUME NEW u \in Writers, loading[u]
               PROVE  /\ \A b \in asked[u] :
                           \/ \E i \in DOMAIN todo'[u] : todo'[u][i] = b
                           \/ IF Cf!Converts(b.new) THEN Cf!WasApplied(u, b)' ELSE b.var \in failed'[u]
                      /\ \A z \in failed'[u] :
                           Cf!Threw(u, z)' \/ \E b \in asked[u] : b.var = z /\ ~Cf!Converts(b.new)
                      /\ \A z \in DOMAIN instances : Cf!Threw(u, z)' => z \in failed'[u]
    BY <1>2 DEF Cf!LoadIsComplete
  <2>1. /\ \A b \in asked[u] :
             \/ \E i \in DOMAIN todo[u] : todo[u][i] = b
             \/ IF Cf!Converts(b.new) THEN Cf!WasApplied(u, b) ELSE b.var \in failed[u]
        /\ \A z \in failed[u] :
             Cf!Threw(u, z) \/ \E b \in asked[u] : b.var = z /\ ~Cf!Converts(b.new)
        /\ \A z \in DOMAIN instances : Cf!Threw(u, z) => z \in failed[u]
        /\ failed[u] \subseteq DOMAIN instances
    BY <1>t DEF Cf!LoadIsComplete, LoadsTyped
  <2>2. CASE u # w
    BY <2>1, <2>2, <1>5, <1>8, <1>9
  <2>3. CASE u = w
    <3>1. \A b \in asked[w] :
            \/ \E i \in DOMAIN todo'[w] : todo'[w][i] = b
            \/ IF Cf!Converts(b.new) THEN Cf!WasApplied(w, b)' ELSE b.var \in failed'[w]
      <4> SUFFICES ASSUME NEW b \in asked[w]
                   PROVE  \/ \E i \in DOMAIN todo'[w] : todo'[w][i] = b
                          \/ IF Cf!Converts(b.new) THEN Cf!WasApplied(w, b)' ELSE b.var \in failed'[w]
        OBVIOUS
      <4>1. CASE b = a
        BY <4>1, <1>8, <1>9
      <4>2. CASE \E i \in DOMAIN todo[w] : todo[w][i] = b /\ b # a
        <5>1. PICK i \in DOMAIN todo[w] : todo[w][i] = b /\ b # a
          BY <4>2
        <5>2. i # 1
          BY <5>1, <1>4
        <5>3. i - 1 \in DOMAIN Tail(todo[w]) /\ todo[w][i] = Tail(todo[w])[i - 1]
          BY <5>2, <1>4
        <5>4. QED
          BY <5>1, <5>3, <1>5
      <4>3. CASE IF Cf!Converts(b.new) THEN Cf!WasApplied(w, b) ELSE b.var \in failed[w]
        BY <4>3, <1>8, <1>9
      <4>4. QED
        BY <4>1, <4>2, <4>3, <2>1, <2>3
    <3>2. \A z \in failed'[w] :
            Cf!Threw(w, z)' \/ \E b \in asked[w] : b.var = z /\ ~Cf!Converts(b.new)
      <4> SUFFICES ASSUME NEW z \in failed'[w]
                   PROVE  Cf!Threw(w, z)' \/ \E b \in asked[w] : b.var = z /\ ~Cf!Converts(b.new)
        OBVIOUS
      <4>1. CASE z \in failed[w]
        BY <4>1, <2>1, <2>3, <1>8
      <4>2. CASE z = a.var /\ ~Cf!Converts(a.new)
        BY <4>2, <1>6
      <4>3. QED
        BY <4>1, <4>2, <1>9
    <3>3. \A z \in DOMAIN instances : Cf!Threw(w, z)' => z \in failed'[w]
      BY <2>1, <2>3, <1>8, <1>9
    <3>4. QED
      BY <2>3, <3>1, <3>2, <3>3
  <2>4. QED
    BY <2>2, <2>3
<1>13. QED
  BY <1>7, <1>10, <1>11, <1>12 DEF ConfigInv

\* A load that has applied all its values returns.
LEMMA ConfigReturns ==
  ASSUME ConfigInv, NEW w \in Writers, Cf!LoadReturns(w)  PROVE ConfigInv'
<1>t. LoadsTyped /\ CallsTyped /\ LoadsLeft /\ Cf!LoadIsComplete
  BY DEF ConfigInv
<1>1. /\ loading' = [loading EXCEPT ![w] = FALSE] /\ failed' = [failed EXCEPT ![w] = {}]
      /\ asked' = [asked EXCEPT ![w] = {}] /\ start' = [start EXCEPT ![w] = 0]
  BY DEF Cf!LoadReturns
<1>2. UNCHANGED <<registry, pending, instances, stored, listeners_, todo, notify, writes, told, added,
                  changes, cut, raced>>
  BY DEF Cf!LoadReturns, Cf!listenHistory, Cf!changeHistory
<1>3. 0 \in 0..Len(changes)
  BY <1>t DEF CallsTyped
<1>4. /\ LoadsTyped' /\ loading'[w] = FALSE /\ failed'[w] = {}
      /\ \A u \in Writers \ {w} : /\ loading'[u] = loading[u] /\ failed'[u] = failed[u]
                                  /\ asked'[u] = asked[u] /\ start'[u] = start[u]
  BY <1>1, <1>2, <1>3, <1>t DEF LoadsTyped, Jobs
<1>5. LoadsLeft'
  BY <1>2, <1>4, <1>t DEF LoadsLeft
<1>6. Cf!LoadIsComplete'
  <2>1. \A u \in Writers \ {w} :
          /\ \A b : Cf!WasApplied(u, b)' <=> Cf!WasApplied(u, b)
          /\ \A z : Cf!Threw(u, z)' <=> Cf!Threw(u, z)
    BY <1>2, <1>4 DEF Cf!WasApplied, Cf!Threw
  <2> SUFFICES ASSUME NEW u \in Writers, loading'[u]
               PROVE  /\ \A b \in asked'[u] :
                           \/ \E i \in DOMAIN todo[u] : todo[u][i] = b
                           \/ IF Cf!Converts(b.new) THEN Cf!WasApplied(u, b)' ELSE b.var \in failed'[u]
                      /\ \A z \in failed'[u] :
                           Cf!Threw(u, z)' \/ \E b \in asked'[u] : b.var = z /\ ~Cf!Converts(b.new)
                      /\ \A z \in DOMAIN instances : Cf!Threw(u, z)' => z \in failed'[u]
    BY <1>2 DEF Cf!LoadIsComplete
  <2>2. u # w
    BY <1>4
  <2>3. QED
    BY <2>1, <2>2, <1>4, <1>t DEF Cf!LoadIsComplete
<1>7. CallsTyped' /\ Telling' /\ Cf!EveryChangeIsTold' /\ Cf!ToldInOrder' /\ RegistryTyped'
  BY <1>2, ConfigQuiet, RegistryStays
<1>8. QED
  BY <1>4, <1>5, <1>6, <1>7 DEF ConfigInv

\* The registry and the pending values are emptied (clear).
LEMMA ConfigClears == ASSUME ConfigInv, Cf!Clear  PROVE ConfigInv'
<1>1. /\ DOMAIN registry' = {} /\ DOMAIN pending' = {}
      /\ UNCHANGED <<instances, stored, listeners_, todo, notify, loading, failed, writes, asked, start,
                     told, added, changes, cut, raced>>
  BY DEF Cf!Clear, Cf!Empty, Cf!writerVars, Cf!history, Cf!loadHistory, Cf!listenHistory, Cf!changeHistory
<1>2. RegistryTyped'
  BY <1>1 DEF ConfigInv, RegistryTyped
<1>3. LoadsTyped'
  BY <1>1 DEF ConfigInv, LoadsTyped, Jobs
<1>4. QED
  BY <1>1, <1>2, <1>3, ConfigQuiet, ConfigStill DEF ConfigInv

\* Every step of users and writers keeps the invariant.
LEMMA ConfigNext == ConfigInv /\ (Cf!Next \/ UNCHANGED configVars) => ConfigInv'
<1> SUFFICES ASSUME ConfigInv, Cf!Next \/ UNCHANGED configVars  PROVE ConfigInv'
  OBVIOUS
<1>1. CASE UNCHANGED configVars
  <2>1. RegistryTyped' /\ LoadsTyped'
    BY <1>1 DEF configVars, ConfigInv, RegistryTyped, LoadsTyped, Jobs
  <2>2. QED
    BY <1>1, <2>1, ConfigQuiet, ConfigStill DEF ConfigInv, configVars
<1>2. CASE Cf!Next
  BY <1>2, ConfigRegisters, ConfigListens, ConfigUnlistens, ConfigSets, ConfigSplits, ConfigNotifies,
     ConfigThrows, ConfigApplies, ConfigReturns, ConfigClears DEF Cf!Next
<1>3. QED
  BY <1>1, <1>2

\* The invariant implies what the run checks of the registry.
LEMMA ConfigIsSound == ConfigInv => Cf!TypeOK /\ Cf!ConfigSound
<1> SUFFICES ASSUME ConfigInv  PROVE Cf!TypeOK /\ Cf!ConfigSound
  OBVIOUS
<1>1. Cf!TypeOK
  BY DEF ConfigInv, RegistryTyped, LoadsTyped, CallsTyped, Cf!TypeOK, Cf!Registered
<1>2. Cf!DumpIsAnObject
  <2> SUFFICES ASSUME NEW m \in Cf!dump, NEW n \in Cf!dump, m[1] = n[1]  PROVE m = n
    BY DEF Cf!DumpIsAnObject
  <2>1. \A e \in Cf!dump :
          \/ e[1] \in DOMAIN registry /\ e = <<e[1], stored[registry[e[1]]]>>
          \/ e[1] \in DOMAIN pending /\ e = <<e[1], pending[e[1]]>>
    BY DEF Cf!dump, Cf!visit, Cf!Registered
  <2>2. DOMAIN registry \cap DOMAIN pending = {}
    BY DEF ConfigInv, RegistryTyped
  <2>3. QED
    BY <2>1, <2>2
<1>3. QED
  BY <1>1, <1>2 DEF ConfigInv, Cf!ConfigSound

\* config.cpp, config_var.hpp: what dump writes names every key once; a load gets through all
\* it found and reports just what failed; and every listener is called once for each change
\* of its variable, in their order, except where a listener before it threw, or where the
\* newer change was stored while the older was still being told.
THEOREM ConfigurationStaysSound == Spec => []ConfigurationSound
<1> DEFINE Inv == part = "config" => ConfigInv
<1>1. Init => Inv
  BY ConfigInit DEF Init
<1>2. Inv /\ [Next]_vars => Inv'
  <2> SUFFICES ASSUME Inv, [Next]_vars, part' = "config"  PROVE ConfigInv'
    OBVIOUS
  <2>1. part = "config" /\ (Cf!Next \/ UNCHANGED configVars)
    BY DEF Next, vars, Rest
  <2>2. QED
    BY <2>1, ConfigNext
<1>3. Inv => ConfigurationSound
  BY ConfigIsSound DEF ConfigurationSound
<1>4. QED
  BY <1>1, <1>2, <1>3, PTL DEF Spec

-----------------------------------------------------------------------------
(* Net *)

Dialling == {"connecting", "waiting", "restoring"}

\* The states of a connect call that may have opened n descriptors.
Dials(n) ==
  [at : {"idle", "resolve", "next"} \cup Dialling, timeout : Nat, deadline : Nat, left : Nat,
   tried : Nat, fd : 0..n, last_error : {"none", "other", "TimedOut"}, system : BOOLEAN,
   outcome : {"none", "other", "NotFound", "TimedOut", "Ok"}]

NetTyped ==
  /\ ticks \in Nat /\ opened \in Nat /\ listening \in 0..opened /\ stopped_at \in Nat
  /\ streams \subseteq 1..opened /\ nonblocking \subseteq 1..opened
  /\ descriptors \in [DOMAIN descriptors -> 1..opened] /\ DOMAIN descriptors \subseteq 1..opened
  /\ dial \in Dials(opened)

\* The call under way owns the socket it connects, which is of its own making.
DialIsExact ==
  /\ dial.fd # 0 <=> dial.at \in Dialling
  /\ dial.fd # 0 => dial.fd \in DOMAIN descriptors /\ descriptors[dial.fd] = dial.fd
  /\ dial.at # "idle" => dial.outcome = "none"
  /\ dial.at = "resolve" => dial.left = 0
  /\ dial.last_error = "TimedOut" => dial.system
  /\ dial.at \in {"next"} \cup Dialling => dial.left > 0 \/ dial.at = "next"

SocketsInv ==
  /\ NetTyped /\ DialIsExact
  /\ Nt!EveryDescriptorIsOwned /\ Nt!StreamsBlock /\ Nt!ConnectIsBounded

\* Nothing is open and no call is under way.
LEMMA SocketsInit == Nt!Init => SocketsInv
<1> SUFFICES ASSUME Nt!Init  PROVE SocketsInv
  OBVIOUS
<1>1. NetTyped /\ DialIsExact
  BY NetAssumption DEF Nt!Init, NetTyped, Dials, DialIsExact, Dialling, Nt!Idle
<1>2. Nt!EveryDescriptorIsOwned
  BY DEF Nt!Init, Nt!EveryDescriptorIsOwned, Nt!Busy, Nt!Idle
<1>3. Nt!StreamsBlock /\ Nt!ConnectIsBounded
  BY DEF Nt!Init, Nt!StreamsBlock, Nt!ConnectIsBounded, Nt!Idle
<1>4. QED
  BY <1>1, <1>2, <1>3 DEF SocketsInv

SocketSteps ==
  \/ Nt!connect \/ \E t \in ConnectTimeouts : Nt!connect_timeout(t)
  \/ \E n \in 0..MaxAddresses : Nt!Resolved(n)
  \/ Nt!ResolveFails
  \/ Nt!GiveUp
  \/ Nt!connect_until /\ Nt!TryNext /\ UNCHANGED <<descriptors, nonblocking, opened>>
  \/ Nt!connect_until /\ Nt!create_socket
  \/ Nt!AttemptFails
  \/ Nt!ConnectHearsTimeout
  \/ Nt!TimedHearsTimeout
  \/ Nt!connect_is_in_progress
  \/ Nt!wait_for_connect
  \/ Nt!WaitTimesOut
  \/ Nt!from_socket
  \/ \E d \in streams : Nt!try_clone(d)
  \/ \E d \in streams : Nt!close(d)
  \/ \E d \in streams, b \in BOOLEAN : Nt!set_nonblocking(d, b)
  \/ Nt!bind
  \/ Nt!accept(TRUE)
  \/ Nt!accept(FALSE)
  \/ Nt!ListenerCloses

\* A connect call is typed also when a descriptor more is open.
LEMMA DialsGrow == \A n \in Nat : Dials(n) \subseteq Dials(n + 1)
<1> SUFFICES ASSUME NEW n \in Nat, NEW d \in Dials(n)  PROVE d \in Dials(n + 1)
  OBVIOUS
<1>1. 0..n \subseteq 0..(n + 1)
  OBVIOUS
<1>2. QED
  BY <1>1 DEF Dials

\* The call that has returned.
LEMMA ReturnsTyped ==
  ASSUME SocketsInv, NEW o \in {"none", "other", "NotFound", "TimedOut", "Ok"}, Nt!Returns(o)
  PROVE  dial' \in Dials(opened)
<1>1. dial \in Dials(opened) /\ 0 \in 0..opened
  BY DEF SocketsInv, NetTyped
<1>2. QED
  BY <1>1 DEF Nt!Returns, Nt!Idle, Dials, Dialling

\* An address that failed is left behind.
LEMMA TryNextTyped ==
  ASSUME SocketsInv, dial.at \in {"next"} \cup Dialling, dial.left > 0, Nt!TryNext
  PROVE  dial' \in Dials(opened)
<1>1. dial \in Dials(opened) /\ 0 \in 0..opened
  BY DEF SocketsInv, NetTyped
<1>2. dial.left \in Nat
  BY <1>1 DEF Dials
<1>3. dial.left - 1 \in Nat
  BY <1>2
<1>4. QED
  BY <1>1, <1>3 DEF Nt!TryNext, Dials

\* A socket that is opened to connect, and only then, is new.
LEMMA Attempted ==
  ASSUME SocketsInv, Nt!connect_until, Nt!create_socket
  PROVE  /\ opened \in Nat /\ opened' = opened + 1
         /\ dial' = [dial EXCEPT !.at = "connecting", !.fd = opened + 1, !.tried = ticks]
         /\ nonblocking' = IF Nt!Timed THEN nonblocking \cup {opened + 1} ELSE nonblocking
         /\ descriptors' = Nt!With(opened + 1, opened + 1)
         /\ dial.at = "next" /\ dial.left > 0 /\ ~Nt!Late /\ dial.fd = 0
         /\ UNCHANGED <<ticks, streams, listening, timed_read, stopped_at, switched>>
<1>1. opened \in Nat /\ (dial.fd # 0 <=> dial.at \in Dialling)
  BY DEF SocketsInv, NetTyped, DialIsExact
<1>2. opened' = opened + 1 /\ opened' # opened
  BY <1>1 DEF Nt!create_socket
<1>3. dial.at = "next" /\ dial.fd = 0
  BY <1>1 DEF Nt!connect_until, Dialling
<1>4. dial' = [dial EXCEPT !.at = "connecting", !.fd = opened + 1, !.tried = ticks]
  BY <1>2 DEF Nt!connect_until
<1>5. nonblocking' = IF Nt!Timed THEN nonblocking \cup {opened + 1} ELSE nonblocking
  BY <1>2 DEF Nt!connect_until
<1>6. QED
  BY <1>1, <1>2, <1>3, <1>4, <1>5 DEF Nt!connect_until, Nt!create_socket, Nt!userVars

\* Every step keeps the connect call in its type.
LEMMA DialTyped == ASSUME SocketsInv, SocketSteps  PROVE dial' \in Dials(opened')
<1> USE DEF Nt!userVars
<1>a. dial \in Dials(opened) /\ opened \in Nat /\ ticks \in Nat
  BY DEF SocketsInv, NetTyped
<1>b. dial \in Dials(opened + 1)
  BY <1>a, DialsGrow
<1>c. dial.at \in Dialling => dial.left > 0
  BY DEF SocketsInv, DialIsExact, Dialling
<1>1. CASE Nt!connect \/ \E t \in ConnectTimeouts : Nt!connect_timeout(t)
  <2>1. PICK t \in Nat : Nt!Dials(t)
    BY <1>1, NetAssumption DEF Nt!connect, Nt!connect_timeout
  <2>2. 0 \in 0..opened /\ opened' = opened
    BY <2>1, <1>a DEF Nt!Dials
  <2>3. QED
    BY <2>1, <2>2 DEF Nt!Dials, Nt!Idle, Dials
<1>2. CASE \E n \in 0..MaxAddresses : Nt!Resolved(n)
  <2>1. PICK n \in 0..MaxAddresses : Nt!Resolved(n)
    BY <1>2
  <2>2. n \in Nat
    BY NetAssumption
  <2>3. dial.timeout \in Nat
    BY <1>a DEF Dials
  <2>4. ticks + dial.timeout \in Nat
    BY <2>3, <1>a
  <2>5. QED
    BY <2>1, <2>2, <2>4, <1>a DEF Nt!Resolved, Dials
<1>3. CASE Nt!ResolveFails
  BY <1>3, ReturnsTyped DEF Nt!ResolveFails
<1>4. CASE Nt!GiveUp
  <2>1. dial.last_error \in {"none", "other", "TimedOut"}
    BY <1>a DEF Dials
  <2>2. CASE Nt!Returns(IF dial.last_error = "none" THEN "NotFound" ELSE dial.last_error)
    <3>1. CASE dial.last_error = "none"
      BY <2>2, <3>1, <1>4, ReturnsTyped DEF Nt!GiveUp
    <3>2. CASE dial.last_error \in {"other", "TimedOut"}
      BY <2>2, <3>2, <1>4, ReturnsTyped DEF Nt!GiveUp
    <3>3. QED
      BY <2>1, <3>1, <3>2
  <2>3. CASE Nt!Returns("TimedOut")
    BY <2>3, <1>4, ReturnsTyped DEF Nt!GiveUp
  <2>4. QED
    BY <1>4, <2>2, <2>3 DEF Nt!GiveUp
<1>5. CASE Nt!connect_until /\ Nt!TryNext /\ UNCHANGED <<descriptors, nonblocking, opened>>
  BY <1>5, TryNextTyped DEF Nt!connect_until
<1>6. CASE Nt!connect_until /\ Nt!create_socket
  <2>1. opened + 1 \in 0..(opened + 1)
    BY <1>a
  <2>2. QED
    BY <1>6, <2>1, <1>a, <1>b, Attempted DEF Dials, Dialling
<1>7. CASE Nt!AttemptFails
  BY <1>7, <1>c, TryNextTyped DEF Nt!AttemptFails, Dialling
<1>14. CASE Nt!ConnectHearsTimeout
  <2>1. dial.left \in Nat /\ dial.left > 0 /\ 0 \in 0..opened
    BY <1>14, <1>a, <1>c DEF Nt!ConnectHearsTimeout, Dials, Dialling
  <2>2. dial.left - 1 \in Nat
    BY <2>1
  <2>3. QED
    BY <1>14, <1>a, <2>1, <2>2 DEF Nt!ConnectHearsTimeout, Dials
<1>15. CASE Nt!TimedHearsTimeout
  <2>1. 0 \in 0..opened
    BY <1>a
  <2>2. QED
    BY <1>15, <1>a, <2>1 DEF Nt!TimedHearsTimeout, Nt!Idle, Dials, Dialling
<1>8. CASE Nt!connect_is_in_progress
  BY <1>8, <1>a DEF Nt!connect_is_in_progress, Dials, Dialling
<1>9. CASE Nt!wait_for_connect
  BY <1>9, <1>a DEF Nt!wait_for_connect, Dials, Dialling
<1>10. CASE Nt!WaitTimesOut
  BY <1>10, ReturnsTyped DEF Nt!WaitTimesOut
<1>11. CASE Nt!from_socket
  BY <1>11, ReturnsTyped DEF Nt!from_socket
<1>12. CASE dial' = dial /\ opened' \in {opened, opened + 1}
  BY <1>12, <1>a, <1>b
<1>13. QED
  BY <1>1, <1>2, <1>3, <1>4, <1>5, <1>6, <1>7, <1>8, <1>9, <1>10, <1>11, <1>12, <1>14, <1>15
     DEF SocketSteps, Nt!try_clone, Nt!close, Nt!set_nonblocking, Nt!bind, Nt!accept,
         Nt!ListenerCloses, Nt!create_socket

\* A table that gets a new descriptor.
LEMMA WithTyped ==
  ASSUME SocketsInv, NEW s \in 1..(opened + 1), descriptors' = Nt!With(opened + 1, s)
  PROVE  /\ descriptors' \in [DOMAIN descriptors' -> 1..(opened + 1)]
         /\ DOMAIN descriptors' \subseteq 1..(opened + 1)
<1>1. /\ opened \in Nat /\ DOMAIN descriptors \subseteq 1..opened
      /\ descriptors \in [DOMAIN descriptors -> 1..opened]
  BY DEF SocketsInv, NetTyped
<1>2. 1..opened \subseteq 1..(opened + 1) /\ opened + 1 \in 1..(opened + 1)
  BY <1>1
<1>3. QED
  BY <1>1, <1>2 DEF Nt!With

\* A descriptor less in the table.
LEMMA WithoutTyped ==
  ASSUME SocketsInv, NEW d, Nt!Drop(d)
  PROVE  /\ descriptors' \in [DOMAIN descriptors' -> 1..opened]
         /\ DOMAIN descriptors' \subseteq 1..opened
  BY DEF SocketsInv, NetTyped, Nt!Drop, Nt!Without

\* Everything else of the sockets.
TableTyped(n) ==
  /\ n \in Nat
  /\ streams \subseteq 1..n /\ nonblocking \subseteq 1..n /\ listening \in 0..n
  /\ descriptors \in [DOMAIN descriptors -> 1..n] /\ DOMAIN descriptors \subseteq 1..n

\* The table is typed also when a descriptor more is open.
LEMMA TableGrows == ASSUME NEW n, TableTyped(n)  PROVE TableTyped(n + 1)
<1>1. n \in Nat
  BY DEF TableTyped
<1>2. 1..n \subseteq 1..(n + 1) /\ 0..n \subseteq 0..(n + 1) /\ n + 1 \in Nat
  BY <1>1
<1>3. QED
  BY <1>2 DEF TableTyped

\* Every step keeps the table, the streams and the listener in their types.
LEMMA TableStays == ASSUME SocketsInv, SocketSteps  PROVE TableTyped(opened)'
<1> USE DEF Nt!userVars
<1>a. TableTyped(opened) /\ TableTyped(opened + 1) /\ ticks \in Nat /\ stopped_at \in Nat
  BY TableGrows DEF SocketsInv, NetTyped, TableTyped
<1>b. opened + 1 \in 1..(opened + 1) /\ opened + 1 \in 0..(opened + 1) /\ opened \in Nat
  <2>1. opened \in Nat
    BY <1>a DEF TableTyped
  <2>2. QED
    BY <2>1
<1>c. dial.fd # 0 <=> dial.at \in Dialling
  BY DEF SocketsInv, DialIsExact
<1>d. dial.fd # 0 => dial.fd \in DOMAIN descriptors
  BY DEF SocketsInv, DialIsExact
<1>1. CASE UNCHANGED <<descriptors, nonblocking, streams, opened, listening>>
  BY <1>1, <1>a DEF TableTyped
<1>2. CASE UNCHANGED <<descriptors, nonblocking, streams, listening>> /\ opened' = opened + 1
  BY <1>2, <1>a DEF TableTyped
<1>6. CASE Nt!connect_until /\ Nt!create_socket
  <2>1. /\ descriptors' = Nt!With(opened + 1, opened + 1)
        /\ nonblocking' \subseteq nonblocking \cup {opened + 1}
        /\ UNCHANGED <<streams, listening>> /\ opened' = opened + 1
    BY <1>6, Attempted
  <2>2. /\ descriptors' \in [DOMAIN descriptors' -> 1..opened']
        /\ DOMAIN descriptors' \subseteq 1..opened'
    BY <2>1, <1>b, WithTyped
  <2>3. nonblocking' \subseteq 1..opened'
    BY <2>1, <1>a, <1>b DEF TableTyped
  <2>4. QED
    BY <2>1, <2>2, <2>3, <1>a DEF TableTyped
<1>7. CASE Nt!AttemptFails \/ Nt!WaitTimesOut \/ Nt!ConnectHearsTimeout \/ Nt!TimedHearsTimeout
  <2>1. /\ descriptors' \in [DOMAIN descriptors' -> 1..opened']
        /\ DOMAIN descriptors' \subseteq 1..opened'
    BY <1>7, WithoutTyped DEF Nt!AttemptFails, Nt!WaitTimesOut, Nt!ConnectHearsTimeout,
       Nt!TimedHearsTimeout
  <2>2. nonblocking' \subseteq nonblocking /\ UNCHANGED <<streams, opened, listening>>
    BY <1>7 DEF Nt!AttemptFails, Nt!WaitTimesOut, Nt!ConnectHearsTimeout, Nt!TimedHearsTimeout
  <2>3. QED
    BY <2>1, <2>2, <1>a DEF TableTyped
<1>11. CASE Nt!from_socket
  <2>1. dial.fd \in DOMAIN descriptors
    BY <1>11, <1>c, <1>d DEF Nt!from_socket, Dialling
  <2>2. /\ streams' = streams \cup {dial.fd} /\ nonblocking' \subseteq nonblocking
        /\ UNCHANGED <<descriptors, opened, listening>>
    BY <1>11 DEF Nt!from_socket, Nt!Restored
  <2>3. QED
    BY <2>1, <2>2, <1>a DEF TableTyped
<1>12. CASE \E d \in streams : Nt!try_clone(d)
  <2>1. PICK d \in streams : Nt!try_clone(d)
    BY <1>12
  <2>2. descriptors[d] \in 1..(opened + 1)
    BY <2>1, <1>a DEF TableTyped, SocketsInv, Nt!EveryDescriptorIsOwned
  <2>3. /\ descriptors' = Nt!With(opened + 1, descriptors[d]) /\ opened' = opened + 1
        /\ streams' = streams \cup {opened + 1} /\ UNCHANGED <<nonblocking, listening>>
    BY <2>1 DEF Nt!try_clone
  <2>4. /\ descriptors' \in [DOMAIN descriptors' -> 1..opened']
        /\ DOMAIN descriptors' \subseteq 1..opened'
    BY <2>2, <2>3, WithTyped
  <2>5. streams' \subseteq 1..opened'
    BY <2>3, <1>a, <1>b DEF TableTyped
  <2>6. QED
    BY <2>3, <2>4, <2>5, <1>a DEF TableTyped
<1>13. CASE \E d \in streams : Nt!close(d)
  <2>1. PICK d \in streams : Nt!close(d)
    BY <1>13
  <2>2. /\ descriptors' \in [DOMAIN descriptors' -> 1..opened']
        /\ DOMAIN descriptors' \subseteq 1..opened'
    BY <2>1, WithoutTyped DEF Nt!close
  <2>3. QED
    BY <2>1, <2>2, <1>a DEF TableTyped, Nt!close
<1>14. CASE \E d \in streams, b \in BOOLEAN : Nt!set_nonblocking(d, b)
  <2>1. PICK d \in streams, b \in BOOLEAN : Nt!set_nonblocking(d, b)
    BY <1>14
  <2>2. descriptors[d] \in 1..opened
    BY <2>1, <1>a DEF TableTyped, SocketsInv, Nt!EveryDescriptorIsOwned
  <2>3. nonblocking' \subseteq nonblocking \cup {descriptors[d]}
    BY <2>1 DEF Nt!set_nonblocking
  <2>4. nonblocking' \subseteq 1..opened
    BY <2>2, <2>3, <1>a DEF TableTyped
  <2>5. UNCHANGED <<descriptors, streams, opened, listening>>
    BY <2>1 DEF Nt!set_nonblocking
  <2>6. QED
    BY <2>4, <2>5, <1>a DEF TableTyped
<1>15. CASE Nt!bind
  <2>1. /\ descriptors' = Nt!With(opened + 1, opened + 1) /\ opened' = opened + 1
        /\ listening' = opened + 1 /\ UNCHANGED <<nonblocking, streams>>
    BY <1>15 DEF Nt!bind, Nt!create_socket
  <2>2. /\ descriptors' \in [DOMAIN descriptors' -> 1..opened']
        /\ DOMAIN descriptors' \subseteq 1..opened'
    BY <2>1, <1>b, WithTyped
  <2>3. QED
    BY <2>1, <2>2, <1>a, <1>b DEF TableTyped
<1>16. CASE Nt!accept(TRUE)
  <2>1. /\ descriptors' = Nt!With(opened + 1, opened + 1) /\ opened' = opened + 1
        /\ streams' = streams \cup {opened + 1} /\ UNCHANGED <<nonblocking, listening>>
    BY <1>16 DEF Nt!accept
  <2>2. /\ descriptors' \in [DOMAIN descriptors' -> 1..opened']
        /\ DOMAIN descriptors' \subseteq 1..opened'
    BY <2>1, <1>b, WithTyped
  <2>3. QED
    BY <2>1, <2>2, <1>a, <1>b DEF TableTyped
<1>18. CASE Nt!ListenerCloses
  <2>1. /\ descriptors' \in [DOMAIN descriptors' -> 1..opened']
        /\ DOMAIN descriptors' \subseteq 1..opened'
    BY <1>18, WithoutTyped DEF Nt!ListenerCloses
  <2>2. QED
    BY <1>18, <2>1, <1>a, <1>b DEF TableTyped, Nt!ListenerCloses
<1>19. QED
  BY <1>1, <1>2, <1>6, <1>7, <1>11, <1>12, <1>13, <1>14, <1>15, <1>16, <1>18
     DEF SocketSteps, Nt!connect, Nt!connect_timeout, Nt!Dials, Nt!Resolved, Nt!ResolveFails,
         Nt!GiveUp, Nt!connect_until, Nt!connect_is_in_progress, Nt!wait_for_connect, Nt!accept

\* Together.
LEMMA SocketsTyped == ASSUME SocketsInv, SocketSteps  PROVE NetTyped'
<1>1. UNCHANGED <<ticks, stopped_at>>
  BY DEF SocketSteps, Nt!userVars, Nt!connect, Nt!connect_timeout, Nt!Dials, Nt!Resolved,
       Nt!ResolveFails,
         Nt!GiveUp, Nt!connect_until, Nt!AttemptFails, Nt!ConnectHearsTimeout,
         Nt!TimedHearsTimeout, Nt!connect_is_in_progress, Nt!wait_for_connect,
         Nt!WaitTimesOut, Nt!from_socket, Nt!try_clone, Nt!close,
         Nt!set_nonblocking, Nt!bind, Nt!accept, Nt!ListenerCloses
<1>2. ticks \in Nat /\ stopped_at \in Nat
  BY DEF SocketsInv, NetTyped
<1>3. QED
  BY <1>1, <1>2, TableStays, DialTyped DEF NetTyped, TableTyped

\* The connect call owns the socket it tries, and only while it tries it.
LEMMA DialStays == ASSUME SocketsInv, SocketSteps  PROVE DialIsExact'
<1>1. CASE Nt!connect \/ \E t \in ConnectTimeouts : Nt!connect_timeout(t)
  <2>1. /\ dial'.at = "resolve" /\ dial'.fd = 0 /\ dial'.outcome = "none" /\ dial'.left = 0
        /\ dial'.last_error = "none"
    BY <1>1 DEF Nt!connect, Nt!connect_timeout, Nt!Dials, Nt!Idle
  <2>2. QED
    BY <2>1 DEF DialIsExact, Dialling
<1>2. CASE \E n \in 0..MaxAddresses : Nt!Resolved(n)
  BY <1>2, NetAssumption DEF Nt!Resolved, Nt!userVars, Dialling, SocketsInv, NetTyped, Dials,
       DialIsExact, Nt!EveryDescriptorIsOwned, Nt!Busy
<1>3. CASE Nt!ResolveFails
  BY <1>3, NetAssumption DEF Nt!ResolveFails, Nt!Returns, Nt!Idle, Nt!userVars, Dialling,
       SocketsInv, NetTyped, Dials, DialIsExact, Nt!EveryDescriptorIsOwned, Nt!Busy
<1>4. CASE Nt!GiveUp
  <2>1. dial'.at = "idle" /\ dial'.fd = 0 /\ dial'.last_error = "none"
    BY <1>4 DEF Nt!GiveUp, Nt!Returns, Nt!Idle
  <2>2. QED
    BY <2>1 DEF DialIsExact, Dialling
<1>5. CASE Nt!connect_until /\ Nt!TryNext /\ UNCHANGED <<descriptors, nonblocking, opened>>
  BY <1>5, NetAssumption DEF Nt!connect_until, Nt!TryNext, Nt!Late, Nt!Timed, Nt!userVars,
       Dialling, SocketsInv, NetTyped, Dials, DialIsExact, Nt!EveryDescriptorIsOwned, Nt!Busy
<1>6. CASE Nt!connect_until /\ Nt!create_socket
  <2>1. opened + 1 # 0 /\ "connecting" \in Dialling
    <3>1. opened \in Nat
      BY <1>6, Attempted
    <3>2. QED
      BY <3>1 DEF Dialling
  <2>2. /\ dial.outcome = "none" /\ dial.left > 0 /\ dial \in Dials(opened)
    BY <1>6, Attempted DEF SocketsInv, NetTyped, DialIsExact
  <2>3. /\ dial'.at = "connecting" /\ dial'.fd = opened + 1 /\ dial'.outcome = "none"
        /\ dial'.left > 0
    BY <1>6, <2>2, Attempted DEF Dials
  <2>6. dial'.last_error = dial.last_error /\ dial'.system = dial.system
    BY <1>6, <2>2, Attempted DEF Dials
  <2>4. opened + 1 \in DOMAIN descriptors' /\ descriptors'[opened + 1] = opened + 1
    BY <1>6, Attempted DEF Nt!With
  <2>5. QED
    BY <2>1, <2>3, <2>4, <2>6 DEF DialIsExact, SocketsInv
<1>7. CASE Nt!AttemptFails
  BY <1>7, NetAssumption DEF Nt!AttemptFails, Nt!TryNext, Nt!Drop, Nt!Without, Nt!userVars,
       Dialling, SocketsInv, NetTyped, Dials, DialIsExact, Nt!EveryDescriptorIsOwned, Nt!Busy
<1>20. CASE Nt!ConnectHearsTimeout
  BY <1>20, NetAssumption DEF Nt!ConnectHearsTimeout, Nt!Drop, Nt!Without, Nt!Timed, Nt!userVars,
       Dialling, SocketsInv, NetTyped, Dials, DialIsExact, Nt!EveryDescriptorIsOwned, Nt!Busy
<1>21. CASE Nt!TimedHearsTimeout
  BY <1>21, NetAssumption DEF Nt!TimedHearsTimeout, Nt!Idle, Nt!Drop, Nt!Without, Nt!Timed, Nt!userVars,
       Dialling, SocketsInv, NetTyped, Dials, DialIsExact, Nt!EveryDescriptorIsOwned, Nt!Busy
<1>8. CASE Nt!connect_is_in_progress
  BY <1>8, NetAssumption DEF Nt!connect_is_in_progress, Nt!userVars, Dialling, SocketsInv,
       NetTyped, Dials, DialIsExact, Nt!EveryDescriptorIsOwned, Nt!Busy
<1>9. CASE Nt!wait_for_connect
  BY <1>9, NetAssumption DEF Nt!wait_for_connect, Nt!userVars, Dialling, SocketsInv, NetTyped,
       Dials, DialIsExact, Nt!EveryDescriptorIsOwned, Nt!Busy
<1>10. CASE Nt!WaitTimesOut
  BY <1>10, NetAssumption DEF Nt!WaitTimesOut, Nt!Returns, Nt!Idle, Nt!Drop, Nt!Without, Nt!Late,
       Nt!Timed, Nt!userVars, Dialling, SocketsInv, NetTyped, Dials, DialIsExact,
       Nt!EveryDescriptorIsOwned, Nt!Busy
<1>11. CASE Nt!from_socket
  BY <1>11, NetAssumption DEF Nt!from_socket, Nt!Restored, Nt!Returns, Nt!Idle, Nt!userVars,
       Dialling, SocketsInv, NetTyped, Dials, DialIsExact, Nt!EveryDescriptorIsOwned, Nt!Busy
<1>12. CASE \E d \in streams : Nt!try_clone(d)
  BY <1>12, NetAssumption DEF Nt!try_clone, Nt!With, Nt!userVars, Dialling, SocketsInv, NetTyped,
       Dials, DialIsExact, Nt!EveryDescriptorIsOwned, Nt!Busy
<1>13. CASE \E d \in streams : Nt!close(d)
  BY <1>13, NetAssumption DEF Nt!close, Nt!Drop, Nt!Without, Nt!userVars, Dialling, SocketsInv,
       NetTyped, Dials, DialIsExact, Nt!EveryDescriptorIsOwned, Nt!Busy
<1>14. CASE \E d \in streams, b \in BOOLEAN : Nt!set_nonblocking(d, b)
  BY <1>14, NetAssumption DEF Nt!set_nonblocking, Nt!userVars, Dialling, SocketsInv, NetTyped,
       Dials, DialIsExact, Nt!EveryDescriptorIsOwned, Nt!Busy
<1>15. CASE Nt!bind
  BY <1>15, NetAssumption DEF Nt!bind, Nt!create_socket, Nt!With, Nt!userVars, Dialling,
       SocketsInv, NetTyped, Dials, DialIsExact, Nt!EveryDescriptorIsOwned, Nt!Busy
<1>16. CASE Nt!accept(TRUE)
  BY <1>16, NetAssumption DEF Nt!accept, Nt!With, Nt!userVars, Dialling, SocketsInv, NetTyped,
       Dials, DialIsExact, Nt!EveryDescriptorIsOwned, Nt!Busy
<1>17. CASE Nt!accept(FALSE)
  BY <1>17, NetAssumption DEF Nt!accept, Nt!With, Nt!userVars, Dialling, SocketsInv, NetTyped,
       Dials, DialIsExact, Nt!EveryDescriptorIsOwned, Nt!Busy
<1>18. CASE Nt!ListenerCloses
  BY <1>18, NetAssumption DEF Nt!ListenerCloses, Nt!Drop, Nt!Without, Nt!userVars, Dialling,
       SocketsInv, NetTyped, Dials, DialIsExact, Nt!EveryDescriptorIsOwned, Nt!Busy
<1>19. QED
  BY <1>1, <1>2, <1>3, <1>4, <1>5, <1>6, <1>7, <1>8, <1>9, <1>10, <1>11, <1>12, <1>13, <1>14,
       <1>15, <1>16, <1>17, <1>18, <1>20, <1>21 DEF SocketSteps

\* No step leaves a descriptor without an owner or with two (close, from_socket).
LEMMA DescriptorsOwned == ASSUME SocketsInv, SocketSteps  PROVE Nt!EveryDescriptorIsOwned'
<1>1. CASE Nt!connect \/ \E t \in ConnectTimeouts : Nt!connect_timeout(t)
  BY <1>1, NetAssumption DEF Nt!connect, Nt!connect_timeout, Nt!Dials, Nt!Idle,
       Nt!validate_connect_timeout, Nt!userVars, Dialling, SocketsInv, NetTyped, Dials,
       DialIsExact, Nt!EveryDescriptorIsOwned, Nt!Busy
<1>2. CASE \E n \in 0..MaxAddresses : Nt!Resolved(n)
  BY <1>2, NetAssumption DEF Nt!Resolved, Nt!userVars, Dialling, SocketsInv, NetTyped, Dials,
       DialIsExact, Nt!EveryDescriptorIsOwned, Nt!Busy
<1>3. CASE Nt!ResolveFails
  BY <1>3, NetAssumption DEF Nt!ResolveFails, Nt!Returns, Nt!Idle, Nt!userVars, Dialling,
       SocketsInv, NetTyped, Dials, DialIsExact, Nt!EveryDescriptorIsOwned, Nt!Busy
<1>4. CASE Nt!GiveUp
  BY <1>4, NetAssumption DEF Nt!GiveUp, Nt!Returns, Nt!Idle, Nt!Late, Nt!Timed, Nt!userVars,
       Dialling, SocketsInv, NetTyped, Dials, DialIsExact, Nt!EveryDescriptorIsOwned, Nt!Busy
<1>5. CASE Nt!connect_until /\ Nt!TryNext /\ UNCHANGED <<descriptors, nonblocking, opened>>
  BY <1>5, NetAssumption DEF Nt!connect_until, Nt!TryNext, Nt!Late, Nt!Timed, Nt!userVars,
       Dialling, SocketsInv, NetTyped, Dials, DialIsExact, Nt!EveryDescriptorIsOwned, Nt!Busy
<1>6. CASE Nt!connect_until /\ Nt!create_socket
  <2>1. /\ opened \in Nat /\ streams \subseteq 1..opened /\ listening \in 0..opened
        /\ dial \in Dials(opened)
    BY DEF SocketsInv, NetTyped
  <2>2. opened + 1 \notin 0..opened /\ 1..opened \subseteq 0..opened /\ opened + 1 # 0
    <3>1. opened \in Nat
      BY <2>1
    <3>2. QED
      BY <3>1
  <2>3. Nt!Busy = {} /\ Nt!Busy' = {opened + 1}
    BY <1>6, <2>1, <2>2, Attempted DEF Nt!Busy, Dials
  <2>4. DOMAIN descriptors' = DOMAIN descriptors \cup {opened + 1}
    BY <1>6, Attempted DEF Nt!With
  <2>5. UNCHANGED <<streams, listening>>
    BY <1>6, Attempted
  <2>6. QED
    BY <2>1, <2>2, <2>3, <2>4, <2>5 DEF SocketsInv, Nt!EveryDescriptorIsOwned
<1>7. CASE Nt!AttemptFails
  BY <1>7, NetAssumption DEF Nt!AttemptFails, Nt!TryNext, Nt!Drop, Nt!Without, Nt!userVars,
       Dialling, SocketsInv, NetTyped, Dials, DialIsExact, Nt!EveryDescriptorIsOwned, Nt!Busy
<1>20. CASE Nt!ConnectHearsTimeout
  BY <1>20, NetAssumption DEF Nt!ConnectHearsTimeout, Nt!Drop, Nt!Without, Nt!Timed, Nt!userVars,
       Dialling, SocketsInv, NetTyped, Dials, DialIsExact, Nt!EveryDescriptorIsOwned, Nt!Busy
<1>21. CASE Nt!TimedHearsTimeout
  BY <1>21, NetAssumption DEF Nt!TimedHearsTimeout, Nt!Idle, Nt!Drop, Nt!Without, Nt!Timed, Nt!userVars,
       Dialling, SocketsInv, NetTyped, Dials, DialIsExact, Nt!EveryDescriptorIsOwned, Nt!Busy
<1>8. CASE Nt!connect_is_in_progress
  BY <1>8, NetAssumption DEF Nt!connect_is_in_progress, Nt!userVars, Dialling, SocketsInv,
       NetTyped, Dials, DialIsExact, Nt!EveryDescriptorIsOwned, Nt!Busy
<1>9. CASE Nt!wait_for_connect
  BY <1>9, NetAssumption DEF Nt!wait_for_connect, Nt!userVars, Dialling, SocketsInv, NetTyped,
       Dials, DialIsExact, Nt!EveryDescriptorIsOwned, Nt!Busy
<1>10. CASE Nt!WaitTimesOut
  BY <1>10, NetAssumption DEF Nt!WaitTimesOut, Nt!Returns, Nt!Idle, Nt!Drop, Nt!Without, Nt!Late,
       Nt!Timed, Nt!userVars, Dialling, SocketsInv, NetTyped, Dials, DialIsExact,
       Nt!EveryDescriptorIsOwned, Nt!Busy
<1>11. CASE Nt!from_socket
  BY <1>11, NetAssumption DEF Nt!from_socket, Nt!Restored, Nt!Returns, Nt!Idle, Nt!userVars,
       Dialling, SocketsInv, NetTyped, Dials, DialIsExact, Nt!EveryDescriptorIsOwned, Nt!Busy
<1>12. CASE \E d \in streams : Nt!try_clone(d)
  BY <1>12, NetAssumption DEF Nt!try_clone, Nt!With, Nt!userVars, Dialling, SocketsInv, NetTyped,
       Dials, DialIsExact, Nt!EveryDescriptorIsOwned, Nt!Busy
<1>13. CASE \E d \in streams : Nt!close(d)
  BY <1>13, NetAssumption DEF Nt!close, Nt!Drop, Nt!Without, Nt!userVars, Dialling, SocketsInv,
       NetTyped, Dials, DialIsExact, Nt!EveryDescriptorIsOwned, Nt!Busy
<1>14. CASE \E d \in streams, b \in BOOLEAN : Nt!set_nonblocking(d, b)
  BY <1>14, NetAssumption DEF Nt!set_nonblocking, Nt!userVars, Dialling, SocketsInv, NetTyped,
       Dials, DialIsExact, Nt!EveryDescriptorIsOwned, Nt!Busy
<1>15. CASE Nt!bind
  BY <1>15, NetAssumption DEF Nt!bind, Nt!create_socket, Nt!With, Nt!userVars, Dialling,
       SocketsInv, NetTyped, Dials, DialIsExact, Nt!EveryDescriptorIsOwned, Nt!Busy
<1>16. CASE Nt!accept(TRUE)
  BY <1>16, NetAssumption DEF Nt!accept, Nt!With, Nt!userVars, Dialling, SocketsInv, NetTyped,
       Dials, DialIsExact, Nt!EveryDescriptorIsOwned, Nt!Busy
<1>17. CASE Nt!accept(FALSE)
  BY <1>17, NetAssumption DEF Nt!accept, Nt!With, Nt!userVars, Dialling, SocketsInv, NetTyped,
       Dials, DialIsExact, Nt!EveryDescriptorIsOwned, Nt!Busy
<1>18. CASE Nt!ListenerCloses
  BY <1>18, NetAssumption DEF Nt!ListenerCloses, Nt!Drop, Nt!Without, Nt!userVars, Dialling,
       SocketsInv, NetTyped, Dials, DialIsExact, Nt!EveryDescriptorIsOwned, Nt!Busy
<1>19. QED
  BY <1>1, <1>2, <1>3, <1>4, <1>5, <1>6, <1>7, <1>8, <1>9, <1>10, <1>11, <1>12, <1>13, <1>14,
       <1>15, <1>16, <1>17, <1>18, <1>20, <1>21 DEF SocketSteps

\* No step hands out a stream that does not block unless the user asked for it.
LEMMA StreamsStayBlocking == ASSUME SocketsInv, SocketSteps  PROVE Nt!StreamsBlock'
<1>1. CASE Nt!connect \/ \E t \in ConnectTimeouts : Nt!connect_timeout(t)
  BY <1>1, NetAssumption DEF Nt!connect, Nt!connect_timeout, Nt!Dials, Nt!Idle,
       Nt!validate_connect_timeout, Nt!userVars, Dialling, SocketsInv, NetTyped, Dials,
       DialIsExact, Nt!EveryDescriptorIsOwned, Nt!Busy, Nt!StreamsBlock
<1>2. CASE \E n \in 0..MaxAddresses : Nt!Resolved(n)
  BY <1>2, NetAssumption DEF Nt!Resolved, Nt!userVars, Dialling, SocketsInv, NetTyped, Dials,
       DialIsExact, Nt!EveryDescriptorIsOwned, Nt!Busy, Nt!StreamsBlock
<1>3. CASE Nt!ResolveFails
  BY <1>3, NetAssumption DEF Nt!ResolveFails, Nt!Returns, Nt!Idle, Nt!userVars, Dialling,
       SocketsInv, NetTyped, Dials, DialIsExact, Nt!EveryDescriptorIsOwned, Nt!Busy,
       Nt!StreamsBlock
<1>4. CASE Nt!GiveUp
  BY <1>4, NetAssumption DEF Nt!GiveUp, Nt!Returns, Nt!Idle, Nt!Late, Nt!Timed, Nt!userVars,
       Dialling, SocketsInv, NetTyped, Dials, DialIsExact, Nt!EveryDescriptorIsOwned, Nt!Busy,
       Nt!StreamsBlock
<1>5. CASE Nt!connect_until /\ Nt!TryNext /\ UNCHANGED <<descriptors, nonblocking, opened>>
  BY <1>5, NetAssumption DEF Nt!connect_until, Nt!TryNext, Nt!Late, Nt!Timed, Nt!userVars,
       Dialling, SocketsInv, NetTyped, Dials, DialIsExact, Nt!EveryDescriptorIsOwned, Nt!Busy,
       Nt!StreamsBlock
<1>6. CASE Nt!connect_until /\ Nt!create_socket
  BY <1>6, Attempted DEF Nt!With, Nt!EveryDescriptorIsOwned, Nt!StreamsBlock, SocketsInv,
       NetTyped, Dials
<1>7. CASE Nt!AttemptFails
  BY <1>7, NetAssumption DEF Nt!AttemptFails, Nt!TryNext, Nt!Drop, Nt!Without, Nt!userVars,
       Dialling, SocketsInv, NetTyped, Dials, DialIsExact, Nt!EveryDescriptorIsOwned, Nt!Busy,
       Nt!StreamsBlock
<1>20. CASE Nt!ConnectHearsTimeout
  BY <1>20, NetAssumption DEF Nt!ConnectHearsTimeout, Nt!Drop, Nt!Without, Nt!Timed, Nt!userVars,
       Dialling, SocketsInv, NetTyped, Dials, DialIsExact, Nt!EveryDescriptorIsOwned, Nt!Busy,
       Nt!StreamsBlock
<1>21. CASE Nt!TimedHearsTimeout
  BY <1>21, NetAssumption DEF Nt!TimedHearsTimeout, Nt!Idle, Nt!Drop, Nt!Without, Nt!Timed, Nt!userVars,
       Dialling, SocketsInv, NetTyped, Dials, DialIsExact, Nt!EveryDescriptorIsOwned, Nt!Busy,
       Nt!StreamsBlock
<1>8. CASE Nt!connect_is_in_progress
  BY <1>8, NetAssumption DEF Nt!connect_is_in_progress, Nt!userVars, Dialling, SocketsInv,
       NetTyped, Dials, DialIsExact, Nt!EveryDescriptorIsOwned, Nt!Busy, Nt!StreamsBlock
<1>9. CASE Nt!wait_for_connect
  BY <1>9, NetAssumption DEF Nt!wait_for_connect, Nt!userVars, Dialling, SocketsInv, NetTyped,
       Dials, DialIsExact, Nt!EveryDescriptorIsOwned, Nt!Busy, Nt!StreamsBlock
<1>10. CASE Nt!WaitTimesOut
  BY <1>10, NetAssumption DEF Nt!WaitTimesOut, Nt!Returns, Nt!Idle, Nt!Drop, Nt!Without, Nt!Late,
       Nt!Timed, Nt!userVars, Dialling, SocketsInv, NetTyped, Dials, DialIsExact,
       Nt!EveryDescriptorIsOwned, Nt!Busy, Nt!StreamsBlock
<1>11. CASE Nt!from_socket
  BY <1>11, NetAssumption DEF Nt!from_socket, Nt!Restored, Nt!Returns, Nt!Idle, Nt!userVars,
       Dialling, SocketsInv, NetTyped, Dials, DialIsExact, Nt!EveryDescriptorIsOwned, Nt!Busy,
       Nt!StreamsBlock
<1>12. CASE \E d \in streams : Nt!try_clone(d)
  BY <1>12, NetAssumption DEF Nt!try_clone, Nt!With, Nt!userVars, Dialling, SocketsInv, NetTyped,
       Dials, DialIsExact, Nt!EveryDescriptorIsOwned, Nt!Busy, Nt!StreamsBlock
<1>13. CASE \E d \in streams : Nt!close(d)
  BY <1>13, NetAssumption DEF Nt!close, Nt!Drop, Nt!Without, Nt!userVars, Dialling, SocketsInv,
       NetTyped, Dials, DialIsExact, Nt!EveryDescriptorIsOwned, Nt!Busy, Nt!StreamsBlock
<1>14. CASE \E d \in streams, b \in BOOLEAN : Nt!set_nonblocking(d, b)
  BY <1>14, NetAssumption DEF Nt!set_nonblocking, Nt!userVars, Dialling, SocketsInv, NetTyped,
       Dials, DialIsExact, Nt!EveryDescriptorIsOwned, Nt!Busy, Nt!StreamsBlock
<1>15. CASE Nt!bind
  BY <1>15, NetAssumption DEF Nt!bind, Nt!create_socket, Nt!With, Nt!userVars, Dialling,
       SocketsInv, NetTyped, Dials, DialIsExact, Nt!EveryDescriptorIsOwned, Nt!Busy,
       Nt!StreamsBlock
<1>16. CASE Nt!accept(TRUE)
  BY <1>16, NetAssumption DEF Nt!accept, Nt!With, Nt!userVars, Dialling, SocketsInv, NetTyped,
       Dials, DialIsExact, Nt!EveryDescriptorIsOwned, Nt!Busy, Nt!StreamsBlock
<1>17. CASE Nt!accept(FALSE)
  BY <1>17, NetAssumption DEF Nt!accept, Nt!With, Nt!userVars, Dialling, SocketsInv, NetTyped,
       Dials, DialIsExact, Nt!EveryDescriptorIsOwned, Nt!Busy, Nt!StreamsBlock
<1>18. CASE Nt!ListenerCloses
  BY <1>18, NetAssumption DEF Nt!ListenerCloses, Nt!Drop, Nt!Without, Nt!userVars, Dialling,
       SocketsInv, NetTyped, Dials, DialIsExact, Nt!EveryDescriptorIsOwned, Nt!Busy,
       Nt!StreamsBlock
<1>19. QED
  BY <1>1, <1>2, <1>3, <1>4, <1>5, <1>6, <1>7, <1>8, <1>9, <1>10, <1>11, <1>12, <1>13, <1>14,
       <1>15, <1>16, <1>17, <1>18, <1>20, <1>21 DEF SocketSteps

\* No attempt starts after the deadline of connect_timeout.
LEMMA ConnectStaysBounded == ASSUME SocketsInv, SocketSteps  PROVE Nt!ConnectIsBounded'
<1>1. CASE Nt!connect \/ \E t \in ConnectTimeouts : Nt!connect_timeout(t)
  BY <1>1, NetAssumption DEF Nt!connect, Nt!connect_timeout, Nt!Dials, Nt!Idle,
       Nt!validate_connect_timeout, Nt!userVars, Dialling, SocketsInv, NetTyped, Dials,
       DialIsExact, Nt!ConnectIsBounded, Nt!Timed
<1>2. CASE \E n \in 0..MaxAddresses : Nt!Resolved(n)
  BY <1>2, NetAssumption DEF Nt!Resolved, Nt!userVars, Dialling, SocketsInv, NetTyped, Dials,
       DialIsExact, Nt!ConnectIsBounded, Nt!Timed
<1>3. CASE Nt!ResolveFails
  BY <1>3, NetAssumption DEF Nt!ResolveFails, Nt!Returns, Nt!Idle, Nt!userVars, Dialling,
       SocketsInv, NetTyped, Dials, DialIsExact, Nt!ConnectIsBounded, Nt!Timed
<1>4. CASE Nt!GiveUp
  BY <1>4, NetAssumption DEF Nt!GiveUp, Nt!Returns, Nt!Idle, Nt!Late, Nt!Timed, Nt!userVars,
       Dialling, SocketsInv, NetTyped, Dials, DialIsExact, Nt!ConnectIsBounded, Nt!Timed
<1>5. CASE Nt!connect_until /\ Nt!TryNext /\ UNCHANGED <<descriptors, nonblocking, opened>>
  BY <1>5, NetAssumption DEF Nt!connect_until, Nt!TryNext, Nt!Late, Nt!Timed, Nt!userVars,
       Dialling, SocketsInv, NetTyped, Dials, DialIsExact, Nt!ConnectIsBounded, Nt!Timed
<1>6. CASE Nt!connect_until /\ Nt!create_socket
  <2>1. dial \in Dials(opened) /\ dial.outcome = "none" /\ ticks \in Nat
    BY <1>6, Attempted DEF SocketsInv, NetTyped, DialIsExact
  <2>2. /\ dial'.outcome = "none" /\ dial'.tried = ticks /\ dial'.deadline = dial.deadline
        /\ dial'.timeout = dial.timeout /\ dial.deadline \in Nat
    BY <1>6, <2>1, Attempted DEF Dials
  <2>3. Nt!Timed => ticks < dial.deadline
    <3>1. Nt!Timed => ~(ticks >= dial.deadline)
      BY <1>6, Attempted DEF Nt!Late
    <3>2. ticks \in Nat /\ dial.deadline \in Nat
      BY <2>1, <2>2
    <3>3. QED
      BY <3>1, <3>2
  <2>4. Nt!Timed' <=> Nt!Timed
    BY <2>2 DEF Nt!Timed
  <2>5. QED
    BY <2>2, <2>3, <2>4 DEF Nt!ConnectIsBounded
<1>7. CASE Nt!AttemptFails
  BY <1>7, NetAssumption DEF Nt!AttemptFails, Nt!TryNext, Nt!Drop, Nt!Without, Nt!userVars,
       Dialling, SocketsInv, NetTyped, Dials, DialIsExact, Nt!ConnectIsBounded, Nt!Timed
<1>20. CASE Nt!ConnectHearsTimeout
  BY <1>20, NetAssumption DEF Nt!ConnectHearsTimeout, Nt!Drop, Nt!Without, Nt!Timed, Nt!userVars,
       Dialling, SocketsInv, NetTyped, Dials, DialIsExact, Nt!ConnectIsBounded
<1>21. CASE Nt!TimedHearsTimeout
  BY <1>21, NetAssumption DEF Nt!TimedHearsTimeout, Nt!Idle, Nt!Drop, Nt!Without, Nt!Timed, Nt!userVars,
       Dialling, SocketsInv, NetTyped, Dials, DialIsExact, Nt!ConnectIsBounded
<1>8. CASE Nt!connect_is_in_progress
  BY <1>8, NetAssumption DEF Nt!connect_is_in_progress, Nt!userVars, Dialling, SocketsInv,
       NetTyped, Dials, DialIsExact, Nt!ConnectIsBounded, Nt!Timed
<1>9. CASE Nt!wait_for_connect
  BY <1>9, NetAssumption DEF Nt!wait_for_connect, Nt!userVars, Dialling, SocketsInv, NetTyped,
       Dials, DialIsExact, Nt!ConnectIsBounded, Nt!Timed
<1>10. CASE Nt!WaitTimesOut
  BY <1>10, NetAssumption DEF Nt!WaitTimesOut, Nt!Returns, Nt!Idle, Nt!Drop, Nt!Without, Nt!Late,
       Nt!Timed, Nt!userVars, Dialling, SocketsInv, NetTyped, Dials, DialIsExact,
       Nt!ConnectIsBounded, Nt!Timed
<1>11. CASE Nt!from_socket
  BY <1>11, NetAssumption DEF Nt!from_socket, Nt!Restored, Nt!Returns, Nt!Idle, Nt!userVars,
       Dialling, SocketsInv, NetTyped, Dials, DialIsExact, Nt!ConnectIsBounded, Nt!Timed
<1>12. CASE \E d \in streams : Nt!try_clone(d)
  BY <1>12, NetAssumption DEF Nt!try_clone, Nt!With, Nt!userVars, Dialling, SocketsInv, NetTyped,
       Dials, DialIsExact, Nt!ConnectIsBounded, Nt!Timed
<1>13. CASE \E d \in streams : Nt!close(d)
  BY <1>13, NetAssumption DEF Nt!close, Nt!Drop, Nt!Without, Nt!userVars, Dialling, SocketsInv,
       NetTyped, Dials, DialIsExact, Nt!ConnectIsBounded, Nt!Timed
<1>14. CASE \E d \in streams, b \in BOOLEAN : Nt!set_nonblocking(d, b)
  BY <1>14, NetAssumption DEF Nt!set_nonblocking, Nt!userVars, Dialling, SocketsInv, NetTyped,
       Dials, DialIsExact, Nt!ConnectIsBounded, Nt!Timed
<1>15. CASE Nt!bind
  BY <1>15, NetAssumption DEF Nt!bind, Nt!create_socket, Nt!With, Nt!userVars, Dialling,
       SocketsInv, NetTyped, Dials, DialIsExact, Nt!ConnectIsBounded, Nt!Timed
<1>16. CASE Nt!accept(TRUE)
  BY <1>16, NetAssumption DEF Nt!accept, Nt!With, Nt!userVars, Dialling, SocketsInv, NetTyped,
       Dials, DialIsExact, Nt!ConnectIsBounded, Nt!Timed
<1>17. CASE Nt!accept(FALSE)
  BY <1>17, NetAssumption DEF Nt!accept, Nt!With, Nt!userVars, Dialling, SocketsInv, NetTyped,
       Dials, DialIsExact, Nt!ConnectIsBounded, Nt!Timed
<1>18. CASE Nt!ListenerCloses
  BY <1>18, NetAssumption DEF Nt!ListenerCloses, Nt!Drop, Nt!Without, Nt!userVars, Dialling,
       SocketsInv, NetTyped, Dials, DialIsExact, Nt!ConnectIsBounded, Nt!Timed
<1>19. QED
  BY <1>1, <1>2, <1>3, <1>4, <1>5, <1>6, <1>7, <1>8, <1>9, <1>10, <1>11, <1>12, <1>13, <1>14,
       <1>15, <1>16, <1>17, <1>18, <1>20, <1>21 DEF SocketSteps

\* The DeadlineReader: the wait of a read ends by its deadline and within a poll of a stop,
\* and its deadline is moved once at most, by the first byte.
ReaderInv ==
  /\ ticks \in Nat /\ stopped_at \in Nat
  /\ timed_read.at # "none" =>
       /\ timed_read \in [at : {"calling", "selecting"}, waiting_first_byte : BOOLEAN, begun : Nat,
                          deadline : Nat, wake : Nat]
       /\ timed_read.begun <= ticks
       /\ timed_read.waiting_first_byte => timed_read.deadline = timed_read.begun + IdleTimeout
       /\ timed_read.deadline <= timed_read.begun + IdleTimeout + HeaderTimeout
  /\ timed_read.at = "selecting" =>
       /\ ticks <= timed_read.wake /\ timed_read.wake <= timed_read.deadline
       /\ timed_read.wake <= ticks + StopPoll /\ timed_read.wake <= stopped_at + StopPoll

\* No head is being read.
LEMMA ReaderInit == Nt!Init => ReaderInv
  BY NetAssumption DEF Nt!Init, Nt!NoRead, ReaderInv

\* A reader that ends owes nothing.
LEMMA ReaderStops == ASSUME UNCHANGED <<ticks, stopped_at>>, ReaderInv, timed_read' = Nt!NoRead
                     PROVE  ReaderInv'
  BY DEF ReaderInv, Nt!NoRead

\* A step of others leaves the reader alone.
LEMMA ReaderStays == ASSUME UNCHANGED <<ticks, stopped_at, timed_read>>, ReaderInv  PROVE ReaderInv'
  BY DEF ReaderInv

\* The reader polls for what remains of its time, one slice at most.
LEMMA ReaderPolls == ASSUME ReaderInv, Nt!PollsOnce  PROVE ReaderInv'
<1>1. /\ ticks \in Nat /\ stopped_at \in Nat /\ StopPoll \in Nat
      /\ timed_read.deadline \in Nat /\ ticks < timed_read.deadline /\ ~(stopped_at <= ticks)
  BY NetAssumption DEF ReaderInv, Nt!PollsOnce, Nt!Stopped
<1> DEFINE w == ticks + Nt!PolledWait
<1>2. /\ w \in Nat /\ ticks <= w /\ w <= timed_read.deadline /\ w <= ticks + StopPoll
      /\ w <= stopped_at + StopPoll
  BY <1>1 DEF Nt!PolledWait, Nt!Shorter
<1>3. timed_read' = [timed_read EXCEPT !.at = "selecting", !.wake = w] /\ UNCHANGED <<ticks, stopped_at>>
  BY DEF Nt!PollsOnce
<1> HIDE DEF w
<1>4. /\ timed_read \in [at : {"calling", "selecting"}, waiting_first_byte : BOOLEAN, begun : Nat,
                          deadline : Nat, wake : Nat]
      /\ timed_read.begun <= ticks
      /\ timed_read.waiting_first_byte => timed_read.deadline = timed_read.begun + IdleTimeout
      /\ timed_read.deadline <= timed_read.begun + IdleTimeout + HeaderTimeout
  BY DEF ReaderInv, Nt!PollsOnce
<1>5. QED
  BY <1>1, <1>2, <1>3, <1>4 DEF ReaderInv

\* A reader starts with its whole time before it.
LEMMA ReaderStarts == ASSUME ReaderInv, NEW b \in BOOLEAN, Nt!start_head(b)  PROVE ReaderInv'
<1>1. ticks \in Nat /\ stopped_at \in Nat /\ IdleTimeout \in Nat /\ HeaderTimeout \in Nat
  BY NetAssumption DEF ReaderInv
<1> DEFINE d == ticks + IF b THEN HeaderTimeout ELSE IdleTimeout
<1>2. /\ d \in Nat /\ (~b => d = ticks + IdleTimeout)
      /\ d <= ticks + IdleTimeout + HeaderTimeout
  BY <1>1
<1>3. /\ timed_read' = [at |-> "calling", waiting_first_byte |-> ~b, begun |-> ticks,
                        deadline |-> d, wake |-> 0]
      /\ UNCHANGED <<ticks, stopped_at>>
  BY DEF Nt!start_head
<1> HIDE DEF d
<1>4. /\ timed_read' \in [at : {"calling", "selecting"}, waiting_first_byte : BOOLEAN, begun : Nat,
                          deadline : Nat, wake : Nat]
      /\ timed_read'.at = "calling" /\ timed_read'.begun = ticks /\ timed_read'.deadline = d
      /\ timed_read'.waiting_first_byte => ~b
  BY <1>1, <1>2, <1>3
<1>5. ticks <= ticks
  BY <1>1
<1>6. QED
  BY <1>1, <1>2, <1>3, <1>4, <1>5 DEF ReaderInv

\* Bytes that come do not move the deadline of a head.
LEMMA ReaderReads == ASSUME ReaderInv, NEW b \in BOOLEAN, Nt!ReadsSome(b)  PROVE ReaderInv'
<1>1. CASE b
  BY <1>1, ReaderStops DEF Nt!ReadsSome
<1>2. CASE ~b
  <2>1. /\ ticks \in Nat /\ stopped_at \in Nat /\ IdleTimeout \in Nat /\ HeaderTimeout \in Nat
    BY NetAssumption DEF ReaderInv
  <2>2. /\ timed_read \in [at : {"calling", "selecting"}, waiting_first_byte : BOOLEAN, begun : Nat,
                           deadline : Nat, wake : Nat]
        /\ timed_read.begun <= ticks /\ ticks <= timed_read.deadline
        /\ timed_read.waiting_first_byte => timed_read.deadline = timed_read.begun + IdleTimeout
        /\ timed_read.deadline <= timed_read.begun + IdleTimeout + HeaderTimeout
    BY DEF ReaderInv, Nt!ReadsSome
  <2>3. /\ Nt!NextDeadline \in Nat
        /\ Nt!NextDeadline <= timed_read.begun + IdleTimeout + HeaderTimeout
    BY <2>1, <2>2 DEF Nt!NextDeadline
  <2>4. /\ timed_read' = [timed_read EXCEPT !.at = "calling", !.waiting_first_byte = FALSE,
                                           !.deadline = Nt!NextDeadline]
        /\ UNCHANGED <<ticks, stopped_at>>
    BY <1>2 DEF Nt!ReadsSome
  <2>5. QED
    BY <2>1, <2>2, <2>3, <2>4 DEF ReaderInv
<1>3. QED
  BY <1>1, <1>2

\* Every step keeps the reader within its time.
LEMMA ReaderNext == ASSUME ReaderInv, SocketsInv, Nt!Next  PROVE ReaderInv'
<1>1. CASE Nt!Connecting
  BY <1>1, ReaderStays DEF Nt!Connecting, Nt!connect, Nt!connect_timeout, Nt!Dials, Nt!Resolved,
     Nt!ResolveFails, Nt!GiveUp, Nt!connect_until, Nt!AttemptFails, Nt!ConnectHearsTimeout,
     Nt!TimedHearsTimeout, Nt!connect_is_in_progress, Nt!wait_for_connect, Nt!WaitTimesOut, Nt!from_socket, Nt!userVars
<1>2. CASE Nt!Using
  BY <1>2, ReaderStays DEF Nt!Using, Nt!try_clone, Nt!close, Nt!set_nonblocking, Nt!bind,
     Nt!ListenerCloses, Nt!accept, Nt!userVars
<1>3. CASE Nt!Reading
  <2>1. CASE Nt!NotReady
    BY <2>1 DEF Nt!NotReady, ReaderInv
  <2>2. CASE Nt!RequestStop
    BY <2>2 DEF Nt!RequestStop, ReaderInv
  <2>3. CASE Nt!ReadRefused \/ Nt!ReadEnds
    BY <2>3, ReaderStops DEF Nt!ReadRefused, Nt!ReadEnds
  <2>4. QED
    BY <1>3, <2>1, <2>2, <2>3, ReaderPolls, ReaderStarts, ReaderReads DEF Nt!Reading
<1>4. CASE Nt!Tick
  <2>1. /\ ticks \in Nat /\ ticks' = ticks + 1 /\ UNCHANGED <<stopped_at, timed_read>>
        /\ timed_read.at = "selecting" => ticks < timed_read.wake
    BY <1>4 DEF ReaderInv, Nt!Tick, Nt!userVars
  <2>2. ASSUME timed_read.at # "none"  PROVE timed_read.begun <= ticks + 1
    BY <2>1, <2>2 DEF ReaderInv
  <2>3. ASSUME timed_read.at = "selecting"
        PROVE  ticks + 1 <= timed_read.wake /\ timed_read.wake <= (ticks + 1) + StopPoll
    <3>1. timed_read.wake \in Nat /\ timed_read.wake <= ticks + StopPoll /\ StopPoll \in Nat
      BY <2>3, NetAssumption DEF ReaderInv
    <3>2. QED
      BY <2>1, <2>3, <3>1
  <2>4. QED
    BY <2>1, <2>2, <2>3 DEF ReaderInv
<1>5. QED
  BY <1>1, <1>2, <1>3, <1>4 DEF Nt!Next

\* Reading and the clock leave the sockets alone.
LEMMA SocketsStay ==
  ASSUME SocketsInv, UNCHANGED Nt!readerVars, ticks' \in Nat, ticks' >= ticks, stopped_at' \in Nat
  PROVE  SocketsInv'
<1> USE DEF Nt!readerVars
<1>1. NetTyped' /\ DialIsExact'
  BY DEF SocketsInv, NetTyped, DialIsExact
<1>2. Nt!EveryDescriptorIsOwned' /\ Nt!StreamsBlock'
  BY DEF SocketsInv, Nt!EveryDescriptorIsOwned, Nt!StreamsBlock, Nt!Busy
<1>3. Nt!ConnectIsBounded'
  <2>1. ticks \in Nat /\ dial.deadline \in Nat
    BY DEF SocketsInv, NetTyped, Dials
  <2>2. dial.outcome = "TimedOut" => dial.system \/ (Nt!Timed /\ ticks' >= dial.deadline)
    BY <2>1 DEF SocketsInv, Nt!ConnectIsBounded
  <2>3. QED
    BY <2>2 DEF SocketsInv, Nt!ConnectIsBounded, Nt!Timed
<1>4. QED
  BY <1>1, <1>2, <1>3 DEF SocketsInv

\* Every step keeps the sockets' part of the invariant.
LEMMA SocketsNext == ASSUME SocketsInv, ReaderInv, ReaderInv', Nt!Next  PROVE SocketsInv'
<1>1. CASE Nt!Connecting \/ Nt!Using
  <2>1. SocketSteps
    BY <1>1 DEF SocketSteps, Nt!Connecting, Nt!Using, Nt!connect_until
  <2>2. QED
    BY <2>1, SocketsTyped, DialStays, DescriptorsOwned, StreamsStayBlocking, ConnectStaysBounded
       DEF SocketsInv
<1>2. CASE Nt!Reading \/ Nt!Tick
  <2>1. UNCHANGED Nt!readerVars /\ ticks' \in {ticks, ticks + 1}
    BY <1>2 DEF Nt!Reading, Nt!Tick, Nt!PollsOnce, Nt!ReadRefused, Nt!NotReady, Nt!ReadEnds,
       Nt!RequestStop, Nt!start_head, Nt!ReadsSome, Nt!connectVars, Nt!userVars, Nt!readerVars
  <2>2. ticks \in Nat /\ ticks' \in Nat /\ stopped_at' \in Nat
    BY DEF ReaderInv
  <2>3. QED
    BY <2>1, <2>2, SocketsStay
<1>3. QED
  BY <1>1, <1>2 DEF Nt!Next

NetInv == SocketsInv /\ ReaderInv

\* Every step of TCP keeps the invariant.
LEMMA NetNext == NetInv /\ (Nt!Next \/ UNCHANGED netVars) => NetInv'
<1>1. ASSUME NetInv, UNCHANGED netVars  PROVE NetInv'
  BY <1>1, SocketsStay, ReaderStays DEF netVars, NetInv, Nt!readerVars, ReaderInv
<1>2. QED
  BY <1>1, SocketsNext, ReaderNext DEF NetInv

\* The invariant implies what the run checks of TCP.
LEMMA NetIsSound == NetInv => Nt!NetSound
<1> SUFFICES ASSUME NetInv  PROVE Nt!HeadInTime
  BY DEF NetInv, SocketsInv, Nt!NetSound
<1>1. ASSUME timed_read.at = "selecting"
      PROVE  /\ ticks - timed_read.begun <= IdleTimeout + HeaderTimeout
             /\ stopped_at <= ticks => ticks - stopped_at <= StopPoll
  <2>1. /\ ticks \in Nat /\ stopped_at \in Nat /\ timed_read.begun \in Nat
        /\ timed_read.wake \in Nat /\ timed_read.deadline \in Nat
        /\ ticks <= timed_read.wake /\ timed_read.wake <= timed_read.deadline
        /\ timed_read.wake <= stopped_at + StopPoll
        /\ timed_read.deadline <= timed_read.begun + IdleTimeout + HeaderTimeout
    BY <1>1 DEF NetInv, ReaderInv
  <2>2. QED
    BY <2>1, NetAssumption
<1>2. QED
  BY <1>1 DEF Nt!HeadInTime, Nt!Stopped
-----------------------------------------------------------------------------
(* TlsStream: records on their way *)

Records == [no : Nat, kind : {"flight", "update", "updated", "data", "notify"}, value : Nat]

\* The plaintexts written up to the n-th record of a side; and that the first n
\* records count them one by one.
Val(log, n) == IF n = 0 THEN 0 ELSE log[n].value
Clean(log, n) ==
  \A i \in 1..n : Val(log, i) = Val(log, i - 1) + (IF log[i].kind = "data" THEN 1 ELSE 0)

Logged(records, log) == \A i \in 1..Len(records) :
                          records[i].no < Len(log) /\ records[i] = log[records[i].no + 1]
Numbered(records, first) == \A i \in 1..Len(records) : records[i].no = first + i - 1
Lacks(records, n) == \A i \in 1..Len(records) : records[i].no # n

\* The records on their way to a side that has opened k: what it has read from the wire (r),
\* what is on the wire (l) and what the other side, which made log, has still to send (w).
Way(log, k, r, l, w) ==
  k <= Len(log) /\ Logged(r, log) /\ Logged(l, log) /\ Logged(w, log)

\* Nothing is missing.
Exact(log, k, r, l, w) ==
  /\ Numbered(r, k) /\ Numbered(l, k + Len(r)) /\ Numbered(w, k + Len(r) + Len(l))
  /\ Len(log) = k + Len(r) + Len(l) + Len(w)

\* A record is missing that the side has not reached, and will not reach.
Lossy(log, k, r, l, w) ==
  \E n \in Nat : /\ k <= n /\ n < Len(log) /\ Clean(log, n)
                 /\ Lacks(r, n) /\ Lacks(l, n) /\ Lacks(w, n)

\* A piece of a sequence of records that begins behind its d-th.
Piece(s, t, d) ==
  /\ s \in Seq(Records) /\ t \in Seq(Records) /\ d \in Nat
  /\ \A i \in 1..Len(s) : i + d \in 1..Len(t) /\ s[i] = t[i + d]

\* A piece of records that are logged one after the other is logged so too.
LEMMA PieceKeeps ==
  ASSUME NEW s, NEW t, NEW d, Piece(s, t, d)
  PROVE  /\ \A log \in Seq(Records) : Logged(t, log) => Logged(s, log)
         /\ \A n \in Nat : Lacks(t, n) => Lacks(s, n)
         /\ \A f \in Nat : Numbered(t, f) => Numbered(s, f + d)
<1>1. \A log \in Seq(Records) : Logged(t, log) => Logged(s, log)
  BY DEF Piece, Logged
<1>2. \A n \in Nat : Lacks(t, n) => Lacks(s, n)
  BY DEF Piece, Lacks
<1>3. ASSUME NEW f \in Nat, Numbered(t, f), NEW i \in 1..Len(s)  PROVE s[i].no = (f + d) + i - 1
  <2>1. i + d \in 1..Len(t) /\ s[i] = t[i + d]
    BY DEF Piece
  <2>2. s[i].no = f + (i + d) - 1
    BY <1>3, <2>1 DEF Numbered
  <2>3. d \in Nat /\ i \in Int
    BY DEF Piece
  <2>4. QED
    BY <2>2, <2>3
<1>4. QED
  BY <1>1, <1>2, <1>3 DEF Numbered

\* What follows the first record is a piece.
LEMMA TailPiece == ASSUME NEW t \in Seq(Records), t # <<>>  PROVE Piece(Tail(t), t, 1)
<1>1. Tail(t) \in Seq(Records) /\ Len(Tail(t)) = Len(t) - 1 /\ \A i \in 1..Len(Tail(t)) : Tail(t)[i] = t[i + 1]
  BY HeadTailProperties
<1>2. Len(t) \in Nat
  BY LenProperties
<1>3. \A i \in 1..Len(Tail(t)) : i + 1 \in 1..Len(t)
  BY <1>1, <1>2
<1>4. QED
  BY <1>1, <1>3 DEF Piece

\* What is between two places is a piece.
LEMMA SubSeqPiece ==
  ASSUME NEW t \in Seq(Records), NEW m \in 1..(Len(t) + 1), NEW n \in 0..Len(t)
  PROVE  /\ Piece(SubSeq(t, m, n), t, m - 1)
         /\ Len(SubSeq(t, m, n)) = IF m <= n THEN n - m + 1 ELSE 0
<1>1. Len(t) \in Nat /\ \A i \in 1..Len(t) : t[i] \in Records
  BY LenProperties
<1>2. m \in Int /\ n \in Int /\ m - 1 \in Nat /\ \A i \in m..n : i \in 1..Len(t)
  BY <1>1
<1>3. \A i \in m..n : t[i] \in Records
  BY <1>1, <1>2
<1>4. /\ SubSeq(t, m, n) \in Seq(Records)
      /\ Len(SubSeq(t, m, n)) = IF m <= n THEN n - m + 1 ELSE 0
      /\ \A i \in 1..(n - m + 1) : SubSeq(t, m, n)[i] = t[m + i - 1]
  BY <1>2, <1>3, SubSeqProperties
<1>5. ASSUME NEW i \in 1..Len(SubSeq(t, m, n))
      PROVE  i + (m - 1) \in 1..Len(t) /\ SubSeq(t, m, n)[i] = t[i + (m - 1)]
  <2>1. m <= n /\ i \in 1..(n - m + 1)
    BY <1>2, <1>4
  <2>2. m + i - 1 = i + (m - 1) /\ i + (m - 1) \in m..n
    BY <1>2, <2>1
  <2>3. QED
    BY <1>2, <1>4, <2>1, <2>2
<1>6. QED
  BY <1>2, <1>4, <1>5 DEF Piece

\* Two sequences of records, one after the other.
LEMMA Joined ==
  ASSUME NEW s \in Seq(Records), NEW t \in Seq(Records)
  PROVE  /\ s \o t \in Seq(Records) /\ Len(s \o t) = Len(s) + Len(t)
         /\ \A log : Logged(s, log) /\ Logged(t, log) => Logged(s \o t, log)
         /\ \A n : Lacks(s, n) /\ Lacks(t, n) => Lacks(s \o t, n)
         /\ \A f \in Nat : Numbered(s, f) /\ Numbered(t, f + Len(s)) => Numbered(s \o t, f)
<1>1. /\ s \o t \in Seq(Records) /\ Len(s \o t) = Len(s) + Len(t)
      /\ \A i \in 1..(Len(s) + Len(t)) : (s \o t)[i] = IF i <= Len(s) THEN s[i] ELSE t[i - Len(s)]
  BY ConcatProperties
<1>2. Len(s) \in Nat /\ Len(t) \in Nat
  BY LenProperties
<1>3. \A i \in 1..Len(s \o t) :
        \/ i \in 1..Len(s) /\ (s \o t)[i] = s[i]
        \/ i - Len(s) \in 1..Len(t) /\ (s \o t)[i] = t[i - Len(s)]
  BY <1>1, <1>2
<1>4. \A log : Logged(s, log) /\ Logged(t, log) => Logged(s \o t, log)
  BY <1>3 DEF Logged
<1>5. \A n : Lacks(s, n) /\ Lacks(t, n) => Lacks(s \o t, n)
  BY <1>3 DEF Lacks
<1>6. ASSUME NEW f \in Nat, Numbered(s, f), Numbered(t, f + Len(s)), NEW i \in 1..Len(s \o t)
      PROVE  (s \o t)[i].no = f + i - 1
  <2>1. CASE i \in 1..Len(s) /\ (s \o t)[i] = s[i]
    BY <2>1, <1>6 DEF Numbered
  <2>2. CASE i - Len(s) \in 1..Len(t) /\ (s \o t)[i] = t[i - Len(s)]
    <3>1. (s \o t)[i].no = (f + Len(s)) + (i - Len(s)) - 1
      BY <2>2, <1>6 DEF Numbered
    <3>2. i \in Int
      OBVIOUS
    <3>3. QED
      BY <3>1, <3>2, <1>2, <1>6
  <2>3. QED
    BY <1>3, <2>1, <2>2
<1>7. QED
  BY <1>1, <1>4, <1>5, <1>6 DEF Numbered

\* A sequence with one record more.
LEMMA Added ==
  ASSUME NEW s \in Seq(Records), NEW x \in Records
  PROVE  /\ Append(s, x) \in Seq(Records) /\ Len(Append(s, x)) = Len(s) + 1 /\ Len(s) \in Nat
         /\ \A i \in 1..Len(s) : Append(s, x)[i] = s[i]
         /\ Append(s, x)[Len(s) + 1] = x
         /\ \A i \in 1..(Len(s) + 1) : i \in 1..Len(s) \/ i = Len(s) + 1
  OBVIOUS

\* Records of a log are records of the longer log, which counts plaintexts as before.
LEMMA LogGrows ==
  ASSUME NEW log \in Seq(Records), NEW x \in Records, NEW s \in Seq(Records)
  PROVE  /\ Logged(s, log) => Logged(s, Append(log, x))
         /\ \A n \in 0..Len(log) : Val(Append(log, x), n) = Val(log, n)
         /\ \A n \in 0..Len(log) : Clean(log, n) <=> Clean(Append(log, x), n)
<1>1. /\ Len(Append(log, x)) = Len(log) + 1 /\ Len(log) \in Nat
      /\ \A i \in 1..Len(log) : Append(log, x)[i] = log[i]
  BY Added
<1>2. ASSUME Logged(s, log), NEW i \in 1..Len(s)
      PROVE  s[i].no < Len(Append(log, x)) /\ s[i] = Append(log, x)[s[i].no + 1]
  <2>1. s[i] \in Records /\ s[i].no < Len(log) /\ s[i] = log[s[i].no + 1]
    BY <1>2, ElementOfSeq DEF Logged
  <2>2. s[i].no \in Nat
    BY <2>1 DEF Records
  <2>3. s[i].no + 1 \in 1..Len(log) /\ s[i].no < Len(log) + 1
    BY <1>1, <2>1, <2>2
  <2>4. QED
    BY <1>1, <2>1, <2>3
<1>3. \A n \in 0..Len(log) : Val(Append(log, x), n) = Val(log, n)
  BY <1>1 DEF Val
<1>4. ASSUME NEW n \in 0..Len(log)  PROVE Clean(log, n) <=> Clean(Append(log, x), n)
  <2>1. \A i \in 1..n : i \in 1..Len(log) /\ i \in 0..Len(log) /\ i - 1 \in 0..Len(log)
    BY <1>1
  <2>2. QED
    BY <1>1, <1>3, <2>1 DEF Clean
<1>5. QED
  BY <1>2, <1>3, <1>4 DEF Logged

\* The other side makes a record.
LEMMA WaySeals ==
  ASSUME NEW log \in Seq(Records), NEW k \in Nat, NEW r \in Seq(Records), NEW l \in Seq(Records),
         NEW w \in Seq(Records), NEW x \in Records, x.no = Len(log)
  PROVE  /\ Way(log, k, r, l, w) => Way(Append(log, x), k, r, l, Append(w, x))
         /\ Exact(log, k, r, l, w) => Exact(Append(log, x), k, r, l, Append(w, x))
         /\ Lossy(log, k, r, l, w) => Lossy(Append(log, x), k, r, l, Append(w, x))
<1>1. /\ Len(Append(log, x)) = Len(log) + 1 /\ Len(log) \in Nat /\ Append(log, x)[Len(log) + 1] = x
  BY Added
<1>2. /\ Len(Append(w, x)) = Len(w) + 1 /\ Len(w) \in Nat /\ Append(w, x)[Len(w) + 1] = x
      /\ \A i \in 1..Len(w) : Append(w, x)[i] = w[i]
      /\ \A i \in 1..(Len(w) + 1) : i \in 1..Len(w) \/ i = Len(w) + 1
  BY Added
<1>3. ASSUME Way(log, k, r, l, w)  PROVE Way(Append(log, x), k, r, l, Append(w, x))
  <2>1. Logged(r, Append(log, x)) /\ Logged(l, Append(log, x)) /\ Logged(w, Append(log, x))
    BY <1>3, LogGrows DEF Way
  <2>2. x.no < Len(Append(log, x)) /\ x = Append(log, x)[x.no + 1]
    BY <1>1
  <2>3. Logged(Append(w, x), Append(log, x))
    BY <1>2, <2>1, <2>2 DEF Logged
  <2>4. k <= Len(Append(log, x))
    BY <1>1, <1>3 DEF Way
  <2>5. QED
    BY <2>1, <2>3, <2>4 DEF Way
<1>4. ASSUME Exact(log, k, r, l, w)  PROVE Exact(Append(log, x), k, r, l, Append(w, x))
  <2>1. Len(r) \in Nat /\ Len(l) \in Nat
    BY LenProperties
  <2>2. Len(Append(log, x)) = k + Len(r) + Len(l) + Len(Append(w, x))
    BY <1>1, <1>2, <1>4, <2>1 DEF Exact
  <2>3. x.no = (k + Len(r) + Len(l)) + (Len(w) + 1) - 1
    BY <1>2, <1>4, <2>1 DEF Exact
  <2>4. Numbered(Append(w, x), k + Len(r) + Len(l))
    BY <1>2, <1>4, <2>3 DEF Exact, Numbered
  <2>5. QED
    BY <1>4, <2>2, <2>4 DEF Exact
<1>5. ASSUME Lossy(log, k, r, l, w)  PROVE Lossy(Append(log, x), k, r, l, Append(w, x))
  <2>1. PICK n \in Nat : /\ k <= n /\ n < Len(log) /\ Clean(log, n)
                         /\ Lacks(r, n) /\ Lacks(l, n) /\ Lacks(w, n)
    BY <1>5 DEF Lossy
  <2>2. n < Len(Append(log, x)) /\ n # x.no /\ n \in 0..Len(log)
    BY <1>1, <2>1
  <2>3. Lacks(Append(w, x), n)
    BY <1>2, <2>1, <2>2 DEF Lacks
  <2>4. Clean(Append(log, x), n)
    BY <2>1, <2>2, LogGrows
  <2>5. QED
    BY <2>1, <2>2, <2>3, <2>4 DEF Lossy
<1>6. QED
  BY <1>3, <1>4, <1>5

\* The side opens the record whose turn it is, which is the one that was made then.
LEMMA WayOpens ==
  ASSUME NEW log \in Seq(Records), NEW k \in Nat, NEW r \in Seq(Records), NEW l \in Seq(Records),
         NEW w \in Seq(Records), Way(log, k, r, l, w), r # <<>>, Head(r).no = k
  PROVE  /\ k < Len(log) /\ Head(r) = log[k + 1]
         /\ Way(log, k + 1, Tail(r), l, w)
         /\ Exact(log, k, r, l, w) => Exact(log, k + 1, Tail(r), l, w)
         /\ Lossy(log, k, r, l, w) => Lossy(log, k + 1, Tail(r), l, w)
<1>1. Len(r) \in Nat /\ Len(r) >= 1 /\ Head(r) = r[1] /\ Len(log) \in Nat
  OBVIOUS
<1>2. 1 \in 1..Len(r)
  BY <1>1
<1>3. k < Len(log) /\ Head(r) = log[k + 1]
  BY <1>1, <1>2 DEF Way, Logged
<1>4. Piece(Tail(r), r, 1) /\ Len(Tail(r)) = Len(r) - 1
  BY TailPiece, HeadTailProperties
<1>5. Way(log, k + 1, Tail(r), l, w)
  <2>1. k + 1 <= Len(log)
    BY <1>1, <1>3
  <2>2. Logged(Tail(r), log)
    BY <1>4, PieceKeeps DEF Way
  <2>3. QED
    BY <2>1, <2>2 DEF Way
<1>6. ASSUME Exact(log, k, r, l, w)  PROVE Exact(log, k + 1, Tail(r), l, w)
  <2>1. Numbered(Tail(r), k + 1)
    BY <1>4, <1>6, PieceKeeps DEF Exact
  <2>2. k + 1 + Len(Tail(r)) = k + Len(r)
    BY <1>1, <1>4
  <2>3. QED
    BY <1>6, <2>1, <2>2 DEF Exact
<1>7. ASSUME Lossy(log, k, r, l, w)  PROVE Lossy(log, k + 1, Tail(r), l, w)
  <2>1. PICK n \in Nat : /\ k <= n /\ n < Len(log) /\ Clean(log, n)
                         /\ Lacks(r, n) /\ Lacks(l, n) /\ Lacks(w, n)
    BY <1>7 DEF Lossy
  <2>2. n # k
    BY <1>1, <1>2, <2>1 DEF Lacks
  <2>3. k + 1 <= n
    BY <2>1, <2>2
  <2>4. Lacks(Tail(r), n)
    BY <1>4, <2>1, PieceKeeps
  <2>5. QED
    BY <2>1, <2>3, <2>4 DEF Lossy
<1>8. QED
  BY <1>3, <1>5, <1>6, <1>7

\* The other side's records go out, or to nobody.
LEMMA WayFlushes ==
  ASSUME NEW log \in Seq(Records), NEW k \in Nat, NEW r \in Seq(Records), NEW l \in Seq(Records),
         NEW w \in Seq(Records), Way(log, k, r, l, w)
  PROVE  /\ Way(log, k, r, l, <<>>) /\ Way(log, k, r, l \o w, <<>>)
         /\ Exact(log, k, r, l, w) => Exact(log, k, r, l \o w, <<>>)
         /\ Lossy(log, k, r, l, w) => Lossy(log, k, r, l \o w, <<>>)
<1>1. Len(r) \in Nat /\ Len(l) \in Nat /\ Len(w) \in Nat /\ Len(<<>>) = 0 /\ 1..0 = {}
  BY LenProperties
<1>2. Logged(<<>>, log) /\ (\A n : Lacks(<<>>, n)) /\ \A f : Numbered(<<>>, f)
  BY <1>1 DEF Logged, Lacks, Numbered
<1>3. /\ Len(l \o w) = Len(l) + Len(w)
      /\ Logged(l, log) /\ Logged(w, log) => Logged(l \o w, log)
      /\ \A n : Lacks(l, n) /\ Lacks(w, n) => Lacks(l \o w, n)
      /\ \A f \in Nat : Numbered(l, f) /\ Numbered(w, f + Len(l)) => Numbered(l \o w, f)
  BY Joined
<1>4. Way(log, k, r, l, <<>>) /\ Way(log, k, r, l \o w, <<>>)
  BY <1>2, <1>3 DEF Way
<1>5. ASSUME Exact(log, k, r, l, w)  PROVE Exact(log, k, r, l \o w, <<>>)
  <2>1. k + Len(r) \in Nat
    BY <1>1
  <2>2. Numbered(l \o w, k + Len(r))
    BY <1>3, <1>5, <2>1 DEF Exact
  <2>3. k + Len(r) + Len(l) + Len(w) = k + Len(r) + (Len(l) + Len(w)) + 0
    BY <1>1
  <2>4. QED
    BY <1>1, <1>2, <1>3, <1>5, <2>2, <2>3 DEF Exact
<1>6. ASSUME Lossy(log, k, r, l, w)  PROVE Lossy(log, k, r, l \o w, <<>>)
  BY <1>2, <1>3, <1>6 DEF Lossy
<1>7. QED
  BY <1>4, <1>5, <1>6

\* A flush sends n records and loses the m behind them.
LEMMA WayLoses ==
  ASSUME NEW log \in Seq(Records), NEW k \in Nat, NEW r \in Seq(Records), NEW l \in Seq(Records),
         NEW w \in Seq(Records), Way(log, k, r, l, w), NEW n \in Nat, NEW m \in Nat \ {0}, n + m <= Len(w)
  PROVE  LET out == SubSeq(w, 1, n)  rest == SubSeq(w, n + m + 1, Len(w))
         IN  /\ out \in Seq(Records) /\ rest \in Seq(Records)
             /\ Way(log, k, r, l, rest) /\ Way(log, k, r, l \o out, rest)
             /\ Exact(log, k, r, l, w) /\ Clean(log, Len(log)) => Lossy(log, k, r, l \o out, rest)
<1> DEFINE out == SubSeq(w, 1, n)
           rest == SubSeq(w, n + m + 1, Len(w))
<1>1. Len(r) \in Nat /\ Len(l) \in Nat /\ Len(w) \in Nat /\ Len(log) \in Nat
  BY LenProperties
<1>2. 1 \in 1..(Len(w) + 1) /\ n \in 0..Len(w) /\ n + m + 1 \in 1..(Len(w) + 1) /\ Len(w) \in 0..Len(w)
  BY <1>1
<1>3. Piece(out, w, 1 - 1) /\ Len(out) = IF 1 <= n THEN n - 1 + 1 ELSE 0
  BY <1>2, SubSeqPiece
<1>4. Piece(rest, w, (n + m + 1) - 1)
  BY <1>2, SubSeqPiece
<1>5. Piece(out, w, 0) /\ Len(out) = n /\ Piece(rest, w, n + m)
  BY <1>3, <1>4
<1> HIDE DEF out, rest
<1>6. out \in Seq(Records) /\ rest \in Seq(Records)
  BY <1>5 DEF Piece
<1>7. Logged(out, log) /\ Logged(rest, log)
  BY <1>5, PieceKeeps DEF Way
<1>8. Way(log, k, r, l, rest) /\ Way(log, k, r, l \o out, rest)
  BY <1>6, <1>7, Joined DEF Way
<1>9. ASSUME Exact(log, k, r, l, w), Clean(log, Len(log))  PROVE Lossy(log, k, r, l \o out, rest)
  <2> DEFINE x == k + Len(r) + Len(l) + n
             f == k + Len(r) + Len(l)
  <2>1. x \in Nat /\ f \in Nat /\ k <= x /\ x < Len(log) /\ x = f + n
    BY <1>1, <1>9 DEF Exact
  <2>2. Clean(log, x)
    BY <1>1, <1>9, <2>1 DEF Clean
  <2>3. Numbered(out, f + 0) /\ Numbered(rest, f + (n + m)) /\ Numbered(r, k) /\ Numbered(l, k + Len(r))
    BY <1>5, <1>9, <2>1, PieceKeeps DEF Exact
  <2>4. Lacks(r, x)
    <3> SUFFICES ASSUME NEW i \in 1..Len(r)  PROVE r[i].no # x
      BY DEF Lacks
    <3>1. r[i].no = k + i - 1
      BY <2>3 DEF Numbered
    <3>2. QED
      BY <3>1, <1>1
  <2>5. Lacks(l, x)
    <3> SUFFICES ASSUME NEW i \in 1..Len(l)  PROVE l[i].no # x
      BY DEF Lacks
    <3>1. l[i].no = (k + Len(r)) + i - 1
      BY <2>3 DEF Numbered
    <3>2. QED
      BY <3>1, <1>1
  <2>6. Lacks(out, x)
    <3> SUFFICES ASSUME NEW i \in 1..Len(out)  PROVE out[i].no # x
      BY DEF Lacks
    <3>1. out[i].no = (f + 0) + i - 1
      BY <2>3 DEF Numbered
    <3>2. i \in 1..n
      BY <1>5
    <3>3. QED
      BY <3>1, <3>2, <2>1
  <2>7. Lacks(rest, x)
    <3> SUFFICES ASSUME NEW i \in 1..Len(rest)  PROVE rest[i].no # x
      BY DEF Lacks
    <3>1. rest[i].no = (f + (n + m)) + i - 1
      BY <2>3 DEF Numbered
    <3>2. QED
      BY <3>1, <2>1
  <2>8. Lacks(l \o out, x)
    BY <1>6, <2>5, <2>6, Joined
  <2> HIDE DEF x
  <2>9. QED
    BY <2>1, <2>2, <2>4, <2>7, <2>8 DEF Lossy
<1>10. QED
  BY <1>6, <1>8, <1>9 DEF out, rest

\* The side reads n records from the wire.
LEMMA WayReceives ==
  ASSUME NEW log \in Seq(Records), NEW k \in Nat, NEW r \in Seq(Records), NEW l \in Seq(Records),
         NEW w \in Seq(Records), Way(log, k, r, l, w), NEW n \in 0..Len(l)
  PROVE  LET in == r \o SubSeq(l, 1, n)  rest == SubSeq(l, n + 1, Len(l))
         IN  /\ in \in Seq(Records) /\ rest \in Seq(Records) /\ Way(log, k, in, rest, w)
             /\ Exact(log, k, r, l, w) => Exact(log, k, in, rest, w)
             /\ Lossy(log, k, r, l, w) => Lossy(log, k, in, rest, w)
<1> DEFINE out == SubSeq(l, 1, n)
           rest == SubSeq(l, n + 1, Len(l))
<1>1. Len(r) \in Nat /\ Len(l) \in Nat /\ Len(w) \in Nat /\ Len(log) \in Nat
  BY LenProperties
<1>2. 1 \in 1..(Len(l) + 1) /\ n \in Nat /\ n + 1 \in 1..(Len(l) + 1) /\ Len(l) \in 0..Len(l)
  BY <1>1
<1>3. Piece(out, l, 1 - 1) /\ Len(out) = IF 1 <= n THEN n - 1 + 1 ELSE 0
  BY <1>2, SubSeqPiece
<1>4. /\ Piece(rest, l, (n + 1) - 1)
      /\ Len(rest) = IF n + 1 <= Len(l) THEN Len(l) - (n + 1) + 1 ELSE 0
  BY <1>2, SubSeqPiece
<1>5. Piece(out, l, 0) /\ Len(out) = n /\ Piece(rest, l, n) /\ Len(rest) = Len(l) - n
  BY <1>1, <1>2, <1>3, <1>4
<1> HIDE DEF out, rest
<1>6. out \in Seq(Records) /\ rest \in Seq(Records)
  BY <1>5 DEF Piece
<1>7. /\ r \o out \in Seq(Records) /\ Len(r \o out) = Len(r) + n
      /\ Logged(r, log) /\ Logged(out, log) => Logged(r \o out, log)
      /\ \A x : Lacks(r, x) /\ Lacks(out, x) => Lacks(r \o out, x)
      /\ \A f \in Nat : Numbered(r, f) /\ Numbered(out, f + Len(r)) => Numbered(r \o out, f)
  BY <1>5, <1>6, Joined
<1>8. Way(log, k, r \o out, rest, w)
  BY <1>5, <1>7, PieceKeeps DEF Way
<1>9. ASSUME Exact(log, k, r, l, w)  PROVE Exact(log, k, r \o out, rest, w)
  <2>1. k + Len(r) \in Nat
    BY <1>1
  <2>2. Numbered(out, k + Len(r) + 0) /\ Numbered(rest, k + Len(r) + n)
    BY <1>5, <1>9, <2>1, PieceKeeps DEF Exact
  <2>3. /\ k + Len(r) + 0 = k + Len(r)
        /\ k + Len(r) + n = k + (Len(r) + n)
        /\ k + (Len(r) + n) + (Len(l) - n) = k + Len(r) + Len(l)
    BY <1>1, <1>2
  <2>4. QED
    BY <1>5, <1>7, <1>9, <2>2, <2>3 DEF Exact
<1>10. ASSUME Lossy(log, k, r, l, w)  PROVE Lossy(log, k, r \o out, rest, w)
  <2>1. PICK x \in Nat : /\ k <= x /\ x < Len(log) /\ Clean(log, x)
                         /\ Lacks(r, x) /\ Lacks(l, x) /\ Lacks(w, x)
    BY <1>10 DEF Lossy
  <2>2. Lacks(out, x) /\ Lacks(rest, x)
    BY <1>5, <2>1, PieceKeeps
  <2>3. QED
    BY <1>7, <2>1, <2>2 DEF Lossy
<1>11. QED
  BY <1>6, <1>7, <1>8, <1>9, <1>10 DEF out, rest
-----------------------------------------------------------------------------
(* TlsStream *)

Ats == {"none", "handshake", "open", "reading", "read_some", "writing", "wrote", "closing", "closed",
        "failed", "dropped"}
TlsEngines == [flights : 0..3, sealed : Seq(Records), opened : Nat, rbio : Seq(Records),
               wbio : Seq(Records), updates : Nat, notified : BOOLEAN]

TlsTyped ==
  /\ ssl \in [Tl!Sides -> TlsEngines] /\ tcall \in [Tl!Sides -> [at : Ats, value : Nat]]
  /\ link \in [Tl!Sides -> Seq(Records)]
  /\ accepted_n \in [Tl!Sides -> Nat] /\ received \in [Tl!Sides -> Seq(Nat)]
  /\ missed \in [Tl!Sides -> Nat]

\* What the handshake leaves: the flights of a side are its first records.
FlightsOf(p) == IF p = "client" THEN 2 ELSE 1
SealedIn(p, f) == IF p = "client" THEN IF f = 0 THEN 0 ELSE IF f = 3 THEN 2 ELSE 1
                  ELSE IF f < 2 THEN 0 ELSE 1
OpenedIn(p, f) == IF p = "client" THEN IF f < 2 THEN 0 ELSE 1
                  ELSE IF f = 0 THEN 0 ELSE IF f = 3 THEN 2 ELSE 1

\* A close_notify is the last record of a side, which closes or has failed to send it.
LastWords(p, at) == at \in {"closing", "closed"} \/ (at \in {"failed", "dropped"} /\ p \in gap)

\* Side p makes its flights, then records that count what it has written.
HandshakeInv(p) ==
  LET f == ssl[p].flights  log == ssl[p].sealed  at == tcall[p].at
  IN  /\ f < 3 => Len(log) = SealedIn(p, f) /\ ssl[p].opened = OpenedIn(p, f)
      /\ Len(log) >= SealedIn(p, f)
      /\ at \notin {"none", "handshake", "failed", "dropped"} => f = 3

LogInv(p) ==
  LET log == ssl[p].sealed  at == tcall[p].at
  IN  /\ \A i \in 1..Len(log) :
           /\ log[i].value <= Tl!Plaintexts(p)
           /\ i <= FlightsOf(p) => log[i].kind = "flight"
           /\ log[i].kind = "notify" => i = Len(log) /\ LastWords(p, at)
      /\ p \notin gap =>
           /\ Clean(log, Len(log))
           /\ Val(log, Len(log)) = accepted_n[p] + (IF at = "wrote" THEN 1 ELSE 0)

CallInv(p) ==
  LET at == tcall[p].at
  IN  /\ accepted_n[p] <= Tl!Plaintexts(p)
      /\ at \in {"writing", "wrote"} =>
           tcall[p].value = accepted_n[p] + 1 /\ accepted_n[p] < Tl!Plaintexts(p)
      /\ p \in hung_up => at \in {"closed", "dropped"}

\* The records on their way to side s: as long as both sides have not lost any, all.
WayInv(s) ==
  LET o == Tl!Other(s)
      log == ssl[o].sealed  k == ssl[s].opened  r == ssl[s].rbio  l == link[s]  w == ssl[o].wbio
  IN  /\ Way(log, k, r, l, w)
      /\ s \notin hung_up /\ o \notin gap => Exact(log, k, r, l, w)
      /\ s \notin hung_up /\ o \in gap => Lossy(log, k, r, l, w)

\* The plaintexts in the order they were written, with plaintext m missing; 0 is none.
InOrder(words, m) ==
  /\ m <= Len(words) + 1
  /\ \A i \in 1..Len(words) : words[i] = i + IF m \in 1..i THEN 1 ELSE 0
Told(words, m) == IF m # 0 THEN Len(words) + 1 ELSE Len(words)

\* What side s has read is what the records it opened say.
ReadInv(s) ==
  LET o == Tl!Other(s)  v == Val(ssl[o].sealed, ssl[s].opened)  at == tcall[s].at
  IN  /\ InOrder(received[s], missed[s])
      /\ v = Told(received[s], missed[s]) + (IF at = "read_some" THEN 1 ELSE 0)
      /\ at = "read_some" => tcall[s].value = v
      /\ missed[s] # 0 => s \in gap
      /\ ssl[s].notified =>
           /\ tcall[o].at \in {"closing", "closed"} /\ ssl[o].wbio = <<>>
           /\ v = accepted_n[o]
           /\ at \notin {"none", "handshake", "read_some"}
      /\ s \in ended => ssl[s].notified /\ at \notin {"reading", "read_some"}

SideInv(p) == HandshakeInv(p) /\ LogInv(p) /\ CallInv(p) /\ WayInv(p) /\ ReadInv(p)
TlsInv == TlsTyped /\ \A p \in Tl!Sides : SideInv(p)

\* Each side has one other.
LEMMA TwoSides ==
  ASSUME NEW p \in Tl!Sides
  PROVE  /\ Tl!Other(p) \in Tl!Sides /\ Tl!Other(p) # p /\ Tl!Other(Tl!Other(p)) = p
         /\ Tl!Sides = {p, Tl!Other(p)}
  BY DEF Tl!Sides, Tl!Other

\* What the types say of one side.
LEMMA SideTyped ==
  ASSUME TlsTyped, NEW p \in Tl!Sides
  PROVE  /\ ssl[p] \in TlsEngines /\ ssl[p].flights \in 0..3 /\ ssl[p].sealed \in Seq(Records)
         /\ ssl[p].opened \in Nat /\ ssl[p].rbio \in Seq(Records) /\ ssl[p].wbio \in Seq(Records)
         /\ ssl[p].notified \in BOOLEAN /\ Len(ssl[p].sealed) \in Nat
         /\ tcall[p] \in [at : Ats, value : Nat] /\ tcall[p].at \in Ats /\ tcall[p].value \in Nat
         /\ link[p] \in Seq(Records) /\ accepted_n[p] \in Nat /\ received[p] \in Seq(Nat)
         /\ missed[p] \in Nat /\ Told(received[p], missed[p]) \in Nat
         /\ Len(received[p]) \in Nat /\ Tl!Plaintexts(p) \in Nat
<1>1. ssl[p] \in TlsEngines /\ tcall[p] \in [at : Ats, value : Nat] /\ link[p] \in Seq(Records)
      /\ accepted_n[p] \in Nat /\ received[p] \in Seq(Nat) /\ missed[p] \in Nat
  BY DEF TlsTyped
<1>2. Tl!Plaintexts(p) \in Nat
  BY TlsAssumption DEF Tl!Plaintexts
<1>3. Told(received[p], missed[p]) \in Nat
  <2>1. Len(received[p]) \in Nat
    BY <1>1, LenProperties
  <2>2. QED
    BY <2>1 DEF Told
<1>4. QED
  BY <1>1, <1>2, <1>3, LenProperties DEF TlsEngines

\* Two engines before their handshake.
LEMMA TlsInit == Tl!Init => TlsInv
<1> SUFFICES ASSUME Tl!Init  PROVE TlsInv
  OBVIOUS
<1>1. TlsTyped
  <2>1. <<>> \in Seq(Records) /\ <<>> \in Seq(Nat)
    OBVIOUS
  <2>2. Tl!Fresh \in TlsEngines /\ Tl!NoTls \in [at : Ats, value : Nat]
    BY <2>1 DEF Tl!Fresh, Tl!NoTls, TlsEngines, Ats
  <2>3. QED
    BY <2>1, <2>2 DEF TlsTyped, Tl!Init
<1>2. ASSUME NEW p \in Tl!Sides  PROVE SideInv(p)
  <2>1. /\ ssl[p] = Tl!Fresh /\ ssl[Tl!Other(p)] = Tl!Fresh /\ tcall[p] = Tl!NoTls
        /\ link[p] = <<>> /\ accepted_n[p] = 0 /\ received[p] = <<>> /\ missed[p] = 0
        /\ hung_up = {} /\ gap = {} /\ ended = {}
    BY <1>2, TwoSides DEF Tl!Init
  <2>2. Len(<<>>) = 0 /\ 1..0 = {}
    OBVIOUS
  <2>3. Tl!Plaintexts(p) \in Nat
    BY <1>1, <1>2, SideTyped
  <2>4. HandshakeInv(p)
    BY <2>1, <2>2 DEF HandshakeInv, Tl!Fresh, Tl!NoTls, SealedIn, OpenedIn
  <2>5. LogInv(p) /\ CallInv(p)
    BY <2>1, <2>2, <2>3 DEF LogInv, CallInv, Clean, Val, Tl!Fresh, Tl!NoTls
  <2>6. Way(<<>>, 0, <<>>, <<>>, <<>>) /\ Exact(<<>>, 0, <<>>, <<>>, <<>>)
    BY <2>2 DEF Way, Exact, Logged, Numbered
  <2>7. WayInv(p)
    BY <2>1, <2>6 DEF WayInv, Tl!Fresh
  <2>8. ReadInv(p)
    BY <2>1, <2>2 DEF ReadInv, InOrder, Told, Val, Tl!Fresh, Tl!NoTls
  <2>9. QED
    BY <2>4, <2>5, <2>7, <2>8 DEF SideInv
<1>3. QED
  BY <1>1, <1>2 DEF TlsInv

\* The invariant holds when it holds of a side and of the other.
LEMMA BothSides ==
  ASSUME NEW p \in Tl!Sides, TlsTyped', SideInv(p)', SideInv(Tl!Other(p))'
  PROVE  TlsInv'
<1>1. \A s \in Tl!Sides : s = p \/ s = Tl!Other(p)
  BY TwoSides
<1>2. QED
  BY <1>1 DEF TlsInv

\* What each part of the invariant of a side reads.
LEMMA HandshakeSame ==
  ASSUME NEW p, HandshakeInv(p), ssl'[p].flights = ssl[p].flights, ssl'[p].sealed = ssl[p].sealed,
         ssl'[p].opened = ssl[p].opened \/ ssl[p].flights = 3,
         tcall'[p].at = tcall[p].at \/ ssl[p].flights = 3 \/ tcall'[p].at \in {"none", "handshake", "failed", "dropped"}
  PROVE  HandshakeInv(p)'
  BY DEF HandshakeInv

\* A step that seals nothing keeps what is known of the records made.
LEMMA LogSame ==
  ASSUME NEW p, LogInv(p), ssl'[p].sealed = ssl[p].sealed, p \in gap' <=> p \in gap,
         LastWords(p, tcall[p].at) => LastWords(p, tcall'[p].at),
         p \notin gap => /\ accepted_n'[p] + (IF tcall'[p].at = "wrote" THEN 1 ELSE 0)
                           = accepted_n[p] + (IF tcall[p].at = "wrote" THEN 1 ELSE 0)
  PROVE  LogInv(p)'
  BY DEF LogInv, LastWords

\* A step that leaves the call of a side alone keeps what is known of it.
LEMMA CallSame ==
  ASSUME NEW p, CallInv(p), accepted_n'[p] = accepted_n[p], tcall'[p] = tcall[p], hung_up' = hung_up
  PROVE  CallInv(p)'
  BY DEF CallInv

\* A step that moves no record keeps what is known of the records on their way.
LEMMA WaySame ==
  ASSUME NEW s, WayInv(s), ssl'[Tl!Other(s)].sealed = ssl[Tl!Other(s)].sealed,
         ssl'[Tl!Other(s)].wbio = ssl[Tl!Other(s)].wbio, ssl'[s].rbio = ssl[s].rbio,
         ssl'[s].opened = ssl[s].opened, link'[s] = link[s], s \in hung_up' <=> s \in hung_up,
         Tl!Other(s) \in gap' <=> Tl!Other(s) \in gap
  PROVE  WayInv(s)'
  BY DEF WayInv

\* A step that opens nothing keeps what is known of the plaintext read.
LEMMA ReadSame ==
  ASSUME NEW s, ReadInv(s), ssl'[Tl!Other(s)].sealed = ssl[Tl!Other(s)].sealed,
         ssl'[s].opened = ssl[s].opened, ssl'[s].notified = ssl[s].notified, tcall'[s] = tcall[s],
         received'[s] = received[s], missed'[s] = missed[s], s \in gap' <=> s \in gap, s \in ended' <=> s \in ended,
         ssl[s].notified => /\ tcall'[Tl!Other(s)].at \in {"closing", "closed"}
                            /\ ssl'[Tl!Other(s)].wbio = <<>>
                            /\ accepted_n'[Tl!Other(s)] = accepted_n[Tl!Other(s)]
  PROVE  ReadInv(s)'
  BY DEF ReadInv
-----------------------------------------------------------------------------
\* The call of a side moves on, and nothing else does.
LEMMA CallMoves ==
  ASSUME TlsInv, NEW p \in Tl!Sides, NEW c \in [at : Ats, value : Nat],
         tcall' = [tcall EXCEPT ![p] = c],
         UNCHANGED <<ssl, link, hung_up, accepted_n, received, missed, gap>>,
         tcall[p].at \notin {"closing", "closed", "read_some", "wrote", "failed", "dropped"},
         c.at \notin {"none", "read_some", "wrote"},
         c.at = "handshake" => tcall[p].at = "none",
         c.at \in {"handshake", "failed"} \/ ssl[p].flights = 3,
         c.at = "writing" => c.value = accepted_n[p] + 1 /\ accepted_n[p] < Tl!Plaintexts(p),
         \/ ended' = ended
         \/ ended' = ended \cup {p} /\ ssl[p].notified /\ c.at = "open",
         p \in ended => c.at # "reading"
  PROVE  TlsInv'
<1> DEFINE q == Tl!Other(p)
<1>0. TlsTyped /\ SideInv(p) /\ SideInv(q) /\ q \in Tl!Sides /\ q # p /\ Tl!Other(q) = p
  BY TwoSides DEF TlsInv
<1>1. tcall'[p] = c /\ tcall'[q] = tcall[q]
  BY <1>0 DEF TlsTyped
<1> HIDE DEF q
<1>2. TlsTyped'
  BY <1>0 DEF TlsTyped
<1>3. HandshakeInv(p)'
  BY <1>0, <1>1, HandshakeSame DEF SideInv
<1>4. LogInv(p)'
  <2>1. ~LastWords(p, tcall[p].at)
    BY DEF LastWords
  <2>2. QED
    BY <1>0, <1>1, <2>1, LogSame DEF SideInv
<1>5. CallInv(p)'
  BY <1>0, <1>1 DEF SideInv, CallInv
<1>6. WayInv(p)'
  BY <1>0, <1>1, WaySame DEF SideInv
<1>7. ReadInv(p)'
  <2>1. tcall[p].at = "none" => ~ssl[p].notified
    BY <1>0 DEF SideInv, ReadInv
  <2>2. /\ tcall[q] = tcall'[q] /\ ssl' = ssl /\ received' = received /\ missed' = missed
        /\ accepted_n' = accepted_n /\ gap' = gap
    BY <1>1
  <2>3. p \in ended' => p \in ended \/ (ssl[p].notified /\ c.at = "open")
    OBVIOUS
  <2>4. QED
    BY <1>0, <1>1, <2>1, <2>2, <2>3 DEF SideInv, ReadInv, q
<1>8. SideInv(q)'
  <2>1. ~ssl[q].notified
    BY <1>0 DEF SideInv, ReadInv
  <2>2. HandshakeInv(q)' /\ CallInv(q)' /\ WayInv(q)'
    BY <1>0, <1>1, HandshakeSame, CallSame, WaySame DEF SideInv
  <2>3. LogInv(q)'
    BY <1>0, <1>1, LogSame DEF SideInv
  <2>4. q \in ended' <=> q \in ended
    BY <1>0
  <2>5. ReadInv(q)'
    BY <1>0, <1>1, <2>1, <2>4, ReadSame DEF SideInv
  <2>6. QED
    BY <2>2, <2>3, <2>5 DEF SideInv
<1>9. QED
  BY <1>2, <1>3, <1>4, <1>5, <1>6, <1>7, <1>8, BothSides DEF SideInv, q

\* connect, the ends of the handshake and of a read, and the start of a write.
LEMMA CallSteps ==
  ASSUME TlsInv, NEW p \in Tl!Sides,
         \/ Tl!connect(p) \/ Tl!HandshakeReturns(p) \/ Tl!HandshakeFails(p) \/ Tl!UncleanEof(p)
         \/ Tl!read(p) \/ Tl!ReadsTheEnd(p) \/ Tl!ssl_io_error(p) \/ Tl!write(p)
  PROVE  TlsInv'
<1>0. TlsTyped /\ SideInv(p) /\ tcall \in [Tl!Sides -> [at : Ats, value : Nat]] /\ accepted_n[p] \in Nat
      /\ tcall[p].at \in Ats
  BY SideTyped DEF TlsInv, TlsTyped
<1>a. tcall[p].at \notin {"none", "handshake", "failed", "dropped"} => ssl[p].flights = 3
  BY <1>0 DEF SideInv, HandshakeInv
<1>b. \A a \in Ats : [tcall[p] EXCEPT !.at = a] \in [at : Ats, value : Nat]
                   /\ [tcall[p] EXCEPT !.at = a].at = a
  BY <1>0
<1>c. \A a \in Ats : Tl!Calls(p, a) => tcall' = [tcall EXCEPT ![p] = [tcall[p] EXCEPT !.at = a]]
  BY <1>0 DEF Tl!Calls
<1>1. CASE Tl!connect(p)
  <2>1. tcall' = [tcall EXCEPT ![p] = [tcall[p] EXCEPT !.at = "handshake"]]
    BY <1>1, <1>c DEF Tl!connect, Ats
  <2>2. QED
    BY <1>1, <1>b, <2>1, CallMoves DEF Tl!connect, Tl!appVars, Ats
<1>2. CASE Tl!HandshakeReturns(p)
  <2>1. tcall' = [tcall EXCEPT ![p] = [tcall[p] EXCEPT !.at = "open"]]
    BY <1>2, <1>c DEF Tl!HandshakeReturns, Ats
  <2>2. ssl[p].flights = 3
    BY <1>2 DEF Tl!HandshakeReturns, Tl!HandshakeOver, Tl!Flights
  <2>3. QED
    BY <1>2, <1>b, <2>1, <2>2, CallMoves DEF Tl!HandshakeReturns, Tl!appVars, Ats
<1>3. CASE Tl!HandshakeFails(p) \/ Tl!UncleanEof(p) \/ Tl!ssl_io_error(p)
  <2>1. tcall' = [tcall EXCEPT ![p] = [tcall[p] EXCEPT !.at = "failed"]]
    BY <1>3, <1>c DEF Tl!HandshakeFails, Tl!UncleanEof, Tl!ssl_io_error, Ats
  <2>2. /\ tcall[p].at \in {"handshake", "reading"} /\ ended' = ended
        /\ UNCHANGED <<ssl, link, hung_up, accepted_n, received, missed, gap>>
    BY <1>3 DEF Tl!HandshakeFails, Tl!UncleanEof, Tl!ssl_io_error, Tl!AfterEof, Tl!appVars
  <2>3. QED
    BY <1>b, <2>1, <2>2, CallMoves DEF Ats
<1>4. CASE Tl!read(p)
  <2>1. tcall' = [tcall EXCEPT ![p] = [tcall[p] EXCEPT !.at = "reading"]]
    BY <1>4, <1>c DEF Tl!read, Ats
  <2>2. tcall[p].at = "open" /\ p \notin ended
    BY <1>4 DEF Tl!read, Tl!Ready
  <2>3. QED
    BY <1>4, <1>a, <1>b, <2>1, <2>2, CallMoves DEF Tl!read, Tl!appVars, Ats
<1>5. CASE Tl!ReadsTheEnd(p)
  <2>1. tcall' = [tcall EXCEPT ![p] = [tcall[p] EXCEPT !.at = "open"]]
    BY <1>5, <1>c DEF Tl!ReadsTheEnd, Ats
  <2>2. tcall[p].at = "reading"
    BY <1>5 DEF Tl!ReadsTheEnd
  <2>3. QED
    BY <1>5, <1>a, <1>b, <2>1, <2>2, CallMoves DEF Tl!ReadsTheEnd, Ats
<1>6. CASE Tl!write(p)
  <2> DEFINE c == [at |-> "writing", value |-> accepted_n[p] + 1]
  <2>1. tcall' = [tcall EXCEPT ![p] = c] /\ tcall[p].at = "open" /\ accepted_n[p] < Tl!Plaintexts(p)
    BY <1>6 DEF Tl!write, Tl!Ready
  <2>2. c \in [at : Ats, value : Nat] /\ c.at = "writing" /\ c.value = accepted_n[p] + 1
    BY <1>0 DEF Ats
  <2> HIDE DEF c
  <2>3. QED
    BY <1>6, <1>a, <2>1, <2>2, CallMoves DEF Tl!write, Tl!appVars
<1>7. QED
  BY <1>1, <1>2, <1>3, <1>4, <1>5, <1>6
-----------------------------------------------------------------------------
(* TlsStream: the engines *)

Kinds == {"flight", "update", "updated", "data", "notify"}

\* What sealing a record does to an engine.
LEMMA SealedIs ==
  ASSUME NEW e \in TlsEngines, NEW c \in Kinds, NEW v \in Nat
  PROVE  LET x == [no |-> Len(e.sealed), kind |-> c, value |-> v]  f == Tl!Sealed(e, c, v)
         IN  /\ x \in Records /\ f \in TlsEngines
             /\ f.sealed = Append(e.sealed, x) /\ f.wbio = Append(e.wbio, x)
             /\ f.flights = e.flights /\ f.opened = e.opened /\ f.rbio = e.rbio
             /\ f.notified = e.notified
<1> DEFINE x == [no |-> Len(e.sealed), kind |-> c, value |-> v]
           f == Tl!Sealed(e, c, v)
<1>1. e.sealed \in Seq(Records) /\ e.wbio \in Seq(Records) /\ Len(e.sealed) \in Nat
  BY LenProperties DEF TlsEngines
<1>2. x \in Records
  BY <1>1 DEF Records, Kinds
<1>3. f = [e EXCEPT !.sealed = Append(e.sealed, x), !.wbio = Append(e.wbio, x)]
  BY DEF Tl!Sealed, TlsEngines
<1> HIDE DEF x, f
<1>4. Append(e.sealed, x) \in Seq(Records) /\ Append(e.wbio, x) \in Seq(Records)
  BY <1>1, <1>2, Added
<1>5. /\ f \in TlsEngines
      /\ f.sealed = Append(e.sealed, x) /\ f.wbio = Append(e.wbio, x)
      /\ f.flights = e.flights /\ f.opened = e.opened /\ f.rbio = e.rbio /\ f.notified = e.notified
  BY <1>3, <1>4 DEF TlsEngines
<1>6. QED
  BY <1>2, <1>5 DEF x, f

\* What opening a record does to an engine.
LEMMA OpenedIs ==
  ASSUME NEW e \in TlsEngines, e.rbio # <<>>
  PROVE  LET f == Tl!Opened(e)
         IN  /\ f \in TlsEngines /\ f.opened = e.opened + 1 /\ f.rbio = Tail(e.rbio)
             /\ f.flights = e.flights /\ f.sealed = e.sealed /\ f.wbio = e.wbio
             /\ f.notified = e.notified
<1>1. e.rbio \in Seq(Records) /\ e.opened \in Nat
  BY DEF TlsEngines
<1>2. Tail(e.rbio) \in Seq(Records) /\ e.opened + 1 \in Nat
  BY <1>1, HeadTailProperties
<1>3. Tl!Opened(e) = [e EXCEPT !.opened = e.opened + 1, !.rbio = Tail(e.rbio)]
  BY DEF Tl!Opened, TlsEngines
<1>4. QED
  BY <1>2, <1>3 DEF TlsEngines

\* A record that a side makes, as the other side sees it.
LEMMA OtherSeals ==
  ASSUME TlsInv, NEW p \in Tl!Sides, NEW x \in Records, x.no = Len(ssl[p].sealed),
         ssl'[p].sealed = Append(ssl[p].sealed, x), ssl'[p].wbio = Append(ssl[p].wbio, x),
         ssl'[Tl!Other(p)] = ssl[Tl!Other(p)], tcall'[Tl!Other(p)] = tcall[Tl!Other(p)],
         UNCHANGED <<link, hung_up, accepted_n, received, missed, ended, gap>>,
         tcall[p].at \notin {"closing", "closed"}
  PROVE  SideInv(Tl!Other(p))'
<1> DEFINE q == Tl!Other(p)
<1>0. TlsTyped /\ SideInv(q) /\ q \in Tl!Sides /\ Tl!Other(q) = p
  BY TwoSides DEF TlsInv
<1>1. /\ ssl[p].sealed \in Seq(Records) /\ ssl[p].wbio \in Seq(Records)
      /\ ssl[q].opened \in Nat /\ ssl[q].rbio \in Seq(Records) /\ link[q] \in Seq(Records)
      /\ Len(ssl[p].sealed) \in Nat
  BY <1>0, SideTyped
<1>2. ssl'[q] = ssl[q] /\ tcall'[q] = tcall[q]
  OBVIOUS
<1> HIDE DEF q
<1>3. HandshakeInv(q)' /\ CallInv(q)'
  BY <1>0, <1>2, HandshakeSame, CallSame DEF SideInv
<1>4. LogInv(q)'
  BY <1>0, <1>2, LogSame DEF SideInv
<1>5. WayInv(q)'
  <2> DEFINE log == ssl[p].sealed
             k == ssl[q].opened
             r == ssl[q].rbio
             l == link[q]
             w == ssl[p].wbio
  <2>1. /\ Way(log, k, r, l, w) => Way(Append(log, x), k, r, l, Append(w, x))
        /\ Exact(log, k, r, l, w) => Exact(Append(log, x), k, r, l, Append(w, x))
        /\ Lossy(log, k, r, l, w) => Lossy(Append(log, x), k, r, l, Append(w, x))
    BY <1>1, WaySeals
  <2>2. /\ Way(log, k, r, l, w)
        /\ q \notin hung_up /\ p \notin gap => Exact(log, k, r, l, w)
        /\ q \notin hung_up /\ p \in gap => Lossy(log, k, r, l, w)
    BY <1>0 DEF SideInv, WayInv
  <2>3. /\ ssl'[p].sealed = Append(log, x) /\ ssl'[q].opened = k /\ ssl'[q].rbio = r /\ link'[q] = l
        /\ ssl'[p].wbio = Append(w, x) /\ hung_up' = hung_up /\ gap' = gap
    BY <1>2
  <2> HIDE DEF log, k, r, l, w
  <2>4. QED
    BY <1>0, <2>1, <2>2, <2>3 DEF WayInv
<1>6. ReadInv(q)'
  <2>1. ~ssl[q].notified
    BY <1>0 DEF SideInv, ReadInv
  <2>2. ssl[q].opened <= Len(ssl[p].sealed)
    BY <1>0 DEF SideInv, WayInv, Way
  <2>3. Val(ssl'[p].sealed, ssl[q].opened) = Val(ssl[p].sealed, ssl[q].opened)
    <3>1. ssl[q].opened \in 0..Len(ssl[p].sealed)
      BY <1>1, <2>2
    <3>2. QED
      BY <1>1, <3>1, LogGrows
  <2>4. received'[q] = received[q] /\ (q \in gap' <=> q \in gap) /\ (q \in ended' <=> q \in ended)
    OBVIOUS
  <2>5. QED
    BY <1>0, <1>2, <2>1, <2>3, <2>4 DEF SideInv, ReadInv
<1>7. QED
  BY <1>3, <1>4, <1>5, <1>6 DEF SideInv, q

\* The log of the side that makes it.
LEMMA LogSeals ==
  ASSUME TlsInv, NEW p \in Tl!Sides, NEW x \in Records,
         ssl'[p].sealed = Append(ssl[p].sealed, x), UNCHANGED <<accepted_n, gap>>,
         tcall[p].at \notin {"closing", "closed", "failed", "dropped", "wrote"},
         x.kind # "data" => x.value = accepted_n[p] /\ tcall'[p].at # "wrote",
         x.kind = "data" => /\ x.value = accepted_n[p] + 1 /\ accepted_n[p] < Tl!Plaintexts(p)
                            /\ tcall'[p].at = "wrote",
         x.kind = "notify" => tcall'[p].at = "closing",
         x.kind = "flight" \/ Len(ssl[p].sealed) >= FlightsOf(p)
  PROVE  LogInv(p)'
<1> DEFINE log == ssl[p].sealed
           n == Len(ssl[p].sealed)
           new == Append(log, x)
<1>0. TlsTyped /\ SideInv(p)
  BY DEF TlsInv
<1>1. log \in Seq(Records) /\ n \in Nat /\ accepted_n[p] \in Nat /\ Tl!Plaintexts(p) \in Nat
  BY <1>0, SideTyped
<1>2. /\ Len(new) = n + 1 /\ \A i \in 1..n : new[i] = log[i]
      /\ new[n + 1] = x /\ \A i \in 1..(n + 1) : i \in 1..n \/ i = n + 1
  BY <1>1, Added
<1>3. /\ \A i \in 0..n : Val(new, i) = Val(log, i)
      /\ \A i \in 0..n : Clean(log, i) <=> Clean(new, i)
  BY <1>1, LogGrows
<1>4. ssl'[p].sealed = new
  OBVIOUS
<1>5. accepted_n[p] <= Tl!Plaintexts(p)
  BY <1>0 DEF SideInv, CallInv
<1>6. /\ \A i \in 1..n : /\ log[i].value <= Tl!Plaintexts(p)
                         /\ i <= FlightsOf(p) => log[i].kind = "flight"
                         /\ log[i].kind # "notify"
      /\ p \notin gap => Clean(log, n) /\ Val(log, n) = accepted_n[p]
  BY <1>0, <1>1 DEF SideInv, LogInv, LastWords
<1> HIDE DEF log, n, new
<1>7. x.value <= Tl!Plaintexts(p)
  BY <1>1, <1>5
<1>8. n + 1 <= FlightsOf(p) => x.kind = "flight"
  <2>1. FlightsOf(p) \in Nat
    BY DEF FlightsOf
  <2>2. QED
    BY <1>1, <2>1 DEF n
<1>9. x.kind = "notify" => tcall'[p].at = "closing"
  OBVIOUS
<1>10. \A i \in 1..(n + 1) :
         /\ new[i].value <= Tl!Plaintexts(p)
         /\ i <= FlightsOf(p) => new[i].kind = "flight"
         /\ new[i].kind = "notify" => i = n + 1 /\ tcall'[p].at = "closing"
  BY <1>2, <1>6, <1>7, <1>8, <1>9
<1>11. ASSUME p \notin gap
       PROVE  /\ Clean(new, n + 1)
              /\ Val(new, n + 1) = accepted_n[p] + (IF tcall'[p].at = "wrote" THEN 1 ELSE 0)
  <2>1. n \in 0..n /\ n + 1 # 0 /\ (n + 1) - 1 = n
    BY <1>1
  <2>2. Val(new, n) = accepted_n[p] /\ Clean(new, n) /\ Val(new, n + 1) = x.value
    BY <1>2, <1>3, <1>6, <1>11, <2>1 DEF Val
  <2>3. x.value = accepted_n[p] + (IF x.kind = "data" THEN 1 ELSE 0)
    BY <1>1
  <2>4. \A i \in 1..(n + 1) : Val(new, i) = Val(new, i - 1) + (IF new[i].kind = "data" THEN 1 ELSE 0)
    BY <1>2, <2>1, <2>2, <2>3 DEF Clean
  <2>5. QED
    BY <2>2, <2>3, <2>4 DEF Clean
<1>12. Len(ssl'[p].sealed) = n + 1
  BY <1>2, <1>4
<1>13. \A i \in 1..Len(ssl'[p].sealed) :
         /\ ssl'[p].sealed[i].value <= Tl!Plaintexts(p)
         /\ i <= FlightsOf(p) => ssl'[p].sealed[i].kind = "flight"
         /\ ssl'[p].sealed[i].kind = "notify" => i = Len(ssl'[p].sealed) /\ tcall'[p].at = "closing"
  BY <1>4, <1>10, <1>12
<1>14. p \notin gap' =>
         /\ Clean(ssl'[p].sealed, Len(ssl'[p].sealed))
         /\ Val(ssl'[p].sealed, Len(ssl'[p].sealed))
              = accepted_n'[p] + (IF tcall'[p].at = "wrote" THEN 1 ELSE 0)
  BY <1>4, <1>11, <1>12
<1>15. QED
  BY <1>13, <1>14 DEF LogInv, LastWords

\* What the record says whose turn it is.
LEMMA Counted ==
  ASSUME TlsInv, NEW p \in Tl!Sides, p \notin hung_up, ssl[p].rbio # <<>>,
         Head(ssl[p].rbio).no = ssl[p].opened
  PROVE  LET log == ssl[Tl!Other(p)].sealed  k == ssl[p].opened
         IN  /\ k < Len(log) /\ Head(ssl[p].rbio) = log[k + 1] /\ k + 1 \in 1..Len(log)
             /\ Val(log, k + 1) = Val(log, k) + (IF log[k + 1].kind = "data" THEN 1 ELSE 0)
             /\ Val(log, k + 1) = log[k + 1].value
             /\ Tl!Other(p) \in gap => k + 1 < Len(log)
<1> DEFINE q == Tl!Other(p)
           log == ssl[q].sealed
           k == ssl[p].opened
           r == ssl[p].rbio
           l == link[p]
           w == ssl[q].wbio
<1>0. TlsTyped /\ SideInv(p) /\ SideInv(q) /\ q \in Tl!Sides
  BY TwoSides DEF TlsInv
<1>1. /\ log \in Seq(Records) /\ w \in Seq(Records) /\ k \in Nat /\ r \in Seq(Records)
      /\ l \in Seq(Records) /\ Len(log) \in Nat
  BY <1>0, SideTyped
<1>2. /\ Way(log, k, r, l, w)
      /\ q \in gap => Lossy(log, k, r, l, w)
  BY <1>0 DEF SideInv, WayInv
<1>3. q \notin gap => Clean(log, Len(log))
  BY <1>0 DEF SideInv, LogInv
<1>4. r # <<>> /\ Head(r).no = k
  OBVIOUS
<1> HIDE DEF q, log, k, r, l, w
<1>5. /\ k < Len(log) /\ Head(r) = log[k + 1]
      /\ Lossy(log, k, r, l, w) => Lossy(log, k + 1, Tail(r), l, w)
  BY <1>1, <1>2, <1>4, WayOpens
<1>6. k + 1 \in 1..Len(log) /\ k + 1 # 0 /\ (k + 1) - 1 = k
  <2>1. k \in Nat /\ Len(log) \in Nat /\ k < Len(log)
    BY <1>1, <1>5, LenProperties
  <2>2. QED
    BY <2>1
<1>7. \E n \in Nat : k + 1 <= n /\ n <= Len(log) /\ (q \in gap => n < Len(log)) /\ Clean(log, n)
  <2>1. CASE q \in gap
    BY <1>1, <1>2, <1>5, <2>1 DEF Lossy
  <2>2. CASE q \notin gap
    BY <1>1, <1>3, <1>5, <2>2
  <2>3. QED
    BY <2>1, <2>2
<1>8. PICK n \in Nat : k + 1 <= n /\ n <= Len(log) /\ (q \in gap => n < Len(log)) /\ Clean(log, n)
  BY <1>7
<1>9. k + 1 \in 1..n /\ (q \in gap => k + 1 < Len(log))
  BY <1>1, <1>8
<1>10. Val(log, k + 1) = Val(log, k) + (IF log[k + 1].kind = "data" THEN 1 ELSE 0)
  BY <1>6, <1>8, <1>9 DEF Clean
<1>11. Val(log, k + 1) = log[k + 1].value
  BY <1>6 DEF Val
<1>12. QED
  BY <1>5, <1>6, <1>9, <1>10, <1>11 DEF q, log, k, r

\* The way to a side that opens a record.
LEMMA WayAfterOpening ==
  ASSUME TlsInv, NEW p \in Tl!Sides, ssl[p].rbio # <<>>, Head(ssl[p].rbio).no = ssl[p].opened,
         ssl'[p].opened = ssl[p].opened + 1, ssl'[p].rbio = Tail(ssl[p].rbio),
         ssl'[Tl!Other(p)] = ssl[Tl!Other(p)], UNCHANGED <<link, hung_up, gap>>
  PROVE  WayInv(p)'
<1> DEFINE q == Tl!Other(p)
           log == ssl[q].sealed
           k == ssl[p].opened
           r == ssl[p].rbio
           l == link[p]
           w == ssl[q].wbio
<1>0. TlsTyped /\ SideInv(p) /\ q \in Tl!Sides
  BY TwoSides DEF TlsInv
<1>1. /\ log \in Seq(Records) /\ w \in Seq(Records) /\ k \in Nat /\ r \in Seq(Records)
      /\ l \in Seq(Records) /\ r # <<>> /\ Head(r).no = k
  BY <1>0, SideTyped
<1>2. /\ Way(log, k, r, l, w)
      /\ p \notin hung_up /\ q \notin gap => Exact(log, k, r, l, w)
      /\ p \notin hung_up /\ q \in gap => Lossy(log, k, r, l, w)
  BY <1>0 DEF SideInv, WayInv
<1>3. /\ ssl'[q].sealed = log /\ ssl'[p].opened = k + 1 /\ ssl'[p].rbio = Tail(r) /\ link'[p] = l
      /\ ssl'[q].wbio = w /\ hung_up' = hung_up /\ gap' = gap
  OBVIOUS
<1> HIDE DEF log, k, r, l, w
<1>4. /\ Way(log, k + 1, Tail(r), l, w)
      /\ Exact(log, k, r, l, w) => Exact(log, k + 1, Tail(r), l, w)
      /\ Lossy(log, k, r, l, w) => Lossy(log, k + 1, Tail(r), l, w)
  BY <1>1, <1>2, WayOpens
<1>5. QED
  BY <1>2, <1>3, <1>4 DEF WayInv, q

\* A step that changes one engine and one call.
LEMMA OneSideTyped ==
  ASSUME TlsTyped, NEW p \in Tl!Sides, NEW e \in TlsEngines, ssl' = [ssl EXCEPT ![p] = e],
         NEW c \in [at : Ats, value : Nat], tcall' = [tcall EXCEPT ![p] = c],
         UNCHANGED <<link, accepted_n, received, missed>>
  PROVE  /\ TlsTyped' /\ ssl'[p] = e /\ tcall'[p] = c
         /\ ssl'[Tl!Other(p)] = ssl[Tl!Other(p)] /\ tcall'[Tl!Other(p)] = tcall[Tl!Other(p)]
  BY TwoSides DEF TlsTyped
-----------------------------------------------------------------------------
(* TlsStream: the steps *)

\* A side makes a record, in its handshake or when it is open.
LEMMA SealMoves ==
  ASSUME TlsInv, NEW p \in Tl!Sides, NEW e \in TlsEngines, NEW c \in [at : Ats, value : Nat],
         NEW x \in Records, x.no = Len(ssl[p].sealed),
         ssl' = [ssl EXCEPT ![p] = e], tcall' = [tcall EXCEPT ![p] = c],
         UNCHANGED <<link, hung_up, accepted_n, received, missed, ended, gap>>,
         e.sealed = Append(ssl[p].sealed, x), e.wbio = Append(ssl[p].wbio, x),
         e.opened = ssl[p].opened, e.rbio = ssl[p].rbio, e.notified = ssl[p].notified,
         tcall[p].at \in {"handshake", "open", "writing"},
         c.at \in {"handshake", "open", "wrote", "closing"},
         c.at = "handshake" => tcall[p].at = "handshake",
         \/ ssl[p].flights = 3 /\ e.flights = 3
         \/ /\ ssl[p].flights < 3 /\ e.flights = ssl[p].flights + 1 /\ c.at = "handshake"
            /\ x.kind = "flight" /\ SealedIn(p, e.flights) = SealedIn(p, ssl[p].flights) + 1
            /\ OpenedIn(p, e.flights) = OpenedIn(p, ssl[p].flights) \/ e.flights = 3,
         x.kind # "data" => x.value = accepted_n[p] /\ c.at # "wrote",
         x.kind = "data" => /\ x.value = accepted_n[p] + 1 /\ accepted_n[p] < Tl!Plaintexts(p)
                            /\ c.at = "wrote" /\ c.value = accepted_n[p] + 1,
         x.kind = "notify" => c.at = "closing"
  PROVE  TlsInv'
<1> DEFINE q == Tl!Other(p)
<1>0. TlsTyped /\ SideInv(p) /\ q \in Tl!Sides /\ q # p
  BY TwoSides DEF TlsInv
<1>1. /\ TlsTyped' /\ ssl'[p] = e /\ tcall'[p] = c /\ ssl'[q] = ssl[q] /\ tcall'[q] = tcall[q]
  <2>1. TlsTyped'
    BY <1>0 DEF TlsTyped
  <2>2. ssl'[p] = e /\ tcall'[p] = c /\ ssl'[q] = ssl[q] /\ tcall'[q] = tcall[q]
    BY <1>0 DEF TlsTyped
  <2>3. QED
    BY <2>1, <2>2
<1>2. ssl[p].flights \in 0..3 /\ Len(ssl[p].sealed) \in Nat /\ Len(e.sealed) = Len(ssl[p].sealed) + 1
  BY <1>0, SideTyped, Added
<1>3. HandshakeInv(p)'
  <2>1. /\ ssl[p].flights < 3 =>
             Len(ssl[p].sealed) = SealedIn(p, ssl[p].flights) /\ ssl[p].opened = OpenedIn(p, ssl[p].flights)
        /\ Len(ssl[p].sealed) >= SealedIn(p, ssl[p].flights)
    BY <1>0 DEF SideInv, HandshakeInv
  <2>2. SealedIn(p, 3) \in Nat
    BY DEF SealedIn
  <2>3. CASE ssl[p].flights = 3 /\ e.flights = 3
    BY <1>1, <1>2, <2>1, <2>2, <2>3 DEF HandshakeInv
  <2>4. CASE /\ ssl[p].flights < 3 /\ e.flights = ssl[p].flights + 1 /\ c.at = "handshake"
             /\ SealedIn(p, e.flights) = SealedIn(p, ssl[p].flights) + 1
             /\ OpenedIn(p, e.flights) = OpenedIn(p, ssl[p].flights) \/ e.flights = 3
    <3>1. Len(e.sealed) = SealedIn(p, e.flights) /\ (e.flights < 3 => e.opened = OpenedIn(p, e.flights))
      BY <1>2, <2>1, <2>4
    <3>2. Len(e.sealed) >= SealedIn(p, e.flights)
      BY <1>2, <3>1
    <3>3. QED
      BY <1>1, <2>4, <3>1, <3>2 DEF HandshakeInv
  <2>5. QED
    BY <2>3, <2>4
<1>4. LogInv(p)'
  <2>1. x.kind = "flight" \/ Len(ssl[p].sealed) >= FlightsOf(p)
    <3>1. ssl[p].flights = 3 => Len(ssl[p].sealed) >= FlightsOf(p)
      BY <1>0 DEF SideInv, HandshakeInv, FlightsOf, SealedIn
    <3>2. QED
      BY <3>1
  <2>2. QED
    BY <1>1, <2>1, LogSeals
<1>5. CallInv(p)'
  <2>1. c.at \in {"writing", "wrote"} => c.value = accepted_n[p] + 1 /\ accepted_n[p] < Tl!Plaintexts(p)
    OBVIOUS
  <2>2. p \notin hung_up
    BY <1>0 DEF SideInv, CallInv
  <2>3. QED
    BY <1>0, <1>1, <2>1, <2>2 DEF SideInv, CallInv
<1>6. WayInv(p)'
  BY <1>0, <1>1, WaySame DEF SideInv
<1>7. ReadInv(p)'
  <2>1. /\ ssl'[q] = ssl[q] /\ tcall'[q] = tcall[q] /\ ssl'[p].opened = ssl[p].opened
        /\ ssl'[p].notified = ssl[p].notified /\ tcall'[p].at = c.at
    BY <1>1
  <2>2. tcall[p].at = "handshake" => ~ssl[p].notified
    BY <1>0 DEF SideInv, ReadInv
  <2>3. QED
    BY <1>0, <2>1, <2>2 DEF SideInv, ReadInv
<1>8. SideInv(q)'
  BY <1>1, OtherSeals
<1>9. QED
  BY <1>1, <1>3, <1>4, <1>5, <1>6, <1>7, <1>8, BothSides DEF SideInv

\* The counters of an engine.
LEMMA EngineSteps ==
  ASSUME NEW g \in TlsEngines
  PROVE  /\ LET e == [g EXCEPT !.updates = @ + 1]
            IN  /\ e \in TlsEngines /\ e.sealed = g.sealed /\ e.wbio = g.wbio /\ e.flights = g.flights
                /\ e.opened = g.opened /\ e.rbio = g.rbio /\ e.notified = g.notified
         /\ g.flights < 3 =>
              LET e == [g EXCEPT !.flights = @ + 1]
              IN  /\ e \in TlsEngines /\ e.sealed = g.sealed /\ e.wbio = g.wbio /\ e.flights = g.flights + 1
                  /\ e.opened = g.opened /\ e.rbio = g.rbio /\ e.notified = g.notified
<1>1. g.updates + 1 \in Nat /\ g.flights \in 0..3
  BY DEF TlsEngines
<1>2. g.flights < 3 => g.flights + 1 \in 0..3
  BY <1>1
<1>3. /\ [g EXCEPT !.updates = @ + 1] = [g EXCEPT !.updates = g.updates + 1]
      /\ [g EXCEPT !.flights = @ + 1] = [g EXCEPT !.flights = g.flights + 1]
  BY DEF TlsEngines
<1>4. QED
  BY <1>1, <1>2, <1>3 DEF TlsEngines

\* A call that is left alone, as an assignment.
LEMMA Unchanging ==
  ASSUME TlsTyped, NEW p \in Tl!Sides, UNCHANGED tcall
  PROVE  tcall' = [tcall EXCEPT ![p] = tcall[p]]
  BY DEF TlsTyped

\* A call that goes on, as an assignment.
LEMMA CallsAt ==
  ASSUME TlsTyped, NEW p \in Tl!Sides, NEW a \in Ats, Tl!Calls(p, a)
  PROVE  LET c == [tcall[p] EXCEPT !.at = a]
         IN  /\ c \in [at : Ats, value : Nat] /\ c.at = a /\ c.value = tcall[p].value
             /\ tcall' = [tcall EXCEPT ![p] = c]
  BY SideTyped DEF TlsTyped, Tl!Calls

\* The state of the handshake, by its flights.
LEMMA FlightTurns ==
  ASSUME NEW p \in Tl!Sides, NEW f \in 0..2
  PROVE  /\ Tl!Flights[f + 1] = p =>
              /\ SealedIn(p, f + 1) = SealedIn(p, f) + 1
              /\ OpenedIn(p, f + 1) = OpenedIn(p, f) \/ f + 1 = 3
         /\ Tl!Flights[f + 1] # p =>
              /\ SealedIn(p, f + 1) = SealedIn(p, f)
              /\ OpenedIn(p, f + 1) = OpenedIn(p, f) + 1
              /\ OpenedIn(p, f) < FlightsOf(Tl!Other(p))
<1>1. /\ Tl!Flights[1] = "client" /\ Tl!Flights[2] = "server" /\ Tl!Flights[3] = "client"
      /\ p = "client" \/ p = "server"
  BY DEF Tl!Flights, Tl!Sides
<1>2. f = 0 \/ f = 1 \/ f = 2
  OBVIOUS
<1>3. CASE f = 0
  BY <1>1, <1>3 DEF SealedIn, OpenedIn, FlightsOf, Tl!Other
<1>4. CASE f = 1
  BY <1>1, <1>4 DEF SealedIn, OpenedIn, FlightsOf, Tl!Other
<1>5. CASE f = 2
  BY <1>1, <1>5 DEF SealedIn, OpenedIn, FlightsOf, Tl!Other
<1>6. QED
  BY <1>2, <1>3, <1>4, <1>5

\* SSL_write, SSL_shutdown and a key update each seal one record.
LEMMA SideWrites ==
  ASSUME TlsInv, NEW p \in Tl!Sides, Tl!SSL_write(p) \/ Tl!shutdown(p) \/ (p = "client" /\ Tl!KeyUpdate)
  PROVE  TlsInv'
<1>0. TlsTyped /\ SideInv(p)
  BY DEF TlsInv
<1>1. /\ ssl[p] \in TlsEngines /\ tcall[p] \in [at : Ats, value : Nat] /\ accepted_n[p] \in Nat
      /\ tcall[p].value \in Nat
  BY <1>0, SideTyped
<1>2. tcall[p].at \notin {"none", "handshake", "failed", "dropped"} => ssl[p].flights = 3
  BY <1>0 DEF SideInv, HandshakeInv
<1>3. CASE Tl!SSL_write(p)
  <2> DEFINE v == tcall[p].value
             x == [no |-> Len(ssl[p].sealed), kind |-> "data", value |-> v]
             e == Tl!Sealed(ssl[p], "data", v)
             c == [tcall[p] EXCEPT !.at = "wrote"]
  <2>1. /\ x \in Records /\ e \in TlsEngines
        /\ e.sealed = Append(ssl[p].sealed, x) /\ e.wbio = Append(ssl[p].wbio, x)
        /\ e.flights = ssl[p].flights /\ e.opened = ssl[p].opened /\ e.rbio = ssl[p].rbio
        /\ e.notified = ssl[p].notified
    BY <1>1, SealedIs DEF Kinds
  <2>2. x.no = Len(ssl[p].sealed) /\ x.kind = "data" /\ x.value = v
    OBVIOUS
  <2>3. /\ c \in [at : Ats, value : Nat] /\ c.at = "wrote" /\ c.value = v
        /\ tcall' = [tcall EXCEPT ![p] = c]
    BY <1>0, <1>3, CallsAt DEF Tl!SSL_write, Ats
  <2>4. /\ ssl' = [ssl EXCEPT ![p] = e] /\ tcall[p].at = "writing"
        /\ UNCHANGED <<link, hung_up, accepted_n, received, missed, ended, gap>>
    BY <1>3 DEF Tl!SSL_write, Tl!Sets, Tl!appVars
  <2>5. v = accepted_n[p] + 1 /\ accepted_n[p] < Tl!Plaintexts(p)
    BY <1>0, <2>4 DEF SideInv, CallInv
  <2> HIDE DEF v, x, e, c
  <2>6. QED
    BY <1>2, <2>1, <2>2, <2>3, <2>4, <2>5, SealMoves
<1>4. CASE Tl!shutdown(p)
  <2> DEFINE v == accepted_n[p]
             x == [no |-> Len(ssl[p].sealed), kind |-> "notify", value |-> v]
             e == Tl!Sealed(ssl[p], "notify", v)
             c == [tcall[p] EXCEPT !.at = "closing"]
  <2>1. /\ x \in Records /\ e \in TlsEngines
        /\ e.sealed = Append(ssl[p].sealed, x) /\ e.wbio = Append(ssl[p].wbio, x)
        /\ e.flights = ssl[p].flights /\ e.opened = ssl[p].opened /\ e.rbio = ssl[p].rbio
        /\ e.notified = ssl[p].notified
    BY <1>1, SealedIs DEF Kinds
  <2>2. x.no = Len(ssl[p].sealed) /\ x.kind = "notify" /\ x.value = accepted_n[p]
    OBVIOUS
  <2>3. /\ c \in [at : Ats, value : Nat] /\ c.at = "closing"
        /\ tcall' = [tcall EXCEPT ![p] = c]
    BY <1>0, <1>4, CallsAt DEF Tl!shutdown, Ats
  <2>4. /\ ssl' = [ssl EXCEPT ![p] = e] /\ tcall[p].at = "open"
        /\ UNCHANGED <<link, hung_up, accepted_n, received, missed, ended, gap>>
    BY <1>4 DEF Tl!shutdown, Tl!Ready, Tl!Sets, Tl!appVars
  <2> HIDE DEF v, x, e, c
  <2>5. QED
    BY <1>2, <2>1, <2>2, <2>3, <2>4, SealMoves
<1>5. CASE p = "client" /\ Tl!KeyUpdate
  <2> DEFINE v == accepted_n[p]
             x == [no |-> Len(ssl[p].sealed), kind |-> "update", value |-> v]
             f == Tl!Sealed(ssl[p], "update", v)
             e == [f EXCEPT !.updates = @ + 1]
  <2>1. /\ x \in Records /\ f \in TlsEngines
        /\ f.sealed = Append(ssl[p].sealed, x) /\ f.wbio = Append(ssl[p].wbio, x)
        /\ f.flights = ssl[p].flights /\ f.opened = ssl[p].opened /\ f.rbio = ssl[p].rbio
        /\ f.notified = ssl[p].notified
    BY <1>1, SealedIs DEF Kinds
  <2>2. x.no = Len(ssl[p].sealed) /\ x.kind = "update" /\ x.value = accepted_n[p]
    OBVIOUS
  <2>3. /\ ssl' = [ssl EXCEPT ![p] = e] /\ tcall[p].at = "open" /\ UNCHANGED tcall
        /\ UNCHANGED <<link, hung_up, accepted_n, received, missed, ended, gap>>
    BY <1>5 DEF Tl!KeyUpdate, Tl!Ready, Tl!Sets, Tl!appVars
  <2>4. tcall' = [tcall EXCEPT ![p] = tcall[p]]
    BY <1>0, <2>3, Unchanging
  <2> DEFINE c == tcall[p]
  <2>c. c \in [at : Ats, value : Nat] /\ c.at = "open" /\ tcall' = [tcall EXCEPT ![p] = c]
    BY <1>1, <2>3, <2>4
  <2> HIDE DEF v, x, f
  <2>5. /\ e \in TlsEngines /\ e.sealed = f.sealed /\ e.wbio = f.wbio /\ e.flights = f.flights
        /\ e.opened = f.opened /\ e.rbio = f.rbio /\ e.notified = f.notified
    BY <2>1, EngineSteps
  <2> HIDE DEF e, c
  <2>6. ssl[p].flights = 3 /\ e.flights = 3
    BY <1>2, <2>1, <2>3, <2>5
  <2>7. /\ e.sealed = Append(ssl[p].sealed, x) /\ e.wbio = Append(ssl[p].wbio, x)
        /\ e.opened = ssl[p].opened /\ e.rbio = ssl[p].rbio /\ e.notified = ssl[p].notified
    BY <2>1, <2>5
  <2>8. ssl' = [ssl EXCEPT ![p] = e] /\ UNCHANGED <<link, hung_up, accepted_n, received, missed, ended, gap>>
    BY <2>3
  <2>9. x \in Records /\ e \in TlsEngines /\ tcall[p].at = "open"
    BY <2>1, <2>3, <2>5
  <2>10. QED
    BY <2>2, <2>c, <2>6, <2>7, <2>8, <2>9, SealMoves
<1>6. QED
  BY <1>3, <1>4, <1>5

\* A side writes a flight of the handshake, or takes the one whose turn it is.
LEMMA SideSpeaks ==
  ASSUME TlsInv, NEW p \in Tl!Sides, Tl!HandshakeSteps(p), Tl!Speaks(p)
  PROVE  TlsInv'
<1>0. TlsTyped /\ SideInv(p)
  BY DEF TlsInv
<1>1. /\ ssl[p] \in TlsEngines /\ tcall[p] \in [at : Ats, value : Nat] /\ accepted_n[p] \in Nat
      /\ ssl[p].flights \in 0..3
  BY <1>0, SideTyped
<1> DEFINE f == ssl[p].flights
           v == accepted_n[p]
           x == [no |-> Len(ssl[p].sealed), kind |-> "flight", value |-> v]
           g == Tl!Sealed(ssl[p], "flight", v)
           e == [g EXCEPT !.flights = @ + 1]
<1>2. /\ tcall[p].at = "handshake" /\ f # 3 /\ Tl!Flights[f + 1] = p
      /\ ssl' = [ssl EXCEPT ![p] = e] /\ UNCHANGED tcall
      /\ UNCHANGED <<link, hung_up, accepted_n, received, missed, ended, gap>>
  BY DEF Tl!HandshakeSteps, Tl!HandshakeOver, Tl!Speaks, Tl!Flights, Tl!Sets, Tl!appVars
<1>3. f \in 0..2 /\ f + 1 \in 0..3 /\ f < 3
  BY <1>1, <1>2
<1>4. /\ x \in Records /\ g \in TlsEngines
      /\ g.sealed = Append(ssl[p].sealed, x) /\ g.wbio = Append(ssl[p].wbio, x)
      /\ g.flights = ssl[p].flights /\ g.opened = ssl[p].opened /\ g.rbio = ssl[p].rbio
      /\ g.notified = ssl[p].notified
  BY <1>1, SealedIs DEF Kinds
<1>5. x.no = Len(ssl[p].sealed) /\ x.kind = "flight" /\ x.value = accepted_n[p]
  OBVIOUS
<1>6. tcall' = [tcall EXCEPT ![p] = tcall[p]]
  BY <1>0, <1>2, Unchanging
<1>7. /\ SealedIn(p, f + 1) = SealedIn(p, f) + 1
      /\ OpenedIn(p, f + 1) = OpenedIn(p, f) \/ f + 1 = 3
  BY <1>2, <1>3, FlightTurns
<1> DEFINE c == tcall[p]
<1>c. c \in [at : Ats, value : Nat] /\ c.at = "handshake" /\ tcall' = [tcall EXCEPT ![p] = c]
  BY <1>1, <1>2, <1>6
<1> HIDE DEF v, x, g, c
<1>8. /\ e \in TlsEngines /\ e.sealed = g.sealed /\ e.wbio = g.wbio /\ e.flights = f + 1
      /\ e.opened = g.opened /\ e.rbio = g.rbio /\ e.notified = g.notified
  BY <1>3, <1>4, EngineSteps
<1> HIDE DEF e
<1>9. /\ SealedIn(p, e.flights) = SealedIn(p, f) + 1
      /\ OpenedIn(p, e.flights) = OpenedIn(p, f) \/ e.flights = 3
  BY <1>7, <1>8
<1>10. /\ e.sealed = Append(ssl[p].sealed, x) /\ e.wbio = Append(ssl[p].wbio, x)
       /\ e.opened = ssl[p].opened /\ e.rbio = ssl[p].rbio /\ e.notified = ssl[p].notified
  BY <1>4, <1>8
<1>11. ssl' = [ssl EXCEPT ![p] = e] /\ UNCHANGED <<link, hung_up, accepted_n, received, missed, ended, gap>>
  BY <1>2
<1>12. x \in Records /\ e \in TlsEngines /\ tcall[p].at = "handshake"
  BY <1>2, <1>4, <1>8
<1>13. ssl[p].flights < 3 /\ e.flights = ssl[p].flights + 1
  BY <1>3, <1>8
<1>14. QED
  BY <1>c, <1>5, <1>9, <1>10, <1>11, <1>12, <1>13, SealMoves
-----------------------------------------------------------------------------
(* TlsStream: records are opened *)

\* What the other side knows does not change when a side opens a record.
LEMMA OtherKeeps ==
  ASSUME TlsInv, NEW p \in Tl!Sides,
         ssl'[Tl!Other(p)] = ssl[Tl!Other(p)], tcall'[Tl!Other(p)] = tcall[Tl!Other(p)],
         ssl'[p].sealed = ssl[p].sealed, ssl'[p].wbio = ssl[p].wbio,
         UNCHANGED <<link, hung_up, accepted_n, received, missed, ended, gap>>,
         tcall[p].at \notin {"closing", "closed"}
  PROVE  SideInv(Tl!Other(p))'
<1> DEFINE q == Tl!Other(p)
<1>0. TlsTyped /\ SideInv(q) /\ q \in Tl!Sides /\ Tl!Other(q) = p
  BY TwoSides DEF TlsInv
<1>1. ssl'[q] = ssl[q] /\ tcall'[q] = tcall[q]
  OBVIOUS
<1> HIDE DEF q
<1>2. HandshakeInv(q)' /\ CallInv(q)'
  BY <1>0, <1>1, HandshakeSame, CallSame DEF SideInv
<1>3. LogInv(q)'
  BY <1>0, <1>1, LogSame DEF SideInv
<1>4. WayInv(q)'
  BY <1>0, <1>1, WaySame DEF SideInv
<1>5. ~ssl[q].notified
  BY <1>0 DEF SideInv, ReadInv
<1>6. ReadInv(q)'
  BY <1>0, <1>1, <1>5, ReadSame DEF SideInv
<1>7. QED
  BY <1>2, <1>3, <1>4, <1>6 DEF SideInv, q

\* A side opens a record and makes none.
LEMMA OpenMoves ==
  ASSUME TlsInv, NEW p \in Tl!Sides, NEW e \in TlsEngines, NEW c \in [at : Ats, value : Nat],
         ssl' = [ssl EXCEPT ![p] = e], tcall' = [tcall EXCEPT ![p] = c],
         UNCHANGED <<link, hung_up, accepted_n, received, missed, ended, gap>>,
         ssl[p].rbio # <<>>, Head(ssl[p].rbio).no = ssl[p].opened,
         e.opened = ssl[p].opened + 1, e.rbio = Tail(ssl[p].rbio),
         e.sealed = ssl[p].sealed, e.wbio = ssl[p].wbio,
         tcall[p].at \in {"handshake", "reading"}, c.at \in {"handshake", "reading", "read_some"},
         HandshakeInv(p)', ReadInv(p)'
  PROVE  TlsInv'
<1> DEFINE q == Tl!Other(p)
<1>0. TlsTyped /\ SideInv(p) /\ q \in Tl!Sides /\ q # p
  BY TwoSides DEF TlsInv
<1>1. /\ TlsTyped' /\ ssl'[p] = e /\ tcall'[p] = c /\ ssl'[q] = ssl[q] /\ tcall'[q] = tcall[q]
  <2>1. TlsTyped'
    BY <1>0 DEF TlsTyped
  <2>2. ssl'[p] = e /\ tcall'[p] = c /\ ssl'[q] = ssl[q] /\ tcall'[q] = tcall[q]
    BY <1>0 DEF TlsTyped
  <2>3. QED
    BY <2>1, <2>2
<1>2. LogInv(p)'
  <2>1. ~LastWords(p, tcall[p].at)
    BY DEF LastWords
  <2>2. QED
    BY <1>0, <1>1, <2>1, LogSame DEF SideInv
<1>3. CallInv(p)'
  BY <1>0, <1>1 DEF SideInv, CallInv
<1>4. WayInv(p)'
  BY <1>1, WayAfterOpening
<1>5. SideInv(q)'
  BY <1>1, OtherKeeps
<1>6. QED
  BY <1>1, <1>2, <1>3, <1>4, <1>5, BothSides DEF SideInv

\* What a side has read, when it opens a record that is no end of the data.
LEMMA ReadOpens ==
  ASSUME TlsInv, NEW p \in Tl!Sides, ssl[p].rbio # <<>>, Head(ssl[p].rbio).no = ssl[p].opened,
         ssl'[p].opened = ssl[p].opened + 1, ssl'[Tl!Other(p)] = ssl[Tl!Other(p)],
         UNCHANGED <<received, missed, ended, gap>>, ~ssl[p].notified, ~ssl'[p].notified,
         tcall[p].at \in {"handshake", "reading"},
         \/ Head(ssl[p].rbio).kind # "data" /\ tcall'[p].at = tcall[p].at
         \/ /\ Head(ssl[p].rbio).kind = "data" /\ tcall'[p].at = "read_some"
            /\ tcall'[p].value = Head(ssl[p].rbio).value
  PROVE  ReadInv(p)'
<1> DEFINE log == ssl[Tl!Other(p)].sealed
           k == ssl[p].opened
<1>0. TlsTyped /\ SideInv(p)
  BY DEF TlsInv
<1>1. p \notin hung_up
  BY <1>0 DEF SideInv, CallInv
<1>2. /\ Head(ssl[p].rbio) = log[k + 1]
      /\ Val(log, k + 1) = Val(log, k) + (IF log[k + 1].kind = "data" THEN 1 ELSE 0)
      /\ Val(log, k + 1) = log[k + 1].value
  BY <1>1, Counted
<1>3. /\ InOrder(received[p], missed[p]) /\ (missed[p] # 0 => p \in gap)
      /\ Val(log, k) = Told(received[p], missed[p]) + 0
      /\ p \notin ended
  BY <1>0 DEF SideInv, ReadInv
<1>4. Told(received[p], missed[p]) \in Nat
  BY <1>0, SideTyped
<1>5. /\ ssl'[Tl!Other(p)].sealed = log /\ ssl'[p].opened = k + 1
      /\ received'[p] = received[p] /\ missed'[p] = missed[p] /\ (p \in gap' <=> p \in gap)
      /\ p \notin ended'
  BY <1>3
<1> HIDE DEF log, k
<1>6. CASE Head(ssl[p].rbio).kind # "data" /\ tcall'[p].at = tcall[p].at
  <2>1. Val(log, k + 1) = Told(received[p], missed[p]) + 0
    BY <1>2, <1>3, <1>4, <1>6
  <2>2. tcall'[p].at # "read_some"
    BY <1>6
  <2>3. QED
    BY <1>3, <1>5, <2>1, <2>2 DEF ReadInv
<1>7. CASE /\ Head(ssl[p].rbio).kind = "data" /\ tcall'[p].at = "read_some"
           /\ tcall'[p].value = Head(ssl[p].rbio).value
  <2>1. Val(log, k + 1) = Told(received[p], missed[p]) + 1
    BY <1>2, <1>3, <1>4, <1>7
  <2>2. tcall'[p].value = Val(log, k + 1) /\ tcall'[p].at = "read_some"
    BY <1>2, <1>7
  <2>3. QED
    BY <1>3, <1>5, <2>1, <2>2 DEF ReadInv
<1>8. QED
  BY <1>6, <1>7

\* A side takes the flight whose turn it is.
LEMMA SideTakes ==
  ASSUME TlsInv, NEW p \in Tl!Sides, Tl!HandshakeSteps(p), ~Tl!Speaks(p)
  PROVE  TlsInv'
<1> DEFINE q == Tl!Other(p)
           f == ssl[p].flights
           g == Tl!Opened(ssl[p])
           e == [g EXCEPT !.flights = @ + 1]
           c == tcall[p]
<1>0. TlsTyped /\ SideInv(p) /\ SideInv(q)
  BY TwoSides DEF TlsInv
<1>1. ssl[p] \in TlsEngines /\ c \in [at : Ats, value : Nat] /\ f \in 0..3 /\ ssl[p].opened \in Nat
  BY <1>0, SideTyped
<1>2. /\ c.at = "handshake" /\ f # 3 /\ Tl!Flights[f + 1] # p
      /\ ssl' = [ssl EXCEPT ![p] = e] /\ UNCHANGED tcall
      /\ ssl[p].rbio # <<>> /\ Head(ssl[p].rbio).no = ssl[p].opened
      /\ UNCHANGED <<link, hung_up, accepted_n, received, missed, ended, gap>>
  BY DEF Tl!HandshakeSteps, Tl!HandshakeOver, Tl!Speaks, Tl!Flights, Tl!Sets, Tl!appVars,
         Tl!HasRecord, Tl!BadRecord
<1>3. tcall' = [tcall EXCEPT ![p] = c]
  BY <1>0, <1>2, Unchanging
<1>4. f \in 0..2 /\ f < 3
  BY <1>1, <1>2
<1>5. /\ SealedIn(p, f + 1) = SealedIn(p, f)
      /\ OpenedIn(p, f + 1) = OpenedIn(p, f) + 1
      /\ OpenedIn(p, f) < FlightsOf(q)
  BY <1>2, <1>4, FlightTurns
<1>6. /\ g \in TlsEngines /\ g.opened = ssl[p].opened + 1 /\ g.rbio = Tail(ssl[p].rbio)
      /\ g.flights = f /\ g.sealed = ssl[p].sealed /\ g.wbio = ssl[p].wbio
      /\ g.notified = ssl[p].notified
  BY <1>1, <1>2, OpenedIs
<1> HIDE DEF g
<1>7. /\ e \in TlsEngines /\ e.sealed = g.sealed /\ e.wbio = g.wbio /\ e.flights = f + 1
      /\ e.opened = g.opened /\ e.rbio = g.rbio /\ e.notified = g.notified
  BY <1>4, <1>6, EngineSteps
<1> HIDE DEF e, c
<1>8. ssl'[p] = e /\ tcall'[p] = c /\ ssl'[q] = ssl[q]
  <2>1. ssl' = [ssl EXCEPT ![p] = e] /\ UNCHANGED <<link, accepted_n, received, missed>>
    BY <1>2
  <2>2. QED
    BY <1>0, <1>1, <1>3, <1>7, <2>1, OneSideTyped
<1>9. /\ Len(ssl[p].sealed) = SealedIn(p, f) /\ ssl[p].opened = OpenedIn(p, f) /\ ~ssl[p].notified
      /\ p \notin hung_up /\ SealedIn(p, f) \in Nat
  BY <1>0, <1>2, <1>4 DEF SideInv, HandshakeInv, CallInv, ReadInv, SealedIn, c
<1>10. HandshakeInv(p)'
  <2>1. Len(ssl'[p].sealed) = SealedIn(p, ssl'[p].flights) /\ ssl'[p].opened = OpenedIn(p, ssl'[p].flights)
        /\ tcall'[p].at = "handshake" /\ Len(ssl'[p].sealed) \in Nat
    BY <1>2, <1>5, <1>6, <1>7, <1>8, <1>9
  <2>2. SealedIn(p, ssl'[p].flights) <= Len(ssl'[p].sealed)
    BY <2>1
  <2>3. QED
    BY <2>1, <2>2 DEF HandshakeInv
<1>11. Head(ssl[p].rbio).kind = "flight"
  <2>1. /\ Head(ssl[p].rbio) = ssl[q].sealed[ssl[p].opened + 1]
        /\ ssl[p].opened + 1 \in 1..Len(ssl[q].sealed)
    BY <1>2, <1>9, Counted
  <2>2. ssl[p].opened + 1 <= FlightsOf(q)
    BY <1>1, <1>5, <1>9 DEF FlightsOf
  <2>3. QED
    BY <1>0, <2>1, <2>2 DEF SideInv, LogInv
<1>12. ReadInv(p)'
  <2>1. ssl'[p].opened = ssl[p].opened + 1 /\ ~ssl'[p].notified /\ tcall'[p].at = tcall[p].at
        /\ Head(ssl[p].rbio).kind # "data" /\ tcall[p].at = "handshake"
    BY <1>2, <1>6, <1>7, <1>8, <1>9, <1>11 DEF c
  <2>2. QED
    BY <1>2, <1>8, <1>9, <2>1, ReadOpens
<1>13. /\ e.opened = ssl[p].opened + 1 /\ e.rbio = Tail(ssl[p].rbio)
       /\ e.sealed = ssl[p].sealed /\ e.wbio = ssl[p].wbio
  BY <1>6, <1>7
<1>14. tcall[p].at = "handshake" /\ c.at = "handshake" /\ e \in TlsEngines /\ c \in [at : Ats, value : Nat]
  BY <1>1, <1>2, <1>7 DEF c
<1>15. /\ ssl' = [ssl EXCEPT ![p] = e] /\ ssl[p].rbio # <<>> /\ Head(ssl[p].rbio).no = ssl[p].opened
       /\ UNCHANGED <<link, hung_up, accepted_n, received, missed, ended, gap>>
  BY <1>2
<1>16. QED
  BY <1>3, <1>10, <1>12, <1>13, <1>14, <1>15, OpenMoves
-----------------------------------------------------------------------------
(* TlsStream: SSL_read *)

\* The record whose turn it is is a close_notify: the other side is closing and its data is complete.
LEMMA EndIsRead ==
  ASSUME TlsInv, NEW p \in Tl!Sides, p \notin hung_up, ssl[p].rbio # <<>>,
         Head(ssl[p].rbio).no = ssl[p].opened, Head(ssl[p].rbio).kind = "notify"
  PROVE  LET q == Tl!Other(p)
         IN  /\ tcall[q].at \in {"closing", "closed"} /\ ssl[q].wbio = <<>>
             /\ Val(ssl[q].sealed, ssl[p].opened + 1) = accepted_n[q]
             /\ Val(ssl[q].sealed, ssl[p].opened + 1) = Val(ssl[q].sealed, ssl[p].opened) + 0
<1> DEFINE q == Tl!Other(p)
           log == ssl[q].sealed
           k == ssl[p].opened
           r == ssl[p].rbio
           l == link[p]
           w == ssl[q].wbio
<1>0. TlsTyped /\ SideInv(p) /\ SideInv(q) /\ q \in Tl!Sides
  BY TwoSides DEF TlsInv
<1>1. /\ log \in Seq(Records) /\ w \in Seq(Records) /\ k \in Nat /\ r \in Seq(Records)
      /\ l \in Seq(Records) /\ Len(log) \in Nat /\ accepted_n[q] \in Nat
  BY <1>0, SideTyped
<1>2. Len(r) \in Nat /\ Len(l) \in Nat /\ Len(w) \in Nat /\ Len(r) >= 1
  BY <1>1, EmptySeq, LenProperties
<1>3. /\ Head(r) = log[k + 1] /\ k + 1 \in 1..Len(log)
      /\ Val(log, k + 1) = Val(log, k) + (IF log[k + 1].kind = "data" THEN 1 ELSE 0)
      /\ q \in gap => k + 1 < Len(log)
  BY Counted
<1>4. k + 1 = Len(log) /\ LastWords(q, tcall[q].at)
  BY <1>0, <1>3 DEF SideInv, LogInv
<1>5. q \notin gap /\ tcall[q].at \in {"closing", "closed"}
  <2>1. q \notin gap
    BY <1>3, <1>4, <1>1
  <2>2. QED
    BY <1>4, <2>1 DEF LastWords
<1>6. Len(log) = k + Len(r) + Len(l) + Len(w)
  BY <1>0, <1>5 DEF SideInv, WayInv, Exact
<1>8. Val(log, Len(log)) = accepted_n[q] + 0
  BY <1>0, <1>5 DEF SideInv, LogInv
<1>9. Val(log, k + 1) = Val(log, k) + 0
  BY <1>3
<1>a. k + 1 = Len(log)
  BY <1>4
<1> HIDE DEF log, k, r, l, w
<1>7. w = <<>>
  <2>1. Len(w) = 0
    BY <1>1, <1>2, <1>a, <1>6
  <2>2. QED
    BY <1>1, <2>1, EmptySeq
<1>10. Val(log, k + 1) = accepted_n[q]
  BY <1>1, <1>a, <1>8
<1>11. QED
  BY <1>5, <1>7, <1>9, <1>10 DEF log, k, w

\* A key update is opened and answered.
LEMMA UpdateAnswered ==
  ASSUME TlsInv, NEW p \in Tl!Sides, tcall[p].at = "reading", ~ssl[p].notified,
         ssl[p].rbio # <<>>, Head(ssl[p].rbio).no = ssl[p].opened, Head(ssl[p].rbio).kind = "update",
         ssl' = [ssl EXCEPT ![p] = Tl!Sealed(Tl!Opened(ssl[p]), "updated", accepted_n[p])],
         UNCHANGED <<tcall, link, hung_up, accepted_n, received, missed, ended, gap>>
  PROVE  TlsInv'
<1> DEFINE q == Tl!Other(p)
           v == accepted_n[p]
           g == Tl!Opened(ssl[p])
           x == [no |-> Len(g.sealed), kind |-> "updated", value |-> v]
           e == Tl!Sealed(g, "updated", v)
<1>0. TlsTyped /\ SideInv(p) /\ q \in Tl!Sides /\ q # p
  BY TwoSides DEF TlsInv
<1>1. /\ ssl[p] \in TlsEngines /\ v \in Nat
      /\ ssl[p].sealed \in Seq(Records) /\ Len(ssl[p].sealed) \in Nat
  BY <1>0, SideTyped
<1>2. /\ g \in TlsEngines /\ g.opened = ssl[p].opened + 1 /\ g.rbio = Tail(ssl[p].rbio)
      /\ g.flights = ssl[p].flights /\ g.sealed = ssl[p].sealed /\ g.wbio = ssl[p].wbio
      /\ g.notified = ssl[p].notified
  BY <1>1, OpenedIs
<1> HIDE DEF g
<1>3. /\ x \in Records /\ e \in TlsEngines /\ e.sealed = Append(g.sealed, x) /\ e.wbio = Append(g.wbio, x)
      /\ e.flights = g.flights /\ e.opened = g.opened /\ e.rbio = g.rbio /\ e.notified = g.notified
  BY <1>1, <1>2, SealedIs DEF Kinds
<1>4. x.no = Len(ssl[p].sealed) /\ x.kind = "updated" /\ x.value = accepted_n[p]
  BY <1>2
<1>5. ssl' = [ssl EXCEPT ![p] = e]
  BY DEF g
<1> HIDE DEF x, e
<1>7. TlsTyped' /\ ssl'[p] = e /\ ssl'[q] = ssl[q]
  BY <1>0, <1>3, <1>5 DEF TlsTyped
<1>8. /\ ssl'[p].sealed = Append(ssl[p].sealed, x) /\ ssl'[p].wbio = Append(ssl[p].wbio, x)
      /\ ssl'[p].opened = ssl[p].opened + 1 /\ ssl'[p].rbio = Tail(ssl[p].rbio)
      /\ ssl'[p].flights = ssl[p].flights /\ ssl'[p].notified = ssl[p].notified
  BY <1>2, <1>3, <1>7
<1>9. ssl[p].flights = 3 /\ Len(ssl[p].sealed) >= SealedIn(p, 3) /\ SealedIn(p, 3) \in Nat
  BY <1>0 DEF SideInv, HandshakeInv, SealedIn
<1>10. HandshakeInv(p)'
  <2>1. Len(ssl'[p].sealed) >= SealedIn(p, 3)
    BY <1>1, <1>3, <1>8, <1>9, Added
  <2>2. QED
    BY <1>8, <1>9, <2>1 DEF HandshakeInv
<1>11. LogInv(p)'
  <2>1. Len(ssl[p].sealed) >= FlightsOf(p)
    BY <1>9 DEF FlightsOf, SealedIn
  <2>2. QED
    BY <1>3, <1>4, <1>8, <2>1, LogSeals
<1>12. CallInv(p)'
  BY <1>0, CallSame DEF SideInv
<1>13. WayInv(p)'
  BY <1>7, <1>8, WayAfterOpening
<1>14. ReadInv(p)'
  BY <1>7, <1>8, ReadOpens
<1>15. SideInv(q)'
  BY <1>3, <1>4, <1>7, <1>8, OtherSeals
<1>16. QED
  BY <1>7, <1>10, <1>11, <1>12, <1>13, <1>14, <1>15, BothSides DEF SideInv

\* SSL_read opens one record: plaintext, a key update, its answer or the close.
LEMMA SideReads ==
  ASSUME TlsInv, NEW p \in Tl!Sides, Tl!SSL_read(p)
  PROVE  TlsInv'
<1> DEFINE q == Tl!Other(p)
           g == Tl!Opened(ssl[p])
<1>0. TlsTyped /\ SideInv(p) /\ q \in Tl!Sides /\ q # p
  BY TwoSides DEF TlsInv
<1>1. ssl[p] \in TlsEngines /\ tcall[p] \in [at : Ats, value : Nat] /\ ssl[p].rbio \in Seq(Records)
  BY <1>0, SideTyped
<1>2. /\ tcall[p].at = "reading" /\ ssl[p].rbio # <<>> /\ Head(ssl[p].rbio).no = ssl[p].opened
      /\ ~ssl[p].notified /\ UNCHANGED <<link, hung_up, accepted_n, received, missed, ended, gap>>
  BY DEF Tl!SSL_read, Tl!HasRecord, Tl!BadRecord, Tl!appVars
<1>3. /\ g \in TlsEngines /\ g.opened = ssl[p].opened + 1 /\ g.rbio = Tail(ssl[p].rbio)
      /\ g.flights = ssl[p].flights /\ g.sealed = ssl[p].sealed /\ g.wbio = ssl[p].wbio
      /\ g.notified = ssl[p].notified
  BY <1>1, <1>2, OpenedIs
<1>4. ssl[p].flights = 3 /\ p \notin hung_up
  BY <1>0, <1>2 DEF SideInv, HandshakeInv, CallInv
<1>5. /\ Head(ssl[p].rbio) \in Records /\ Head(ssl[p].rbio).value \in Nat
  <2>1. Len(ssl[p].rbio) >= 1 /\ Head(ssl[p].rbio) = ssl[p].rbio[1] /\ Len(ssl[p].rbio) \in Nat
    BY <1>1, <1>2
  <2>2. ssl[p].rbio[1] \in Records
    BY <1>1, <2>1, ElementOfSeq
  <2>3. QED
    BY <2>1, <2>2 DEF Records
<1> HIDE DEF g
<1>6. CASE Head(ssl[p].rbio).kind = "update"
           /\ ssl' = [ssl EXCEPT ![p] = Tl!Sealed(g, "updated", accepted_n[p])] /\ UNCHANGED tcall
  <2>1. UNCHANGED <<tcall, link, hung_up, accepted_n, received, missed, ended, gap>>
    BY <1>2, <1>6
  <2>2. ssl' = [ssl EXCEPT ![p] = Tl!Sealed(Tl!Opened(ssl[p]), "updated", accepted_n[p])]
    BY <1>6 DEF g
  <2>3. QED
    BY <1>2, <1>6, <2>1, <2>2, UpdateAnswered
<1>7. CASE Head(ssl[p].rbio).kind = "updated" /\ ssl' = [ssl EXCEPT ![p] = g] /\ UNCHANGED tcall
  <2> DEFINE c == tcall[p]
  <2>1. tcall' = [tcall EXCEPT ![p] = c]
    BY <1>0, <1>7, Unchanging
  <2>2. ssl' = [ssl EXCEPT ![p] = g] /\ c \in [at : Ats, value : Nat] /\ c.at = "reading"
    BY <1>1, <1>2, <1>7
  <2> HIDE DEF c
  <2>3. ssl'[p] = g /\ tcall'[p] = c /\ ssl'[q] = ssl[q]
    BY <1>0, <2>1, <2>2 DEF TlsTyped
  <2>4. HandshakeInv(p)'
    BY <1>0, <1>3, <1>4, <2>3, HandshakeSame DEF SideInv
  <2>5. ReadInv(p)'
    BY <1>2, <1>3, <1>7, <2>2, <2>3, ReadOpens
  <2>6. QED
    BY <1>2, <1>3, <2>1, <2>2, <2>4, <2>5, OpenMoves
<1>8. CASE /\ Head(ssl[p].rbio).kind = "data" /\ ssl' = [ssl EXCEPT ![p] = g]
           /\ tcall' = [tcall EXCEPT ![p] = [at |-> "read_some", value |-> Head(ssl[p].rbio).value]]
  <2> DEFINE c == [at |-> "read_some", value |-> Head(ssl[p].rbio).value]
  <2>1. tcall' = [tcall EXCEPT ![p] = c] /\ ssl' = [ssl EXCEPT ![p] = g]
    BY <1>8
  <2>2. c \in [at : Ats, value : Nat] /\ c.at = "read_some" /\ c.value = Head(ssl[p].rbio).value
    BY <1>5 DEF Ats
  <2> HIDE DEF c
  <2>3. ssl'[p] = g /\ tcall'[p] = c /\ ssl'[q] = ssl[q]
    BY <1>0, <2>1 DEF TlsTyped
  <2>4. HandshakeInv(p)'
    BY <1>0, <1>3, <1>4, <2>3, HandshakeSame DEF SideInv
  <2>5. ReadInv(p)'
    BY <1>2, <1>3, <1>8, <2>2, <2>3, ReadOpens
  <2>6. QED
    BY <1>2, <1>3, <2>1, <2>2, <2>4, <2>5, OpenMoves
<1>9. CASE /\ Head(ssl[p].rbio).kind = "notify" /\ ssl' = [ssl EXCEPT ![p] = [g EXCEPT !.notified = TRUE]]
           /\ UNCHANGED tcall
  <2> DEFINE c == tcall[p]
             e == [g EXCEPT !.notified = TRUE]
  <2>1. tcall' = [tcall EXCEPT ![p] = c]
    BY <1>0, <1>9, Unchanging
  <2>2. /\ e \in TlsEngines /\ e.opened = g.opened /\ e.rbio = g.rbio /\ e.flights = g.flights
        /\ e.sealed = g.sealed /\ e.wbio = g.wbio /\ e.notified = TRUE
    BY <1>3 DEF TlsEngines
  <2>3. ssl' = [ssl EXCEPT ![p] = e] /\ c \in [at : Ats, value : Nat] /\ c.at = "reading"
    BY <1>1, <1>2, <1>9
  <2> HIDE DEF c, e
  <2>4. ssl'[p] = e /\ tcall'[p] = c /\ ssl'[q] = ssl[q] /\ tcall'[q] = tcall[q]
    BY <1>0, <2>1, <2>3 DEF TlsTyped
  <2>5. HandshakeInv(p)'
    BY <1>0, <1>3, <1>4, <2>2, <2>4, HandshakeSame DEF SideInv
  <2>6. ReadInv(p)'
    <3> DEFINE v == Val(ssl[q].sealed, ssl[p].opened)
               w == Val(ssl[q].sealed, ssl[p].opened + 1)
    <3>1. tcall[q].at \in {"closing", "closed"} /\ ssl[q].wbio = <<>> /\ w = accepted_n[q] /\ w = v + 0
      BY <1>2, <1>4, <1>9, EndIsRead
    <3>2. /\ InOrder(received[p], missed[p]) /\ (missed[p] # 0 => p \in gap)
          /\ v = Told(received[p], missed[p]) + 0
          /\ p \notin ended
      BY <1>0, <1>2 DEF SideInv, ReadInv
    <3>3. Told(received[p], missed[p]) \in Nat
      BY <1>0, SideTyped
    <3>4. w = Told(received[p], missed[p]) + 0
      BY <3>1, <3>2, <3>3
    <3>5. /\ w = Val(ssl'[q].sealed, ssl'[p].opened) /\ received'[p] = received[p]
          /\ missed'[p] = missed[p] /\ gap' = gap /\ p \notin ended' /\ tcall'[p].at = "reading" /\ accepted_n'[q] = accepted_n[q]
      BY <1>2, <1>3, <2>2, <2>3, <2>4, <3>2
    <3> HIDE DEF w, v
    <3>6. /\ InOrder(received'[p], missed'[p]) /\ (missed'[p] # 0 => p \in gap')
          /\ w = Told(received'[p], missed'[p]) + 0
          /\ tcall'[q].at \in {"closing", "closed"} /\ ssl'[q].wbio = <<>> /\ w = accepted_n'[q]
      BY <2>4, <3>1, <3>2, <3>4, <3>5
    <3>7. QED
      BY <3>5, <3>6 DEF ReadInv, q
  <2>7. /\ e.opened = ssl[p].opened + 1 /\ e.rbio = Tail(ssl[p].rbio)
        /\ e.sealed = ssl[p].sealed /\ e.wbio = ssl[p].wbio
    BY <1>3, <2>2
  <2>8. QED
    BY <1>2, <2>1, <2>2, <2>3, <2>5, <2>6, <2>7, OpenMoves
<1>10. QED
  BY <1>6, <1>7, <1>8, <1>9 DEF Tl!SSL_read, Tl!Kind, Tl!Sets, g
-----------------------------------------------------------------------------
(* TlsStream: records are carried *)

\* A side that reads, returns or hangs up: what the other side knows of it does not change.
LEMMA OtherStays ==
  ASSUME TlsInv, NEW p \in Tl!Sides,
         ssl'[Tl!Other(p)] = ssl[Tl!Other(p)], tcall'[Tl!Other(p)] = tcall[Tl!Other(p)],
         link'[Tl!Other(p)] = link[Tl!Other(p)], accepted_n'[Tl!Other(p)] = accepted_n[Tl!Other(p)],
         received'[Tl!Other(p)] = received[Tl!Other(p)], missed'[Tl!Other(p)] = missed[Tl!Other(p)],
         UNCHANGED <<ended, gap>>, hung_up' = hung_up \/ hung_up' = hung_up \cup {p},
         ssl'[p].sealed = ssl[p].sealed, ssl'[p].wbio = ssl[p].wbio,
         tcall[p].at \in {"closing", "closed"} =>
           tcall'[p].at \in {"closing", "closed"} /\ accepted_n'[p] = accepted_n[p]
  PROVE  SideInv(Tl!Other(p))'
<1> DEFINE q == Tl!Other(p)
<1>0. TlsTyped /\ SideInv(q) /\ q \in Tl!Sides /\ Tl!Other(q) = p /\ q # p
  BY TwoSides DEF TlsInv
<1>1. /\ ssl'[q] = ssl[q] /\ tcall'[q] = tcall[q] /\ link'[q] = link[q]
      /\ accepted_n'[q] = accepted_n[q] /\ received'[q] = received[q] /\ missed'[q] = missed[q]
  OBVIOUS
<1>2. q \in hung_up' <=> q \in hung_up
  BY <1>0
<1> HIDE DEF q
<1>3. HandshakeInv(q)' /\ CallInv(q)'
  BY <1>0, <1>1, <1>2, HandshakeSame DEF SideInv, CallInv
<1>4. LogInv(q)'
  BY <1>0, <1>1, LogSame DEF SideInv
<1>5. WayInv(q)'
  BY <1>0, <1>1, <1>2, WaySame DEF SideInv
<1>6. ssl[q].notified => tcall[p].at \in {"closing", "closed"} /\ ssl[p].wbio = <<>>
  BY <1>0 DEF SideInv, ReadInv
<1>7. ReadInv(q)'
  BY <1>0, <1>1, <1>6, ReadSame DEF SideInv
<1>8. QED
  BY <1>3, <1>4, <1>5, <1>7 DEF SideInv, q

\* All records of the write BIO go out.
LEMMA SideFlushes ==
  ASSUME TlsInv, NEW p \in Tl!Sides, Tl!flush_write_bio(p)
  PROVE  TlsInv'
<1> DEFINE q == Tl!Other(p)
           e == [ssl[p] EXCEPT !.wbio = <<>>]
           log == ssl[p].sealed
           k == ssl[q].opened
           r == ssl[q].rbio
           l == link[q]
           w == ssl[p].wbio
<1>0. TlsTyped /\ SideInv(p) /\ SideInv(q) /\ q \in Tl!Sides /\ q # p /\ Tl!Other(q) = p
  BY TwoSides DEF TlsInv
<1>1. /\ log \in Seq(Records) /\ w \in Seq(Records) /\ k \in Nat /\ r \in Seq(Records)
      /\ l \in Seq(Records) /\ ssl[p] \in TlsEngines
  BY <1>0, SideTyped
<1>2. /\ ssl' = [ssl EXCEPT ![p] = e]
      /\ link' = IF q \in hung_up THEN link ELSE [link EXCEPT ![q] = l \o w]
      /\ UNCHANGED <<tcall, hung_up, accepted_n, received, missed, ended, gap>>
  <2>1. SubSeq(w, 1, Len(w)) = w
    BY <1>1, SubSeqFull
  <2>2. link' = IF q \in hung_up THEN link ELSE [link EXCEPT ![q] = @ \o SubSeq(w, 1, Len(w))]
    BY DEF Tl!flush_write_bio, Tl!Sends
  <2>3. QED
    BY <1>0, <2>1, <2>2 DEF Tl!flush_write_bio, Tl!Sets, Tl!appVars, TlsTyped
<1>3. /\ e \in TlsEngines /\ e.wbio = <<>> /\ e.sealed = log /\ e.flights = ssl[p].flights
      /\ e.opened = ssl[p].opened /\ e.rbio = ssl[p].rbio /\ e.notified = ssl[p].notified
  <2>1. <<>> \in Seq(Records)
    OBVIOUS
  <2>2. QED
    BY <1>1, <2>1 DEF TlsEngines
<1>4. l \o w \in Seq(Records)
  BY <1>1, Joined
<1> HIDE DEF e
<1>5. ssl'[p] = e /\ ssl'[q] = ssl[q] /\ link'[p] = link[p]
  BY <1>0, <1>2 DEF TlsTyped
<1>6. TlsTyped'
  BY <1>0, <1>2, <1>3, <1>4 DEF TlsTyped
<1>7. HandshakeInv(p)' /\ LogInv(p)' /\ CallInv(p)' /\ WayInv(p)' /\ ReadInv(p)'
  <2>1. HandshakeInv(p)' /\ LogInv(p)'
    BY <1>0, <1>2, <1>3, <1>5, HandshakeSame, LogSame DEF SideInv
  <2>2. CallInv(p)' /\ WayInv(p)'
    BY <1>0, <1>2, <1>3, <1>5, CallSame, WaySame DEF SideInv
  <2>3. ssl[p].notified => tcall[q].at \in {"closing", "closed"} /\ ssl[q].wbio = <<>>
    BY <1>0 DEF SideInv, ReadInv
  <2>4. ReadInv(p)'
    BY <1>0, <1>2, <1>3, <1>5, <2>3, ReadSame DEF SideInv
  <2>5. QED
    BY <2>1, <2>2, <2>4
<1>8. HandshakeInv(q)' /\ LogInv(q)' /\ CallInv(q)'
  BY <1>0, <1>2, <1>5, HandshakeSame, LogSame, CallSame DEF SideInv
<1>9. WayInv(q)'
  <2>1. /\ Way(log, k, r, l, w)
        /\ q \notin hung_up /\ p \notin gap => Exact(log, k, r, l, w)
        /\ q \notin hung_up /\ p \in gap => Lossy(log, k, r, l, w)
    BY <1>0 DEF SideInv, WayInv
  <2>2. /\ Way(log, k, r, l, <<>>) /\ Way(log, k, r, l \o w, <<>>)
        /\ Exact(log, k, r, l, w) => Exact(log, k, r, l \o w, <<>>)
        /\ Lossy(log, k, r, l, w) => Lossy(log, k, r, l \o w, <<>>)
    BY <1>1, <2>1, WayFlushes
  <2>3. /\ ssl'[p].sealed = log /\ ssl'[q].opened = k /\ ssl'[q].rbio = r /\ ssl'[p].wbio = <<>>
        /\ hung_up' = hung_up /\ gap' = gap
        /\ link'[q] = IF q \in hung_up THEN l ELSE l \o w
    BY <1>0, <1>2, <1>3, <1>5 DEF TlsTyped
  <2> HIDE DEF q, log, k, r, l, w
  <2>4. QED
    BY <1>0, <2>1, <2>2, <2>3 DEF WayInv
<1>10. ReadInv(q)'
  <2>1. ssl[q].notified => tcall[p].at \in {"closing", "closed"} /\ ssl[p].wbio = <<>>
    BY <1>0 DEF SideInv, ReadInv
  <2>2. QED
    BY <1>0, <1>2, <1>3, <1>5, <2>1, ReadSame DEF SideInv
<1>11. QED
  BY <1>6, <1>7, <1>8, <1>9, <1>10, BothSides DEF SideInv

\* A flush fails, and with it the call, or the call is made again.
LEMMA SideLoses ==
  ASSUME TlsInv, NEW p \in Tl!Sides, NEW n \in Nat, NEW lost \in Nat \ {0}, NEW retried,
         Tl!FlushFails(p, n, lost, retried)
  PROVE  TlsInv'
<1> DEFINE q == Tl!Other(p)
           log == ssl[p].sealed
           k == ssl[q].opened
           r == ssl[q].rbio
           l == link[q]
           w == ssl[p].wbio
           out == SubSeq(w, 1, n)
           rest == SubSeq(w, n + lost + 1, Len(w))
           e == [ssl[p] EXCEPT !.wbio = rest]
           a == CASE retried /\ tcall[p].at = "wrote" -> "writing"
                  [] retried /\ tcall[p].at \in {"reading", "read_some"} -> "reading"
                  [] OTHER -> "failed"
           c == [tcall[p] EXCEPT !.at = a]
<1>0. TlsTyped /\ SideInv(p) /\ SideInv(q) /\ q \in Tl!Sides /\ q # p /\ Tl!Other(q) = p
  BY TwoSides DEF TlsInv
<1>1. /\ log \in Seq(Records) /\ w \in Seq(Records) /\ k \in Nat /\ r \in Seq(Records)
      /\ l \in Seq(Records) /\ ssl[p] \in TlsEngines /\ tcall[p] \in [at : Ats, value : Nat]
  BY <1>0, SideTyped
<1>2. /\ w # <<>> /\ p \notin gap /\ n + lost <= Len(w) /\ gap' = gap \cup {p}
      /\ tcall[p].at \in {"wrote", "read_some", "closing", "reading", "handshake"}
      /\ UNCHANGED <<hung_up, accepted_n, received, ended>>
      /\ missed' = IF tcall[p].at = "read_some" THEN [missed EXCEPT ![p] = tcall[p].value] ELSE missed
  BY DEF Tl!FlushFails, Tl!Flushing, Tl!appVars
<1>3. ssl' = [ssl EXCEPT ![p] = e] /\ tcall' = [tcall EXCEPT ![p] = c]
  BY <1>0 DEF Tl!FlushFails, Tl!Sets, TlsTyped
<1>4. link' = IF q \in hung_up THEN link ELSE [link EXCEPT ![q] = l \o out]
  BY <1>0 DEF Tl!FlushFails, Tl!Sends, TlsTyped
<1>5. /\ Way(log, k, r, l, w)
      /\ q \notin hung_up => Exact(log, k, r, l, w)
      /\ Clean(log, Len(log))
  BY <1>0, <1>2 DEF SideInv, WayInv, LogInv
<1>6. /\ out \in Seq(Records) /\ rest \in Seq(Records)
      /\ Way(log, k, r, l, rest) /\ Way(log, k, r, l \o out, rest)
      /\ Exact(log, k, r, l, w) /\ Clean(log, Len(log)) => Lossy(log, k, r, l \o out, rest)
  BY <1>1, <1>2, <1>5, WayLoses
<1>7. l \o out \in Seq(Records)
  BY <1>1, <1>6, Joined
<1> HIDE DEF out, rest
<1>8. /\ e \in TlsEngines /\ e.wbio = rest /\ e.sealed = log /\ e.flights = ssl[p].flights
      /\ e.opened = ssl[p].opened /\ e.rbio = ssl[p].rbio /\ e.notified = ssl[p].notified
  BY <1>1, <1>6 DEF TlsEngines
<1>9. /\ \/ a = "writing" /\ tcall[p].at = "wrote"
         \/ a = "reading" /\ tcall[p].at \in {"reading", "read_some"}
         \/ a = "failed"
      /\ a \in Ats
  BY DEF Ats
<1> HIDE DEF a, e
<1>10. c \in [at : Ats, value : Nat] /\ c.at = a /\ c.value = tcall[p].value
  BY <1>1, <1>9
<1> HIDE DEF c
<1>11. /\ ssl'[p] = e /\ tcall'[p] = c /\ ssl'[q] = ssl[q] /\ tcall'[q] = tcall[q] /\ link'[p] = link[p]
       /\ link'[q] = IF q \in hung_up THEN l ELSE l \o out
  BY <1>0, <1>3, <1>4 DEF TlsTyped
<1>12. TlsTyped'
  <2>1. missed' \in [Tl!Sides -> Nat]
    BY <1>0, <1>1, <1>2 DEF TlsTyped
  <2>2. QED
    BY <1>0, <1>2, <1>3, <1>4, <1>7, <1>8, <1>10, <2>1 DEF TlsTyped
<1>13. (q \in gap' <=> q \in gap) /\ p \in gap'
  BY <1>0, <1>2
<1>14. HandshakeInv(p)'
  BY <1>0, <1>2, <1>8, <1>9, <1>10, <1>11, HandshakeSame DEF SideInv, HandshakeInv
<1>15. LogInv(p)'
  <2>1. LastWords(p, tcall[p].at) => tcall'[p].at = "failed"
    BY <1>2, <1>9, <1>10, <1>11 DEF LastWords
  <2>2. ssl'[p].sealed = ssl[p].sealed
    BY <1>8, <1>11
  <2>3. QED
    BY <1>0, <1>13, <2>1, <2>2 DEF SideInv, LogInv, LastWords
<1>16. CallInv(p)'
  BY <1>0, <1>2, <1>9, <1>10, <1>11 DEF SideInv, CallInv
<1>17. WayInv(p)'
  BY <1>0, <1>2, <1>8, <1>11, <1>13, WaySame DEF SideInv
<1>18. ReadInv(p)'
  <2>1. /\ ssl'[p].notified = ssl[p].notified /\ tcall'[p].at = a /\ ssl'[q].wbio = ssl[q].wbio
        /\ tcall'[q].at = tcall[q].at /\ ended' = ended
    BY <1>2, <1>8, <1>10, <1>11
  <2>2. /\ ssl'[q].sealed = ssl[q].sealed /\ ssl'[p].opened = ssl[p].opened
        /\ received'[p] = received[p] /\ accepted_n'[q] = accepted_n[q]
    BY <1>2, <1>8, <1>11
  <2>3. missed[p] = 0 /\ Len(received[p]) \in Nat
    BY <1>0, <1>2, SideTyped DEF SideInv, ReadInv
  <2>4. /\ InOrder(received[p], missed'[p])
        /\ Val(ssl[q].sealed, ssl[p].opened) = Told(received[p], missed'[p]) + 0
    <3>1. CASE tcall[p].at = "read_some"
      <4>1. missed'[p] = Len(received[p]) + 1
            /\ Val(ssl[q].sealed, ssl[p].opened) = Len(received[p]) + 1
        BY <1>0, <1>2, <2>3, <3>1 DEF SideInv, ReadInv, Told, TlsTyped
      <4>2. InOrder(received[p], 0)
        BY <1>0, <2>3 DEF SideInv, ReadInv
      <4>3. \A i \in 1..Len(received[p]) : received[p][i] = i /\ Len(received[p]) + 1 \notin 1..i
        <5>1. ASSUME NEW i \in 1..Len(received[p])  PROVE received[p][i] = i + 0
          <6>1. 0 \notin 1..i
            OBVIOUS
          <6>2. QED
            BY <4>2, <6>1 DEF InOrder
        <5>2. QED
          BY <2>3, <5>1
      <4>4. InOrder(received[p], Len(received[p]) + 1)
        BY <2>3, <4>3 DEF InOrder
      <4>5. Told(received[p], Len(received[p]) + 1) = Len(received[p]) + 1
        BY <2>3 DEF Told
      <4>6. QED
        BY <2>3, <4>1, <4>4, <4>5
    <3>2. CASE tcall[p].at # "read_some"
      BY <1>0, <1>2, <2>3, <3>2 DEF SideInv, ReadInv
    <3>3. QED
      BY <3>1, <3>2
  <2>5. /\ ssl[p].notified => /\ tcall[q].at \in {"closing", "closed"} /\ ssl[q].wbio = <<>>
                              /\ Val(ssl[q].sealed, ssl[p].opened) = accepted_n[q]
                              /\ tcall[p].at \notin {"none", "handshake", "read_some"}
        /\ p \in ended => ssl[p].notified /\ tcall[p].at \notin {"reading", "read_some"}
    BY <1>0 DEF SideInv, ReadInv
  <2>6. a # "read_some" /\ (ssl[p].notified => a \notin {"none", "handshake"})
        /\ (p \in ended => a # "reading")
    BY <1>9, <2>5
  <2>7. p \in gap'
    BY <1>13
  <2> HIDE DEF a, e, c
  <2>8. QED
    BY <2>1, <2>2, <2>4, <2>5, <2>6, <2>7 DEF ReadInv, q
<1>19. HandshakeInv(q)' /\ LogInv(q)' /\ CallInv(q)'
  BY <1>0, <1>2, <1>11, <1>13, HandshakeSame, LogSame, CallSame DEF SideInv
<1>20. WayInv(q)'
  <2>1. /\ ssl'[p].sealed = log /\ ssl'[q].opened = k /\ ssl'[q].rbio = r /\ ssl'[p].wbio = rest
        /\ hung_up' = hung_up /\ p \in gap'
        /\ link'[q] = IF q \in hung_up THEN l ELSE l \o out
    BY <1>2, <1>8, <1>11, <1>13
  <2>2. /\ Way(log, k, r, l, rest) /\ Way(log, k, r, l \o out, rest)
        /\ q \notin hung_up => Lossy(log, k, r, l \o out, rest)
    BY <1>5, <1>6
  <2> HIDE DEF q, log, k, r, l, w
  <2>3. QED
    BY <1>0, <2>1, <2>2 DEF WayInv
<1>21. ReadInv(q)'
  <2>1. ~ssl[q].notified
    BY <1>0, <1>2 DEF SideInv, ReadInv
  <2>2. missed'[q] = missed[q]
    BY <1>0, <1>2 DEF TlsTyped
  <2>3. QED
    BY <1>0, <1>2, <1>8, <1>11, <1>13, <2>1, <2>2, ReadSame DEF SideInv
<1>22. QED
  BY <1>12, <1>14, <1>15, <1>16, <1>17, <1>18, <1>19, <1>20, <1>21, BothSides DEF SideInv
-----------------------------------------------------------------------------
\* A side reads n records from the wire.
LEMMA SideReceives ==
  ASSUME TlsInv, NEW p \in Tl!Sides, NEW n \in 1..Len(link[p]), Tl!Receives(p, n)
  PROVE  TlsInv'
<1> DEFINE q == Tl!Other(p)
           log == ssl[q].sealed
           k == ssl[p].opened
           r == ssl[p].rbio
           l == link[p]
           w == ssl[q].wbio
           in == r \o SubSeq(l, 1, n)
           rest == SubSeq(l, n + 1, Len(l))
           e == [ssl[p] EXCEPT !.rbio = in]
<1>0. TlsTyped /\ SideInv(p) /\ q \in Tl!Sides /\ q # p
  BY TwoSides DEF TlsInv
<1>1. /\ log \in Seq(Records) /\ w \in Seq(Records) /\ k \in Nat /\ r \in Seq(Records)
      /\ l \in Seq(Records) /\ ssl[p] \in TlsEngines /\ Len(l) \in Nat
  BY <1>0, SideTyped, LenProperties
<1>2. /\ ssl' = [ssl EXCEPT ![p] = e] /\ link' = [link EXCEPT ![p] = rest]
      /\ tcall[p].at \in {"reading", "handshake"}
      /\ UNCHANGED <<tcall, hung_up, accepted_n, received, missed, ended, gap>>
  BY <1>0 DEF Tl!Receives, Tl!Sets, Tl!appVars, TlsTyped
<1>3. /\ Way(log, k, r, l, w)
      /\ p \notin hung_up /\ q \notin gap => Exact(log, k, r, l, w)
      /\ p \notin hung_up /\ q \in gap => Lossy(log, k, r, l, w)
  BY <1>0 DEF SideInv, WayInv
<1>4. n \in 0..Len(l)
  BY <1>1
<1>5. /\ in \in Seq(Records) /\ rest \in Seq(Records) /\ Way(log, k, in, rest, w)
      /\ Exact(log, k, r, l, w) => Exact(log, k, in, rest, w)
      /\ Lossy(log, k, r, l, w) => Lossy(log, k, in, rest, w)
  BY <1>1, <1>3, <1>4, WayReceives
<1> HIDE DEF in, rest
<1>6. /\ e \in TlsEngines /\ e.rbio = in /\ e.sealed = ssl[p].sealed /\ e.flights = ssl[p].flights
      /\ e.opened = k /\ e.wbio = ssl[p].wbio /\ e.notified = ssl[p].notified
  BY <1>1, <1>5 DEF TlsEngines
<1> HIDE DEF e
<1>7. /\ ssl'[p] = e /\ ssl'[q] = ssl[q] /\ link'[p] = rest /\ link'[q] = link[q]
      /\ tcall'[p] = tcall[p] /\ tcall'[q] = tcall[q]
  BY <1>0, <1>2 DEF TlsTyped
<1>8. TlsTyped'
  BY <1>0, <1>2, <1>5, <1>6 DEF TlsTyped
<1>9. HandshakeInv(p)' /\ LogInv(p)' /\ CallInv(p)'
  BY <1>0, <1>2, <1>6, <1>7, HandshakeSame, LogSame, CallSame DEF SideInv
<1>10. WayInv(p)'
  <2>1. /\ ssl'[q].sealed = log /\ ssl'[p].opened = k /\ ssl'[p].rbio = in /\ link'[p] = rest
        /\ ssl'[q].wbio = w /\ hung_up' = hung_up /\ gap' = gap
    BY <1>2, <1>6, <1>7
  <2> HIDE DEF log, k, r, l, w
  <2>2. QED
    BY <1>3, <1>5, <2>1 DEF WayInv, q
<1>11. ReadInv(p)'
  <2>1. ssl[p].notified => tcall[q].at \in {"closing", "closed"} /\ ssl[q].wbio = <<>>
    BY <1>0 DEF SideInv, ReadInv
  <2>2. QED
    BY <1>0, <1>2, <1>6, <1>7, <2>1, ReadSame DEF SideInv
<1>12. SideInv(q)'
  <2>1. ssl'[p].sealed = ssl[p].sealed /\ ssl'[p].wbio = ssl[p].wbio
    BY <1>6, <1>7
  <2>2. QED
    BY <1>2, <1>7, <2>1, OtherStays
<1>13. QED
  BY <1>8, <1>9, <1>10, <1>11, <1>12, BothSides DEF SideInv
-----------------------------------------------------------------------------
(* TlsStream: the calls return *)

\* read_some returns the plaintext it has opened.
LEMMA ReadIsDone ==
  ASSUME TlsInv, NEW p \in Tl!Sides, Tl!ReadReturns(p)
  PROVE  TlsInv'
<1> DEFINE q == Tl!Other(p)
           c == [tcall[p] EXCEPT !.at = "open"]
           s == received[p]
           new == Append(s, tcall[p].value)
<1>0. TlsTyped /\ SideInv(p) /\ q \in Tl!Sides /\ q # p
  BY TwoSides DEF TlsInv
<1>1. /\ tcall[p].value \in Nat /\ s \in Seq(Nat) /\ Len(s) \in Nat
      /\ tcall[p] \in [at : Ats, value : Nat]
  BY <1>0, SideTyped
<1>2. /\ tcall[p].at = "read_some" /\ received' = [received EXCEPT ![p] = new]
      /\ tcall' = [tcall EXCEPT ![p] = c] /\ c \in [at : Ats, value : Nat] /\ c.at = "open"
      /\ UNCHANGED <<ssl, link, hung_up, accepted_n, missed, ended, gap>>
  BY <1>0, CallsAt DEF Tl!ReadReturns, TlsTyped, Ats
<1>3. /\ new \in Seq(Nat) /\ Len(new) = Len(s) + 1 /\ new[Len(s) + 1] = tcall[p].value
      /\ \A i \in 1..Len(s) : new[i] = s[i]
      /\ \A i \in 1..(Len(s) + 1) : i \in 1..Len(s) \/ i = Len(s) + 1
  BY <1>1
<1> HIDE DEF new, c
<1>4. /\ received'[p] = new /\ received'[q] = received[q] /\ tcall'[p] = c /\ tcall'[q] = tcall[q]
      /\ ssl' = ssl
  BY <1>0, <1>2 DEF TlsTyped
<1>5. TlsTyped'
  BY <1>0, <1>2, <1>3 DEF TlsTyped
<1>6. HandshakeInv(p)'
  BY <1>0, <1>2, <1>4 DEF SideInv, HandshakeInv
<1>7. LogInv(p)'
  <2>1. ~LastWords(p, tcall[p].at)
    BY <1>2 DEF LastWords
  <2>2. QED
    BY <1>0, <1>2, <1>4, <2>1, LogSame DEF SideInv
<1>8. CallInv(p)'
  BY <1>0, <1>2, <1>4 DEF SideInv, CallInv
<1>9. WayInv(p)'
  BY <1>0, <1>2, <1>4, WaySame DEF SideInv
<1>10. ReadInv(p)'
  <2> DEFINE v == Val(ssl[q].sealed, ssl[p].opened)
             m == missed[p]
  <2>1. /\ InOrder(s, m) /\ v = Told(s, m) + 1 /\ tcall[p].value = v /\ (m # 0 => p \in gap)
        /\ ~ssl[p].notified /\ p \notin ended
    BY <1>0, <1>2 DEF SideInv, ReadInv
  <2>a. m \in Nat /\ missed'[p] = m
    BY <1>0, <1>2, SideTyped
  <2> HIDE DEF v, s, m
  <2>2. /\ tcall[p].value = Len(s) + 1 + IF m \in 1..(Len(s) + 1) THEN 1 ELSE 0
        /\ v = Told(new, m)
    BY <1>1, <1>3, <2>1, <2>a DEF InOrder, Told
  <2>b. InOrder(new, m)
    <3>1. m <= Len(new) + 1
      BY <1>1, <1>3, <2>1, <2>a DEF InOrder
    <3>2. \A i \in 1..Len(s) : new[i] = i + IF m \in 1..i THEN 1 ELSE 0
      BY <1>3, <2>1 DEF InOrder
    <3>3. new[Len(s) + 1] = Len(s) + 1 + IF m \in 1..(Len(s) + 1) THEN 1 ELSE 0
      BY <1>3, <2>2
    <3>4. \A i \in 1..Len(new) : new[i] = i + IF m \in 1..i THEN 1 ELSE 0
      BY <1>3, <3>2, <3>3
    <3>5. QED
      BY <3>1, <3>4 DEF InOrder
  <2>3. Told(new, m) + 0 = Told(new, m)
    BY <1>1, <1>3 DEF Told
  <2>4. v = Val(ssl'[q].sealed, ssl'[p].opened) /\ (p \in gap' <=> p \in gap) /\ tcall'[p].at = "open"
        /\ ~ssl'[p].notified /\ p \notin ended'
    BY <1>2, <1>4, <2>1 DEF v
  <2>5. QED
    BY <1>4, <2>a, <2>b, <2>1, <2>2, <2>3, <2>4 DEF ReadInv, q
<1>11. SideInv(q)'
  BY <1>2, <1>4, OtherStays
<1>12. QED
  BY <1>5, <1>6, <1>7, <1>8, <1>9, <1>10, <1>11, BothSides DEF SideInv

\* write_some returns once its record was handed on.
LEMMA WriteIsDone ==
  ASSUME TlsInv, NEW p \in Tl!Sides, Tl!WriteReturns(p)
  PROVE  TlsInv'
<1> DEFINE q == Tl!Other(p)
           c == [tcall[p] EXCEPT !.at = "open"]
<1>0. TlsTyped /\ SideInv(p) /\ q \in Tl!Sides /\ q # p
  BY TwoSides DEF TlsInv
<1>1. accepted_n[p] \in Nat /\ tcall[p] \in [at : Ats, value : Nat] /\ Tl!Plaintexts(p) \in Nat
  BY <1>0, SideTyped
<1>2. /\ tcall[p].at = "wrote" /\ accepted_n' = [accepted_n EXCEPT ![p] = accepted_n[p] + 1]
      /\ tcall' = [tcall EXCEPT ![p] = c] /\ c \in [at : Ats, value : Nat] /\ c.at = "open"
      /\ UNCHANGED <<ssl, link, hung_up, received, missed, ended, gap>>
  BY <1>0, CallsAt DEF Tl!WriteReturns, TlsTyped, Ats
<1> HIDE DEF c
<1>3. /\ accepted_n'[p] = accepted_n[p] + 1 /\ accepted_n'[q] = accepted_n[q]
      /\ tcall'[p] = c /\ tcall'[q] = tcall[q] /\ ssl' = ssl
  BY <1>0, <1>2 DEF TlsTyped
<1>4. TlsTyped'
  <2>1. accepted_n[p] + 1 \in Nat
    BY <1>1
  <2>2. accepted_n' \in [Tl!Sides -> Nat] /\ tcall' \in [Tl!Sides -> [at : Ats, value : Nat]]
    BY <1>0, <1>2, <2>1 DEF TlsTyped
  <2>3. QED
    BY <1>0, <1>2, <2>2 DEF TlsTyped
<1>5. HandshakeInv(p)'
  BY <1>0, <1>2, <1>3 DEF SideInv, HandshakeInv
<1>6. LogInv(p)'
  <2>1. ~LastWords(p, tcall[p].at)
    BY <1>2 DEF LastWords
  <2>2. accepted_n'[p] + 0 = accepted_n[p] + 1
    BY <1>1, <1>3
  <2>3. QED
    BY <1>0, <1>2, <1>3, <2>1, <2>2, LogSame DEF SideInv
<1>7. CallInv(p)'
  <2>1. accepted_n[p] < Tl!Plaintexts(p) /\ p \notin hung_up
    BY <1>0, <1>2 DEF SideInv, CallInv
  <2>2. accepted_n'[p] <= Tl!Plaintexts(p)
    BY <1>1, <1>3, <2>1
  <2>3. QED
    BY <1>2, <1>3, <2>1, <2>2 DEF CallInv, Tl!Plaintexts
<1>8. WayInv(p)'
  BY <1>0, <1>2, <1>3, WaySame DEF SideInv
<1>9. ReadInv(p)'
  BY <1>0, <1>2, <1>3 DEF SideInv, ReadInv
<1>10. SideInv(q)'
  BY <1>2, <1>3, OtherStays
<1>11. QED
  BY <1>4, <1>5, <1>6, <1>7, <1>8, <1>9, <1>10, BothSides DEF SideInv

\* A side closes its socket: what was not delivered may be lost.
LEMMA SideHangsUp ==
  ASSUME TlsInv, NEW p \in Tl!Sides, Tl!HangUp(p)
  PROVE  TlsInv'
<1> DEFINE q == Tl!Other(p)
           a == IF tcall[p].at = "closing" THEN "closed" ELSE "dropped"
           c == [tcall[p] EXCEPT !.at = a]
<1>0. TlsTyped /\ SideInv(p) /\ q \in Tl!Sides /\ q # p
  BY TwoSides DEF TlsInv
<1>1. ssl[p] \in TlsEngines /\ tcall[p] \in [at : Ats, value : Nat] /\ <<>> \in Seq(Records)
  BY <1>0, SideTyped
<1>2. /\ tcall[p].at \in {"open", "closing", "failed"} /\ a \in {"closed", "dropped"}
      /\ tcall' = [tcall EXCEPT ![p] = c] /\ c \in [at : Ats, value : Nat] /\ c.at = a
      /\ link' = [link EXCEPT ![p] = <<>>] /\ hung_up' = hung_up \cup {p}
      /\ UNCHANGED <<ssl, accepted_n, received, missed, ended, gap>>
  <2>1. Tl!Calls(p, a) /\ a \in Ats /\ a \in {"closed", "dropped"}
    BY DEF Tl!HangUp, Ats
  <2>2. /\ tcall[p].at \in {"open", "closing", "failed"}
        /\ link' = [link EXCEPT ![p] = <<>>] /\ hung_up' = hung_up \cup {p}
        /\ UNCHANGED <<ssl, accepted_n, received, missed, ended, gap>>
    BY DEF Tl!HangUp, Tl!appVars
  <2>3. tcall' = [tcall EXCEPT ![p] = c] /\ c \in [at : Ats, value : Nat] /\ c.at = a
    BY <1>0, <2>1, CallsAt
  <2>4. QED
    BY <2>1, <2>2, <2>3
<1> HIDE DEF c
<1>3. /\ tcall'[p] = c /\ tcall'[q] = tcall[q] /\ ssl' = ssl /\ link'[p] = <<>> /\ link'[q] = link[q]
      /\ p \in hung_up'
  BY <1>0, <1>2 DEF TlsTyped
<1>4. TlsTyped'
  BY <1>0, <1>1, <1>2 DEF TlsTyped
<1>5. HandshakeInv(p)'
  BY <1>0, <1>2, <1>3 DEF SideInv, HandshakeInv
<1>6. LogInv(p)'
  <2>1. LastWords(p, tcall[p].at) => LastWords(p, tcall'[p].at)
    BY <1>2, <1>3 DEF LastWords
  <2>2. QED
    BY <1>0, <1>2, <1>3, <2>1, LogSame DEF SideInv
<1>7. CallInv(p)'
  BY <1>0, <1>2, <1>3 DEF SideInv, CallInv
<1>8. WayInv(p)'
  <2>1. Logged(<<>>, ssl[q].sealed)
    BY DEF Logged
  <2>2. QED
    BY <1>0, <1>3, <2>1 DEF SideInv, WayInv, Way
<1>9. ReadInv(p)'
  BY <1>0, <1>2, <1>3 DEF SideInv, ReadInv
<1>10. SideInv(q)'
  BY <1>2, <1>3, OtherStays
<1>11. QED
  BY <1>4, <1>5, <1>6, <1>7, <1>8, <1>9, <1>10, BothSides DEF SideInv
-----------------------------------------------------------------------------
(* TlsStream: all steps *)

TlsSafe == TlsInv /\ ended \subseteq Tl!Sides

\* Only sides see the end of the stream.
LEMMA EndedAreSides ==
  ASSUME ended \subseteq Tl!Sides, Tl!Next  PROVE ended' \subseteq Tl!Sides
<1>1. CASE Tl!KeyUpdate
  BY <1>1 DEF Tl!KeyUpdate, Tl!appVars
<1>2. ASSUME NEW s \in Tl!Sides, Tl!Handshake(s)  PROVE ended' = ended
  BY <1>2 DEF Tl!Handshake, Tl!connect, Tl!HandshakeSteps, Tl!HandshakeReturns,
       Tl!HandshakeFails, Tl!appVars
<1>3. ASSUME NEW s \in Tl!Sides, Tl!Carry(s)  PROVE ended' = ended
  BY <1>3 DEF Tl!Carry, Tl!flush_write_bio, Tl!UncleanEof, Tl!AfterEof, Tl!Receives,
       Tl!FlushFails, Tl!appVars
<1>4. ASSUME NEW s \in Tl!Sides, Tl!Use(s)  PROVE ended' = ended \/ ended' = ended \cup {s}
  BY <1>4 DEF Tl!Use, Tl!read, Tl!SSL_read, Tl!ReadReturns, Tl!ReadsTheEnd, Tl!ssl_io_error,
       Tl!write,
     Tl!SSL_write, Tl!WriteReturns, Tl!shutdown, Tl!HangUp, Tl!appVars
<1>5. QED
  BY <1>1, <1>2, <1>3, <1>4 DEF Tl!Next

\* A step of nobody keeps the invariant.
LEMMA TlsStutters == ASSUME TlsInv, UNCHANGED tlsVars  PROVE TlsInv'
<1>1. TlsTyped'
  BY DEF TlsInv, TlsTyped, tlsVars
<1>2. ASSUME NEW p \in Tl!Sides  PROVE SideInv(p)'
  <2>1. SideInv(p) /\ UNCHANGED <<ssl, tcall, link, hung_up, accepted_n, received, missed, ended, gap>>
    BY <1>2 DEF TlsInv, tlsVars
  <2>2. HandshakeInv(p)' /\ CallInv(p)' /\ WayInv(p)'
    BY <2>1, HandshakeSame, CallSame, WaySame DEF SideInv
  <2>3. LogInv(p)'
    BY <2>1, LogSame DEF SideInv
  <2>4. ReadInv(p)'
    BY <2>1 DEF SideInv, ReadInv
  <2>5. QED
    BY <2>2, <2>3, <2>4 DEF SideInv
<1>3. QED
  BY <1>1, <1>2 DEF TlsInv

\* Every step of the two sides and of the link keeps it.
LEMMA TlsNext == TlsSafe /\ (Tl!Next \/ UNCHANGED tlsVars) => TlsSafe'
<1> SUFFICES ASSUME TlsSafe, Tl!Next \/ UNCHANGED tlsVars  PROVE TlsSafe'
  OBVIOUS
<1>1. CASE UNCHANGED tlsVars
  BY <1>1, TlsStutters DEF TlsSafe, tlsVars
<1>2. CASE Tl!Next
  <2>1. ASSUME Tl!KeyUpdate  PROVE TlsInv'
    <3>1. PICK p \in Tl!Sides : p = "client"
      BY DEF Tl!Sides
    <3>2. Tl!SSL_write(p) \/ Tl!shutdown(p) \/ (p = "client" /\ Tl!KeyUpdate)
      BY <2>1, <3>1
    <3>3. QED
      BY <3>2, SideWrites DEF TlsSafe
  <2>2. ASSUME NEW s \in Tl!Sides, Tl!Handshake(s)  PROVE TlsInv'
    BY <2>2, CallSteps, SideSpeaks, SideTakes DEF TlsSafe, Tl!Handshake
  <2>3. ASSUME NEW s \in Tl!Sides, Tl!Carry(s)  PROVE TlsInv'
    <3>1. CASE Tl!flush_write_bio(s) \/ Tl!UncleanEof(s)
      BY <3>1, SideFlushes, CallSteps DEF TlsSafe
    <3>2. CASE \E n \in 1..Len(link[s]) : Tl!Receives(s, n)
      BY <3>2, SideReceives DEF TlsSafe
    <3>3. CASE \E n \in 0..Len(ssl[s].wbio), lost \in 1..Len(ssl[s].wbio), retried \in {FALSE, s = "server"} :
                 Tl!FlushFails(s, n, lost, retried)
      <4>1. PICK n \in 0..Len(ssl[s].wbio), lost \in 1..Len(ssl[s].wbio), retried \in {FALSE, s = "server"} :
              Tl!FlushFails(s, n, lost, retried)
        BY <3>3
      <4>2. n \in Nat /\ lost \in Nat \ {0}
        <5>1. Len(ssl[s].wbio) \in Nat
          BY SideTyped, LenProperties DEF TlsSafe, TlsInv
        <5>2. QED
          BY <4>1, <5>1
      <4>3. QED
        BY <4>1, <4>2, SideLoses DEF TlsSafe
    <3>4. QED
      BY <2>3, <3>1, <3>2, <3>3 DEF Tl!Carry
  <2>4. ASSUME NEW s \in Tl!Sides, Tl!Use(s)  PROVE TlsInv'
    BY <2>4, CallSteps, SideReads, ReadIsDone, SideWrites, WriteIsDone, SideHangsUp DEF TlsSafe,
         Tl!Use
  <2>5. TlsInv'
    BY <1>2, <2>1, <2>2, <2>3, <2>4 DEF Tl!Next, TlsSafe
  <2>6. QED
    BY <1>2, <2>5, EndedAreSides DEF TlsSafe
<1>3. QED
  BY <1>1, <1>2

\* The invariant implies what the run checks of TLS.
LEMMA TlsIsSound == TlsSafe => Tl!TlsStreamSound
<1> SUFFICES ASSUME TlsSafe, NEW s \in Tl!Sides
             PROVE  /\ \A i \in 1..Len(received[s]) :
                         received[s][i] = i + IF missed[s] \in 1..i THEN 1 ELSE 0
                    /\ Len(received[s]) + Tl!Missing(s) <= Tl!Plaintexts(Tl!Other(s))
                    /\ s \in ended =>
                         /\ tcall[Tl!Other(s)].at \in {"closing", "closed"}
                         /\ Len(received[s]) + Tl!Missing(s) = accepted_n[Tl!Other(s)]
  BY DEF TlsSafe, Tl!TlsStreamSound, Tl!PlaintextIsPrefix, Tl!EndIsComplete
<1> DEFINE q == Tl!Other(s)
           v == Val(ssl[q].sealed, ssl[s].opened)
<1>1. TlsTyped /\ SideInv(s) /\ SideInv(q) /\ q \in Tl!Sides
  BY TwoSides DEF TlsSafe, TlsInv
<1>2. /\ Len(ssl[q].sealed) \in Nat /\ ssl[s].opened \in Nat
      /\ Told(received[s], missed[s]) \in Nat /\ Tl!Plaintexts(q) \in Nat
  BY <1>1, SideTyped
<1>3. ssl[s].opened <= Len(ssl[q].sealed)
  BY <1>1 DEF SideInv, WayInv, Way
<1>4. v <= Tl!Plaintexts(q)
  <2>1. CASE ssl[s].opened = 0
    BY <1>2, <2>1 DEF Val
  <2>2. CASE ssl[s].opened # 0
    <3>1. ssl[s].opened \in 1..Len(ssl[q].sealed)
      BY <1>2, <1>3, <2>2
    <3>2. QED
      BY <1>1, <2>2, <3>1 DEF SideInv, LogInv, Val
  <2>3. QED
    BY <2>1, <2>2
<1>5. Told(received[s], missed[s]) = Len(received[s]) + Tl!Missing(s)
  <2>1. Len(received[s]) \in Nat
    BY <1>1, SideTyped
  <2>2. CASE missed[s] # 0
    BY <2>1, <2>2 DEF Told, Tl!Missing
  <2>3. CASE missed[s] = 0
    BY <2>1, <2>3 DEF Told, Tl!Missing
  <2>4. QED
    BY <2>2, <2>3
<1>6. /\ InOrder(received[s], missed[s])
      /\ v = Told(received[s], missed[s]) + (IF tcall[s].at = "read_some" THEN 1 ELSE 0)
      /\ s \in ended => /\ tcall[q].at \in {"closing", "closed"} /\ tcall[s].at # "read_some"
                        /\ v = accepted_n[q]
  BY <1>1 DEF SideInv, ReadInv
<1> HIDE DEF q, v
<1>7. Told(received[s], missed[s]) <= Tl!Plaintexts(q)
  BY <1>2, <1>4, <1>6
<1>8. s \in ended => Told(received[s], missed[s]) = accepted_n[q]
  BY <1>2, <1>6
<1>9. QED
  BY <1>5, <1>6, <1>7, <1>8 DEF q, InOrder
-----------------------------------------------------------------------------
\* tcp.cpp, deadline_io.hpp: every descriptor has one owner and blocks again, a connect and
\* the head of a message end in time; tls_stream.cpp: a side reads what the other wrote, in
\* order, but for the plaintext its own failed flush took while it read, and the end of the
\* stream only after all of it.
THEOREM ConnectionsStaySound == Spec => []ConnectionsAreSound
<1> DEFINE Inv == /\ part = "net" => NetInv
                  /\ part = "tls" => TlsSafe
<1>1. Init => Inv
  <2>1. Tl!Init => TlsSafe
    BY TlsInit DEF TlsSafe, Tl!Init
  <2>2. QED
    BY <2>1, SocketsInit, ReaderInit DEF Init, NetInv
<1>2. Inv /\ [Next]_vars => Inv'
  <2> SUFFICES ASSUME Inv, [Next]_vars  PROVE Inv'
    OBVIOUS
  <2>1. ASSUME part' = "net"  PROVE NetInv'
    <3>1. part = "net" /\ (Nt!Next \/ UNCHANGED netVars)
      BY <2>1 DEF Next, vars, Rest
    <3>2. QED
      BY <3>1, NetNext
  <2>2. ASSUME part' = "tls"  PROVE TlsSafe'
    <3>1. part = "tls" /\ (Tl!Next \/ UNCHANGED tlsVars)
      BY <2>2 DEF Next, vars, Rest
    <3>2. QED
      BY <3>1, TlsNext
  <2>3. QED
    BY <2>1, <2>2
<1>3. Inv => ConnectionsAreSound
  BY NetIsSound, TlsIsSound DEF ConnectionsAreSound
<1>4. QED
  BY <1>1, <1>2, <1>3, PTL DEF Spec
=============================================================================
