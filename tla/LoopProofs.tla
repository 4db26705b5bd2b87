----------------------------- MODULE LoopProofs -----------------------------
(***************************************************************************)
(* Proofs about MessageLoop for any callers, tasks, delays and bound on    *)
(* time.                                                                   *)
(*                                                                         *)
(* The order of starting is a property of the queue as much as of what has *)
(* run, so the invariant speaks about the line: the tasks that have        *)
(* started followed by those that are ready.  A step of the loop thread    *)
(* moves the boundary inside the line and puts the due entries at its end; *)
(* a post puts its task there; a stop cuts what has not started.  That the *)
(* entries moved together follow those moved before needs to be known of   *)
(* the entries that are still delayed: each comes after all in the line.   *)
(***************************************************************************)
EXTENDS MessageLoop, SequenceFacts, FiniteSetTheorems

Line == ran \o ready

\* Entries are finitely many, numbered, within the bound, and accepted before
\* they are delayed.
EntryControl ==
  /\ IsFiniteSet(delayed)
  /\ delayed \subseteq scheduled
  /\ \A e \in scheduled : e.due <= MaxTime /\ e.seq < next_seq

\* After a stop nothing is delayed, and after a discarding one nothing is
\* ready; the loop thread exits only then.
PhaseControl ==
  /\ phase # "Running" => delayed = {}
  /\ phase # "Running" /\ stop_mode = "Discard" => ready = <<>>
  /\ pc[Loop] = "exited" => phase # "Running" /\ ready = <<>>
  /\ phase = "Joined" => pc[Loop] = "exited"

\* No accepted immediate task is lost but by a discarding stop.
Accounted ==
  phase = "Running" \/ stop_mode = "Drain" =>
    \A i \in 1..Len(posted) : \E n \in 1..Len(Line) : Line[n] = posted[i]

\* A task is accepted once, and what is in the line was accepted.
Identity ==
  /\ \A e, f \in scheduled : e.task = f.task => e = f
  /\ \A e \in scheduled : \A i \in 1..Len(posted) : e.task # posted[i]
  /\ \A e \in delayed : \A n \in 1..Len(Line) : e.task # Line[n]
  /\ \A n \in 1..Len(Line) : \/ \E i \in 1..Len(posted) : Line[n] = posted[i]
                             \/ \E e \in scheduled : Line[n] = e.task
  /\ \A m, n \in 1..Len(Line) : Line[m] = Line[n] => m = n

\* The three orders, of the whole line.
LinePostOrder ==
  \A i, j \in 1..Len(posted), n \in 1..Len(Line) :
    i < j /\ Line[n] = posted[j] => \E m \in 1..(n - 1) : Line[m] = posted[i]

LineDueOrder ==
  \A m, n \in 1..Len(Line) : \A e, f \in scheduled :
    m < n /\ e.task = Line[m] /\ f.task = Line[n] => Before(e, f)

\* An entry in the line was due when it was moved, and before those delayed.
LineDue ==
  \A e \in scheduled : \A n \in 1..Len(Line) :
    e.task = Line[n] => e.due <= now /\ \A f \in delayed : Before(e, f)

Order == Identity /\ LinePostOrder /\ LineDueOrder /\ LineDue

Inv ==
  TypeOK /\ EntryControl /\ PhaseControl /\ Accounted /\ Order /\ AsleepMeansIdle
-----------------------------------------------------------------------------
USE DEF Threads, queueVars, stopVars, joinVars, history, vars

\* Every action, spelled out once.
LEMMA NextSplit ==
  ASSUME [Next]_vars
  PROVE  \/ Tick \/ LoopTakes \/ LoopExits \/ LoopWaits \/ LoopWaitsUntil
         \/ LoopResumes \/ LoopSleepsOn \/ TaskEnds \/ LoopWakesAlone
         \/ \E t \in Threads :
              \/ Notifies(t) \/ JoinReturnsAtOnce(t) \/ JoinBegins(t) \/ JoinEnds(t)
              \/ DestroyNotifies(t)
              \/ Enqueue(t) \/ EnqueueDelay(t) \/ PostRefused(t)
              \/ Stop(t) \/ StopAndDrain(t) \/ Join(t) \/ Destroy(t)
         \/ UNCHANGED vars
  BY DEF Next, LoopStep, OpStep, Calls

\* The task that is posted is one of the tasks, and has not been posted.
LEMMA NextTaskIsFresh ==
  ASSUME Unposted # {}
  PROVE  /\ NextTask \in Tasks
         /\ \A e \in scheduled : e.task # NextTask
         /\ \A i \in DOMAIN posted : posted[i] # NextTask
         /\ NextTask \notin refused
<1>1. NextTask \in Unposted
  BY DEF NextTask
<1>2. NextTask \in Tasks /\ NextTask \notin refused /\ NextTask \notin Range(posted)
      /\ NextTask \notin {e.task : e \in scheduled}
  BY <1>1 DEF Unposted
<1>3. QED
  BY <1>2 DEF Range

\* r is the ready queue followed by the tasks of the due entries, taken in
\* order as s.
RefilledBy(r, s) ==
  /\ s \in Seq(Entries) /\ Len(s) = Cardinality(Due) /\ r \in Seq(Tasks)
  /\ \A i \in 1..Len(s) : s[i] \in Due
  /\ \A i, j \in 1..Len(s) : i < j => Before(s[i], s[j])
  /\ Len(r) = Len(ready) + Len(s)
  /\ \A i \in 1..Len(ready) : r[i] = ready[i]
  /\ \A i \in 1..Len(s) : r[Len(ready) + i] = s[i].task

LEMMA RefillsAreSequences ==
  ASSUME TypeOK, EntryControl, NEW r \in Refills
  PROVE  \E s : RefilledBy(r, s)
<1>1. Due \subseteq delayed /\ Due \subseteq Entries
  BY DEF Due, TypeOK
<1>2. Cardinality(Due) \in Nat
  BY <1>1, FS_Subset, FS_CardinalityType DEF EntryControl
<1>3. PICK s \in InOrder(Due) : r = ready \o [i \in 1..Len(s) |-> s[i].task]
  BY DEF Refills
<1>4. s \in [1..Cardinality(Due) -> Due]
      /\ \A i, j \in 1..Cardinality(Due) : i < j => Before(s[i], s[j])
  BY <1>3 DEF InOrder
<1>5. s \in Seq(Entries) /\ Len(s) = Cardinality(Due)
  BY <1>1, <1>2, <1>4
<1> DEFINE tasks == [i \in 1..Len(s) |-> s[i].task]
<1>6. tasks \in Seq(Tasks) /\ Len(tasks) = Len(s)
  <2>1. \A i \in 1..Len(s) : s[i].task \in Tasks
    BY <1>1, <1>4, <1>5, SMTT(30) DEF Entries
  <2>2. QED
    BY <1>5, <2>1
<1>7. \A i \in 1..Len(s) : tasks[i] = s[i].task
  OBVIOUS
<1> HIDE DEF tasks
<1>8. /\ r \in Seq(Tasks) /\ Len(r) = Len(ready) + Len(s)
      /\ \A i \in 1..Len(ready) : r[i] = ready[i]
      /\ \A i \in 1..Len(s) : r[Len(ready) + i] = tasks[i]
  <2>1. ready \in Seq(Tasks) /\ r = ready \o tasks
    BY <1>3 DEF TypeOK, tasks
  <2>2. /\ r \in Seq(Tasks) /\ Len(r) = Len(ready) + Len(tasks)
        /\ \A i \in 1 .. Len(ready) + Len(tasks) :
             r[i] = IF i <= Len(ready) THEN ready[i] ELSE tasks[i - Len(ready)]
    BY <1>6, <2>1, ConcatProperties, ZenonT(30)
  <2>3. Len(ready) \in Nat /\ Len(s) \in Nat
    BY <1>5, <2>1
  <2>4. ASSUME NEW i \in 1..Len(ready) PROVE r[i] = ready[i]
    <3>1. i \in 1 .. Len(ready) + Len(tasks)
      BY <1>6, <2>3
    <3>2. QED
      BY <2>2, <3>1
  <2>5. ASSUME NEW i \in 1..Len(s) PROVE r[Len(ready) + i] = tasks[i]
    <3>1. /\ Len(ready) + i \in 1 .. Len(ready) + Len(tasks)
          /\ ~(Len(ready) + i <= Len(ready)) /\ Len(ready) + i - Len(ready) = i
      BY <1>6, <2>3
    <3>2. QED
      BY <2>2, <3>1
  <2>6. QED
    BY <1>6, <2>2, <2>4, <2>5
<1>9. RefilledBy(r, s)
  BY <1>4, <1>5, <1>7, <1>8 DEF RefilledBy
<1>10. QED
  BY <1>9

\* Without due entries the ready queue is as it was.
LEMMA NothingDue ==
  ASSUME TypeOK, NEW r, NEW s, RefilledBy(r, s), Due = {}
  PROVE  r = ready
<1>1. Len(s) = 0
  BY FS_EmptySet DEF RefilledBy
<1>2. QED
  BY <1>1 DEF RefilledBy, TypeOK

\* Every action keeps the types.
LEMMA TypeStep ==
  ASSUME TypeOK, EntryControl, [Next]_vars
  PROVE  TypeOK'
<1> USE LoopAssumption, TimeAssumption DEF TypeOK, CallerLabels, LoopLabels
<1>1. ASSUME Tick PROVE TypeOK'
  BY <1>1 DEF Tick
<1>2. ASSUME LoopTakes PROVE TypeOK'
  <2>1. PICK r \in Refills : r # <<>> /\ ready' = Tail(r) /\ ran' = Append(ran, Head(r))
    BY <1>2 DEF LoopTakes
  <2>2. r \in Seq(Tasks)
    BY RefillsAreSequences DEF RefilledBy
  <2>3. ready' \in Seq(Tasks) /\ ran' \in Seq(Tasks)
    BY <2>1, <2>2
  <2>4. QED
    BY <1>2, <2>3 DEF LoopTakes, Goes
<1>3. ASSUME LoopExits PROVE TypeOK'
  BY <1>3 DEF LoopExits, Goes
<1>4. ASSUME LoopWaits PROVE TypeOK'
  BY <1>4 DEF LoopWaits, Goes
<1>5. ASSUME LoopWaitsUntil PROVE TypeOK'
  <2>1. \A e \in delayed : e.due \in 0..MaxTime
    BY DEF EntryControl, Entries
  <2>2. next_due' \in 0..MaxTime
    BY <1>5, <2>1 DEF LoopWaitsUntil
  <2>3. QED
    BY <1>5, <2>2 DEF LoopWaitsUntil, Goes
<1>6. ASSUME LoopResumes PROVE TypeOK'
  BY <1>6 DEF LoopResumes, Goes
<1>7. ASSUME LoopSleepsOn PROVE TypeOK'
  BY <1>7 DEF LoopSleepsOn
<1>8. ASSUME TaskEnds PROVE TypeOK'
  BY <1>8 DEF TaskEnds, Goes
<1>9. ASSUME LoopWakesAlone PROVE TypeOK'
  BY <1>9 DEF LoopWakesAlone
<1>10. ASSUME NEW t \in Threads, Notifies(t) PROVE TypeOK'
  BY <1>10 DEF Notifies, Goes, Home, Notify
<1>11. ASSUME NEW t \in Threads, JoinReturnsAtOnce(t) PROVE TypeOK'
  BY <1>11 DEF JoinReturnsAtOnce, Goes, Home
<1>12. ASSUME NEW t \in Threads, JoinBegins(t) PROVE TypeOK'
  BY <1>12 DEF JoinBegins, Goes
<1>13. ASSUME NEW t \in Threads, JoinEnds(t) PROVE TypeOK'
  BY <1>13 DEF JoinEnds, Goes
<1>14. ASSUME NEW t \in Threads, DestroyNotifies(t) PROVE TypeOK'
  BY <1>14 DEF DestroyNotifies, Goes, Notify
<1>15. ASSUME NEW t \in Threads, Enqueue(t) PROVE TypeOK'
  <2>1. NextTask \in Tasks
    BY <1>15, NextTaskIsFresh DEF Enqueue
  <2>2. ready' \in Seq(Tasks) /\ posted' \in Seq(Tasks)
    BY <1>15, <2>1 DEF Enqueue
  <2>3. QED
    BY <1>15, <2>2 DEF Enqueue, MayCall, Home
<1>16. ASSUME NEW t \in Threads, EnqueueDelay(t) PROVE TypeOK'
  <2>1. NextTask \in Tasks
    BY <1>16, NextTaskIsFresh DEF EnqueueDelay
  <2>2. \A d \in Delays : [due |-> now + d, seq |-> next_seq, task |-> NextTask] \in
     Entries
    BY <2>1 DEF Entries
  <2>3. delayed' \subseteq Entries /\ scheduled' \subseteq Entries
    BY <1>16, <2>2 DEF EnqueueDelay
  <2>4. QED
    BY <1>16, <2>3 DEF EnqueueDelay, MayCall, Home
<1>17. ASSUME NEW t \in Threads, PostRefused(t) PROVE TypeOK'
  <2>1. NextTask \in Tasks
    BY <1>17, NextTaskIsFresh DEF PostRefused
  <2>2. QED
    BY <1>17, <2>1 DEF PostRefused
<1>18. ASSUME NEW t \in Threads, Stop(t) PROVE TypeOK'
  <2>1. ready' \in Seq(Tasks)
    BY <1>18 DEF Stop, StopSection
  <2>2. QED
    BY <1>18, <2>1 DEF Stop, StopSection, MayCall, Home
<1>19. ASSUME NEW t \in Threads, StopAndDrain(t) PROVE TypeOK'
  BY <1>19 DEF StopAndDrain, MayCall, Home, StopSection
<1>20. ASSUME NEW t \in Threads, Join(t) PROVE TypeOK'
  BY <1>20 DEF Join, MayCall, Home
<1>21. ASSUME NEW t \in Threads, Destroy(t) PROVE TypeOK'
  BY <1>21 DEF Destroy, MayCall, Home, StopSection
<1>22. ASSUME UNCHANGED vars PROVE TypeOK'
  BY <1>22
<1>23. QED
  BY NextSplit, <1>1, <1>2, <1>3, <1>4, <1>5, <1>6, <1>7, <1>8, <1>9, <1>10, <1>11, <1>12,
     <1>13, <1>14, <1>15, <1>16, <1>17, <1>18, <1>19, <1>20, <1>21, <1>22

\* Every action keeps what is known of the entries.
LEMMA EntryStep ==
  ASSUME TypeOK, EntryControl, [Next]_vars
  PROVE  EntryControl'
<1> USE TimeAssumption DEF TypeOK, EntryControl, Entries
<1>1. ASSUME LoopTakes PROVE EntryControl'
  <2>1. IsFiniteSet(delayed \ Due)
    BY FS_Difference
  <2>2. QED
    BY <1>1, <2>1 DEF LoopTakes
<1>2. ASSUME NEW t \in Threads, EnqueueDelay(t) PROVE EntryControl'
  <2>1. PICK d \in Delays :
          LET entry == [due |-> now + d, seq |-> next_seq, task |-> NextTask]
          IN  /\ now + d <= MaxTime
              /\ delayed' = delayed \cup {entry}
              /\ scheduled' = scheduled \cup {entry}
    BY <1>2 DEF EnqueueDelay
  <2>2. IsFiniteSet(delayed')
    BY <2>1, FS_AddElement
  <2>3. next_seq' = next_seq + 1
    BY <1>2 DEF EnqueueDelay
  <2>4. QED
    BY <2>1, <2>2, <2>3
<1>3. ASSUME UNCHANGED <<scheduled, next_seq>>, delayed' = delayed \/ delayed' = {}
      PROVE  EntryControl'
  BY <1>3, FS_EmptySet
<1>4. QED
  BY NextSplit, <1>1, <1>2, <1>3 DEF Tick, LoopExits, LoopWaits, LoopWaitsUntil,
     LoopResumes, LoopSleepsOn, TaskEnds, LoopWakesAlone, Notifies, JoinReturnsAtOnce,
     JoinBegins, JoinEnds, DestroyNotifies, Enqueue, PostRefused, Stop, StopAndDrain,
     StopSection, Join, Destroy

\* Once the loop is stopped nothing falls due, so a task that starts was ready.
LEMMA TakesWhatIsReady ==
  ASSUME TypeOK, EntryControl, LoopTakes, phase # "Running"
  PROVE  ready # <<>>
<1>1. PICK r \in Refills : r # <<>>
  BY DEF LoopTakes
<1>2. PICK s : RefilledBy(r, s)
  BY RefillsAreSequences
<1>3. Due = {}
  BY DEF Due
<1>4. QED
  BY <1>1, <1>2, <1>3, NothingDue

\* Every action keeps the phases and the queues in step.
LEMMA PhaseStep ==
  ASSUME TypeOK, EntryControl, PhaseControl, [Next]_vars
  PROVE  PhaseControl'
<1> USE LoopAssumption DEF TypeOK, PhaseControl
<1>1. ASSUME Tick PROVE PhaseControl'
  BY <1>1 DEF Tick
<1>2. ASSUME LoopTakes PROVE PhaseControl'
  <2>1. phase # "Running" => delayed' = {}
    BY <1>2 DEF LoopTakes
  <2>2. phase # "Running" => ready # <<>>
    BY <1>2, TakesWhatIsReady
  <2>3. QED
    BY <1>2, <2>1, <2>2 DEF LoopTakes, Goes
<1>3. ASSUME LoopExits PROVE PhaseControl'
  BY <1>3 DEF LoopExits, Goes, NothingToRun
<1>4. ASSUME LoopWaits PROVE PhaseControl'
  BY <1>4 DEF LoopWaits, Goes
<1>5. ASSUME LoopWaitsUntil PROVE PhaseControl'
  BY <1>5 DEF LoopWaitsUntil, Goes
<1>6. ASSUME LoopResumes PROVE PhaseControl'
  BY <1>6 DEF LoopResumes, Goes
<1>7. ASSUME LoopSleepsOn PROVE PhaseControl'
  BY <1>7 DEF LoopSleepsOn
<1>8. ASSUME TaskEnds PROVE PhaseControl'
  BY <1>8 DEF TaskEnds, Goes
<1>9. ASSUME LoopWakesAlone PROVE PhaseControl'
  BY <1>9 DEF LoopWakesAlone
<1>10. ASSUME NEW t \in Threads, Notifies(t) PROVE PhaseControl'
  BY <1>10 DEF Notifies, Goes, Home, Notify
<1>11. ASSUME NEW t \in Threads, JoinReturnsAtOnce(t) PROVE PhaseControl'
  BY <1>11 DEF JoinReturnsAtOnce, Goes, Home
<1>12. ASSUME NEW t \in Threads, JoinBegins(t) PROVE PhaseControl'
  BY <1>12 DEF JoinBegins, Goes
<1>13. ASSUME NEW t \in Threads, JoinEnds(t) PROVE PhaseControl'
  BY <1>13 DEF JoinEnds, Goes
<1>14. ASSUME NEW t \in Threads, DestroyNotifies(t) PROVE PhaseControl'
  BY <1>14 DEF DestroyNotifies, Goes, Notify
<1>15. ASSUME NEW t \in Threads, Enqueue(t) PROVE PhaseControl'
  BY <1>15 DEF Enqueue, MayCall, Home
<1>16. ASSUME NEW t \in Threads, EnqueueDelay(t) PROVE PhaseControl'
  BY <1>16 DEF EnqueueDelay, MayCall, Home
<1>17. ASSUME NEW t \in Threads, PostRefused(t) PROVE PhaseControl'
  BY <1>17 DEF PostRefused, MayCall, Home
<1>18. ASSUME NEW t \in Threads, Stop(t) PROVE PhaseControl'
  BY <1>18 DEF Stop, MayCall, Home, StopSection
<1>19. ASSUME NEW t \in Threads, StopAndDrain(t) PROVE PhaseControl'
  BY <1>19 DEF StopAndDrain, MayCall, Home, StopSection
<1>20. ASSUME NEW t \in Threads, Join(t) PROVE PhaseControl'
  BY <1>20 DEF Join, MayCall, Home
<1>21. ASSUME NEW t \in Threads, Destroy(t) PROVE PhaseControl'
  BY <1>21 DEF Destroy, MayCall, Home, StopSection
<1>22. ASSUME UNCHANGED vars PROVE PhaseControl'
  BY <1>22
<1>23. QED
  BY NextSplit, <1>1, <1>2, <1>3, <1>4, <1>5, <1>6, <1>7, <1>8, <1>9, <1>10, <1>11, <1>12,
     <1>13, <1>14, <1>15, <1>16, <1>17, <1>18, <1>19, <1>20, <1>21, <1>22

\* A sleeping loop thread misses nothing: every action that makes what it waits
\* for true is on its way to notify it.
LEMMA AsleepStep ==
  ASSUME TypeOK, AsleepMeansIdle, [Next]_vars
  PROVE  AsleepMeansIdle'
<1> USE LoopAssumption DEF TypeOK, AsleepMeansIdle, Waiting, Awaited, HeadIsDue
<1>1. ASSUME Tick PROVE AsleepMeansIdle'
  BY <1>1 DEF Tick
<1>2. ASSUME LoopTakes PROVE AsleepMeansIdle'
  BY <1>2 DEF LoopTakes, Goes
<1>3. ASSUME LoopExits PROVE AsleepMeansIdle'
  BY <1>3 DEF LoopExits, Goes
<1>4. ASSUME LoopWaits PROVE AsleepMeansIdle'
  BY <1>4 DEF LoopWaits, Goes, NothingToRun
<1>5. ASSUME LoopWaitsUntil PROVE AsleepMeansIdle'
  BY <1>5 DEF LoopWaitsUntil, Goes, NothingToRun
<1>6. ASSUME LoopResumes PROVE AsleepMeansIdle'
  BY <1>6 DEF LoopResumes, Goes
<1>7. ASSUME LoopSleepsOn PROVE AsleepMeansIdle'
  BY <1>7 DEF LoopSleepsOn
<1>8. ASSUME TaskEnds PROVE AsleepMeansIdle'
  BY <1>8 DEF TaskEnds, Goes
<1>9. ASSUME LoopWakesAlone PROVE AsleepMeansIdle'
  BY <1>9 DEF LoopWakesAlone
<1>10. ASSUME NEW t \in Threads, Notifies(t) PROVE AsleepMeansIdle'
  BY <1>10 DEF Notifies, Goes, Home, Notify
<1>11. ASSUME NEW t \in Threads, JoinReturnsAtOnce(t) PROVE AsleepMeansIdle'
  BY <1>11 DEF JoinReturnsAtOnce, Goes, Home
<1>12. ASSUME NEW t \in Threads, JoinBegins(t) PROVE AsleepMeansIdle'
  BY <1>12 DEF JoinBegins, Goes
<1>13. ASSUME NEW t \in Threads, JoinEnds(t) PROVE AsleepMeansIdle'
  BY <1>13 DEF JoinEnds, Goes
<1>14. ASSUME NEW t \in Threads, DestroyNotifies(t) PROVE AsleepMeansIdle'
  BY <1>14 DEF DestroyNotifies, Goes, Notify
<1>15. ASSUME NEW t \in Threads, Enqueue(t) PROVE AsleepMeansIdle'
  BY <1>15 DEF Enqueue, MayCall, Home
<1>16. ASSUME NEW t \in Threads, EnqueueDelay(t) PROVE AsleepMeansIdle'
  BY <1>16 DEF EnqueueDelay, MayCall, Home
<1>17. ASSUME NEW t \in Threads, PostRefused(t) PROVE AsleepMeansIdle'
  BY <1>17 DEF PostRefused, MayCall, Home
<1>18. ASSUME NEW t \in Threads, Stop(t) PROVE AsleepMeansIdle'
  BY <1>18 DEF Stop, MayCall, Home, StopSection
<1>19. ASSUME NEW t \in Threads, StopAndDrain(t) PROVE AsleepMeansIdle'
  BY <1>19 DEF StopAndDrain, MayCall, Home, StopSection
<1>20. ASSUME NEW t \in Threads, Join(t) PROVE AsleepMeansIdle'
  BY <1>20 DEF Join, MayCall, Home
<1>21. ASSUME NEW t \in Threads, Destroy(t) PROVE AsleepMeansIdle'
  BY <1>21 DEF Destroy, MayCall, Home, StopSection
<1>22. ASSUME UNCHANGED vars PROVE AsleepMeansIdle'
  BY <1>22
<1>23. QED
  BY NextSplit, <1>1, <1>2, <1>3, <1>4, <1>5, <1>6, <1>7, <1>8, <1>9, <1>10, <1>11, <1>12,
     <1>13, <1>14, <1>15, <1>16, <1>17, <1>18, <1>19, <1>20, <1>21, <1>22
-----------------------------------------------------------------------------
\* The line, place by place.
LEMMA LineFacts ==
  ASSUME TypeOK
  PROVE  /\ Line \in Seq(Tasks) /\ Len(Line) = Len(ran) + Len(ready)
         /\ Len(ran) \in Nat /\ Len(ready) \in Nat
         /\ \A i \in 1..Len(ran) : Line[i] = ran[i]
         /\ \A i \in 1..Len(ready) : Line[Len(ran) + i] = ready[i]
<1>1. ran \in Seq(Tasks) /\ ready \in Seq(Tasks)
  BY DEF TypeOK
<1>2. /\ Line \in Seq(Tasks) /\ Len(Line) = Len(ran) + Len(ready)
      /\ \A i \in 1 .. Len(ran) + Len(ready) :
           Line[i] = IF i <= Len(ran) THEN ran[i] ELSE ready[i - Len(ran)]
  BY <1>1, ConcatProperties DEF Line
<1>3. Len(ran) \in Nat /\ Len(ready) \in Nat
  BY <1>1
<1>4. ASSUME NEW i \in 1..Len(ran) PROVE Line[i] = ran[i]
  BY <1>2, <1>3
<1>5. ASSUME NEW i \in 1..Len(ready) PROVE Line[Len(ran) + i] = ready[i]
  <2>1. /\ Len(ran) + i \in 1 .. Len(ran) + Len(ready)
        /\ ~(Len(ran) + i <= Len(ran)) /\ Len(ran) + i - Len(ran) = i
    BY <1>3
  <2>2. QED
    BY <1>2, <2>1
<1>6. QED
  BY <1>2, <1>3, <1>4, <1>5

\* The line grows by the tasks of s, which are the due entries in order.
Extended(s) ==
  /\ Len(Line') = Len(Line) + Len(s) /\ Len(s) \in Nat /\ Len(Line) \in Nat
  /\ \A i \in 1..Len(Line) : Line'[i] = Line[i]
  /\ \A i \in 1..Len(s) : Line'[Len(Line) + i] = s[i].task
  /\ \A i \in 1..Len(s) : s[i] \in Due
  /\ \A i, j \in 1..Len(s) : i < j => Before(s[i], s[j])

\* The loop thread takes the first task of the line that has not started, and
\* the due entries join the line's end.
LEMMA TakeExtends ==
  ASSUME TypeOK, TypeOK', EntryControl, LoopTakes
  PROVE  \E s : Extended(s)
<1>1. PICK r \in Refills : r # <<>> /\ ready' = Tail(r) /\ ran' = Append(ran, Head(r))
  BY DEF LoopTakes
<1>2. PICK s : RefilledBy(r, s)
  BY RefillsAreSequences
<1>3. r \in Seq(Tasks) /\ ran \in Seq(Tasks) /\ Len(s) \in Nat
  BY <1>2 DEF RefilledBy, TypeOK
<1>4. Line' = ran \o r
  BY <1>1, <1>3, HeadMovesOver DEF Line
<1>5. /\ Len(Line') = Len(ran) + Len(r)
      /\ \A i \in 1 .. Len(ran) + Len(r) :
           Line'[i] = IF i <= Len(ran) THEN ran[i] ELSE r[i - Len(ran)]
  BY <1>3, <1>4, ConcatProperties
<1>6. /\ Len(Line) = Len(ran) + Len(ready) /\ Len(ran) \in Nat /\ Len(ready) \in Nat
      /\ Len(r) = Len(ready) + Len(s)
  BY <1>2, LineFacts DEF RefilledBy
<1>7. ASSUME NEW i \in 1..Len(Line) PROVE Line'[i] = Line[i]
  <2>1. i \in 1 .. Len(ran) + Len(r)
    BY <1>3, <1>6
  <2>2. CASE i <= Len(ran)
    <3>1. i \in 1..Len(ran)
      BY <1>6, <2>2
    <3>2. QED
      BY <1>5, <2>1, <2>2, <3>1, LineFacts
  <2>3. CASE ~(i <= Len(ran))
    <3>1. i - Len(ran) \in 1..Len(ready) /\ Len(ran) + (i - Len(ran)) = i
      BY <1>6, <2>3
    <3>2. Line[Len(ran) + (i - Len(ran))] = ready[i - Len(ran)]
      BY <3>1, LineFacts
    <3>3. r[i - Len(ran)] = ready[i - Len(ran)]
      BY <1>2, <3>1 DEF RefilledBy
    <3>4. QED
      BY <1>5, <2>1, <2>3, <3>1, <3>2, <3>3
  <2>4. QED
    BY <2>2, <2>3
<1>8. ASSUME NEW i \in 1..Len(s) PROVE Line'[Len(Line) + i] = s[i].task
  <2>1. /\ Len(Line) + i \in 1 .. Len(ran) + Len(r) /\ ~(Len(Line) + i <= Len(ran))
        /\ Len(Line) + i - Len(ran) = Len(ready) + i
    BY <1>3, <1>6
  <2>2. r[Len(ready) + i] = s[i].task
    BY <1>2 DEF RefilledBy
  <2>3. QED
    BY <1>5, <2>1, <2>2
<1>9. /\ \A i \in 1..Len(s) : s[i] \in Due
      /\ \A i, j \in 1..Len(s) : i < j => Before(s[i], s[j])
  BY <1>2 DEF RefilledBy
<1>10. /\ Len(Line') = Len(Line) + Len(s) /\ Len(s) \in Nat /\ Len(Line) \in Nat
  BY <1>3, <1>5, <1>6
<1>11. Extended(s)
  BY <1>7, <1>8, <1>9, <1>10 DEF Extended
<1>12. QED
  BY <1>11

\* Every place of the longer line is an old one or that of a moved entry.
LEMMA PlaceSplit ==
  ASSUME NEW s, Extended(s), NEW n \in 1..Len(Line')
  PROVE  \/ n \in 1..Len(Line) /\ Line'[n] = Line[n]
         \/ \E k \in 1..Len(s) : n = Len(Line) + k /\ Line'[n] = s[k].task
<1>1. CASE n <= Len(Line)
  BY <1>1 DEF Extended
<1>2. CASE ~(n <= Len(Line))
  <2>1. n - Len(Line) \in 1..Len(s) /\ n = Len(Line) + (n - Len(Line))
    BY <1>2 DEF Extended
  <2>2. QED
    BY <2>1 DEF Extended
<1>3. QED
  BY <1>1, <1>2

\* The loop thread's step keeps the order of the line: an entry that is moved
\* now was delayed, so that it comes after all that is in the line.
LEMMA OrderMoves ==
  ASSUME TypeOK, TypeOK', EntryControl, Order, LoopTakes
  PROVE  Order'
<1> USE DEF Entries, Before
<1>1. PICK s : Extended(s)
  BY TakeExtends
<1>2. /\ posted' = posted /\ scheduled' = scheduled /\ now' = now
      /\ delayed' = delayed \ Due
  BY DEF LoopTakes
<1>3. \A k \in 1..Len(s) :
        /\ s[k] \in delayed /\ s[k] \in scheduled /\ s[k].due <= now
        /\ s[k] \in Entries /\ phase = "Running"
  BY <1>1 DEF Extended, Due, EntryControl, TypeOK
<1>4. Len(Line) \in Nat /\ Len(s) \in Nat
  BY <1>1 DEF Extended
<1>5. \A n \in 1..Len(Line') :
        \/ n \in 1..Len(Line) /\ Line'[n] = Line[n]
        \/ \E k \in 1..Len(s) : n = Len(Line) + k /\ Line'[n] = s[k].task
  BY <1>1, PlaceSplit
<1>6. \A k, l \in 1..Len(s) : s[k].task = s[l].task => k = l
  <2> SUFFICES ASSUME NEW k \in 1..Len(s), NEW l \in 1..Len(s), s[k].task = s[l].task
               PROVE  k = l
    OBVIOUS
  <2>1. s[k] = s[l]
    BY <1>3 DEF Order, Identity
  <2>2. ~Before(s[k], s[l]) /\ ~Before(s[l], s[k])
    BY <1>3, <2>1
  <2>3. ~(k < l) /\ ~(l < k)
    BY <1>1, <2>2 DEF Extended
  <2>4. QED
    BY <1>4, <2>3
<1>7. \A k \in 1..Len(s) : \A n \in 1..Len(Line) : s[k].task # Line[n]
  BY <1>3 DEF Order, Identity
<1>8. Identity'
  <2>1. \A e \in delayed' : \A n \in 1..Len(Line') : e.task # Line'[n]
    <3> SUFFICES ASSUME NEW e \in delayed', NEW n \in 1..Len(Line'), e.task = Line'[n]
                 PROVE  FALSE
      OBVIOUS
    <3>1. e \in delayed /\ e \notin Due /\ e \in scheduled
      BY <1>2 DEF EntryControl
    <3>2. CASE n \in 1..Len(Line) /\ Line'[n] = Line[n]
      BY <3>1, <3>2 DEF Order, Identity
    <3>3. ASSUME NEW k \in 1..Len(s), Line'[n] = s[k].task PROVE FALSE
      <4>1. e = s[k]
        BY <1>3, <3>1, <3>3 DEF Order, Identity
      <4>2. QED
        BY <1>1, <3>1, <4>1 DEF Extended
    <3>4. QED
      BY <1>5, <3>2, <3>3
  <2>2. \A n \in 1..Len(Line') : \/ \E i \in 1..Len(posted') : Line'[n] = posted'[i]
                                 \/ \E e \in scheduled' : Line'[n] = e.task
    <3> SUFFICES ASSUME NEW n \in 1..Len(Line')
                 PROVE  \/ \E i \in 1..Len(posted) : Line'[n] = posted[i]
                        \/ \E e \in scheduled : Line'[n] = e.task
      BY <1>2
    <3>1. CASE n \in 1..Len(Line) /\ Line'[n] = Line[n]
      BY <3>1 DEF Order, Identity
    <3>2. QED
      BY <1>3, <1>5, <3>1
  <2>3. \A m, n \in 1..Len(Line') : Line'[m] = Line'[n] => m = n
    <3> SUFFICES ASSUME NEW m \in 1..Len(Line'), NEW n \in 1..Len(Line'),
                        Line'[m] = Line'[n]
                 PROVE  m = n
      OBVIOUS
    <3>1. CASE m \in 1..Len(Line) /\ Line'[m] = Line[m]
      <4>1. CASE n \in 1..Len(Line) /\ Line'[n] = Line[n]
        BY <3>1, <4>1 DEF Order, Identity
      <4>2. QED
        BY <1>5, <1>7, <3>1, <4>1
    <3>2. ASSUME NEW k \in 1..Len(s), m = Len(Line) + k, Line'[m] = s[k].task
          PROVE  m = n
      BY <1>5, <1>6, <1>7, <3>2, ZenonT(30)
    <3>3. QED
      BY <1>5, <3>1, <3>2
  <2>4. QED
    BY <1>2, <2>1, <2>2, <2>3 DEF Order, Identity
<1>9. LinePostOrder'
  <2> SUFFICES ASSUME NEW i \in 1..Len(posted), NEW j \in 1..Len(posted),
                      NEW n \in 1..Len(Line'), i < j, Line'[n] = posted[j]
               PROVE  \E m \in 1..(n - 1) : Line'[m] = posted[i]
    BY <1>2, SMTT(30) DEF LinePostOrder
  <2>1. CASE n \in 1..Len(Line) /\ Line'[n] = Line[n]
    <3>1. PICK m \in 1..(n - 1) : Line[m] = posted[i]
      BY <2>1 DEF Order, LinePostOrder
    <3>2. m \in 1..Len(Line)
      BY <1>4, <2>1
    <3>3. Line'[m] = Line[m]
      BY <1>1, <3>2 DEF Extended
    <3>4. QED
      BY <3>1, <3>3
  <2>2. ASSUME NEW k \in 1..Len(s), Line'[n] = s[k].task PROVE FALSE
    BY <1>3, <2>2, ZenonT(30) DEF Order, Identity
  <2>3. QED
    BY <1>5, <2>1, <2>2
<1>10. LineDueOrder'
  <2> SUFFICES ASSUME NEW m \in 1..Len(Line'), NEW n \in 1..Len(Line'),
                      NEW e \in scheduled, NEW f \in scheduled,
                      m < n, e.task = Line'[m], f.task = Line'[n]
               PROVE  Before(e, f)
    BY <1>2 DEF LineDueOrder
  <2>1. CASE n \in 1..Len(Line) /\ Line'[n] = Line[n]
    <3>1. m \in 1..Len(Line) /\ Line'[m] = Line[m]
      BY <1>1, <1>4, <2>1 DEF Extended
    <3>2. QED
      BY <2>1, <3>1 DEF Order, LineDueOrder
  <2>2. ASSUME NEW k \in 1..Len(s), n = Len(Line) + k, Line'[n] = s[k].task
        PROVE  Before(e, f)
    <3>1. f = s[k]
      BY <1>3, <2>2 DEF Order, Identity
    <3>2. CASE m \in 1..Len(Line) /\ Line'[m] = Line[m]
      BY <1>3, <3>1, <3>2 DEF Order, LineDue
    <3>3. ASSUME NEW l \in 1..Len(s), m = Len(Line) + l, Line'[m] = s[l].task
          PROVE  Before(e, f)
      <4>1. e = s[l]
        BY <1>3, <3>3 DEF Order, Identity
      <4>2. l < k
        BY <1>4, <2>2, <3>3
      <4>3. QED
        BY <1>1, <3>1, <4>1, <4>2 DEF Extended
    <3>4. QED
      BY <1>5, <3>2, <3>3
  <2>3. QED
    BY <1>5, <2>1, <2>2
<1>11. LineDue'
  <2> SUFFICES ASSUME NEW e \in scheduled, NEW n \in 1..Len(Line'), e.task = Line'[n]
               PROVE  e.due <= now /\ \A f \in delayed \ Due : Before(e, f)
    BY <1>2 DEF LineDue
  <2>1. CASE n \in 1..Len(Line) /\ Line'[n] = Line[n]
    BY <2>1 DEF Order, LineDue
  <2>2. ASSUME NEW k \in 1..Len(s), Line'[n] = s[k].task
        PROVE  e.due <= now /\ \A f \in delayed \ Due : Before(e, f)
    <3>1. e = s[k]
      BY <1>3, <2>2 DEF Order, Identity
    <3>2. \A f \in delayed \ Due : f.due \in Nat /\ ~(f.due <= now)
      BY <1>3 DEF Due, TypeOK
    <3>3. now \in Nat /\ e.due \in Nat /\ e.due <= now
      BY <1>3, <3>1, TimeAssumption, SMTT(30) DEF TypeOK
    <3>4. QED
      BY <3>2, <3>3
  <2>3. QED
    BY <1>5, <2>1, <2>2
<1>12. QED
  BY <1>8, <1>9, <1>10, <1>11 DEF Order

\* A posted task is put at the end of the line.
LEMMA PostAppends ==
  ASSUME TypeOK, NEW t \in Threads, Enqueue(t)
  PROVE  /\ Len(Line') = Len(Line) + 1 /\ Len(Line) \in Nat
         /\ \A i \in 1..Len(Line) : Line'[i] = Line[i]
         /\ Line'[Len(Line) + 1] = NextTask
         /\ Len(posted') = Len(posted) + 1 /\ Len(posted) \in Nat
         /\ \A i \in 1..Len(posted) : posted'[i] = posted[i]
         /\ posted'[Len(posted) + 1] = NextTask
<1>1. NextTask \in Tasks
  BY NextTaskIsFresh DEF Enqueue
<1>2. /\ ready' = Append(ready, NextTask) /\ posted' = Append(posted, NextTask)
      /\ ran' = ran
  BY DEF Enqueue
<1>3. ran \in Seq(Tasks) /\ ready \in Seq(Tasks) /\ posted \in Seq(Tasks)
      /\ <<NextTask>> \in Seq(Tasks)
  BY <1>1 DEF TypeOK
<1>4. Line \in Seq(Tasks)
  BY LineFacts
<1>5. Line' = Append(Line, NextTask)
  <2>1. ready' = ready \o <<NextTask>>
    BY <1>1, <1>2, <1>3, AppendIsConcat
  <2>2. (ran \o ready) \o <<NextTask>> = ran \o (ready \o <<NextTask>>)
    BY <1>3, ConcatAssociative
  <2>3. Append(Line, NextTask) = Line \o <<NextTask>>
    BY <1>1, <1>4, AppendIsConcat
  <2>4. QED
    BY <1>2, <2>1, <2>2, <2>3 DEF Line
<1>6. QED
  BY <1>1, <1>2, <1>3, <1>4, <1>5

\* Posting keeps the order: the new task comes last and is new.
LEMMA OrderPosts ==
  ASSUME TypeOK, EntryControl, Order, NEW t \in Threads, Enqueue(t),
         Accounted, phase = "Running"
  PROVE  Order' /\ Accounted'
<1>1. /\ scheduled' = scheduled /\ delayed' = delayed /\ now' = now /\ phase' = phase
      /\ Unposted # {}
  BY DEF Enqueue
<1> DEFINE x == NextTask
           L == Len(Line)
           P == Len(posted)
<1>2. /\ \A e \in scheduled : e.task # x
      /\ \A i \in 1..P : posted[i] # x
  BY <1>1, NextTaskIsFresh DEF TypeOK
<1>3. /\ Len(Line') = L + 1 /\ L \in Nat
      /\ \A i \in 1..L : Line'[i] = Line[i]
      /\ Line'[L + 1] = x
      /\ Len(posted') = P + 1 /\ P \in Nat
      /\ \A i \in 1..P : posted'[i] = posted[i]
      /\ posted'[P + 1] = x
  BY PostAppends
<1> HIDE DEF x, L, P
<1>4. \A n \in 1..L : Line[n] # x
  BY <1>2 DEF Order, Identity, L, P
<1>5. \A n \in 1..Len(Line') : n \in 1..L \/ n = L + 1
  BY <1>3
<1>6. \A i \in 1..Len(posted') : i \in 1..P \/ i = P + 1
  BY <1>3
<1>7. \A n \in 1..L : n \in 1..Len(Line')
  BY <1>3
<1>8. Identity'
  <2>1. \A e \in scheduled : \A i \in 1..Len(posted') : e.task # posted'[i]
    BY <1>2, <1>3, <1>6 DEF Order, Identity, P
  <2>2. \A e \in delayed : \A n \in 1..Len(Line') : e.task # Line'[n]
    BY <1>2, <1>3, <1>5 DEF Order, Identity, L, EntryControl
  <2>3. \A n \in 1..Len(Line') : \/ \E i \in 1..Len(posted') : Line'[n] = posted'[i]
                                 \/ \E e \in scheduled : Line'[n] = e.task
    <3> SUFFICES ASSUME NEW n \in 1..Len(Line')
                 PROVE  \/ \E i \in 1..Len(posted') : Line'[n] = posted'[i]
                        \/ \E e \in scheduled : Line'[n] = e.task
      OBVIOUS
    <3>1. CASE n = L + 1
      <4>1. P + 1 \in 1..Len(posted')
        BY <1>3
      <4>2. QED
        BY <1>3, <3>1, <4>1
    <3>2. CASE n \in 1..L
      <4>1. ASSUME NEW i \in 1..P, Line[n] = posted[i]
            PROVE  \E k \in 1..Len(posted') : Line'[n] = posted'[k]
        <5>1. i \in 1..Len(posted')
          BY <1>3
        <5>2. QED
          BY <1>3, <3>2, <4>1, <5>1
      <4>2. QED
        BY <1>3, <3>2, <4>1 DEF Order, Identity, L, P
    <3>3. QED
      BY <1>5, <3>1, <3>2
  <2>4. \A m, n \in 1..Len(Line') : Line'[m] = Line'[n] => m = n
    BY <1>3, <1>4, <1>5 DEF Order, Identity, L
  <2>5. QED
    BY <1>1, <2>1, <2>2, <2>3, <2>4 DEF Order, Identity
<1>9. \A i \in 1..P : \E n \in 1..L : Line[n] = posted[i]
  BY DEF Accounted, L, P
<1>10. LinePostOrder'
  <2> SUFFICES ASSUME NEW i \in 1..Len(posted'), NEW j \in 1..Len(posted'),
                      NEW n \in 1..Len(Line'), i < j, Line'[n] = posted'[j]
               PROVE  \E m \in 1..(n - 1) : Line'[m] = posted'[i]
    BY DEF LinePostOrder
  <2>1. i \in 1..P
    BY <1>3
  <2>2. CASE n = L + 1
    <3>1. PICK m \in 1..L : Line[m] = posted[i]
      BY <1>9, <2>1
    <3>2. m \in 1..(n - 1)
      BY <1>3, <2>2
    <3>3. QED
      BY <1>3, <2>1, <3>1, <3>2
  <2>3. CASE n \in 1..L
    <3>1. j \in 1..P
      BY <1>3, <1>4, <1>6, <2>3
    <3>2. PICK m \in 1..(n - 1) : Line[m] = posted[i]
      BY <1>3, <2>1, <2>3, <3>1 DEF Order, LinePostOrder, L, P
    <3>3. m \in 1..L
      BY <1>3, <2>3
    <3>4. QED
      BY <1>3, <2>1, <3>2, <3>3
  <2>4. QED
    BY <1>5, <2>2, <2>3
<1>11. LineDueOrder'
  BY <1>1, <1>2, <1>3, <1>5 DEF Order, LineDueOrder, L
<1>12. LineDue'
  BY <1>1, <1>2, <1>3, <1>5 DEF Order, LineDue, L
<1>13. Accounted'
  <2>1. \A i \in 1..Len(posted') : \E n \in 1..Len(Line') : Line'[n] = posted'[i]
    <3> SUFFICES ASSUME NEW i \in 1..Len(posted')
                 PROVE  \E n \in 1..Len(Line') : Line'[n] = posted'[i]
      OBVIOUS
    <3>1. CASE i = P + 1
      <4>1. L + 1 \in 1..Len(Line')
        BY <1>3
      <4>2. QED
        BY <1>3, <3>1, <4>1
    <3>2. CASE i \in 1..P
      BY <1>3, <1>7, <1>9, <3>2
    <3>3. QED
      BY <1>6, <3>1, <3>2
  <2>2. QED
    BY <2>1 DEF Accounted
<1>14. QED
  BY <1>8, <1>10, <1>11, <1>12, <1>13 DEF Order

\* Accepting a delayed entry keeps the order: it is due now at the earliest and
\* numbered after the others.
LEMMA OrderSchedules ==
  ASSUME TypeOK, EntryControl, Order, NEW t \in Threads, EnqueueDelay(t)
  PROVE  Order'
<1>1. PICK d \in Delays :
        /\ delayed' = delayed \cup {[due |-> now + d, seq |-> next_seq, task |-> NextTask]}
        /\ scheduled' = scheduled \cup {[due |-> now + d, seq |-> next_seq, task |-> NextTask]}
  BY DEF EnqueueDelay
<1> DEFINE entry == [due |-> now + d, seq |-> next_seq, task |-> NextTask]
<1>2. /\ posted' = posted /\ now' = now /\ Line' = Line /\ Unposted # {}
  BY DEF EnqueueDelay, Line
<1>3. /\ \A e \in scheduled : e.task # NextTask
      /\ \A i \in 1..Len(posted) : posted[i] # NextTask
  BY <1>2, NextTaskIsFresh DEF TypeOK
<1>4. \A n \in 1..Len(Line) : Line[n] # NextTask
  BY <1>3 DEF Order, Identity
<1>5. entry.task = NextTask /\ entry.due = now + d /\ entry.seq = next_seq
  OBVIOUS
<1>6. delayed' = delayed \cup {entry} /\ scheduled' = scheduled \cup {entry}
  BY <1>1
<1> HIDE DEF entry
<1>7. Identity'
  BY <1>2, <1>3, <1>4, <1>5, <1>6 DEF Order, Identity
<1>8. LinePostOrder'
  BY <1>2 DEF Order, LinePostOrder
<1>9. LineDueOrder'
  BY <1>2, <1>4, <1>5, <1>6 DEF Order, LineDueOrder
<1>10. LineDue'
  <2> SUFFICES ASSUME NEW e \in scheduled, NEW n \in 1..Len(Line), e.task = Line[n]
               PROVE  e.due <= now /\ Before(e, entry) /\ \A f \in delayed : Before(e, f)
    BY <1>2, <1>4, <1>5, <1>6 DEF LineDue
  <2>1. e.due <= now /\ \A f \in delayed : Before(e, f)
    BY DEF Order, LineDue
  <2>2. /\ e.due \in Nat /\ e.seq \in Nat /\ e.seq < next_seq /\ next_seq \in Nat
        /\ now \in Nat /\ d \in Nat
    BY TimeAssumption DEF TypeOK, Entries, EntryControl
  <2>3. Before(e, entry)
    BY <1>5, <2>1, <2>2 DEF Before
  <2>4. QED
    BY <2>1, <2>3
<1>11. QED
  BY <1>7, <1>8, <1>9, <1>10 DEF Order

\* Cutting the line, forgetting delayed entries and the passing of time keep
\* the order.
LEMMA OrderCuts ==
  ASSUME TypeOK, TypeOK', Order, posted' = posted, scheduled' = scheduled,
         delayed' \subseteq delayed, now' \in Nat, now <= now',
         Len(Line') \in Nat, Len(Line) \in Nat, Len(Line') <= Len(Line),
         \A i \in 1..Len(Line') : Line'[i] = Line[i]
  PROVE  Order'
<1>1. \A i \in 1..Len(Line') : i \in 1..Len(Line)
  OBVIOUS
<1>2. Identity'
  BY <1>1, SMTT(30) DEF Order, Identity
<1>3. LinePostOrder'
  <2> SUFFICES ASSUME NEW i \in 1..Len(posted), NEW j \in 1..Len(posted),
                      NEW n \in 1..Len(Line'), i < j, Line'[n] = posted[j]
               PROVE  \E m \in 1..(n - 1) : Line'[m] = posted[i]
    BY DEF LinePostOrder
  <2>1. PICK m \in 1..(n - 1) : Line[m] = posted[i]
    BY <1>1 DEF Order, LinePostOrder
  <2>2. m \in 1..Len(Line')
    OBVIOUS
  <2>3. QED
    BY <2>1, <2>2
<1>4. LineDueOrder'
  BY <1>1 DEF Order, LineDueOrder
<1>5. LineDue'
  <2>1. \A e \in scheduled : e.due \in Nat
    BY DEF TypeOK, Entries
  <2>2. now \in Nat
    BY TimeAssumption DEF TypeOK
  <2>3. QED
    BY <1>1, <2>1, <2>2 DEF Order, LineDue
<1>6. QED
  BY <1>2, <1>3, <1>4, <1>5 DEF Order

\* Every action keeps the order of the line, and loses no accepted task.
LEMMA OrderStep ==
  ASSUME TypeOK, TypeOK', EntryControl, Order, Accounted, [Next]_vars
  PROVE  Order' /\ Accounted'
<1>0. /\ Len(Line) \in Nat /\ Len(ran) \in Nat /\ Len(ran) <= Len(Line)
      /\ \A i \in 1..Len(ran) : Line[i] = ran[i]
      /\ now \in Nat /\ now' \in Nat
  BY LineFacts, TimeAssumption, SMTT(30) DEF TypeOK
<1>1. ASSUME LoopTakes PROVE Order' /\ Accounted'
  <2>1. PICK s : Extended(s)
    BY <1>1, TakeExtends
  <2>2. \A n \in 1..Len(Line) : n \in 1..Len(Line') /\ Line'[n] = Line[n]
    BY <2>1 DEF Extended
  <2>3. Accounted'
    BY <1>1, <2>2 DEF Accounted, LoopTakes
  <2>4. QED
    BY <1>1, <2>3, OrderMoves
<1>2. ASSUME NEW t \in Threads, Enqueue(t) PROVE Order' /\ Accounted'
  BY <1>2, OrderPosts DEF Enqueue
<1>3. ASSUME NEW t \in Threads, EnqueueDelay(t) PROVE Order' /\ Accounted'
  <2>1. Accounted'
    BY <1>3 DEF EnqueueDelay, Accounted, Line
  <2>2. QED
    BY <1>3, <2>1, OrderSchedules
<1>4. ASSUME NEW t \in Threads, Stop(t) PROVE Order' /\ Accounted'
  <2>1. ready' = <<>> /\ ran' = ran /\ delayed' = {} /\ posted' = posted
        /\ scheduled' = scheduled /\ now' = now
        /\ phase' = "Stopping" /\ stop_mode' = "Discard"
    BY <1>4 DEF Stop, StopSection
  <2>2. Line' = ran
    <3>1. ran \o <<>> = ran
      BY ConcatEmptySeq DEF TypeOK
    <3>2. QED
      BY <2>1, <3>1 DEF Line
  <2>3. Order'
    BY <1>0, <2>1, <2>2, OrderCuts
  <2>4. QED
    BY <2>1, <2>3 DEF Accounted
<1>5. ASSUME Line' = Line, posted' = posted, scheduled' = scheduled, delayed' \subseteq delayed,
             now <= now',
             phase' = "Running" \/ stop_mode' = "Drain" => phase = "Running" \/ stop_mode = "Drain"
      PROVE  Order' /\ Accounted'
  <2>1. Order'
    BY <1>0, <1>5, OrderCuts
  <2>2. QED
    BY <1>5, <2>1 DEF Accounted
<1>6. ASSUME NEW t \in Threads, StopAndDrain(t) PROVE Order' /\ Accounted'
  BY <1>0, <1>5, <1>6 DEF StopAndDrain, StopSection, Line
<1>7. ASSUME NEW t \in Threads, Destroy(t) PROVE Order' /\ Accounted'
  BY <1>0, <1>5, <1>7 DEF Destroy, StopSection, Line
<1>8. ASSUME Tick PROVE Order' /\ Accounted'
  BY <1>0, <1>5, <1>8 DEF Tick, Line
<1>9. ASSUME NEW t \in Threads, JoinEnds(t) PROVE Order' /\ Accounted'
  BY <1>0, <1>5, <1>9 DEF JoinEnds, Line
<1>10. ASSUME UNCHANGED <<now, ran, ready, delayed, posted, scheduled, phase, stop_mode>>
       PROVE  Order' /\ Accounted'
  BY <1>0, <1>5, <1>10 DEF Line
<1>11. QED
  BY NextSplit, <1>1, <1>2, <1>3, <1>4, <1>6, <1>7, <1>8, <1>9, <1>10 DEF LoopExits,
     LoopWaits, LoopWaitsUntil, LoopResumes, LoopSleepsOn, TaskEnds, LoopWakesAlone,
     Notifies, JoinReturnsAtOnce, JoinBegins, DestroyNotifies, PostRefused, Join
-----------------------------------------------------------------------------
\* The inductive invariant holds in every state of every behaviour.
LEMMA LoopInvariant == Spec => []Inv
<1>1. Init => Inv
  <2> SUFFICES ASSUME Init PROVE Inv
    OBVIOUS
  <2> USE LoopAssumption, TimeAssumption
  <2>1. stop_requested \in BOOLEAN /\ woken \in BOOLEAN /\ destroying \in BOOLEAN
    BY DEF Init
  <2>2. ready \in Seq(Tasks) /\ posted \in Seq(Tasks) /\ ran \in Seq(Tasks)
    BY DEF Init
  <2>3. TypeOK
    BY <2>1, <2>2 DEF Init, TypeOK, CallerLabels, LoopLabels
  <2>4. EntryControl
    BY FS_EmptySet DEF Init, EntryControl
  <2>5. PhaseControl /\ AsleepMeansIdle
    BY DEF Init, PhaseControl, AsleepMeansIdle, Waiting
  <2>6. Len(Line) = 0 /\ Len(posted) = 0
    BY <2>3, LineFacts DEF Init
  <2>7. Order /\ Accounted
    BY <2>6 DEF Init, Order, Identity, LinePostOrder, LineDueOrder, LineDue, Accounted
  <2>8. QED
    BY <2>3, <2>4, <2>5, <2>7 DEF Inv
<1>2. Inv /\ [Next]_vars => Inv'
  BY TypeStep, EntryStep, PhaseStep, AsleepStep, OrderStep DEF Inv
<1>3. QED
  BY <1>1, <1>2, PTL DEF Spec

\* What has started is the beginning of the line, so it is in the line's order.
LEMMA LineOrdersStarts ==
  ASSUME TypeOK, Order
  PROVE  StartOrder
<1>1. /\ Len(ran) \in Nat /\ Len(ran) <= Len(Line)
      /\ \A i \in 1..Len(ran) : Line[i] = ran[i]
      /\ \A i \in 1..Len(ran) : i \in 1..Len(Line)
  BY LineFacts
<1>2. PostOrder
  <2> SUFFICES ASSUME NEW i \in 1..Len(posted), NEW j \in 1..Len(posted),
                      NEW n \in 1..Len(ran), i < j, ran[n] = posted[j]
               PROVE  \E m \in 1..(n - 1) : ran[m] = posted[i]
    BY DEF PostOrder
  <2>1. PICK m \in 1..(n - 1) : Line[m] = posted[i]
    BY <1>1 DEF Order, LinePostOrder
  <2>2. m \in 1..Len(ran)
    BY <1>1
  <2>3. QED
    BY <1>1, <2>1, <2>2
<1>3. StartsOnce
  BY <1>1 DEF Order, Identity, StartsOnce
<1>4. DueOrder
  BY <1>1 DEF Order, LineDueOrder, DueOrder
<1>5. QED
  BY <1>2, <1>3, <1>4 DEF StartOrder

\* The loop's state and its clients keep their types; no client reaches a
\* point of the protocol that belongs to another.
THEOREM LoopTypeCorrect == Spec => []TypeOK
<1>1. Inv => TypeOK
  BY DEF Inv
<1>2. QED
  BY <1>1, LoopInvariant, PTL

\* run_loop starts tasks once each, immediate ones in the order of posting and
\* delayed ones by due time and number, whatever batches it moves.
THEOREM LoopStartsInOrder == Spec => []StartOrder
<1>1. Inv => StartOrder
  BY LineOrdersStarts DEF Inv
<1>2. QED
  BY <1>1, LoopInvariant, PTL

\* When join returns the loop thread is gone and nothing accepted is left over;
\* after stop_and_drain every immediate task has run.
THEOREM LoopJoinIsComplete == Spec => []JoinedIsComplete
<1>1. Inv => JoinedIsComplete
  <2> SUFFICES ASSUME Inv, phase = "Joined"
               PROVE  /\ pc[Loop] = "exited" /\ ready = <<>> /\ delayed = {}
                      /\ stop_mode = "Drain" => Range(posted) \subseteq Range(ran)
    BY DEF JoinedIsComplete
  <2>1. pc[Loop] = "exited" /\ ready = <<>> /\ delayed = {}
    BY DEF Inv, PhaseControl
  <2>2. Len(Line) = Len(ran) /\ \A i \in 1..Len(ran) : Line[i] = ran[i]
    BY <2>1, LineFacts DEF Inv
  <2>3. ASSUME stop_mode = "Drain", NEW i \in 1..Len(posted)
        PROVE  \E n \in 1..Len(ran) : ran[n] = posted[i]
    BY <2>2, <2>3 DEF Inv, Accounted
  <2>4. DOMAIN posted = 1..Len(posted) /\ DOMAIN ran = 1..Len(ran)
    BY DEF Inv, TypeOK
  <2>5. stop_mode = "Drain" => Range(posted) \subseteq Range(ran)
    BY <2>3, <2>4 DEF Range
  <2>6. QED
    BY <2>1, <2>5
<1>2. QED
  BY <1>1, LoopInvariant, PTL

\* A loop thread asleep has nothing to do by the predicate it waits with, or
\* somebody is about to notify it.
THEOREM LoopMissesNoWakeup == Spec => []AsleepMeansIdle
<1>1. Inv => AsleepMeansIdle
  BY DEF Inv
<1>2. QED
  BY <1>1, LoopInvariant, PTL

\* Only the loop thread's taking of a task starts one.
LEMMA OnlyTakesStart ==
  ASSUME [Next]_vars, ran' # ran
  PROVE  LoopTakes
  BY NextSplit DEF Tick, LoopExits, LoopWaits, LoopWaitsUntil, LoopResumes, LoopSleepsOn,
     TaskEnds, LoopWakesAlone, Notifies, JoinReturnsAtOnce, JoinBegins, JoinEnds,
     DestroyNotifies, Enqueue, EnqueueDelay, PostRefused, Stop, StopAndDrain, StopSection,
     Join, Destroy

\* What a step starts was in the line, so it was due.
LEMMA StartIsDue ==
  ASSUME TypeOK, TypeOK', EntryControl, Order, LoopTakes,
         NEW e \in scheduled, e.task = ran'[Len(ran')]
  PROVE  e.due <= now
<1>1. PICK r \in Refills : ran' = Append(ran, Head(r))
  BY DEF LoopTakes
<1>2. Len(ran') = Len(ran) + 1 /\ Len(ran) \in Nat
  BY <1>1 DEF TypeOK
<1>3. ran' \in Seq(Tasks) /\ ready' \in Seq(Tasks)
  BY DEF TypeOK
<1>4. /\ Len(Line') = Len(ran') + Len(ready') /\ Len(ready') \in Nat
      /\ \A i \in 1 .. Len(ran') + Len(ready') :
           Line'[i] = IF i <= Len(ran') THEN ran'[i] ELSE ready'[i - Len(ran')]
  BY <1>3, ConcatProperties DEF Line
<1>5. Len(ran') \in 1..Len(Line') /\ Line'[Len(ran')] = ran'[Len(ran')]
  BY <1>2, <1>4
<1>6. Order' /\ scheduled' = scheduled /\ now' = now
  BY OrderMoves DEF LoopTakes
<1>7. QED
  BY <1>5, <1>6 DEF Order, LineDue

\* No delayed task starts before it is due, and none starts at all once stop
\* has discarded the queues.
THEOREM LoopStartsAreTimely == Spec => StartsAreTimely
<1>1. Inv /\ Inv' /\ [Next]_vars =>
        [\A e \in scheduled : ran' # ran /\ e.task = ran'[Len(ran')] => e.due <= now]_vars
  <2> SUFFICES ASSUME Inv, Inv', [Next]_vars, NEW e \in scheduled, ran' # ran,
                      e.task = ran'[Len(ran')]
               PROVE  e.due <= now
    OBVIOUS
  <2>1. LoopTakes
    BY OnlyTakesStart
  <2>2. QED
    BY <2>1, StartIsDue DEF Inv
<1>2. Inv /\ [Next]_vars => [phase # "Running" /\ stop_mode = "Discard" => ran' = ran]_vars
  <2> SUFFICES ASSUME Inv, [Next]_vars, phase # "Running", stop_mode = "Discard", ran' # ran
               PROVE  FALSE
    OBVIOUS
  <2>1. LoopTakes
    BY OnlyTakesStart
  <2>2. ready = <<>> /\ ready # <<>>
    BY <2>1, TakesWhatIsReady DEF Inv, PhaseControl
  <2>3. QED
    BY <2>2
<1>3. QED
  BY <1>1, <1>2, LoopInvariant, PTL DEF Spec, StartsAreTimely, NotBeforeDue, StopDiscards
=============================================================================
