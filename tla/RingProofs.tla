----------------------------- MODULE RingProofs -----------------------------
(***************************************************************************)
(* Proofs about ShmRing: its types, that one live process at a time        *)
(* changes the ring, and that a reader copies whole messages.  They hold   *)
(* for any number of processes, slots and messages, wherever processes     *)
(* die, as long as a process that sends does not close its queue and open  *)
(* it again (WritersStayOpen): a closing writer frees the ring with a      *)
(* stale answer, and SingleWriter fails (run ring_two_writers).            *)
(*                                                                         *)
(* Three inductive invariants.  Ownership says which process each label of   *)
(* the writing and the resetting code entails writer_slot to name, and     *)
(* that a probed process holds the ring until it is dead.  Integrity says, *)
(* given Ownership, what every slot holds while the ring is settled, how   *)
(* far the writer and the resetter are in changing it, and what a reader   *)
(* has found out about its slot.  Copying says, given both, what a reader  *)
(* holds in every generation, also one that is over or being reset, as     *)
(* long as nobody else stores into the slot it reads, and who can.         *)
(***************************************************************************)
EXTENDS ShmRing, Integers, TLAPS

WritersStayOpen == Closers \cap Senders = {}

Writing(p) == pc[p] \in WritingLabels
Resetting(p) == pc[p] \in ResetLabels
Counting == WritingLabels \ {"load_seq"}

\* What a process knows of who has the ring.
Owns(p) ==
  /\ claimed[p] => p \in Senders
  /\ Sends(p) => p \in Senders /\ MaxSeq > 0
  /\ Writing(p) => writer_slot = p /\ writer_birth = p /\ Sends(p)
  /\ pc[p] = "claim_birth" => writer_slot = p /\ Sends(p)
  /\ Resetting(p) => writer_slot = Electing
  /\ writer_slot = p => p \in Senders
  /\ writer_slot = p /\ pc[p] # "dead" =>
       writer_birth = p \/ (pc[p] = "claim_birth" /\ writer_birth = None)
  /\ writer_slot = p /\ Sends(p) => write_seq < MaxSeq
  /\ pc[p] = "closing" => local[p].held # p

\* The process that is probed holds the ring until it has died.
Probes(p) ==
  LET q == local[p].held
  IN  /\ pc[p] \in {"probe", "probe_alive", "elect"} =>
           q \in Procs /\ (pc[q] = "dead" \/ writer_slot = q)
      /\ pc[p] = "elect" => pc[q] = "dead"

\* What the locals of a call say of the ring.
Counts(p) ==
  /\ pc[p] \notin WritingLabels \cup ResetLabels => local[p].seq = 0
  /\ pc[p] = "reset_gen" => generation < MaxGen /\ local[p].seq = 0
  /\ pc[p] = "reset_slot" => local[p].seq <= SlotCount
  /\ pc[p] = "reset_owner" => write_seq = 0
  /\ pc[p] \in Counting => local[p].seq = write_seq

\* Resetters are alone, and a free ring is one that nobody has written to.
OneResetter == \A p, q \in Procs : Resetting(p) /\ Resetting(q) => p = q
FreeIsEmpty == writer_slot = Free => writer_birth = None /\ write_seq = 0

Ownership ==
  /\ TypeOK /\ OneResetter /\ FreeIsEmpty
  /\ \A p \in Procs : Owns(p) /\ Probes(p) /\ Counts(p)
-----------------------------------------------------------------------------
Slots == 0..(SlotCount - 1)

ReadingLabels ==
  {"check_gen", "load_state", "check_seq", "read_lo", "read_hi", "copied", "load_held", "judge"}

\* A message of this generation, and a slot that holds it whole.
Sent(n) == [gen |-> generation, seq |-> n]
Holds(i, n) == slots[i].lo = Sent(n) /\ slots[i].hi = Sent(n) /\ slots[i].len = Sent(n)

\* A slot that has been committed in this generation holds the message of its number,
\* unless the writer has come round to it.
Used(i) ==
  LET m == slots[i].seq
  IN  /\ SlotOf(m) = i /\ m <= write_seq /\ write_seq <= m + SlotCount
      /\ write_seq = m + SlotCount \/ Holds(i, m)

\* The cursor was taken in this generation, and not while it was being set up.
QuietCursor(p) == cursor[p].attached /\ cursor[p].quiet /\ cursor[p].gen = generation

\* The slots are those of this generation, as far as anyone can rely on them.
Settled ==
  \/ writer_slot # Electing
  \/ \E p \in Procs : pc[p] = "reset_gen"
  \/ \E p \in Procs : QuietCursor(p)

\* The writer has not begun to publish the message that write_seq numbers.
Unpublished ==
  \/ writer_slot = Free
  \/ writer_slot \in Procs /\ pc[writer_slot] \notin {"dead", "number", "commit", "count"}

\* A committed slot is used, and no message is published before its turn.
SlotKept(i) ==
  /\ slots[i].state = "Committed" => Used(i)
  /\ \A n \in Nat : slots[i].len = Sent(n) => n <= write_seq /\ (Unpublished => n < write_seq)

Kept == Settled => \A i \in Slots : SlotKept(i)

\* How far the writer is.
Publishes(p) ==
  LET i == SlotOf(write_seq)
  IN  /\ pc[p] = "copy_hi" => slots[i].lo = Sent(write_seq)
      /\ pc[p] \in {"number", "commit"} => Holds(i, write_seq)
      /\ pc[p] \in {"commit", "count"} => slots[i].seq = write_seq

\* How far the resetter is; nobody has a quiet cursor meanwhile.
Clears(p) ==
  pc[p] \in {"reset_slot", "reset_owner"} =>
    /\ \A q \in Procs : ~QuietCursor(q)
    /\ \A i \in Slots :
         i < local[p].seq => slots[i].state = "Empty" /\ slots[i].len = None
    /\ pc[p] = "reset_owner" => local[p].seq = SlotCount

\* The writer has come round to the slot of the message that p wants.
Passed(p) == write_seq >= Wanted(p) + SlotCount

\* What a reader knows of its slot and of its copy.
Reads(p) ==
  LET i == SlotOf(Wanted(p))
      m == Sent(Wanted(p))
  IN  /\ cursor[p].gen <= generation
      /\ pc[p] \in ReadingLabels => cursor[p].attached
      /\ QuietCursor(p) =>
           /\ pc[p] = "check_seq" => Used(i)
           /\ pc[p] \in {"read_lo", "read_hi"} => Passed(p) \/ (Used(i) /\ slots[i].seq = Wanted(p))
           /\ pc[p] = "read_hi" => Passed(p) \/ copy[p].lo = m
           /\ pc[p] = "copied" => Passed(p) \/ (copy[p].lo = m /\ copy[p].hi = m)

Integrity ==
  /\ Kept
  /\ \A p \in Procs : Publishes(p) /\ Clears(p) /\ Reads(p)
-----------------------------------------------------------------------------
(* Remainders: x % n repeats after n, and not before. *)

LEMMA Division ==
  ASSUME NEW x \in Nat, NEW n \in Nat \ {0}
  PROVE  /\ x \div n \in Nat /\ x % n \in 0..(n - 1)
         /\ x = n * (x \div n) + (x % n)
  OBVIOUS

LEMMA Small ==
  ASSUME NEW k \in Int, NEW n \in Nat \ {0}, n * k < n, -n < n * k
  PROVE  k = 0
<1>1. ASSUME k >= 1 PROVE FALSE
  <2>1. n * k >= n * 1
    BY <1>1
  <2> QED BY <2>1
<1>2. ASSUME k <= -1 PROVE FALSE
  <2>1. n * k <= n * (-1)
    BY <1>2
  <2> QED BY <2>1
<1> QED BY <1>1, <1>2

LEMMA Digits ==
  ASSUME NEW n \in Nat \ {0}, NEW a \in Nat, NEW b \in Nat,
         NEW r \in 0..(n - 1), NEW s \in 0..(n - 1), n * a + r + n = n * b + s
  PROVE  r = s
<1> DEFINE k == b - a - 1
<1>1. n * k = n * b - n * a - n
  OBVIOUS
<1>2. k \in Int /\ n * k = r - s
  BY <1>1
<1> HIDE DEF k
<1>3. k = 0
  BY <1>2, Small
<1> QED BY <1>2, <1>3

LEMMA NextRound ==
  ASSUME NEW x \in Nat, NEW y \in Nat, NEW n \in Nat \ {0}, y = x + n
  PROVE  y % n = x % n
<1>1. PICK a \in Nat, r \in 0..(n-1) : x = n * a + r /\ r = x % n
  BY Division
<1>2. PICK b \in Nat, s \in 0..(n-1) : y = n * b + s /\ s = y % n
  BY Division
<1>3. n * a + r + n = n * b + s
  <2>1. x = n * a + r
    BY <1>1
  <2>2. y = n * b + s
    BY <1>2
  <2> QED BY <2>1, <2>2
<1>5. r = s
  BY <1>3, Digits
<1> QED BY <1>1, <1>2, <1>5

LEMMA OneRound ==
  ASSUME NEW x \in Nat, NEW y \in Nat, NEW n \in Nat \ {0},
         x % n = y % n, x < y, y <= x + n
  PROVE  y = x + n
<1>1. PICK a \in Nat, r \in 0..(n-1) : x = n * a + r /\ r = x % n
  BY Division
<1>2. PICK b \in Nat, s \in 0..(n-1) : y = n * b + s /\ s = y % n
  BY Division
<1>3. n * (b - a) = y - x /\ b - a \in Int
  BY <1>1, <1>2
<1>4. SUFFICES ASSUME y < x + n PROVE FALSE
  OBVIOUS
<1>5. b - a = 0
  BY <1>3, <1>4, Small
<1> QED BY <1>3, <1>5

-----------------------------------------------------------------------------
(* Types *)

LEMMA AllLabels ==
  /\ "idle" \in Labels
  /\ "claim" \in Labels
  /\ "claim_birth" \in Labels
  /\ "probe" \in Labels
  /\ "probe_alive" \in Labels
  /\ "elect" \in Labels
  /\ "attach" \in Labels
  /\ "attach_seq" \in Labels
  /\ "check_gen" \in Labels
  /\ "load_state" \in Labels
  /\ "check_seq" \in Labels
  /\ "read_lo" \in Labels
  /\ "read_hi" \in Labels
  /\ "copied" \in Labels
  /\ "load_held" \in Labels
  /\ "judge" \in Labels
  /\ "closing" \in Labels
  /\ "dead" \in Labels
  /\ "load_seq" \in Labels
  /\ "mark" \in Labels
  /\ "copy_lo" \in Labels
  /\ "copy_hi" \in Labels
  /\ "number" \in Labels
  /\ "commit" \in Labels
  /\ "count" \in Labels
  /\ "reset_gen" \in Labels
  /\ "reset_slot" \in Labels
  /\ "reset_owner" \in Labels
BY DEF Labels, WritingLabels, ResetLabels

LEMMA Blanks ==
  ASSUME RingAssumption
  PROVE  NoLocal \in Locals /\ NoCursor \in Cursors /\ NoCopy \in Copies
BY DEF RingAssumption, NoLocal, Locals, NoCursor, Cursors, NoCopy, Copies, SlotStates, Stored

LEMMA LocalUpdates ==
  ASSUME NEW x \in Locals
  PROVE  /\ \A o \in {"none", "send", "reset"} : [x EXCEPT !.op = o] \in Locals
         /\ \A h \in Procs \cup {Free, Electing} : [x EXCEPT !.held = h] \in Locals
         /\ \A n \in Nat : [x EXCEPT !.seq = n] \in Locals
         /\ \A s \in SlotStates : [x EXCEPT !.state = s] \in Locals
BY DEF Locals

LEMMA SlotUpdates ==
  ASSUME NEW x \in SlotRecords
  PROVE  /\ \A s \in SlotStates : [x EXCEPT !.state = s] \in SlotRecords
         /\ \A n \in 0..MaxSeq : [x EXCEPT !.seq = n] \in SlotRecords
         /\ \A m \in Stored : [x EXCEPT !.lo = m] \in SlotRecords
         /\ \A m \in Stored : [x EXCEPT !.hi = m, !.len = m] \in SlotRecords
         /\ [x EXCEPT !.state = "Empty", !.len = None, !.seq = 0] \in SlotRecords
<1>1. None \in Stored /\ "Empty" \in SlotStates /\ 0 \in 0..MaxSeq
  BY RingAssumption DEF RingAssumption, Stored, SlotStates
<1> QED
  BY <1>1 DEF SlotRecords

LEMMA CursorUpdates ==
  ASSUME NEW x \in Cursors
  PROVE  /\ [x EXCEPT !.attached = FALSE] \in Cursors
         /\ \A n \in Nat : [x EXCEPT !.next = n] \in Cursors
         /\ \A n \in Nat, b \in BOOLEAN :
              [x EXCEPT !.attached = TRUE, !.next = n, !.quiet = b] \in Cursors
         /\ \A g \in 0..MaxGen : [NoCursor EXCEPT !.gen = g] \in Cursors
BY DEF Cursors, NoCursor

LEMMA CopyUpdates ==
  ASSUME NEW x \in Copies
  PROVE  /\ \A l \in {"none", "lapped", "old"} : [x EXCEPT !.loss = l] \in Copies
         /\ \A m \in Stored : [x EXCEPT !.lo = m] \in Copies
         /\ \A m \in Stored : [x EXCEPT !.hi = m] \in Copies
BY DEF Copies

LEMMA SlotInRange ==
  ASSUME NEW n \in Nat
  PROVE  SlotOf(n) \in 0..(SlotCount - 1)
BY RingAssumption DEF RingAssumption, SlotOf

LEMMA Ranges ==
  ASSUME TypeOK, NEW p \in Procs
  PROVE  /\ local[p].seq \in Nat /\ Wanted(p) \in Nat /\ local[p].seq + 1 \in Nat
         /\ Wanted(p) + 1 \in Nat
         /\ write_seq \in Nat /\ generation \in 0..MaxGen
<1>1. local[p] \in Locals /\ cursor[p] \in Cursors
  BY DEF TypeOK
<1>2. local[p].seq \in Nat /\ cursor[p].next \in Nat
  BY <1>1 DEF Locals, Cursors
<1> QED
  BY <1>2, RingAssumption DEF RingAssumption, TypeOK, Wanted

\* Every step keeps the types; what Ownership says of the numbers bounds them.
LEMMA TypeStep ==
  ASSUME Ownership, NEW p \in Procs
  PROVE  /\ WriterStep(p) => TypeOK'
         /\ ReaderStep(p) => TypeOK'
         /\ Close(p) \/ CloseFrees(p) \/ Crash(p) => TypeOK'
<1> USE RingAssumption, AllLabels, Blanks
      DEF TypeOK, header, history, ReadingAt, Moves, Goes, Returns, Ends, Retries, Stores, Begins
<1>0. TypeOK /\ Owns(p) /\ Counts(p)
  BY DEF Ownership
<1>a. local[p] \in Locals /\ cursor[p] \in Cursors /\ copy[p] \in Copies
  BY <1>0
<1>b. /\ local[p].seq \in Nat /\ Wanted(p) \in Nat /\ local[p].seq + 1 \in Nat
      /\ Wanted(p) + 1 \in Nat
      /\ write_seq \in Nat /\ generation \in 0..MaxGen
  BY <1>0, Ranges
<1>c. /\ Slot(p).state \in SlotStates /\ Slot(p).lo \in Stored /\ Slot(p).hi \in Stored
  <2>1. Slot(p) \in SlotRecords
    BY <1>0, <1>b, SlotInRange DEF Slot
  <2> QED
    BY <2>1 DEF SlotRecords
<1>d. pc[p] \in Counting =>
        /\ local[p].seq = write_seq /\ local[p].seq \in 0..MaxSeq /\ write_seq < MaxSeq
        /\ Message(p) \in Stored
        /\ SlotOf(local[p].seq) \in 0..(SlotCount - 1) /\ Target(p) \in SlotRecords
  BY <1>0, <1>b, SlotInRange DEF Counts, Counting, WritingLabels, Owns, Writing, Stored,
    Messages, Message, Target
<1>e. {"mark", "copy_lo", "copy_hi", "number", "commit", "count"} = Counting
  BY DEF Counting, WritingLabels
<1>f. {"Empty", "Writing", "Committed"} = SlotStates
  BY DEF SlotStates
<1>1. ASSUME Send(p) PROVE TypeOK'
  BY <1>0, <1>a, <1>1, LocalUpdates DEF Send
<1>2. ASSUME ResetIfWriterDead(p) PROVE TypeOK'
  BY <1>0, <1>a, <1>2, LocalUpdates DEF ResetIfWriterDead
<1>3. ASSUME ClaimOwn(p) PROVE TypeOK'
  BY <1>0, <1>a, <1>3 DEF ClaimOwn
<1>4. ASSUME ClaimFree(p) PROVE TypeOK'
  BY <1>0, <1>a, <1>4 DEF ClaimFree
<1>5. ASSUME ClaimBirth(p) PROVE TypeOK'
  BY <1>0, <1>a, <1>5 DEF ClaimBirth
<1>6. ASSUME ClaimRefused(p) PROVE TypeOK'
  BY <1>0, <1>a, <1>6 DEF ClaimRefused
<1>7. ASSUME ClaimHeld(p) PROVE TypeOK'
  BY <1>0, <1>a, <1>7, LocalUpdates DEF ClaimHeld
<1>8. ASSUME ProbeStale(p) PROVE TypeOK'
  BY <1>0, <1>a, <1>8 DEF ProbeStale
<1>9. ASSUME ProbeDead(p) PROVE TypeOK'
  BY <1>0, <1>a, <1>9 DEF ProbeDead
<1>10. ASSUME Elect(p) PROVE TypeOK'
  BY <1>0, <1>a, <1>10 DEF Elect
<1>11. ASSUME ElectFails(p) PROVE TypeOK'
  BY <1>0, <1>a, <1>11, LocalUpdates DEF ElectFails
<1>12. ASSUME ResetGeneration(p) PROVE TypeOK'
  <2>1. generation' \in 1..MaxGen
    BY <1>0, <1>12 DEF ResetGeneration, Counts, RingAssumption
  <2>2. [local[p] EXCEPT !.held = Free] \in Locals
    BY <1>a, LocalUpdates
  <2> QED
    BY <1>0, <1>12, <2>1, <2>2 DEF ResetGeneration
<1>13. ASSUME ResetSlot(p) PROVE TypeOK'
  <2> DEFINE i == local[p].seq
             x == [slots[i] EXCEPT !.state = "Empty", !.len = None, !.seq = 0]
  <2>0. [local[p] EXCEPT !.seq = i + 1] \in Locals
    BY <1>a, <1>b, LocalUpdates
  <2>1. i \in 0..(SlotCount - 1)
    BY <1>b, <1>13 DEF ResetSlot, RingAssumption
  <2>2. x \in SlotRecords
    BY <1>0, <2>1, SlotUpdates
  <2>3. slots' = [slots EXCEPT ![i] = x]
    BY <1>13 DEF ResetSlot
  <2>4. slots' \in [0..(SlotCount - 1) -> SlotRecords]
    BY <1>0, <2>2, <2>3
  <2> QED
    BY <1>0, <1>13, <2>0, <2>4 DEF ResetSlot
<1>14. ASSUME ResetCount(p) PROVE TypeOK'
  BY <1>0, <1>a, <1>14 DEF ResetCount
<1>15. ASSUME ResetOwner(p) PROVE TypeOK'
  <2>1. [cursor[p] EXCEPT !.attached = FALSE] \in Cursors
    BY <1>a, CursorUpdates
  <2>2. cursor' \in [Procs -> Cursors] /\ claimed' \in [Procs -> BOOLEAN]
    BY <1>0, <1>15, <2>1 DEF ResetOwner, Sends
  <2>3. pc' \in [Procs -> Labels] /\ local' \in [Procs -> Locals]
    <3>1. CASE Sends(p)
      BY <1>0, <1>15, <3>1 DEF ResetOwner
    <3>2. CASE ~Sends(p)
      BY <1>0, <1>15, <3>2 DEF ResetOwner
    <3> QED
      BY <3>1, <3>2
  <2>4. fresh' \in BOOLEAN
    BY <1>15 DEF ResetOwner, Sends
  <2> QED
    BY <1>0, <1>15, <2>2, <2>3, <2>4 DEF ResetOwner
<1>16. ASSUME LoadSeq(p) PROVE TypeOK'
  <2>1. [local[p] EXCEPT !.seq = write_seq] \in Locals
    BY <1>a, <1>b, LocalUpdates
  <2> QED
    BY <1>0, <1>16, <2>1 DEF LoadSeq
<1>17. ASSUME Mark(p) PROVE TypeOK'
  BY <1>0, <1>a, <1>17, <1>d, <1>e, <1>f, SlotUpdates DEF Mark
<1>18. ASSUME CopyLow(p) PROVE TypeOK'
  BY <1>0, <1>a, <1>18, <1>d, <1>e, <1>f, SlotUpdates DEF CopyLow
<1>19. ASSUME CopyHigh(p) PROVE TypeOK'
  BY <1>0, <1>a, <1>19, <1>d, <1>e, <1>f, SlotUpdates DEF CopyHigh
<1>20. ASSUME Number(p) PROVE TypeOK'
  BY <1>0, <1>a, <1>20, <1>d, <1>e, <1>f, SlotUpdates DEF Number
<1>21. ASSUME Commit(p) PROVE TypeOK'
  BY <1>0, <1>a, <1>21, <1>d, <1>e, <1>f, SlotUpdates DEF Commit
<1>22. ASSUME Count(p) PROVE TypeOK'
  <2>1. pc[p] \in Counting /\ write_seq' = write_seq + 1 /\ fresh' \in BOOLEAN
    BY <1>0, <1>e, <1>22 DEF Count
  <2>2. write_seq + 1 \in 0..MaxSeq
    BY <1>b, <1>d, <2>1 DEF RingAssumption
  <2> QED
    BY <1>0, <1>22, <2>1, <2>2 DEF Count
<1>23. ASSUME RefreshHeartbeat(p) PROVE TypeOK'
  BY <1>0, <1>a, <1>23 DEF RefreshHeartbeat
<1>24. ASSUME Receive(p) PROVE TypeOK'
  BY <1>0, <1>a, <1>24 DEF Receive
<1>25. ASSUME AttachGeneration(p) PROVE TypeOK'
  <2>1. [NoCursor EXCEPT !.gen = generation] \in Cursors
    BY <1>a, <1>b, CursorUpdates
  <2> QED
    BY <1>0, <1>25, <2>1 DEF AttachGeneration
<1>26. ASSUME AttachSeq(p) PROVE TypeOK'
  <2> DEFINE n == IF write_seq > SlotCount THEN write_seq - SlotCount ELSE 0
             x == [cursor[p] EXCEPT !.attached = TRUE, !.next = n, !.quiet = writer_slot # Electing]
  <2>1. n \in Nat
    BY <1>0 DEF RingAssumption
  <2>2. x \in Cursors
    BY <1>a, <2>1, CursorUpdates
  <2>3. cursor' = [cursor EXCEPT ![p] = x]
    BY <1>26 DEF AttachSeq
  <2> HIDE DEF n, x
  <2>4. cursor' \in [Procs -> Cursors]
    BY <1>0, <2>2, <2>3
  <2> QED
    BY <1>0, <1>26, <2>4 DEF AttachSeq
<1>27. ASSUME SeesReset(p) PROVE TypeOK'
  BY <1>0, <1>a, <1>27 DEF SeesReset
<1>28. ASSUME CheckGeneration(p) PROVE TypeOK'
  BY <1>0, <1>a, <1>28 DEF CheckGeneration
<1>29. ASSUME LoadState(p) PROVE TypeOK'
  BY <1>0, <1>a, <1>29, <1>c, LocalUpdates DEF LoadState
<1>30. ASSUME CheckSeq(p) PROVE TypeOK'
  BY <1>0, <1>a, <1>30 DEF CheckSeq
<1>31. ASSUME SeesLoss(p) PROVE TypeOK'
  BY <1>0, <1>a, <1>31, CopyUpdates DEF SeesLoss
<1>32. ASSUME ReadLow(p) PROVE TypeOK'
  BY <1>0, <1>a, <1>32, <1>c, CopyUpdates DEF ReadLow, Stored
<1>33. ASSUME ReadHigh(p) PROVE TypeOK'
  BY <1>0, <1>a, <1>33, <1>c, CopyUpdates DEF ReadHigh
<1>34. ASSUME Received(p) PROVE TypeOK'
  <2>1. [cursor[p] EXCEPT !.next = Wanted(p) + 1] \in Cursors
    BY <1>a, <1>b, CursorUpdates
  <2> QED
    BY <1>0, <1>34, <2>1 DEF Received, Wanted
<1>35. ASSUME LoadHeld(p) PROVE TypeOK'
  BY <1>0, <1>a, <1>35, LocalUpdates DEF LoadHeld
<1>36. ASSUME SkipTorn(p) PROVE TypeOK'
  <2>1. [cursor[p] EXCEPT !.next = Wanted(p) + 1] \in Cursors
    BY <1>a, <1>b, CursorUpdates
  <2> QED
    BY <1>0, <1>36, <2>1 DEF SkipTorn
<1>37. ASSUME SeesDrained(p) PROVE TypeOK'
  BY <1>0, <1>a, <1>37 DEF SeesDrained
<1>38. ASSUME WaitsOn(p) PROVE TypeOK'
  BY <1>0, <1>a, <1>38, <1>b, CursorUpdates DEF WaitsOn, Wanted
<1>39. ASSUME TimesOut(p) PROVE TypeOK'
  BY <1>0, <1>a, <1>39 DEF TimesOut
<1>40. ASSUME Close(p) PROVE TypeOK'
  BY <1>0, <1>a, <1>40, LocalUpdates DEF Close
<1>41. ASSUME CloseFrees(p) PROVE TypeOK'
  BY <1>0, <1>a, <1>41 DEF CloseFrees
<1>42. ASSUME Crash(p) PROVE TypeOK'
  BY <1>0, <1>a, <1>42 DEF Crash
<1> QED
  BY <1>1, <1>2, <1>3, <1>4, <1>5, <1>6, <1>7, <1>8, <1>9, <1>10, <1>11, <1>12, <1>13, <1>14,
    <1>15, <1>16, <1>17, <1>18, <1>19, <1>20, <1>21, <1>22, <1>23, <1>24, <1>25, <1>26,
    <1>27, <1>28, <1>29, <1>30, <1>31, <1>32, <1>33, <1>34, <1>35, <1>36, <1>37, <1>38,
    <1>39, <1>40, <1>41, <1>42 DEF WriterStep, ReaderStep
-----------------------------------------------------------------------------
(* Who has the ring *)

\* The process that steps leaves what the others rely on alone.
LEMMA PrivateStep ==
  ASSUME Ownership, NEW p \in Procs, TypeOK', pc[p] # "dead",
         UNCHANGED <<generation, write_seq, writer_slot, writer_birth>>,
         \A q \in Procs \ {p} :
           pc'[q] = pc[q] /\ local'[q] = local[q] /\ claimed'[q] = claimed[q],
         Owns(p)', Probes(p)', Counts(p)', Resetting(p)' => Resetting(p)
  PROVE  Ownership'
<1>1. ASSUME NEW q \in Procs \ {p} PROVE Owns(q)'
  BY <1>1 DEF Ownership, Owns, Writing, Resetting, Sends
<1>2. ASSUME NEW q \in Procs \ {p} PROVE Probes(q)'
  <2>1. Probes(q) /\ local'[q].held = local[q].held /\ pc'[q] = pc[q]
    BY DEF Ownership
  <2>2. local[q].held \in Procs => pc'[local[q].held] = pc[local[q].held] \/ local[q].held = p
    OBVIOUS
  <2> QED
    BY <2>1, <2>2 DEF Probes
<1>3. ASSUME NEW q \in Procs \ {p} PROVE Counts(q)'
  BY <1>3 DEF Ownership, Counts, Counting
<1>4. OneResetter'
  BY DEF Ownership, OneResetter, Resetting
<1> QED
  BY <1>1, <1>2, <1>3, <1>4 DEF Ownership, FreeIsEmpty

\* The labels at which a process claims nothing.
Plain ==
  Labels \ (WritingLabels \cup ResetLabels \cup
            {"claim_birth", "probe", "probe_alive", "elect", "closing"})

\* So does one to a label where nothing is claimed.
LEMMA PlainStep ==
  ASSUME Ownership, NEW p \in Procs, TypeOK', pc[p] # "dead",
         UNCHANGED <<generation, write_seq, writer_slot, writer_birth>>,
         NEW l \in Plain, pc' = [pc EXCEPT ![p] = l],
         l # "dead" => pc[p] # "claim_birth",
         \A q \in Procs \ {p} : local'[q] = local[q] /\ claimed'[q] = claimed[q],
         claimed'[p] => claimed[p],
         local'[p].op \in {local[p].op, "none"}, local'[p].seq = 0
  PROVE  Ownership'
<1>1. pc \in [Procs -> Labels] /\ pc'[p] = l /\ \A q \in Procs \ {p} : pc'[q] = pc[q]
  BY DEF Ownership, TypeOK
<1>2. /\ l \notin WritingLabels /\ l \notin ResetLabels
      /\ l \notin {"claim_birth", "probe", "probe_alive", "elect", "closing"}
  BY DEF Plain
<1>3. ~Writing(p)' /\ ~Resetting(p)' /\ pc'[p] \notin Counting
  BY <1>1, <1>2 DEF Writing, Resetting, Counting
<1>4. Owns(p)'
  BY <1>1, <1>2, <1>3 DEF Ownership, Owns, Sends
<1>5. Probes(p)'
  BY <1>1, <1>2 DEF Probes
<1>6. Counts(p)'
  BY <1>1, <1>2, <1>3 DEF Counts, ResetLabels
<1> QED
  BY <1>1, <1>3, <1>4, <1>5, <1>6, PrivateStep

PlainLabels ==
  {"idle", "claim", "attach", "attach_seq", "check_gen", "load_state", "check_seq",
   "read_lo", "read_hi", "copied", "load_held", "judge", "dead"}

LEMMA PlainLabelsArePlain == PlainLabels = Plain
BY DEF PlainLabels, Plain, Labels, WritingLabels, ResetLabels

\* Refusals, readers, and a process that closes or dies.
LEMMA PlainActions ==
  ASSUME Ownership, NEW p \in Procs, TypeOK',
         \/ ClaimRefused(p) \/ ElectFails(p) \/ RefreshHeartbeat(p) \/ ReaderStep(p)
         \/ CloseFrees(p) \/ Crash(p)
  PROVE  Ownership'
<1> USE DEF Moves, Goes, Returns, Ends, Retries, NoLocal, header
<1>a. /\ pc \in [Procs -> Labels] /\ local \in [Procs -> Locals]
      /\ claimed \in [Procs -> BOOLEAN]
      /\ \A q \in Procs : local[q] \in Locals
  BY DEF Ownership, TypeOK
<1>b. pc[p] \notin WritingLabels \cup ResetLabels => local[p].seq = 0
  BY DEF Ownership, Counts
<1>c. {"idle", "attach", "attach_seq", "check_gen", "load_state", "check_seq", "read_lo",
       "read_hi", "copied", "load_held", "judge", "elect"} \cap (WritingLabels \cup ResetLabels) = {}
  BY DEF WritingLabels, ResetLabels
<1> DEFINE Safe ==
      /\ UNCHANGED <<generation, write_seq, writer_slot, writer_birth>>
      /\ \E l \in PlainLabels : pc' = [pc EXCEPT ![p] = l] /\ (l # "dead" => pc[p] # "claim_birth")
      /\ pc[p] # "dead"
      /\ \A q \in Procs \ {p} : local'[q] = local[q] /\ claimed'[q] = claimed[q]
      /\ claimed'[p] => claimed[p]
      /\ local'[p].op \in {local[p].op, "none"} /\ local'[p].seq = 0
<1>d. SUFFICES Safe
  BY PlainStep, PlainLabelsArePlain
<1>1. CASE ClaimRefused(p)
  BY <1>1, <1>a, <1>b, <1>c DEF ClaimRefused, PlainLabels, Locals, Refusal, WritingLabels,
    ResetLabels
<1>2. CASE ElectFails(p)
  BY <1>2, <1>a, <1>b, <1>c DEF ElectFails, PlainLabels, Locals
<1>3. CASE RefreshHeartbeat(p)
  BY <1>3, <1>a, <1>b, <1>c DEF RefreshHeartbeat, PlainLabels, Locals
<1>4. CASE Receive(p)
  BY <1>4, <1>a, <1>b, <1>c DEF Receive, PlainLabels, Locals
<1>5. CASE AttachGeneration(p)
  BY <1>5, <1>a, <1>b, <1>c DEF AttachGeneration, PlainLabels, Locals
<1>6. CASE AttachSeq(p)
  BY <1>6, <1>a, <1>b, <1>c DEF AttachSeq, PlainLabels, Locals
<1>7. CASE SeesReset(p)
  BY <1>7, <1>a, <1>b, <1>c DEF SeesReset, PlainLabels, Locals
<1>8. CASE CheckGeneration(p)
  BY <1>8, <1>a, <1>b, <1>c DEF CheckGeneration, PlainLabels, Locals
<1>9. CASE LoadState(p)
  BY <1>9, <1>a, <1>b, <1>c DEF LoadState, PlainLabels, Locals
<1>10. CASE CheckSeq(p)
  BY <1>10, <1>a, <1>b, <1>c DEF CheckSeq, PlainLabels, Locals
<1>11. CASE SeesLoss(p)
  BY <1>11, <1>a, <1>b, <1>c DEF SeesLoss, PlainLabels, Locals
<1>12. CASE ReadLow(p)
  BY <1>12, <1>a, <1>b, <1>c DEF ReadLow, PlainLabels, Locals
<1>13. CASE ReadHigh(p)
  BY <1>13, <1>a, <1>b, <1>c DEF ReadHigh, PlainLabels, Locals
<1>14. CASE Received(p)
  BY <1>14, <1>a, <1>b, <1>c DEF Received, PlainLabels, Locals
<1>15. CASE LoadHeld(p)
  BY <1>15, <1>a, <1>b, <1>c DEF LoadHeld, PlainLabels, Locals
<1>16. CASE SkipTorn(p)
  BY <1>16, <1>a, <1>b, <1>c DEF SkipTorn, PlainLabels, Locals
<1>17. CASE SeesDrained(p)
  BY <1>17, <1>a, <1>b, <1>c DEF SeesDrained, PlainLabels, Locals
<1>18. CASE WaitsOn(p)
  BY <1>18, <1>a, <1>b, <1>c DEF WaitsOn, PlainLabels, Locals
<1>19. CASE TimesOut(p)
  BY <1>19, <1>a, <1>b, <1>c DEF TimesOut, PlainLabels, Locals
<1>20. CASE CloseFrees(p)
  BY <1>20, <1>a, <1>b, <1>c DEF CloseFrees, PlainLabels, Locals, Ownership, Owns
<1>21. CASE Crash(p)
  BY <1>21, <1>a, <1>b, <1>c DEF Crash, PlainLabels, Locals
<1> QED
  BY <1>1, <1>2, <1>3, <1>4, <1>5, <1>6, <1>7, <1>8, <1>9, <1>10, <1>11, <1>12, <1>13, <1>14,
    <1>15, <1>16, <1>17, <1>18, <1>19, <1>20, <1>21 DEF ReaderStep

\* The first steps of a call, and the probes of the process that holds the ring.
LEMMA CallActions ==
  ASSUME Ownership, NEW p \in Procs, TypeOK', WritersStayOpen,
         \/ Send(p) \/ ResetIfWriterDead(p) \/ ClaimHeld(p) \/ ProbeStale(p) \/ ProbeDead(p)
         \/ Close(p)
  PROVE  Ownership'
<1> USE DEF Moves, Goes, header
<1>a. /\ pc \in [Procs -> Labels] /\ local \in [Procs -> Locals] /\ local[p] \in Locals
      /\ write_seq \in Nat /\ MaxSeq \in Nat
  BY Ranges, RingAssumption DEF Ownership, TypeOK, RingAssumption
<1>b. Owns(p) /\ Probes(p) /\ Counts(p)
  BY DEF Ownership
<1>c. {"idle", "claim", "probe", "probe_alive", "elect", "closing"} \cap
        (WritingLabels \cup ResetLabels) = {}
  BY DEF WritingLabels, ResetLabels
<1> DEFINE Others == \A q \in Procs \ {p} :
                       pc'[q] = pc[q] /\ local'[q] = local[q] /\ claimed'[q] = claimed[q]
           Quiet == pc'[p] \notin WritingLabels /\ pc'[p] \notin ResetLabels
<1> SUFFICES /\ UNCHANGED <<generation, write_seq, writer_slot, writer_birth>>
             /\ Others /\ pc[p] # "dead" /\ Quiet /\ Owns(p)' /\ Probes(p)' /\ Counts(p)'
  BY PrivateStep DEF Resetting
<1>1. CASE Send(p)
  <2>1. /\ pc[p] = "idle" /\ pc'[p] = "claim" /\ p \in Senders /\ write_seq < MaxSeq
        /\ local'[p].seq = local[p].seq /\ claimed' = claimed /\ Quiet
        /\ UNCHANGED <<generation, write_seq, writer_slot, writer_birth>>
    BY <1>1, <1>a, <1>c DEF Send, Begins, Locals
  <2>2. Others
    BY <1>1, <1>a DEF Send, Begins
  <2>3. Owns(p)'
    BY <1>a, <1>b, <2>1 DEF Owns, Writing, Resetting, Sends
  <2>4. Probes(p)' /\ Counts(p)'
    BY <1>b, <1>c, <2>1 DEF Probes, Counts, Counting, ResetLabels
  <2> QED
    BY <2>1, <2>2, <2>3, <2>4
<1>2. CASE ResetIfWriterDead(p)
  <2>1. /\ pc[p] = "idle" /\ pc'[p] = "claim" /\ local'[p].op = "reset"
        /\ local'[p].seq = local[p].seq /\ claimed' = claimed /\ Quiet
        /\ UNCHANGED <<generation, write_seq, writer_slot, writer_birth>>
    BY <1>2, <1>a, <1>c DEF ResetIfWriterDead, Begins, Locals
  <2>2. Others
    BY <1>2, <1>a DEF ResetIfWriterDead, Begins
  <2>3. Owns(p)'
    BY <1>b, <2>1 DEF Owns, Writing, Resetting, Sends
  <2>4. Probes(p)' /\ Counts(p)'
    BY <1>b, <1>c, <2>1 DEF Probes, Counts, Counting, ResetLabels
  <2> QED
    BY <2>1, <2>2, <2>3, <2>4
<1>3. CASE ClaimHeld(p)
  <2>1. /\ pc[p] = "claim" /\ pc'[p] = "probe" /\ local'[p].held = writer_slot
        /\ local'[p].op = local[p].op /\ local'[p].seq = local[p].seq /\ Quiet
        /\ writer_slot \in Procs \ {p} /\ claimed' = claimed
        /\ UNCHANGED <<generation, write_seq, writer_slot, writer_birth>>
    BY <1>3, <1>a, <1>c DEF ClaimHeld, Locals
  <2>2. Others
    BY <1>3, <1>a DEF ClaimHeld
  <2>3. Owns(p)'
    BY <1>b, <2>1 DEF Owns, Writing, Resetting, Sends
  <2>4. Probes(p)' /\ Counts(p)'
    BY <1>b, <1>c, <2>1 DEF Probes, Counts, Counting, ResetLabels
  <2> QED
    BY <2>1, <2>2, <2>3, <2>4
<1>4. CASE ProbeStale(p)
  <2>1. /\ pc[p] = "probe" /\ pc'[p] = "probe_alive" /\ local' = local
        /\ claimed' = claimed /\ Quiet
        /\ UNCHANGED <<generation, write_seq, writer_slot, writer_birth>>
    BY <1>4, <1>a, <1>c DEF ProbeStale
  <2>2. Others
    BY <1>4, <1>a DEF ProbeStale
  <2>3. Owns(p)'
    BY <1>b, <2>1 DEF Owns, Writing, Resetting, Sends
  <2>4. Probes(p)'
    BY <1>b, <2>1, <2>2 DEF Probes
  <2>5. Counts(p)'
    BY <1>b, <1>c, <2>1 DEF Counts, Counting, ResetLabels
  <2> QED
    BY <2>1, <2>2, <2>3, <2>4, <2>5
<1>5. CASE ProbeDead(p)
  <2>1. /\ pc[p] = "probe_alive" /\ pc'[p] = "elect" /\ local' = local
        /\ claimed' = claimed /\ Quiet
        /\ UNCHANGED <<generation, write_seq, writer_slot, writer_birth>>
        /\ ~IdentityAlive(local[p].held, writer_birth)
    BY <1>5, <1>a, <1>c DEF ProbeDead, Refusal
  <2>2. Others
    BY <1>5, <1>a DEF ProbeDead
  <2>3. Owns(p)'
    BY <1>b, <2>1 DEF Owns, Writing, Resetting, Sends
  <2>4. local[p].held \in Procs /\ pc[local[p].held] = "dead"
    <3>1. local[p].held \in Procs /\ Owns(local[p].held)
      BY <1>b, <2>1 DEF Probes, Ownership
    <3> QED
      BY <1>b, <2>1, <3>1 DEF Probes, Owns, IdentityAlive
  <2>5. Probes(p)'
    BY <2>1, <2>2, <2>4 DEF Probes
  <2>6. Counts(p)'
    BY <1>b, <1>c, <2>1 DEF Counts, Counting, ResetLabels
  <2> QED
    BY <2>1, <2>2, <2>3, <2>5, <2>6
<1>6. CASE Close(p)
  <2>1. /\ pc[p] = "idle" /\ pc'[p] = "closing" /\ claimed' = claimed /\ Quiet /\ p \in Closers
        /\ local'[p].held = IF claimed[p] /\ writer_birth = p THEN writer_slot ELSE Free
        /\ local'[p].op = local[p].op /\ local'[p].seq = local[p].seq
        /\ UNCHANGED <<generation, write_seq, writer_slot, writer_birth>>
    BY <1>6, <1>a, <1>c DEF Close, Locals
  <2>2. Others
    BY <1>6, <1>a DEF Close
  <2>3. local'[p].held # p
    BY <1>b, <2>1, RingAssumption DEF Owns, WritersStayOpen, RingAssumption
  <2>4. Owns(p)'
    BY <1>b, <2>1, <2>3 DEF Owns, Writing, Resetting, Sends
  <2>5. Probes(p)' /\ Counts(p)'
    BY <1>b, <1>c, <2>1 DEF Probes, Counts, Counting, ResetLabels
  <2> QED
    BY <2>1, <2>2, <2>4, <2>5
<1> QED
  BY <1>1, <1>2, <1>3, <1>4, <1>5, <1>6

\* The steps of a writer or of a resetter within the ring it has.
LEMMA HolderActions ==
  ASSUME Ownership, NEW p \in Procs, TypeOK',
         \/ ClaimOwn(p) \/ ResetSlot(p) \/ LoadSeq(p)
         \/ Mark(p) \/ CopyLow(p) \/ CopyHigh(p) \/ Number(p) \/ Commit(p)
  PROVE  Ownership'
<1> USE DEF Moves, Goes, header
<1>a. /\ pc \in [Procs -> Labels] /\ local \in [Procs -> Locals] /\ local[p] \in Locals
      /\ claimed \in [Procs -> BOOLEAN] /\ local[p].seq \in Nat
  BY Ranges DEF Ownership, TypeOK
<1>b. Owns(p) /\ Probes(p) /\ Counts(p)
  BY DEF Ownership
<1>c. /\ {"mark", "copy_lo", "copy_hi", "number", "commit", "count"} = Counting
      /\ "load_seq" \in WritingLabels /\ "load_seq" \notin Counting
      /\ Counting \subseteq WritingLabels
      /\ {"load_seq", "claim", "closing", "claim_birth", "dead", "idle"} \cap (ResetLabels \cup Counting) = {}
      /\ WritingLabels \cap ResetLabels = {} /\ "reset_slot" \in ResetLabels
      /\ "claim" \notin WritingLabels
  BY DEF WritingLabels, ResetLabels, Counting
<1> DEFINE Others == \A q \in Procs \ {p} :
                       pc'[q] = pc[q] /\ local'[q] = local[q] /\ claimed'[q] = claimed[q]
<1> SUFFICES /\ UNCHANGED <<generation, write_seq, writer_slot, writer_birth>>
             /\ Others /\ pc[p] # "dead" /\ Owns(p)' /\ Probes(p)' /\ Counts(p)'
             /\ Resetting(p)' => Resetting(p)
  BY PrivateStep
<1>1. CASE ClaimOwn(p)
  <2>1. /\ pc[p] = "claim" /\ Sends(p) /\ writer_slot = p /\ writer_birth = p
    BY <1>1, <1>b DEF ClaimOwn, Owns
  <2>2. /\ pc'[p] = "load_seq" /\ local' = local /\ claimed'[p] /\ Others
        /\ UNCHANGED <<generation, write_seq, writer_slot, writer_birth>>
    BY <1>1, <1>a, <2>1 DEF ClaimOwn
  <2>3. Owns(p)'
    BY <1>b, <1>c, <2>1, <2>2 DEF Owns, Writing, Resetting, Sends
  <2>4. Probes(p)' /\ Counts(p)' /\ ~Resetting(p)'
    BY <1>b, <1>c, <2>1, <2>2 DEF Probes, Counts, Resetting, ResetLabels
  <2> QED
    BY <2>1, <2>2, <2>3, <2>4
<1>2. CASE ResetSlot(p)
  <2>1. /\ pc[p] = "reset_slot" /\ pc' = pc /\ claimed' = claimed /\ Others
        /\ local'[p].op = local[p].op /\ local'[p].seq = local[p].seq + 1
        /\ local[p].seq < SlotCount
        /\ UNCHANGED <<generation, write_seq, writer_slot, writer_birth>>
    BY <1>2, <1>a DEF ResetSlot, Locals
  <2>2. Owns(p)' /\ Probes(p)' /\ (Resetting(p)' => Resetting(p))
    BY <1>b, <2>1 DEF Owns, Probes, Writing, Resetting, Sends
  <2>3. Counts(p)'
    <3>1. local[p].seq + 1 <= SlotCount
      BY <1>a, <2>1, RingAssumption DEF RingAssumption
    <3> QED
      BY <2>1, <3>1 DEF Counts, ResetLabels, Counting, WritingLabels
  <2> QED
    BY <2>1, <2>2, <2>3
<1>3. CASE LoadSeq(p)
  <2>1. /\ pc[p] = "load_seq" /\ pc'[p] = "mark" /\ claimed' = claimed /\ Others
        /\ local'[p].op = local[p].op /\ local'[p].seq = write_seq
        /\ UNCHANGED <<generation, write_seq, writer_slot, writer_birth>>
    BY <1>3, <1>a DEF LoadSeq, Locals
  <2>2. Owns(p)'
    BY <1>b, <1>c, <2>1 DEF Owns, Writing, Resetting, Sends
  <2>3. Probes(p)' /\ Counts(p)' /\ ~Resetting(p)'
    BY <1>c, <2>1 DEF Probes, Counts, Resetting, ResetLabels
  <2> QED
    BY <2>1, <2>2, <2>3
<1>4. CASE Mark(p) \/ CopyLow(p) \/ CopyHigh(p) \/ Number(p) \/ Commit(p)
  <2>1. PICK l \in Counting, m \in Counting :
          /\ pc[p] = l /\ pc'[p] = m /\ local' = local /\ claimed' = claimed /\ Others
          /\ UNCHANGED <<generation, write_seq, writer_slot, writer_birth>>
    BY <1>4, <1>a, <1>c DEF Mark, CopyLow, CopyHigh, Number, Commit, Stores
  <2>2. /\ pc[p] \in WritingLabels /\ pc'[p] \in WritingLabels /\ pc'[p] \notin ResetLabels
        /\ pc[p] # "dead"
        /\ pc'[p] \notin {"claim_birth", "closing", "probe", "probe_alive", "elect"}
    BY <1>c, <2>1
  <2>3. Owns(p)'
    BY <1>b, <2>1, <2>2 DEF Owns, Writing, Resetting, Sends
  <2>4. Probes(p)' /\ Counts(p)' /\ ~Resetting(p)'
    BY <1>b, <2>1, <2>2 DEF Probes, Counts, Resetting, ResetLabels
  <2> QED
    BY <2>1, <2>2, <2>3, <2>4
<1> QED
  BY <1>1, <1>2, <1>3, <1>4

\* The steps that change the header.
LEMMA HeaderActions ==
  ASSUME Ownership, NEW p \in Procs, TypeOK',
         \/ ClaimFree(p) \/ ClaimBirth(p) \/ Elect(p) \/ ResetGeneration(p) \/ ResetCount(p)
         \/ ResetOwner(p) \/ Count(p)
  PROVE  Ownership'
<1> USE DEF Moves, Goes, Returns, header
<1>a. /\ pc \in [Procs -> Labels] /\ local \in [Procs -> Locals] /\ local[p] \in Locals
      /\ claimed \in [Procs -> BOOLEAN] /\ generation \in Nat /\ write_seq \in Nat
      /\ writer_slot \in Procs \cup {Free, Electing}
  BY Ranges, RingAssumption DEF Ownership, TypeOK, RingAssumption
<1>b. Owns(p) /\ Probes(p) /\ Counts(p) /\ OneResetter /\ FreeIsEmpty
  BY DEF Ownership
<1>c. /\ {"claim", "claim_birth", "elect", "idle"} \cap (WritingLabels \cup ResetLabels) = {}
      /\ ResetLabels = {"reset_gen", "reset_slot", "reset_owner"}
      /\ WritingLabels \cap ResetLabels = {} /\ {"load_seq", "count"} \subseteq WritingLabels
      /\ Counting \subseteq WritingLabels /\ "load_seq" \notin Counting
      /\ "dead" \notin WritingLabels \cup ResetLabels
  BY DEF WritingLabels, ResetLabels, Counting
<1>d. Free \notin Procs /\ Electing \notin Procs /\ None \notin Procs /\ Free # Electing
  BY RingAssumption DEF RingAssumption
<1>e. \A q \in Procs : Owns(q) /\ Probes(q) /\ Counts(q)
  BY DEF Ownership
<1> DEFINE Others == \A q \in Procs \ {p} :
                       pc'[q] = pc[q] /\ local'[q] = local[q] /\ claimed'[q] = claimed[q]
<1>1. CASE ClaimFree(p)
  <2>1. /\ pc[p] = "claim" /\ pc'[p] = "claim_birth" /\ local' = local /\ claimed' = claimed
        /\ Others /\ Sends(p) /\ writer_slot = Free /\ writer_slot' = p
        /\ UNCHANGED <<generation, write_seq, writer_birth>>
    BY <1>1, <1>a DEF ClaimFree
  <2>2. writer_birth = None /\ write_seq = 0 /\ p \in Senders /\ MaxSeq > 0
    BY <1>b, <2>1 DEF FreeIsEmpty, Owns
  <2>3. Owns(p)'
    BY <1>b, <1>c, <2>1, <2>2 DEF Owns, Writing, Resetting, Sends
  <2>4. Probes(p)' /\ Counts(p)' /\ ~Resetting(p)'
    BY <1>b, <1>c, <2>1 DEF Probes, Counts, Counting, Resetting
  <2>5. ASSUME NEW q \in Procs \ {p} PROVE Owns(q)'
    BY <1>d, <1>e, <2>1, <2>5 DEF Owns, Writing, Resetting, Sends
  <2>6. ASSUME NEW q \in Procs \ {p} PROVE Probes(q)' /\ Counts(q)'
    BY <1>c, <1>d, <1>e, <2>1, <2>6 DEF Probes, Counts
  <2>7. OneResetter' /\ FreeIsEmpty'
    BY <1>b, <1>d, <2>1, <2>4 DEF OneResetter, FreeIsEmpty, Resetting
  <2> QED
    BY <2>3, <2>4, <2>5, <2>6, <2>7 DEF Ownership
<1>2. CASE ClaimBirth(p)
  <2>1. /\ pc[p] = "claim_birth" /\ pc'[p] = "load_seq" /\ local' = local /\ claimed'[p]
        /\ Others /\ writer_birth' = p /\ UNCHANGED <<generation, write_seq, writer_slot>>
    BY <1>2, <1>a DEF ClaimBirth
  <2>2. writer_slot = p /\ Sends(p) /\ p \in Senders
    BY <1>b, <2>1 DEF Owns
  <2>3. Owns(p)'
    BY <1>b, <1>c, <2>1, <2>2 DEF Owns, Writing, Resetting, Sends
  <2>4. Probes(p)' /\ Counts(p)' /\ ~Resetting(p)'
    BY <1>b, <1>c, <2>1 DEF Probes, Counts, Resetting
  <2>5. ASSUME NEW q \in Procs \ {p} PROVE Owns(q)'
    BY <1>d, <1>e, <2>1, <2>2, <2>5 DEF Owns, Writing, Resetting, Sends
  <2>6. ASSUME NEW q \in Procs \ {p} PROVE Probes(q)' /\ Counts(q)'
    BY <1>c, <1>d, <1>e, <2>1, <2>2, <2>6 DEF Probes, Counts
  <2>7. OneResetter' /\ FreeIsEmpty'
    BY <1>b, <1>d, <2>1, <2>2, <2>4 DEF OneResetter, FreeIsEmpty, Resetting
  <2> QED
    BY <2>3, <2>4, <2>5, <2>6, <2>7 DEF Ownership
<1>3. CASE Elect(p)
  <2>1. /\ pc[p] = "elect" /\ pc'[p] = "reset_gen" /\ local' = local /\ claimed' = claimed
        /\ Others /\ writer_slot = local[p].held /\ writer_slot' = Electing
        /\ generation < MaxGen /\ UNCHANGED <<generation, write_seq, writer_birth>>
    BY <1>3, <1>a DEF Elect
  <2>2. writer_slot \in Procs /\ pc[writer_slot] = "dead"
    BY <1>b, <2>1 DEF Probes
  <2>3. Owns(p)'
    BY <1>b, <1>c, <1>d, <2>1 DEF Owns, Writing, Resetting, Sends
  <2>4. Probes(p)' /\ Counts(p)'
    BY <1>b, <1>c, <2>1 DEF Probes, Counts
  <2>5. ASSUME NEW q \in Procs \ {p} PROVE Owns(q)' /\ ~Resetting(q)
    BY <1>c, <1>d, <1>e, <2>1, <2>2, <2>5 DEF Owns, Writing, Resetting, Sends
  <2>6. ASSUME NEW q \in Procs \ {p} PROVE Probes(q)' /\ Counts(q)'
    BY <1>c, <1>d, <1>e, <2>1, <2>2, <2>6 DEF Probes, Counts
  <2>7. OneResetter' /\ FreeIsEmpty'
    BY <1>d, <2>1, <2>5 DEF OneResetter, FreeIsEmpty, Resetting
  <2> QED
    BY <2>3, <2>4, <2>5, <2>6, <2>7 DEF Ownership
<1>4. CASE ResetGeneration(p)
  <2>1. /\ pc[p] = "reset_gen" /\ pc'[p] = "reset_slot" /\ local'[p].op = local[p].op
        /\ local'[p].seq = local[p].seq /\ claimed' = claimed
        /\ Others /\ UNCHANGED <<write_seq, writer_slot, writer_birth>>
    BY <1>4, <1>a DEF ResetGeneration, Locals
  <2>2. writer_slot = Electing /\ local[p].seq = 0
    BY <1>b, <1>c, <2>1 DEF Owns, Resetting, Counts
  <2>3. Owns(p)'
    BY <1>b, <1>c, <1>d, <2>1, <2>2 DEF Owns, Writing, Resetting, Sends
  <2>4. Probes(p)' /\ Counts(p)'
    BY <1>c, <2>1, <2>2, RingAssumption DEF Probes, Counts, RingAssumption
  <2>5. ASSUME NEW q \in Procs \ {p} PROVE Owns(q)' /\ ~Resetting(q)
    BY <1>b, <1>c, <1>d, <1>e, <2>1, <2>2, <2>5 DEF Owns, Writing, Resetting, Sends,
      OneResetter
  <2>6. ASSUME NEW q \in Procs \ {p} PROVE Probes(q)' /\ Counts(q)'
    BY <1>c, <1>d, <1>e, <2>1, <2>2, <2>5, <2>6 DEF Probes, Counts, Resetting
  <2>7. OneResetter' /\ FreeIsEmpty'
    BY <1>d, <2>1, <2>2, <2>5 DEF OneResetter, FreeIsEmpty, Resetting
  <2> QED
    BY <2>3, <2>4, <2>5, <2>6, <2>7 DEF Ownership
<1>5. CASE ResetCount(p)
  <2>1. /\ pc[p] = "reset_slot" /\ pc'[p] = "reset_owner" /\ local' = local
        /\ claimed' = claimed
        /\ Others /\ write_seq' = 0 /\ UNCHANGED <<generation, writer_slot, writer_birth>>
    BY <1>5, <1>a DEF ResetCount
  <2>2. writer_slot = Electing
    BY <1>b, <1>c, <2>1 DEF Owns, Resetting
  <2>3. Owns(p)'
    BY <1>b, <1>c, <1>d, <2>1, <2>2 DEF Owns, Writing, Resetting, Sends
  <2>4. Probes(p)' /\ Counts(p)'
    BY <1>c, <2>1, <2>2 DEF Probes, Counts
  <2>5. ASSUME NEW q \in Procs \ {p} PROVE Owns(q)' /\ ~Resetting(q) /\ ~Writing(q)
    BY <1>b, <1>c, <1>d, <1>e, <2>1, <2>2, <2>5 DEF Owns, Writing, Resetting, Sends,
      OneResetter
  <2>6. ASSUME NEW q \in Procs \ {p} PROVE Probes(q)' /\ Counts(q)'
    BY <1>c, <1>d, <1>e, <2>1, <2>2, <2>5, <2>6 DEF Probes, Counts, Resetting, Writing
  <2>7. OneResetter' /\ FreeIsEmpty'
    BY <1>d, <2>1, <2>2, <2>5 DEF OneResetter, FreeIsEmpty, Resetting
  <2> QED
    BY <2>3, <2>4, <2>5, <2>6, <2>7 DEF Ownership
<1>6. CASE ResetOwner(p)
  <2>1. /\ pc[p] = "reset_owner" /\ writer_slot = Electing /\ write_seq = 0
    BY <1>6, <1>b, <1>c DEF ResetOwner, Owns, Resetting, Counts
  <2>2. /\ Others /\ UNCHANGED <<generation, write_seq>>
        /\ Sends(p) => /\ pc'[p] = "load_seq" /\ local' = local /\ claimed'[p]
                       /\ writer_slot' = p /\ writer_birth' = p
        /\ ~Sends(p) => /\ pc'[p] = "idle" /\ local'[p] = NoLocal /\ claimed' = claimed
                        /\ writer_slot' = Free /\ writer_birth' = None
    <3>1. CASE Sends(p)
      BY <1>6, <1>a, <3>1 DEF ResetOwner
    <3>2. CASE ~Sends(p)
      BY <1>6, <1>a, <3>2 DEF ResetOwner
    <3> QED
      BY <3>1, <3>2
  <2>3. Owns(p)'
    BY <1>b, <1>c, <1>d, <2>1, <2>2 DEF Owns, Writing, Resetting, Sends, NoLocal
  <2>4. Probes(p)' /\ Counts(p)' /\ ~Resetting(p)'
    BY <1>c, <2>1, <2>2 DEF Probes, Counts, Resetting, NoLocal
  <2>5. ASSUME NEW q \in Procs \ {p} PROVE Owns(q)' /\ ~Resetting(q) /\ ~Writing(q)
    BY <1>b, <1>c, <1>d, <1>e, <2>1, <2>2, <2>5 DEF Owns, Writing, Resetting, Sends,
      OneResetter
  <2>6. ASSUME NEW q \in Procs \ {p} PROVE Probes(q)' /\ Counts(q)'
    <3>1. local[q].held \in Procs => pc'[local[q].held] = pc[local[q].held] \/ pc[local[q].held] # "dead"
      BY <1>c, <2>1, <2>2
    <3> QED
      BY <1>c, <1>d, <1>e, <2>1, <2>2, <2>5, <2>6, <3>1 DEF Probes, Counts, Resetting, Writing
  <2>7. OneResetter' /\ FreeIsEmpty'
    BY <1>d, <2>1, <2>2, <2>4, <2>5 DEF OneResetter, FreeIsEmpty, Resetting
  <2> QED
    BY <2>3, <2>4, <2>5, <2>6, <2>7 DEF Ownership
<1>7. CASE Count(p)
  <2>1. /\ pc[p] = "count" /\ pc'[p] = "idle" /\ local'[p] = NoLocal /\ claimed' = claimed
        /\ Others /\ UNCHANGED <<generation, writer_slot, writer_birth>>
    BY <1>7, <1>a DEF Count
  <2>2. writer_slot = p /\ writer_birth = p /\ p \in Senders
    BY <1>b, <1>c, <2>1 DEF Owns, Writing
  <2>3. Owns(p)'
    BY <1>b, <1>c, <1>d, <2>1, <2>2 DEF Owns, Writing, Resetting, Sends, NoLocal
  <2>4. Probes(p)' /\ Counts(p)' /\ ~Resetting(p)'
    BY <1>c, <2>1, <2>2 DEF Probes, Counts, Resetting, NoLocal
  <2>5. ASSUME NEW q \in Procs \ {p} PROVE Owns(q)' /\ ~Resetting(q) /\ ~Writing(q)
    BY <1>c, <1>d, <1>e, <2>1, <2>2, <2>5 DEF Owns, Writing, Resetting, Sends
  <2>6. ASSUME NEW q \in Procs \ {p} PROVE Probes(q)' /\ Counts(q)'
    BY <1>c, <1>d, <1>e, <2>1, <2>2, <2>5, <2>6 DEF Probes, Counts, Resetting, Writing
  <2>7. OneResetter' /\ FreeIsEmpty'
    BY <1>d, <2>1, <2>2, <2>4, <2>5 DEF OneResetter, FreeIsEmpty, Resetting
  <2> QED
    BY <2>3, <2>4, <2>5, <2>6, <2>7 DEF Ownership
<1> QED
  BY <1>1, <1>2, <1>3, <1>4, <1>5, <1>6, <1>7

\* Ownership is inductive.
LEMMA OwnershipStep ==
  ASSUME Ownership, WritersStayOpen, [Next]_vars
  PROVE  Ownership'
<1>1. CASE UNCHANGED vars
  <2>1. UNCHANGED <<header, slots, pc, claimed, local, cursor, copy, history>>
    BY <1>1 DEF vars
  <2> QED
    BY <2>1 DEF header, history, Ownership, TypeOK, OneResetter, FreeIsEmpty, Owns, Probes, Counts,
      Writing, Resetting, Sends
<1>2. CASE HeartbeatTimesOut
  <2>1. TypeOK'
    BY <1>2 DEF HeartbeatTimesOut, Ownership, TypeOK, history
  <2>2. UNCHANGED <<generation, write_seq, writer_slot, writer_birth, pc, claimed, local>>
    BY <1>2 DEF HeartbeatTimesOut
  <2> QED
    BY <2>1, <2>2 DEF Ownership, OneResetter, FreeIsEmpty, Owns, Probes, Counts, Writing,
      Resetting, Sends
<1>3. ASSUME NEW p \in Procs,
             WriterStep(p) \/ ReaderStep(p) \/ Close(p) \/ CloseFrees(p) \/ Crash(p)
      PROVE  Ownership'
  BY <1>3, TypeStep, PlainActions, CallActions, HolderActions, HeaderActions DEF WriterStep
<1> QED
  BY <1>1, <1>2, <1>3 DEF Next


LEMMA InitOwnership ==
  ASSUME Init
  PROVE  Ownership
<1> USE RingAssumption DEF RingAssumption
<1>1. /\ pc = [p \in Procs |-> "idle"] /\ local = [p \in Procs |-> NoLocal]
      /\ claimed = [p \in Procs |-> FALSE]
  BY DEF Init
<1>2. TypeOK
  <2>1. EmptySlot \in SlotRecords
    BY DEF EmptySlot, SlotRecords, SlotStates, Stored
  <2>2. 1 \in 1..MaxGen /\ 0 \in 0..MaxSeq
    OBVIOUS
  <2>3. /\ slots \in [0..(SlotCount - 1) -> SlotRecords] /\ pc \in [Procs -> Labels]
        /\ claimed \in [Procs -> BOOLEAN] /\ local \in [Procs -> Locals]
        /\ cursor \in [Procs -> Cursors] /\ copy \in [Procs -> Copies]
    BY <2>1, Blanks, AllLabels DEF Init
  <2> QED
    BY <2>2, <2>3 DEF Init, TypeOK
<1>3. "idle" \notin WritingLabels \cup ResetLabels
  BY DEF WritingLabels, ResetLabels
<1>4. \A p \in Procs : pc[p] = "idle" /\ local[p] = NoLocal /\ ~claimed[p]
  BY <1>1
<1>5. \A p \in Procs : Owns(p) /\ Probes(p) /\ Counts(p)
  BY <1>3, <1>4 DEF Init, Owns, Probes, Counts, Counting, Writing, Resetting, Sends, NoLocal
<1> QED
  BY <1>2, <1>3, <1>4, <1>5 DEF Init, Ownership, OneResetter, FreeIsEmpty, Resetting

\* Every field, local and cursor of the ring keeps its type (TypeOK), for any processes,
\* slots and bounds: a message is never numbered past the bound however its writer came
\* by the ring (ensure_writer_claimed, reset_ring, send).
THEOREM RingTypeCorrect == WritersStayOpen => (Spec => []TypeOK)
<1> SUFFICES ASSUME WritersStayOpen PROVE Spec => []TypeOK
  OBVIOUS
<1>1. Ownership => TypeOK
  BY DEF Ownership
<1> QED
  BY <1>1, InitOwnership, OwnershipStep, PTL DEF Spec

\* At most one live process is in send or in reset_ring at any time, wherever others die
\* (SingleWriter; ensure_writer_claimed, reset_if_writer_dead).
THEOREM RingHasOneWriter == WritersStayOpen => (Spec => []SingleWriter)
<1> SUFFICES ASSUME WritersStayOpen PROVE Spec => []SingleWriter
  OBVIOUS
<1>1. Ownership => SingleWriter
  BY RingAssumption DEF Ownership, SingleWriter, Owns, Writing, Resetting, OneResetter,
    RingAssumption
<1> QED
  BY <1>1, InitOwnership, OwnershipStep, PTL DEF Spec
-----------------------------------------------------------------------------
(* What the slots hold *)

\* The ring and the other processes stay as they are.
LEMMA CalmStep ==
  ASSUME Integrity, NEW p \in Procs,
         UNCHANGED <<generation, write_seq, slots>>,
         \A q \in Procs \ {p} : /\ pc'[q] = pc[q] /\ local'[q] = local[q]
                                /\ cursor'[q] = cursor[q] /\ copy'[q] = copy[q],
         Settled' => Settled, Unpublished' => Unpublished,
         Publishes(p)', Clears(p)', Reads(p)',
         QuietCursor(p)' => \A q \in Procs : pc[q] \notin {"reset_slot", "reset_owner"}
  PROVE  Integrity'
<1>1. \A i : Used(i)' = Used(i)
  BY DEF Used, Holds, Sent
<1>2. ASSUME Settled', NEW i \in Slots PROVE SlotKept(i)'
  <2>1. SlotKept(i)
    BY <1>2 DEF Integrity, Kept, Slots
  <2> QED
    BY <1>1, <2>1 DEF SlotKept, Sent
<1>3. Kept'
  BY <1>2 DEF Kept, Slots
<1>4. ASSUME NEW q \in Procs \ {p} PROVE Publishes(q)'
  BY <1>4 DEF Integrity, Publishes, Holds, Sent
<1>5. ASSUME NEW q \in Procs \ {p} PROVE Reads(q)'
  <2>1. Reads(q) /\ QuietCursor(q)' = QuietCursor(q) /\ Wanted(q)' = Wanted(q) /\ Passed(q)' = Passed(q)
    BY DEF Integrity, QuietCursor, Wanted, Passed
  <2> QED
    BY <1>1, <2>1 DEF Reads, Sent
<1>6. ASSUME NEW q \in Procs \ {p} PROVE Clears(q)'
  <2> SUFFICES ASSUME pc[q] \in {"reset_slot", "reset_owner"} PROVE Clears(q)'
    BY DEF Clears
  <2>1. Clears(q)
    BY DEF Integrity
  <2>2. \A r \in Procs : ~QuietCursor(r)'
    BY <2>1 DEF Clears, QuietCursor
  <2> QED
    BY <2>1, <2>2 DEF Clears
<1> QED
  BY <1>3, <1>4, <1>5, <1>6 DEF Integrity

\* The labels at which a process knows nothing of the slots.
Silent ==
  {"idle", "claim", "claim_birth", "probe", "probe_alive", "elect", "reset_gen", "attach",
   "attach_seq", "check_gen", "load_state", "load_held", "judge", "closing", "dead",
   "load_seq", "mark"}

\* A step to a label where nothing is known of the slots.
LEMMA SilentStep ==
  ASSUME Ownership, Integrity, NEW p \in Procs,
         UNCHANGED <<generation, write_seq, slots>>,
         NEW l \in Silent, pc' = [pc EXCEPT ![p] = l],
         l \in ReadingLabels => cursor'[p].attached,
         l = "reset_gen" => writer_slot # Electing,
         writer_slot' # Electing => writer_slot # Electing,
         Unpublished' => Unpublished,
         cursor'[p].gen <= generation,
         QuietCursor(p)' => QuietCursor(p) \/ writer_slot # Electing,
         \A q \in Procs \ {p} : /\ local'[q] = local[q] /\ cursor'[q] = cursor[q]
                                /\ copy'[q] = copy[q]
  PROVE  Integrity'
<1>1. pc'[p] = l /\ \A q \in Procs \ {p} : pc'[q] = pc[q]
  BY DEF Ownership, TypeOK
<1>2. \A q \in Procs \ {p} : QuietCursor(q)' = QuietCursor(q)
  BY DEF QuietCursor
<1>3. Settled' => Settled
  BY <1>1, <1>2 DEF Settled
<1>4. Publishes(p)' /\ Clears(p)'
  BY <1>1 DEF Publishes, Clears, Silent
<1>5. Reads(p)'
  BY <1>1 DEF Reads, Silent
<1>6. QuietCursor(p)' => \A q \in Procs : pc[q] \notin {"reset_slot", "reset_owner"}
  <2> SUFFICES ASSUME QuietCursor(p)', NEW q \in Procs, pc[q] \in {"reset_slot", "reset_owner"}
               PROVE  FALSE
    OBVIOUS
  <2>1. Clears(q) /\ Owns(q)
    BY DEF Integrity, Ownership
  <2> QED
    BY <2>1 DEF Clears, Owns, Resetting, ResetLabels
<1> QED
  BY <1>1, <1>3, <1>4, <1>5, <1>6, CalmStep

\* The steps that neither change a slot nor look into one.
LEMMA SilentActions ==
  ASSUME Ownership, Integrity, NEW p \in Procs, TypeOK',
         \/ Send(p) \/ ResetIfWriterDead(p) \/ ClaimOwn(p) \/ ClaimFree(p) \/ ClaimBirth(p)
         \/ ClaimRefused(p) \/ ClaimHeld(p) \/ ProbeStale(p) \/ ProbeDead(p) \/ Elect(p)
         \/ ElectFails(p) \/ LoadSeq(p) \/ RefreshHeartbeat(p)
         \/ Receive(p) \/ AttachGeneration(p) \/ AttachSeq(p) \/ SeesReset(p)
         \/ CheckGeneration(p) \/ SeesLoss(p) \/ Received(p) \/ LoadHeld(p) \/ SkipTorn(p)
         \/ SeesDrained(p) \/ WaitsOn(p) \/ TimesOut(p) \/ Close(p) \/ CloseFrees(p) \/ Crash(p)
  PROVE  Integrity'
<1> USE DEF Moves, Goes, Returns, Ends, Retries, Begins, header
<1>a. /\ pc \in [Procs -> Labels] /\ local \in [Procs -> Locals]
      /\ cursor \in [Procs -> Cursors]
      /\ copy \in [Procs -> Copies] /\ cursor[p] \in Cursors
      /\ writer_slot \in Procs \cup {Free, Electing}
  BY DEF Ownership, TypeOK
<1>b. Owns(p) /\ Probes(p) /\ Reads(p)
  BY DEF Ownership, Integrity
<1>c. Free \notin Procs /\ Electing \notin Procs /\ Free # Electing
  BY RingAssumption DEF RingAssumption
<1>d. generation \in Nat /\ 0 <= generation
  BY RingAssumption DEF RingAssumption, Ownership, TypeOK
<1>e. cursor[p].gen <= generation /\ (pc[p] \in ReadingLabels => cursor[p].attached)
  BY <1>b DEF Reads
<1>f. /\ {"claim", "claim_birth"} \cap ReadingLabels = {}
      /\ {"check_gen", "load_state", "check_seq", "copied", "load_held", "judge"}
           \subseteq ReadingLabels
  BY DEF ReadingLabels
<1> DEFINE Safe ==
      /\ UNCHANGED <<generation, write_seq, slots>>
      /\ \E l \in Silent : /\ pc' = [pc EXCEPT ![p] = l]
                           /\ l \in ReadingLabels => cursor'[p].attached
                           /\ l = "reset_gen" => writer_slot # Electing
      /\ writer_slot' # Electing => writer_slot # Electing
      /\ Unpublished' => Unpublished
      /\ cursor'[p].gen <= generation
      /\ QuietCursor(p)' => QuietCursor(p) \/ writer_slot # Electing
      /\ \A q \in Procs \ {p} : /\ local'[q] = local[q] /\ cursor'[q] = cursor[q]
                                 /\ copy'[q] = copy[q]
<1>g. SUFFICES Safe
  BY SilentStep
<1>1. CASE Send(p)
  BY <1>1, <1>a, <1>c, <1>d, <1>e, <1>f DEF Send, Silent, ReadingLabels, QuietCursor,
    Unpublished, Cursors
<1>2. CASE ResetIfWriterDead(p)
  BY <1>2, <1>a, <1>c, <1>d, <1>e, <1>f DEF ResetIfWriterDead, Silent, ReadingLabels,
    QuietCursor, Unpublished, Cursors
<1>3. CASE ClaimOwn(p)
  BY <1>3, <1>a, <1>c, <1>d, <1>e, <1>f DEF ClaimOwn, Silent, ReadingLabels, QuietCursor,
    Unpublished, Cursors
<1>4. CASE ClaimFree(p)
  BY <1>4, <1>a, <1>c, <1>d, <1>e, <1>f DEF ClaimFree, Silent, ReadingLabels, QuietCursor,
    Unpublished, Cursors
<1>5. CASE ClaimBirth(p)
  BY <1>5, <1>a, <1>c, <1>d, <1>e, <1>f DEF ClaimBirth, Silent, ReadingLabels, QuietCursor,
    Unpublished, Cursors
<1>6. CASE ClaimRefused(p)
  BY <1>6, <1>a, <1>c, <1>d, <1>e, <1>f DEF ClaimRefused, Silent, ReadingLabels, QuietCursor,
    Unpublished, Cursors, Refusal
<1>7. CASE ClaimHeld(p)
  BY <1>7, <1>a, <1>c, <1>d, <1>e, <1>f DEF ClaimHeld, Silent, ReadingLabels, QuietCursor,
    Unpublished, Cursors
<1>8. CASE ProbeStale(p)
  BY <1>8, <1>a, <1>c, <1>d, <1>e, <1>f DEF ProbeStale, Silent, ReadingLabels, QuietCursor,
    Unpublished, Cursors
<1>9. CASE ProbeDead(p)
  BY <1>9, <1>a, <1>c, <1>d, <1>e, <1>f DEF ProbeDead, Silent, ReadingLabels, QuietCursor,
    Unpublished, Cursors
<1>10. CASE Elect(p)
  BY <1>10, <1>a, <1>b, <1>c, <1>d, <1>e, <1>f DEF Elect, Silent, ReadingLabels, QuietCursor,
    Unpublished, Cursors, Probes
<1>11. CASE ElectFails(p)
  BY <1>11, <1>a, <1>c, <1>d, <1>e, <1>f DEF ElectFails, Silent, ReadingLabels, QuietCursor,
    Unpublished, Cursors
<1>12. CASE LoadSeq(p)
  BY <1>12, <1>a, <1>c, <1>d, <1>e, <1>f DEF LoadSeq, Silent, ReadingLabels, QuietCursor,
    Unpublished, Cursors
<1>13. CASE RefreshHeartbeat(p)
  BY <1>13, <1>a, <1>c, <1>d, <1>e, <1>f DEF RefreshHeartbeat, Silent, ReadingLabels,
    QuietCursor, Unpublished, Cursors
<1>14. CASE Receive(p)
  BY <1>14, <1>a, <1>c, <1>d, <1>e, <1>f DEF Receive, Silent, ReadingLabels, QuietCursor,
    Unpublished, Cursors
<1>15. CASE AttachGeneration(p)
  BY <1>15, <1>a, <1>c, <1>d, <1>e, <1>f DEF AttachGeneration, Silent, ReadingLabels,
    QuietCursor, Unpublished, Cursors, NoCursor
<1>16. CASE AttachSeq(p)
  BY <1>16, <1>a, <1>c, <1>d, <1>e, <1>f DEF AttachSeq, Silent, ReadingLabels, QuietCursor,
    Unpublished, Cursors
<1>17. CASE SeesReset(p)
  BY <1>17, <1>a, <1>c, <1>d, <1>e, <1>f DEF SeesReset, Silent, ReadingLabels, QuietCursor,
    Unpublished, Cursors
<1>18. CASE CheckGeneration(p)
  BY <1>18, <1>a, <1>c, <1>d, <1>e, <1>f DEF CheckGeneration, Silent, ReadingLabels,
    QuietCursor, Unpublished, Cursors
<1>19. CASE SeesLoss(p)
  BY <1>19, <1>a, <1>c, <1>d, <1>e, <1>f DEF SeesLoss, Silent, ReadingLabels, QuietCursor,
    Unpublished, Cursors
<1>20. CASE Received(p)
  BY <1>20, <1>a, <1>c, <1>d, <1>e, <1>f DEF Received, Silent, ReadingLabels, QuietCursor,
    Unpublished, Cursors
<1>21. CASE LoadHeld(p)
  BY <1>21, <1>a, <1>c, <1>d, <1>e, <1>f DEF LoadHeld, Silent, ReadingLabels, QuietCursor,
    Unpublished, Cursors
<1>22. CASE SkipTorn(p)
  BY <1>22, <1>a, <1>c, <1>d, <1>e, <1>f DEF SkipTorn, Silent, ReadingLabels, QuietCursor,
    Unpublished, Cursors
<1>23. CASE SeesDrained(p)
  BY <1>23, <1>a, <1>c, <1>d, <1>e, <1>f DEF SeesDrained, Silent, ReadingLabels, QuietCursor,
    Unpublished, Cursors
<1>24. CASE WaitsOn(p)
  BY <1>24, <1>a, <1>c, <1>d, <1>e, <1>f DEF WaitsOn, Silent, ReadingLabels, QuietCursor,
    Unpublished, Cursors
<1>25. CASE TimesOut(p)
  BY <1>25, <1>a, <1>c, <1>d, <1>e, <1>f DEF TimesOut, Silent, ReadingLabels, QuietCursor,
    Unpublished, Cursors
<1>26. CASE Close(p)
  BY <1>26, <1>a, <1>c, <1>d, <1>e, <1>f DEF Close, Silent, ReadingLabels, QuietCursor,
    Unpublished, Cursors
<1>27. CASE CloseFrees(p)
  BY <1>27, <1>a, <1>b, <1>c, <1>d, <1>e, <1>f DEF CloseFrees, Silent, ReadingLabels,
    QuietCursor, Unpublished, Cursors, NoCursor, Owns
<1>28. CASE Crash(p)
  BY <1>28, <1>a, <1>c, <1>d, <1>e, <1>f DEF Crash, Silent, ReadingLabels, QuietCursor,
    Unpublished, Cursors, NoCursor
<1> QED
  BY <1>1, <1>2, <1>3, <1>4, <1>5, <1>6, <1>7, <1>8, <1>9, <1>10, <1>11, <1>12, <1>13, <1>14,
    <1>15, <1>16, <1>17, <1>18, <1>19, <1>20, <1>21, <1>22, <1>23, <1>24, <1>25, <1>26,
    <1>27, <1>28

\* The steps of a reader that look at the slot of its message.
LEMMA CopyActions ==
  ASSUME Ownership, Integrity, NEW p \in Procs,
         LoadState(p) \/ CheckSeq(p) \/ ReadLow(p) \/ ReadHigh(p)
  PROVE  Integrity'
<1> DEFINE n == Wanted(p)
           i == SlotOf(n)
<1>a. /\ pc \in [Procs -> Labels] /\ local \in [Procs -> Locals] /\ copy \in [Procs -> Copies]
      /\ copy[p] \in Copies
      /\ generation \in Nat /\ write_seq \in Nat /\ n \in Nat /\ i \in Slots
  <2>1. TypeOK
    BY DEF Ownership
  <2>2. n \in Nat /\ write_seq \in Nat
    BY <2>1, Ranges
  <2>3. i \in Slots
    BY <2>2, SlotInRange DEF Slots
  <2> QED
    BY <2>1, <2>2, <2>3, RingAssumption DEF TypeOK, RingAssumption
<1>b. Reads(p)
  BY DEF Integrity
<1>1. /\ UNCHANGED <<generation, write_seq, writer_slot, slots, cursor>>
      /\ \A q \in Procs \ {p} : pc'[q] = pc[q] /\ local'[q] = local[q] /\ copy'[q] = copy[q]
      /\ pc[p] \in {"load_state", "check_seq", "read_lo", "read_hi"}
      /\ pc'[p] \in {"check_seq", "load_held", "read_lo", "read_hi", "copied"}
  BY <1>a DEF LoadState, CheckSeq, ReadLow, ReadHigh, Moves, Goes, header
<1>2. \A q \in Procs : QuietCursor(q)' = QuietCursor(q)
  BY <1>1 DEF QuietCursor
<1>3. Settled' => Settled
  BY <1>1, <1>2 DEF Settled
<1>4. Unpublished' => Unpublished
  BY <1>1 DEF Unpublished
<1>5. Publishes(p)' /\ Clears(p)'
  BY <1>1 DEF Publishes, Clears
<1>6. QuietCursor(p)' => \A q \in Procs : pc[q] \notin {"reset_slot", "reset_owner"}
  BY <1>2 DEF Integrity, Clears
<1>7. /\ Wanted(p)' = n /\ Passed(p)' = Passed(p) /\ Sent(n)' = Sent(n) /\ Used(i)' = Used(i)
      /\ cursor'[p] = cursor[p] /\ Slot(p) = slots[i]
  BY <1>1 DEF Wanted, Passed, Used, Holds, Sent, Slot
<1>8. ASSUME QuietCursor(p) PROVE SlotKept(i)
  BY <1>a, <1>8 DEF Integrity, Kept, Settled, Slots
<1>9. ASSUME Used(i), slots[i].seq = n, ~Passed(p) PROVE Holds(i, n) /\ slots[i].len # None
  <2>1. Holds(i, n)
    BY <1>a, <1>9 DEF Used, Passed
  <2> QED
    BY <1>a, <2>1, RingAssumption DEF Holds, Sent, RingAssumption
<1>10. Reads(p)'
  <2> SUFFICES ASSUME QuietCursor(p)
               PROVE  /\ pc'[p] = "check_seq" => Used(i)
                      /\ pc'[p] \in {"read_lo", "read_hi"} => Passed(p) \/ (Used(i) /\ slots[i].seq = n)
                      /\ pc'[p] = "read_hi" => Passed(p) \/ copy'[p].lo = Sent(n)
                      /\ pc'[p] = "copied" => Passed(p) \/ (copy'[p].lo = Sent(n) /\ copy'[p].hi = Sent(n))
    BY <1>b, <1>1, <1>2, <1>7 DEF Reads, ReadingLabels
  <2>1. CASE LoadState(p)
    <3>1. pc'[p] \in {"check_seq", "load_held"} /\ (pc'[p] = "check_seq" => slots[i].state = "Committed")
      BY <1>a, <2>1 DEF LoadState, Moves, Slot
    <3> QED
      BY <1>8, <3>1 DEF SlotKept
  <2>2. CASE CheckSeq(p)
    <3>1. pc[p] = "check_seq" /\ pc'[p] = "read_lo" /\ slots[i].seq = n
      BY <1>a, <2>2 DEF CheckSeq, Goes, Moves, Slot
    <3> QED
      BY <1>b, <3>1 DEF Reads
  <2>3. CASE ReadLow(p)
    <3>1. /\ pc[p] = "read_lo" /\ pc'[p] = IF slots[i].len = None THEN "copied" ELSE "read_hi"
          /\ slots[i].len # None => copy'[p].lo = slots[i].lo
      BY <1>a, <2>3 DEF ReadLow, Goes, Moves, Slot, Copies
    <3>2. Passed(p) \/ (Used(i) /\ slots[i].seq = n)
      BY <1>b, <3>1 DEF Reads
    <3> QED
      BY <1>9, <3>1, <3>2 DEF Holds
  <2>4. CASE ReadHigh(p)
    <3>1. /\ pc[p] = "read_hi" /\ pc'[p] = "copied"
          /\ copy'[p].lo = copy[p].lo /\ copy'[p].hi = slots[i].hi
      BY <1>a, <2>4 DEF ReadHigh, Goes, Moves, Slot, Copies
    <3>2. /\ Passed(p) \/ (Used(i) /\ slots[i].seq = n)
          /\ Passed(p) \/ copy[p].lo = Sent(n)
      BY <1>b, <3>1 DEF Reads
    <3> QED
      BY <1>9, <3>1, <3>2 DEF Holds
  <2> QED
    BY <2>1, <2>2, <2>3, <2>4
<1> QED
  BY <1>1, <1>3, <1>4, <1>5, <1>6, <1>10, CalmStep
-----------------------------------------------------------------------------
\* The slot that the writer is about to fill holds the message of a round ago, if any.
LEMMA RoundAgain ==
  ASSUME Ownership, Integrity, Settled, Unpublished, Used(SlotOf(write_seq))
  PROVE  write_seq = slots[SlotOf(write_seq)].seq + SlotCount
<1> DEFINE i == SlotOf(write_seq)
           m == slots[i].seq
<1>1. write_seq \in Nat /\ SlotCount \in Nat \ {0} /\ MaxSeq \in Nat
  BY RingAssumption DEF Ownership, TypeOK, RingAssumption
<1>2. i \in Slots /\ m \in Nat
  <2>1. slots[i] \in SlotRecords /\ i \in Slots
    BY <1>1, SlotInRange DEF Ownership, TypeOK, Slots
  <2> QED
    BY <1>1, <2>1 DEF SlotRecords
<1>3. SUFFICES ASSUME Holds(i, m) PROVE write_seq = m + SlotCount
  BY DEF Used
<1>4. m < write_seq
  BY <1>2, <1>3 DEF Integrity, Kept, SlotKept, Holds, Slots
<1>5. m % SlotCount = write_seq % SlotCount /\ write_seq <= m + SlotCount
  BY DEF Used, SlotOf
<1> HIDE DEF m, i
<1> QED
  BY <1>1, <1>2, <1>4, <1>5, OneRound

\* A live writer is alone: nobody else publishes or clears slots.
LEMMA WriterAlone ==
  ASSUME Ownership, NEW p \in Procs, Writing(p)
  PROVE  /\ writer_slot = p /\ Settled
         /\ \A q \in Procs \ {p} : ~Writing(q)
         /\ \A q \in Procs : ~Resetting(q)
BY RingAssumption DEF Ownership, Owns, Settled, RingAssumption

\* A store of the writer that leaves every used slot used, and the number in it if the
\* writer has not come round to it.
LEMMA StoreStep ==
  ASSUME Ownership, Integrity, NEW p \in Procs, Writing(p), Writing(p)',
         UNCHANGED <<generation, write_seq, writer_slot, local, cursor, copy>>,
         NEW l, pc' = [pc EXCEPT ![p] = l],
         \A i \in Slots : SlotKept(i)', Publishes(p)',
         \A i \in Slots : Used(i) => Used(i)',
         \A i \in Slots : Used(i) /\ write_seq < slots[i].seq + SlotCount =>
                            slots'[i].seq = slots[i].seq
  PROVE  Integrity'
<1>1. pc'[p] = l /\ l \in WritingLabels /\ \A q \in Procs \ {p} : pc'[q] = pc[q]
  BY DEF Ownership, TypeOK, Writing
<1>2. ASSUME NEW q \in Procs PROVE Clears(q)'
  BY <1>1, WriterAlone DEF Clears, Resetting, ResetLabels, WritingLabels
<1>3. ASSUME NEW q \in Procs \ {p} PROVE Publishes(q)'
  BY <1>1, <1>3, WriterAlone DEF Publishes, Writing, WritingLabels
<1>4. ASSUME NEW q \in Procs PROVE Reads(q)'
  <2>1. Reads(q) /\ TypeOK
    BY DEF Integrity, Ownership
  <2>0. PICK n \in Nat : n = Wanted(q)
    BY <2>1, Ranges
  <2> DEFINE i == SlotOf(n)
  <2>2. i \in Slots /\ write_seq \in Nat /\ SlotCount \in Nat
    BY <2>1, Ranges, SlotInRange, RingAssumption DEF Slots, RingAssumption
  <2>3. /\ QuietCursor(q)' = QuietCursor(q) /\ Wanted(q)' = n /\ Passed(q)' = Passed(q)
        /\ Sent(n)' = Sent(n) /\ cursor'[q] = cursor[q] /\ copy'[q] = copy[q]
    BY <2>0 DEF QuietCursor, Wanted, Passed, Sent
  <2>4. CASE q = p
    <3>1. pc'[q] \notin ReadingLabels
      BY <1>1, <2>4 DEF ReadingLabels, WritingLabels
    <3> QED
      BY <2>1, <2>3, <3>1 DEF Reads, ReadingLabels
  <2>5. CASE q # p
    <3>1. pc'[q] = pc[q]
      BY <1>1, <2>5
    <3>2. Used(i) => Used(i)'
      BY <2>2
    <3>3. ~Passed(q) /\ Used(i) /\ slots[i].seq = n => slots'[i].seq = n
      BY <2>0, <2>2 DEF Passed
    <3> QED
      BY <2>0, <2>1, <2>3, <3>1, <3>2, <3>3 DEF Reads
  <2> QED
    BY <2>4, <2>5
<1> QED
  BY <1>2, <1>3, <1>4 DEF Integrity, Kept, Slots

\* The writer's stores into its slot.
LEMMA WriterStores ==
  ASSUME Ownership, Integrity, NEW p \in Procs,
         Mark(p) \/ CopyLow(p) \/ CopyHigh(p) \/ Number(p) \/ Commit(p)
  PROVE  Integrity'
<1> USE DEF Stores, Goes, Moves, header
<1>1. PICK w \in Nat : w = write_seq
  BY Ranges DEF Ownership
<1>2. PICK g \in Nat : g = generation
  BY RingAssumption DEF Ownership, TypeOK, RingAssumption
<1> DEFINE i == SlotOf(w)
           m == [gen |-> g, seq |-> w]
<1>3. /\ pc[p] \in Counting /\ Writing(p) /\ Writing(p)'
      /\ UNCHANGED <<generation, write_seq, writer_slot, local, cursor, copy>>
      /\ \A q \in Procs \ {p} : pc'[q] = pc[q]
      /\ \E l : pc' = [pc EXCEPT ![p] = l]
  BY DEF Mark, CopyLow, CopyHigh, Number, Commit, Writing, Counting, WritingLabels,
    Ownership, TypeOK
<1>4. /\ local[p].seq = w /\ Message(p) = m /\ Target(p) = slots[i] /\ writer_slot = p
      /\ Settled
      /\ Publishes(p) /\ Sent(w) = m /\ Sent(w)' = m
  BY <1>1, <1>2, <1>3, WriterAlone DEF Ownership, Counts, Message, Target, Integrity, Sent
<1>5. /\ i \in Slots /\ slots \in [Slots -> SlotRecords] /\ slots[i] \in SlotRecords
      /\ SlotCount \in Nat \ {0} /\ \A j \in Slots : slots[j].seq \in Nat
  <2>1. i \in Slots /\ slots \in [Slots -> SlotRecords]
    BY SlotInRange DEF Slots, Ownership, TypeOK
  <2> QED
    BY <2>1, RingAssumption DEF SlotRecords, RingAssumption
<1>6. \A j \in Slots : SlotKept(j)
  BY <1>4 DEF Integrity, Kept, Slots
<1>7. PICK x : slots' = [slots EXCEPT ![i] = x] /\ slots'[i] = x
  BY <1>4, <1>5 DEF Mark, CopyLow, CopyHigh, Number, Commit
<1>8. \A j \in Slots \ {i} : slots'[j] = slots[j]
  BY <1>5, <1>7
<1>9. \A j \in Slots \ {i} : Used(j)' = Used(j)
  BY <1>3, <1>8 DEF Used, Holds, Sent
<1>10. Unpublished' => Unpublished
  BY <1>3, <1>4 DEF Unpublished, Counting, WritingLabels, Mark, CopyLow, CopyHigh, Number,
    Commit, Ownership, TypeOK
<1>11. \A j \in Slots \ {i} : SlotKept(j)'
  BY <1>3, <1>6, <1>8, <1>9, <1>10 DEF SlotKept, Sent
<1>12. SUFFICES /\ SlotKept(i)' /\ Publishes(p)' /\ (Used(i) => Used(i)')
                /\ Used(i) /\ w < slots[i].seq + SlotCount => slots'[i].seq = slots[i].seq
  BY <1>1, <1>3, <1>8, <1>9, <1>11, StoreStep
<1>13. ASSUME pc[p] \in {"mark", "copy_lo", "copy_hi"}
       PROVE  Unpublished /\ (Used(i) => w = slots[i].seq + SlotCount)
  <2>1. Unpublished
    BY <1>4, <1>13 DEF Unpublished
  <2> QED
    BY <1>1, <1>4, <2>1, RoundAgain
<1>14. SlotKept(i) /\ slots[i].seq \in Nat
  BY <1>5, <1>6
<1>15. CASE Mark(p)
  <2>1. /\ pc[p] = "mark" /\ pc'[p] = "copy_lo" /\ slots'[i].state = "Writing"
        /\ slots'[i].seq = slots[i].seq /\ slots'[i].len = slots[i].len
        /\ slots'[i].lo = slots[i].lo /\ slots'[i].hi = slots[i].hi
    BY <1>3, <1>4, <1>5, <1>15 DEF Mark, SlotRecords, Ownership, TypeOK
  <2>2. Used(i)' = Used(i)
    BY <1>3, <2>1 DEF Used, Holds, Sent
  <2>3. SlotKept(i)'
    BY <1>3, <1>10, <1>14, <2>1 DEF SlotKept, Sent
  <2> QED
    BY <2>1, <2>2, <2>3 DEF Publishes
<1>16. CASE CopyLow(p)
  <2>1. /\ pc[p] = "copy_lo" /\ pc'[p] = "copy_hi" /\ slots'[i].state = slots[i].state
        /\ slots'[i].seq = slots[i].seq /\ slots'[i].len = slots[i].len /\ slots'[i].lo = m
    BY <1>3, <1>4, <1>5, <1>16 DEF CopyLow, SlotRecords, Ownership, TypeOK
  <2>2. Used(i) => Used(i)'
    BY <1>1, <1>3, <1>13, <2>1 DEF Used
  <2>3. SlotKept(i)'
    BY <1>3, <1>10, <1>14, <2>1, <2>2 DEF SlotKept, Sent
  <2>4. Publishes(p)'
    BY <1>1, <1>3, <1>4, <2>1 DEF Publishes
  <2> QED
    BY <2>1, <2>2, <2>3, <2>4
<1>17. CASE CopyHigh(p)
  <2>1. /\ pc[p] = "copy_hi" /\ pc'[p] = "number" /\ slots'[i].state = slots[i].state
        /\ slots'[i].seq = slots[i].seq /\ slots'[i].len = m /\ slots'[i].hi = m
        /\ slots'[i].lo = slots[i].lo
    BY <1>3, <1>4, <1>5, <1>17 DEF CopyHigh, SlotRecords, Ownership, TypeOK
  <2>2. Used(i) => Used(i)'
    BY <1>1, <1>3, <1>13, <2>1 DEF Used
  <2>3. ~Unpublished' /\ (\A n \in Nat : m = Sent(n)' => n = w)
    BY <1>2, <1>3, <1>4, <2>1, RingAssumption DEF Unpublished, Sent, RingAssumption
  <2>4. SlotKept(i)'
    BY <1>1, <1>3, <1>14, <2>1, <2>2, <2>3 DEF SlotKept
  <2>5. Publishes(p)'
    BY <1>1, <1>3, <1>4, <2>1 DEF Publishes, Holds
  <2> QED
    BY <2>1, <2>2, <2>4, <2>5
<1>18. CASE Number(p)
  <2>1. /\ pc[p] = "number" /\ pc'[p] = "commit" /\ slots'[i].state = slots[i].state
        /\ slots'[i].seq = w /\ slots'[i].len = slots[i].len /\ slots'[i].hi = slots[i].hi
        /\ slots'[i].lo = slots[i].lo
    BY <1>3, <1>4, <1>5, <1>18 DEF Number, SlotRecords, Ownership, TypeOK
  <2>2. slots[i].lo = m /\ slots[i].hi = m /\ slots[i].len = m
    BY <1>1, <1>4, <2>1 DEF Publishes, Holds
  <2>3. Used(i)'
    BY <1>1, <1>3, <1>4, <1>5, <2>1, <2>2 DEF Used, Holds
  <2>4. SlotKept(i)'
    BY <1>3, <1>10, <1>14, <2>1, <2>3 DEF SlotKept, Sent
  <2>5. Publishes(p)'
    BY <1>1, <1>3, <1>4, <2>1, <2>2 DEF Publishes, Holds
  <2>6. ASSUME Used(i), w < slots[i].seq + SlotCount PROVE slots[i].seq = w
    <3>1. PICK k \in Nat : k = slots[i].seq
      BY <1>14
    <3>2. k <= w /\ k % SlotCount = w % SlotCount
      BY <1>1, <2>6, <3>1 DEF Used, SlotOf
    <3>3. SUFFICES ASSUME k < w PROVE FALSE
      BY <3>1, <3>2
    <3>4. w <= k + SlotCount /\ w # k + SlotCount
      BY <1>5, <2>6, <3>1
    <3> QED
      BY <1>5, <3>2, <3>3, <3>4, OneRound
  <2> QED
    BY <2>1, <2>3, <2>4, <2>5, <2>6
<1>19. CASE Commit(p)
  <2>1. /\ pc[p] = "commit" /\ pc'[p] = "count"
        /\ slots'[i].seq = slots[i].seq /\ slots'[i].len = slots[i].len
        /\ slots'[i].hi = slots[i].hi
        /\ slots'[i].lo = slots[i].lo
    BY <1>3, <1>4, <1>5, <1>19 DEF Commit, SlotRecords, Ownership, TypeOK
  <2>2. slots[i].seq = w /\ slots[i].lo = m /\ slots[i].hi = m /\ slots[i].len = m
    BY <1>1, <1>4, <2>1 DEF Publishes, Holds
  <2>3. Used(i)'
    BY <1>1, <1>3, <1>4, <1>5, <2>1, <2>2 DEF Used, Holds
  <2>4. SlotKept(i)'
    BY <1>3, <1>10, <1>14, <2>1, <2>3 DEF SlotKept, Sent
  <2>5. Publishes(p)'
    BY <1>1, <1>3, <1>4, <2>1, <2>2 DEF Publishes
  <2> QED
    BY <2>1, <2>3, <2>4, <2>5
<1> QED
  BY <1>15, <1>16, <1>17, <1>18, <1>19

\* write_seq moves on: no used slot falls behind.
LEMMA CountStep ==
  ASSUME Ownership, Integrity, NEW p \in Procs, Count(p)
  PROVE  Integrity'
<1>1. PICK w \in Nat : w = write_seq
  BY Ranges DEF Ownership
<1>2. /\ pc[p] = "count" /\ write_seq' = w + 1 /\ pc'[p] = "idle"
      /\ UNCHANGED <<generation, writer_slot, slots, cursor, copy>>
      /\ \A q \in Procs \ {p} : pc'[q] = pc[q] /\ local'[q] = local[q]
  BY <1>1 DEF Count, Returns, Moves, Ownership, TypeOK
<1>3. /\ Writing(p) /\ Settled /\ \A q \in Procs \ {p} : ~Writing(q)
      /\ \A q \in Procs : ~Resetting(q)
  <2>1. Writing(p)
    BY <1>2 DEF Writing, WritingLabels
  <2> QED
    BY <2>1, WriterAlone
<1>4. SlotCount \in Nat \ {0} /\ \A i \in Slots : slots[i].seq \in Nat
  BY RingAssumption DEF Ownership, TypeOK, SlotRecords, Slots, RingAssumption
<1>5. slots[SlotOf(w)].seq = w
  BY <1>1, <1>2 DEF Integrity, Publishes
<1>6. ASSUME NEW i \in Slots, Used(i) PROVE Used(i)'
  <2>1. PICK m \in Nat : m = slots[i].seq
    BY <1>4
  <2>2. m <= w /\ w <= m + SlotCount /\ SlotOf(m) = i /\ (w = m + SlotCount \/ Holds(i, m))
    BY <1>1, <1>6, <2>1 DEF Used
  <2>3. w # m + SlotCount
    <3>1. SUFFICES ASSUME w = m + SlotCount PROVE FALSE
      OBVIOUS
    <3>2. SlotOf(w) = i
      BY <1>4, <2>2, <3>1, NextRound DEF SlotOf
    <3> QED
      BY <1>4, <1>5, <2>1, <3>1, <3>2
  <2>4. Holds(i, m)'
    BY <1>2, <2>2, <2>3 DEF Holds, Sent
  <2>5. m <= w + 1 /\ w + 1 <= m + SlotCount
    BY <1>4, <2>2, <2>3
  <2> QED
    BY <1>2, <2>1, <2>2, <2>4, <2>5 DEF Used
<1>7. ASSUME NEW i \in Slots PROVE SlotKept(i)'
  <2>1. SlotKept(i)
    BY <1>3 DEF Integrity, Kept, Slots
  <2>2. \A n \in Nat : n <= w => n <= w + 1 /\ n < w + 1
    OBVIOUS
  <2> QED
    BY <1>1, <1>2, <1>6, <2>1, <2>2 DEF SlotKept, Sent
<1>8. ASSUME NEW q \in Procs PROVE Publishes(q)' /\ Clears(q)'
  BY <1>2, <1>3 DEF Publishes, Clears, Writing, WritingLabels, Resetting, ResetLabels
<1>9. ASSUME NEW q \in Procs PROVE Reads(q)'
  <2>1. Reads(q) /\ TypeOK
    BY DEF Integrity, Ownership
  <2>2. PICK n \in Nat : n = Wanted(q)
    BY <2>1, Ranges
  <2> DEFINE i == SlotOf(n)
  <2>3. i \in Slots
    BY SlotInRange DEF Slots
  <2>4. Passed(q) => Passed(q)'
    BY <1>1, <1>2, <1>4, <2>2 DEF Passed, Wanted
  <2>5. /\ QuietCursor(q)' = QuietCursor(q) /\ Wanted(q)' = n /\ Sent(n)' = Sent(n)
        /\ cursor'[q] = cursor[q] /\ copy'[q] = copy[q] /\ pc'[q] \in {pc[q], "idle"}
        /\ slots' = slots /\ generation' = generation
    BY <1>2, <2>2 DEF QuietCursor, Wanted, Sent
  <2>6. Used(i) => Used(i)'
    BY <1>6, <2>3
  <2> QED
    BY <2>1, <2>2, <2>4, <2>5, <2>6 DEF Reads, ReadingLabels
<1> QED
  BY <1>7, <1>8, <1>9 DEF Integrity, Kept, Slots

\* reset_ring: nobody can rely on the slots until it is over.
LEMMA ResetActions ==
  ASSUME Ownership, Integrity, NEW p \in Procs,
         ResetGeneration(p) \/ ResetSlot(p) \/ ResetCount(p) \/ ResetOwner(p)
  PROVE  Integrity'
<1> USE DEF Moves, Goes, Returns, header
<1>a. /\ pc \in [Procs -> Labels] /\ local \in [Procs -> Locals] /\ local[p] \in Locals
      /\ cursor \in [Procs -> Cursors] /\ slots \in [Slots -> SlotRecords]
      /\ local[p].seq \in Nat /\ generation \in Nat /\ SlotCount \in Nat \ {0}
      /\ \A q \in Procs : cursor[q].gen \in Nat
  <2>1. TypeOK /\ local[p].seq \in Nat /\ MaxGen \in Nat
    BY Ranges, RingAssumption DEF Ownership, RingAssumption
  <2>2. \A q \in Procs : cursor[q].gen \in Nat
    BY <2>1 DEF TypeOK, Cursors
  <2> QED
    BY <2>1, <2>2, RingAssumption DEF TypeOK, RingAssumption, Slots
<1>b. pc[p] \in ResetLabels /\ writer_slot = Electing
  BY DEF ResetGeneration, ResetSlot, ResetCount, ResetOwner, ResetLabels, Ownership, Owns,
    Resetting
<1>c. \A q \in Procs \ {p} : ~Resetting(q) /\ ~Writing(q)
  BY <1>b, RingAssumption DEF Ownership, OneResetter, Resetting, Owns, RingAssumption
<1>d. \A q \in Procs : cursor[q].gen <= generation /\ (pc[q] \in ReadingLabels => cursor[q].attached)
  BY DEF Integrity, Reads
<1>e. pc[p] \notin ReadingLabels
  BY <1>b DEF ResetLabels, ReadingLabels
\* While the ring is being reset there is nothing to show of the slots.
<1>1. ASSUME \A q \in Procs \ {p} : pc'[q] = pc[q], pc'[p] \in {"reset_slot", "reset_owner"},
             writer_slot' = Electing, \A q \in Procs : ~QuietCursor(q)',
             \A q \in Procs : cursor'[q] = cursor[q] /\ cursor[q].gen <= generation',
             Clears(p)'
      PROVE  Integrity'
  <2>1. ~Settled'
    BY <1>1, <1>c DEF Settled, Resetting, ResetLabels
  <2>2. ASSUME NEW q \in Procs PROVE Publishes(q)' /\ Clears(q)'
    BY <1>1, <1>c, <2>2 DEF Publishes, Clears, Writing, WritingLabels, Resetting, ResetLabels
  <2>3. ASSUME NEW q \in Procs PROVE Reads(q)'
    BY <1>1, <1>d, <2>3 DEF Reads, ReadingLabels
  <2> QED
    BY <2>1, <2>2, <2>3 DEF Integrity, Kept
<1>2. CASE ResetGeneration(p)
  <2>1. /\ \A q \in Procs \ {p} : pc'[q] = pc[q]
        /\ pc[p] = "reset_gen" /\ pc'[p] = "reset_slot" /\ local'[p].seq = local[p].seq
        /\ generation' = generation + 1 /\ UNCHANGED <<writer_slot, cursor, slots>>
    BY <1>2, <1>a DEF ResetGeneration, Locals
  <2>2. local[p].seq = 0
    BY <2>1 DEF Ownership, Counts
  <2>3. \A q \in Procs : cursor[q].gen <= generation' /\ cursor[q].gen # generation'
    BY <1>a, <1>d, <2>1
  <2>4. \A q \in Procs : ~QuietCursor(q)'
    BY <2>1, <2>3 DEF QuietCursor
  <2>5. Clears(p)'
    BY <2>1, <2>2, <2>4 DEF Clears, Slots
  <2> QED
    BY <1>1, <1>b, <2>1, <2>3, <2>4, <2>5
<1>3. CASE ResetSlot(p)
  <2>1. PICK k \in Nat : k = local[p].seq
    BY <1>a
  <2>2. /\ \A q \in Procs \ {p} : pc'[q] = pc[q]
        /\ pc[p] = "reset_slot" /\ pc'[p] = "reset_slot" /\ local'[p].seq = k + 1
        /\ k < SlotCount
        /\ UNCHANGED <<generation, writer_slot, cursor>>
    BY <1>3, <1>a, <2>1 DEF ResetSlot, Locals
  <2>3. k \in Slots
    BY <1>a, <2>2 DEF Slots
  <2>4. /\ slots'[k].state = "Empty" /\ slots'[k].len = None
        /\ \A i \in Slots \ {k} : slots'[i] = slots[i]
    BY <1>3, <1>a, <2>1, <2>3 DEF ResetSlot, SlotRecords
  <2>5. Clears(p)
    BY DEF Integrity
  <2>6. \A q \in Procs : ~QuietCursor(q)'
    BY <2>2, <2>5 DEF Clears, QuietCursor
  <2>7. \A i \in Slots : i < k + 1 => i < k \/ i = k
    BY DEF Slots
  <2>8. Clears(p)'
    BY <2>1, <2>2, <2>4, <2>5, <2>6, <2>7 DEF Clears, Slots
  <2> QED
    BY <1>1, <1>b, <1>d, <2>2, <2>6, <2>8
<1>4. CASE ResetCount(p)
  <2>1. /\ \A q \in Procs \ {p} : pc'[q] = pc[q]
        /\ pc[p] = "reset_slot" /\ pc'[p] = "reset_owner" /\ local[p].seq = SlotCount
        /\ UNCHANGED <<generation, writer_slot, cursor, slots, local>>
    BY <1>4, <1>a DEF ResetCount
  <2>2. Clears(p)
    BY DEF Integrity
  <2>3. \A q \in Procs : ~QuietCursor(q)'
    BY <2>1, <2>2 DEF Clears, QuietCursor
  <2>4. Clears(p)'
    BY <2>1, <2>2, <2>3 DEF Clears
  <2> QED
    BY <1>1, <1>b, <1>d, <2>1, <2>3, <2>4
<1>5. CASE ResetOwner(p)
  <2>1. /\ \A q \in Procs \ {p} : pc'[q] = pc[q] /\ cursor'[q] = cursor[q]
        /\ pc[p] = "reset_owner" /\ pc'[p] \in {"load_seq", "idle"}
        /\ ~cursor'[p].attached /\ cursor'[p].gen = cursor[p].gen
        /\ UNCHANGED <<generation, slots>>
    <3>1. CASE Sends(p)
      BY <1>5, <1>a, <3>1 DEF ResetOwner, Cursors
    <3>2. CASE ~Sends(p)
      BY <1>5, <1>a, <3>2 DEF ResetOwner, Cursors
    <3> QED
      BY <3>1, <3>2
  <2>2. /\ \A q \in Procs : ~QuietCursor(q)
        /\ \A i \in Slots : i < SlotCount => slots[i].state = "Empty" /\ slots[i].len = None
    BY <2>1 DEF Integrity, Clears, Slots
  <2>3. \A i \in Slots : slots[i].state = "Empty" /\ slots[i].len = None
    BY <1>a, <2>2 DEF Slots
  <2>4. \A q \in Procs : ~QuietCursor(q)'
    BY <2>1, <2>2 DEF QuietCursor
  <2>5. \A n \in Nat : Sent(n)' # None
    BY <1>a, <2>1, RingAssumption DEF Sent, RingAssumption
  <2>6. ASSUME NEW i \in Slots PROVE SlotKept(i)'
    BY <2>1, <2>3, <2>5 DEF SlotKept
  <2>7. ASSUME NEW q \in Procs PROVE Publishes(q)' /\ Clears(q)'
    BY <1>c, <2>1, <2>7 DEF Publishes, Clears, Writing, WritingLabels, Resetting, ResetLabels
  <2>8. ASSUME NEW q \in Procs PROVE Reads(q)'
    BY <1>d, <2>1, <2>4, <2>8 DEF Reads, ReadingLabels
  <2> QED
    BY <2>6, <2>7, <2>8 DEF Integrity, Kept, Slots
<1> QED
  BY <1>2, <1>3, <1>4, <1>5

LEMMA Untouched ==
  ASSUME Integrity,
         UNCHANGED <<generation, write_seq, writer_slot, slots, pc, local, cursor, copy>>
  PROVE  Integrity'
<1>1. /\ Settled' = Settled /\ Unpublished' = Unpublished
      /\ \A p \in Procs : QuietCursor(p)' = QuietCursor(p) /\ Passed(p)' = Passed(p)
  BY DEF Settled, Unpublished, QuietCursor, Passed, Wanted
<1>2. \A i, n : Used(i)' = Used(i) /\ Sent(n)' = Sent(n)
  BY DEF Used, Holds, Sent
<1>3. \A i \in Slots : SlotKept(i)' = SlotKept(i)
  BY <1>1, <1>2 DEF SlotKept
<1>4. \A p \in Procs : Publishes(p)' = Publishes(p) /\ Clears(p)' = Clears(p)
  BY <1>1 DEF Publishes, Clears, Holds, Sent
<1>5. \A p \in Procs : Reads(p)' = Reads(p)
  BY <1>1, <1>2 DEF Reads, Wanted
<1> QED
  BY <1>1, <1>3, <1>4, <1>5 DEF Integrity, Kept, Slots

\* Integrity is inductive, given Ownership.
LEMMA IntegrityStep ==
  ASSUME Ownership, Integrity, WritersStayOpen, [Next]_vars
  PROVE  Integrity'
<1>1. CASE UNCHANGED vars
  BY <1>1, Untouched DEF vars, header
<1>2. CASE HeartbeatTimesOut
  BY <1>2, Untouched DEF HeartbeatTimesOut
<1>3. ASSUME NEW p \in Procs,
             WriterStep(p) \/ ReaderStep(p) \/ Close(p) \/ CloseFrees(p) \/ Crash(p)
      PROVE  Integrity'
  BY <1>3, TypeStep, SilentActions, CopyActions, WriterStores, CountStep, ResetActions
    DEF WriterStep, ReaderStep
<1> QED
  BY <1>1, <1>2, <1>3 DEF Next

LEMMA InitIntegrity ==
  ASSUME Init
  PROVE  Integrity
<1>1. /\ \A p \in Procs : pc[p] = "idle" /\ cursor[p] = NoCursor
      /\ \A i \in Slots : slots[i] = EmptySlot
      /\ generation = 1 /\ write_seq = 0
  BY DEF Init, Slots
<1>2. \A n \in Nat : Sent(n) # None
  BY <1>1, RingAssumption DEF Sent, RingAssumption
<1>3. \A i \in Slots : SlotKept(i)
  BY <1>1, <1>2 DEF SlotKept, EmptySlot
<1>4. \A p \in Procs : Publishes(p) /\ Clears(p)
  BY <1>1 DEF Publishes, Clears
<1>5. ASSUME NEW p \in Procs PROVE Reads(p)
  <2>1. pc[p] = "idle" /\ ~cursor[p].attached /\ cursor[p].gen <= generation
    BY <1>1 DEF NoCursor
  <2> QED
    BY <2>1 DEF Reads, ReadingLabels, QuietCursor
<1> QED
  BY <1>3, <1>4, <1>5 DEF Integrity, Kept, Slots

-----------------------------------------------------------------------------
(* What a reader copies *)

CopyLabels == {"check_seq", "read_lo", "read_hi"}

\* The labels between a check of the generation and what follows from it.
MidRead == CopyLabels \cup {"attach_seq", "load_state", "copied", "load_held", "judge"}

\* Slot i carries message n of generation g, whole.
Carries(i, n, g) ==
  LET m == [gen |-> g, seq |-> n]
  IN  slots[i].lo = m /\ slots[i].hi = m /\ slots[i].len = m

\* A committed slot is whole, of this generation or left over from the last.
CommittedIsWhole(i) ==
  slots[i].state = "Committed" =>
    \E g \in 1..generation :
      Carries(i, slots[i].seq, g) /\ generation <= g + 1 /\ (Settled => g = generation)

\* The slot that is being filled says so.
Fills(p) ==
  pc[p] \in {"copy_lo", "copy_hi", "number", "commit"} =>
    slots[SlotOf(write_seq)].state = "Writing"

\* What p is reading is the message of generation g that it asked for.
RightIn(p, g) ==
  /\ Carries(SlotOf(Wanted(p)), Wanted(p), g) /\ (Settled => g = generation)
  /\ cursor[p].quiet => cursor[p].gen <= g
  /\ pc[p] = "read_hi" => copy[p].lo = [gen |-> g, seq |-> Wanted(p)]

SlotRight(p) ==
  /\ p \notin touched /\ pc[p] \in CopyLabels
  /\ pc[p] = "check_seq" => slots[SlotOf(Wanted(p))].seq = Wanted(p)
  => \E g \in 1..generation : RightIn(p, g)

CopyRight(p) ==
  p \notin touched /\ pc[p] = "copied" =>
    \E g \in 1..generation :
      /\ cursor[p].quiet => cursor[p].gen <= g
      /\ copy[p].lo = [gen |-> g, seq |-> Wanted(p)] /\ copy[p].hi = copy[p].lo

\* A resetter has not come to the slot yet.
NotCleared(p) ==
  p \notin touched /\ pc[p] \in CopyLabels =>
    \A q \in Procs : pc[q] \in {"reset_slot", "reset_owner"} => local[q].seq <= SlotOf(Wanted(p))

\* Only a writer that has come round stores into the slot of a reader of its generation.
Spoilt(p) ==
  p \in touched /\ pc[p] \in CopyLabels \cup {"copied"} /\ QuietCursor(p) => Passed(p)

\* Nobody will write in this generation again; the message that write_seq numbers is out.
Stuck == writer_slot = Electing \/ (writer_slot \in Procs /\ pc[writer_slot] = "dead")
Published == Stuck \/ (writer_slot \in Procs /\ pc[writer_slot] \in {"commit", "count"})

\* A reader is ahead of the writer by the message that is being counted, or for good.
Ahead(p) ==
  \/ Wanted(p) <= write_seq \/ Stuck
  \/ /\ Published /\ Wanted(p) = write_seq + 1
     /\ pc[writer_slot] = "commit" /\ pc[p] \in CopyLabels => SlotOf(Wanted(p)) # SlotOf(write_seq)

Reached(p) ==
  QuietCursor(p) =>
    /\ pc[p] = "check_seq" => slots[SlotOf(Wanted(p))].seq < write_seq \/ Published
    /\ pc[p] \in {"read_lo", "read_hi", "copied"} =>
         Wanted(p) < write_seq \/ (Wanted(p) = write_seq /\ Published)
    /\ Ahead(p)
    /\ pc[p] = "judge" /\ local[p].held \in Procs => writer_slot \in {local[p].held, Electing}

\* A reader that got a message after a takeover is not in the middle of another read.
Late(p) ==
  p \in late => pc[p] \notin MidRead /\ (cursor[p].attached => cursor[p].gen # generation)

Knows(p) ==
  /\ Fills(p) /\ SlotRight(p) /\ CopyRight(p) /\ NotCleared(p)
  /\ Spoilt(p) /\ Reached(p) /\ Late(p)

Copying ==
  /\ \A i \in Slots : CommittedIsWhole(i)
  /\ \A p \in Procs : Knows(p)

\* The slots stay as they are, and so do the other processes.
LEMMA CopyCalm ==
  ASSUME Ownership, Integrity, Copying, NEW p \in Procs, pc[p] # "dead",
         UNCHANGED <<generation, write_seq, slots>>,
         \A q \in Procs \ {p} : /\ pc'[q] = pc[q] /\ local'[q] = local[q]
                                /\ cursor'[q] = cursor[q] /\ copy'[q] = copy[q]
                                /\ q \in touched' <=> q \in touched
                                /\ q \in late' <=> q \in late,
         writer_slot' = writer_slot \/ writer_slot = Free \/ writer_slot' = Electing,
         pc[p] \in {"commit", "count"} => pc'[p] = "dead",
         pc'[p] \notin {"reset_slot", "reset_owner"},
         Settled' => Settled, Knows(p)'
  PROVE  Copying'
<1>0. Free \notin Procs /\ Free # Electing /\ Electing \notin Procs
  BY RingAssumption DEF RingAssumption
<1>1. \A i \in Slots : CommittedIsWhole(i)'
  BY DEF Copying, CommittedIsWhole, Carries
<1>2. (Stuck => Stuck') /\ (Published => Published')
  BY <1>0 DEF Stuck, Published
<1>3. ASSUME NEW q \in Procs \ {p} PROVE Knows(q)'
  <2>1. /\ Knows(q) /\ Wanted(q)' = Wanted(q) /\ QuietCursor(q)' = QuietCursor(q)
        /\ Passed(q)' = Passed(q)
    BY <1>3 DEF Copying, Wanted, QuietCursor, Passed
  <2>2. Fills(q)'
    BY <1>3, <2>1 DEF Knows, Fills
  <2>3. SlotRight(q)'
    BY <1>3, <2>1 DEF Knows, SlotRight, RightIn, Carries
  <2>4. CopyRight(q)'
    BY <1>3, <2>1 DEF Knows, CopyRight
  <2>5. NotCleared(q)'
    BY <1>3, <2>1 DEF Knows, NotCleared
  <2>6. Spoilt(q)' /\ Late(q)'
    BY <1>3, <2>1 DEF Knows, Spoilt, Late
  <2>7. Ahead(q) => Ahead(q)'
    <3>1. ASSUME Published, Wanted(q) = write_seq + 1, ~Stuck,
                 pc[writer_slot] = "commit" /\ pc[q] \in CopyLabels => SlotOf(Wanted(q)) # SlotOf(write_seq)
          PROVE  Ahead(q)'
      <4>1. writer_slot \in Procs /\ pc[writer_slot] \in {"commit", "count"}
        BY <3>1 DEF Published
      <4>2. CASE writer_slot' = Electing \/ writer_slot = p
        BY <1>0, <4>1, <4>2 DEF Ahead, Stuck
      <4>3. CASE writer_slot' = writer_slot /\ writer_slot # p
        BY <1>2, <1>3, <2>1, <3>1, <4>1, <4>3 DEF Ahead
      <4> QED
        BY <1>0, <4>1, <4>2, <4>3
    <3> QED
      BY <1>2, <2>1, <3>1 DEF Ahead
  <2>8. Reached(q)'
    <3>1. SUFFICES ASSUME QuietCursor(q) PROVE Reached(q)'
      BY <2>1 DEF Reached
    <3>2. Reached(q)
      BY <2>1 DEF Knows
    <3> QED
      BY <1>0, <1>2, <1>3, <2>1, <2>7, <3>1, <3>2 DEF Reached
  <2> QED
    BY <2>2, <2>3, <2>4, <2>5, <2>6, <2>8 DEF Knows
<1> QED
  BY <1>1, <1>3 DEF Copying

\* A step to a label where nothing is known of the slots.
LEMMA CopySilentStep ==
  ASSUME Ownership, Integrity, Copying, NEW p \in Procs, pc[p] # "dead",
         UNCHANGED <<generation, write_seq, slots, touched>>,
         NEW l \in Silent, pc' = [pc EXCEPT ![p] = l],
         \A q \in Procs \ {p} : /\ local'[q] = local[q] /\ cursor'[q] = cursor[q]
                                /\ copy'[q] = copy[q] /\ (q \in late' <=> q \in late),
         writer_slot' = writer_slot \/ writer_slot = Free \/ writer_slot' = Electing,
         writer_slot' # Electing => writer_slot # Electing,
         l = "reset_gen" => writer_slot # Electing,
         QuietCursor(p)' => QuietCursor(p) \/ writer_slot # Electing,
         pc[p] \in {"commit", "count"} => l = "dead",
         QuietCursor(p)' =>
           \/ Wanted(p)' <= write_seq
           \/ QuietCursor(p) /\ Wanted(p)' = Wanted(p)
           \/ Stuck
           \/ Published /\ Wanted(p)' = write_seq + 1,
         QuietCursor(p)' /\ l = "judge" => local'[p].held = writer_slot /\ writer_slot' = writer_slot,
         Late(p)'
  PROVE  Copying'
<1>0. Free \notin Procs /\ Free # Electing /\ Electing \notin Procs
  BY RingAssumption DEF RingAssumption
<1>1. pc'[p] = l /\ \A q \in Procs \ {p} : pc'[q] = pc[q]
  BY DEF Ownership, TypeOK
<1>2. \A q \in Procs \ {p} : QuietCursor(q)' = QuietCursor(q)
  BY DEF QuietCursor
<1>3. Settled' => Settled
  BY <1>1, <1>2 DEF Settled
<1>4. l \notin CopyLabels /\ l \notin {"copied", "copy_lo", "copy_hi", "number", "commit", "count",
                                         "reset_slot", "reset_owner"}
  BY DEF Silent, CopyLabels
<1>5. Fills(p)' /\ SlotRight(p)' /\ CopyRight(p)' /\ NotCleared(p)' /\ Spoilt(p)'
  BY <1>1, <1>4 DEF Fills, SlotRight, CopyRight, NotCleared, Spoilt
<1>6. (Stuck => Stuck') /\ (Published => Published')
  BY <1>0, <1>1 DEF Stuck, Published
<1>7. ASSUME QuietCursor(p)' PROVE Ahead(p)'
  <2>1. Knows(p)
    BY DEF Copying
  <2>2. QuietCursor(p) => Ahead(p)
    BY <2>1 DEF Knows, Reached
  <2> QED
    BY <1>1, <1>4, <1>6, <1>7, <2>2 DEF Ahead
<1>8. Reached(p)'
  BY <1>1, <1>4, <1>7 DEF Reached, CopyLabels
<1> QED
  BY <1>1, <1>3, <1>4, <1>5, <1>8, CopyCalm DEF Knows

\* The steps that neither change a slot nor look into one.
LEMMA CopySilentActions ==
  ASSUME Ownership, Integrity, Copying, NEW p \in Procs, TypeOK',
         \/ Send(p) \/ ResetIfWriterDead(p) \/ ClaimOwn(p) \/ ClaimFree(p) \/ ClaimBirth(p)
         \/ ClaimRefused(p) \/ ClaimHeld(p) \/ ProbeStale(p) \/ ProbeDead(p) \/ Elect(p)
         \/ ElectFails(p) \/ LoadSeq(p) \/ RefreshHeartbeat(p)
         \/ Receive(p) \/ AttachGeneration(p) \/ AttachSeq(p) \/ SeesReset(p)
         \/ CheckGeneration(p) \/ SeesLoss(p) \/ Received(p) \/ LoadHeld(p) \/ SkipTorn(p)
         \/ SeesDrained(p) \/ WaitsOn(p) \/ TimesOut(p) \/ Close(p) \/ CloseFrees(p) \/ Crash(p)
  PROVE  Copying'
<1> USE DEF Moves, Goes, Returns, Ends, Retries, Begins, header, history
<1>a. /\ pc \in [Procs -> Labels] /\ local \in [Procs -> Locals]
      /\ cursor \in [Procs -> Cursors]
      /\ copy \in [Procs -> Copies] /\ cursor[p] \in Cursors
      /\ writer_slot \in Procs \cup {Free, Electing}
      /\ write_seq \in Nat /\ Wanted(p) \in Nat /\ SlotCount \in Nat
  BY Ranges, RingAssumption DEF Ownership, TypeOK, RingAssumption
<1>b. Owns(p) /\ Probes(p) /\ Reads(p) /\ Reached(p) /\ Late(p)
  BY DEF Ownership, Integrity, Copying, Knows
<1>c. Free \notin Procs /\ Electing \notin Procs /\ Free # Electing
  BY RingAssumption DEF RingAssumption
<1>e. pc[p] \in ReadingLabels => cursor[p].attached
  BY <1>b DEF Reads
<1>f. {"idle", "claim", "claim_birth", "probe", "probe_alive", "elect", "reset_gen", "attach",
       "check_gen", "closing", "dead", "load_seq", "mark"} \cap MidRead = {}
  BY DEF MidRead, CopyLabels
<1>g. {"attach_seq", "load_state", "copied", "load_held", "judge", "check_seq"} \subseteq MidRead
  BY DEF MidRead, CopyLabels
<1> DEFINE Safe ==
      /\ UNCHANGED <<generation, write_seq, slots, touched>>
      /\ pc[p] # "dead"
      /\ \E l \in Silent : /\ pc' = [pc EXCEPT ![p] = l]
                           /\ l = "reset_gen" => writer_slot # Electing
                           /\ pc[p] \in {"commit", "count"} => l = "dead"
                           /\ l = "judge" => local'[p].held = writer_slot /\ writer_slot' = writer_slot
      /\ writer_slot' = writer_slot \/ writer_slot = Free \/ writer_slot' = Electing
      /\ writer_slot' # Electing => writer_slot # Electing
      /\ QuietCursor(p)' => QuietCursor(p) \/ writer_slot # Electing
      /\ \A q \in Procs \ {p} : /\ local'[q] = local[q] /\ cursor'[q] = cursor[q]
                                 /\ copy'[q] = copy[q] /\ (q \in late' <=> q \in late)
      /\ QuietCursor(p)' =>
           \/ Wanted(p)' <= write_seq
           \/ QuietCursor(p) /\ Wanted(p)' = Wanted(p)
           \/ Stuck
           \/ Published /\ Wanted(p)' = write_seq + 1
      /\ Late(p)'
<1>h. SUFFICES Safe
  BY CopySilentStep
<1>1. CASE Send(p)
  BY <1>1, <1>a, <1>b, <1>c, <1>e, <1>f, <1>g DEF Send, Silent, QuietCursor, Cursors, Wanted,
    Late, ReadingLabels
<1>2. CASE ResetIfWriterDead(p)
  BY <1>2, <1>a, <1>b, <1>c, <1>e, <1>f, <1>g DEF ResetIfWriterDead, Silent, QuietCursor, Cursors, Wanted,
    Late, ReadingLabels
<1>3. CASE ClaimOwn(p)
  BY <1>3, <1>a, <1>b, <1>c, <1>e, <1>f, <1>g DEF ClaimOwn, Silent, QuietCursor, Cursors, Wanted,
    Late, ReadingLabels, Owns
<1>4. CASE ClaimFree(p)
  BY <1>4, <1>a, <1>b, <1>c, <1>e, <1>f, <1>g DEF ClaimFree, Silent, QuietCursor, Cursors, Wanted,
    Late, ReadingLabels
<1>5. CASE ClaimBirth(p)
  BY <1>5, <1>a, <1>b, <1>c, <1>e, <1>f, <1>g DEF ClaimBirth, Silent, QuietCursor, Cursors, Wanted,
    Late, ReadingLabels
<1>6. CASE ClaimRefused(p)
  BY <1>6, <1>a, <1>b, <1>c, <1>e, <1>f, <1>g DEF ClaimRefused, Silent, QuietCursor, Cursors, Wanted,
    Late, ReadingLabels, Refusal
<1>7. CASE ClaimHeld(p)
  BY <1>7, <1>a, <1>b, <1>c, <1>e, <1>f, <1>g DEF ClaimHeld, Silent, QuietCursor, Cursors, Wanted,
    Late, ReadingLabels
<1>8. CASE ProbeStale(p)
  BY <1>8, <1>a, <1>b, <1>c, <1>e, <1>f, <1>g DEF ProbeStale, Silent, QuietCursor, Cursors, Wanted,
    Late, ReadingLabels
<1>9. CASE ProbeDead(p)
  BY <1>9, <1>a, <1>b, <1>c, <1>e, <1>f, <1>g DEF ProbeDead, Silent, QuietCursor, Cursors, Wanted,
    Late, ReadingLabels
<1>10. CASE Elect(p)
  BY <1>10, <1>a, <1>b, <1>c, <1>e, <1>f, <1>g DEF Elect, Silent, QuietCursor, Cursors, Wanted,
    Late, ReadingLabels, Probes
<1>11. CASE ElectFails(p)
  BY <1>11, <1>a, <1>b, <1>c, <1>e, <1>f, <1>g DEF ElectFails, Silent, QuietCursor, Cursors, Wanted,
    Late, ReadingLabels
<1>12. CASE LoadSeq(p)
  BY <1>12, <1>a, <1>b, <1>c, <1>e, <1>f, <1>g DEF LoadSeq, Silent, QuietCursor, Cursors, Wanted,
    Late, ReadingLabels
<1>13. CASE RefreshHeartbeat(p)
  BY <1>13, <1>a, <1>b, <1>c, <1>e, <1>f, <1>g DEF RefreshHeartbeat, Silent, QuietCursor, Cursors, Wanted,
    Late, ReadingLabels
<1>14. CASE Receive(p)
  BY <1>14, <1>a, <1>b, <1>c, <1>e, <1>f, <1>g DEF Receive, Silent, QuietCursor, Cursors, Wanted,
    Late, ReadingLabels
<1>15. CASE AttachGeneration(p)
  BY <1>15, <1>a, <1>b, <1>c, <1>e, <1>f, <1>g DEF AttachGeneration, Silent, QuietCursor, Cursors, Wanted,
    Late, ReadingLabels, NoCursor
<1>16. CASE AttachSeq(p)
  BY <1>16, <1>a, <1>b, <1>c, <1>e, <1>f, <1>g DEF AttachSeq, Silent, QuietCursor, Cursors, Wanted,
    Late, ReadingLabels
<1>17. CASE SeesReset(p)
  BY <1>17, <1>a, <1>b, <1>c, <1>e, <1>f, <1>g DEF SeesReset, Silent, QuietCursor, Cursors, Wanted,
    Late, ReadingLabels
<1>18. CASE CheckGeneration(p)
  BY <1>18, <1>a, <1>b, <1>c, <1>e, <1>f, <1>g DEF CheckGeneration, Silent, QuietCursor, Cursors, Wanted,
    Late, ReadingLabels
<1>19. CASE SeesLoss(p)
  BY <1>19, <1>a, <1>b, <1>c, <1>e, <1>f, <1>g DEF SeesLoss, Silent, QuietCursor, Cursors, Wanted,
    Late, ReadingLabels
<1>20. CASE Received(p)
  BY <1>20, <1>a, <1>b, <1>c, <1>e, <1>f, <1>g DEF Received, Silent, QuietCursor, Cursors, Wanted,
    Late, ReadingLabels, Reached
<1>21. CASE LoadHeld(p)
  BY <1>21, <1>a, <1>b, <1>c, <1>e, <1>f, <1>g DEF LoadHeld, Silent, QuietCursor, Cursors, Wanted,
    Late, ReadingLabels
<1>22. CASE SkipTorn(p)
  <2>1. /\ pc[p] = "judge" /\ pc' = [pc EXCEPT ![p] = "check_gen"] /\ "check_gen" \in Silent
        /\ UNCHANGED <<generation, write_seq, slots, touched, late, writer_slot>>
        /\ \A q \in Procs \ {p} : local'[q] = local[q] /\ cursor'[q] = cursor[q] /\ copy'[q] = copy[q]
        /\ cursor'[p].gen = cursor[p].gen /\ cursor'[p].attached = cursor[p].attached
        /\ cursor'[p].quiet = cursor[p].quiet
        /\ local[p].held \in Procs /\ ~IdentityAlive(local[p].held, writer_birth)
    BY <1>22, <1>a DEF SkipTorn, WriterDead, Silent, Cursors
  <2>2. QuietCursor(p)' = QuietCursor(p)
    BY <2>1 DEF QuietCursor
  <2>3. Late(p)'
    BY <1>b, <1>f, <1>g, <1>a, <2>1 DEF Late
  <2>4. ASSUME QuietCursor(p) PROVE Stuck
    <3>1. writer_slot \in {local[p].held, Electing}
      BY <1>b, <2>1, <2>4 DEF Reached
    <3>2. Owns(local[p].held)
      BY <2>1 DEF Ownership
    <3> QED
      BY <2>1, <3>1, <3>2 DEF Stuck, Owns, IdentityAlive
  <2> QED
    BY <2>1, <2>2, <2>3, <2>4
<1>23. CASE SeesDrained(p)
  BY <1>23, <1>a, <1>b, <1>c, <1>e, <1>f, <1>g DEF SeesDrained, Silent, QuietCursor, Cursors, Wanted,
    Late, ReadingLabels
<1>24. CASE WaitsOn(p)
  BY <1>24, <1>a, <1>b, <1>c, <1>e, <1>f, <1>g DEF WaitsOn, Silent, QuietCursor, Cursors, Wanted,
    Late, ReadingLabels
<1>25. CASE TimesOut(p)
  BY <1>25, <1>a, <1>b, <1>c, <1>e, <1>f, <1>g DEF TimesOut, Silent, QuietCursor, Cursors, Wanted,
    Late, ReadingLabels
<1>26. CASE Close(p)
  BY <1>26, <1>a, <1>b, <1>c, <1>e, <1>f, <1>g DEF Close, Silent, QuietCursor, Cursors, Wanted,
    Late, ReadingLabels
<1>27. CASE CloseFrees(p)
  BY <1>27, <1>a, <1>b, <1>c, <1>e, <1>f, <1>g DEF CloseFrees, Silent, QuietCursor, Cursors, Wanted,
    Late, ReadingLabels, NoCursor, Owns
<1>28. CASE Crash(p)
  BY <1>28, <1>a, <1>b, <1>c, <1>e, <1>f, <1>g DEF Crash, Silent, QuietCursor, Cursors, Wanted,
    Late, ReadingLabels, NoCursor
<1> QED
  BY <1>1, <1>2, <1>3, <1>4, <1>5, <1>6, <1>7, <1>8, <1>9, <1>10, <1>11, <1>12, <1>13, <1>14, <1>15, <1>16, <1>17, <1>18, <1>19, <1>20, <1>21, <1>22, <1>23, <1>24, <1>25, <1>26, <1>27, <1>28

\* The steps of a reader that look at the slot of its message.
LEMMA CopyLookActions ==
  ASSUME Ownership, Integrity, Copying, NEW p \in Procs,
         LoadState(p) \/ CheckSeq(p) \/ ReadLow(p) \/ ReadHigh(p)
  PROVE  Copying'
<1> DEFINE n == Wanted(p)
           i == SlotOf(n)
<1>a. /\ pc \in [Procs -> Labels] /\ local \in [Procs -> Locals] /\ copy \in [Procs -> Copies]
      /\ copy[p] \in Copies /\ touched \subseteq Procs /\ slots[i].seq \in Nat
      /\ generation \in Nat /\ write_seq \in Nat /\ n \in Nat /\ i \in Slots
  <2>1. TypeOK
    BY DEF Ownership
  <2>2. n \in Nat /\ write_seq \in Nat
    BY <2>1, Ranges
  <2>3. i \in Slots
    BY <2>2, SlotInRange DEF Slots
  <2>4. slots[i] \in SlotRecords
    BY <2>1, <2>3 DEF TypeOK, Slots
  <2> QED
    BY <2>1, <2>2, <2>3, <2>4, RingAssumption DEF TypeOK, RingAssumption, SlotRecords
<1>b. Reads(p) /\ Knows(p) /\ \A q \in Procs : Clears(q) /\ Fills(q) /\ Owns(q)
  BY DEF Integrity, Copying, Knows, Ownership
<1>1. /\ UNCHANGED <<generation, write_seq, writer_slot, slots, cursor, late>>
      /\ \A q \in Procs \ {p} : /\ pc'[q] = pc[q] /\ local'[q] = local[q] /\ copy'[q] = copy[q]
                                /\ (q \in touched' <=> q \in touched)
      /\ pc[p] \in {"load_state", "check_seq", "read_lo", "read_hi"}
      /\ pc'[p] \in {"check_seq", "load_held", "read_lo", "read_hi", "copied"}
      /\ p \in touched' => p \in touched
  BY <1>a DEF LoadState, CheckSeq, ReadLow, ReadHigh, Moves, Goes, header, history
<1>2. \A q \in Procs : QuietCursor(q)' = QuietCursor(q)
  BY <1>1 DEF QuietCursor
<1>3. Settled' <=> Settled
  BY <1>1, <1>2 DEF Settled
<1>4. Wanted(p)' = n /\ Passed(p)' = Passed(p) /\ Slot(p) = slots[i]
  BY <1>1 DEF Wanted, Passed, Slot
<1>5. Stuck' = Stuck /\ Published' = Published
  <2>1. \A q \in Procs : pc[q] \in {"dead", "commit", "count"} \/ pc'[q] \in {"dead", "commit", "count"}
                           => pc'[q] = pc[q]
    BY <1>1
  <2> QED
    BY <1>1, <2>1 DEF Stuck, Published
<1>6. Fills(p)' /\ Late(p)'
  BY <1>b, <1>1 DEF Fills, Knows, Late, MidRead, CopyLabels
\* What the slot holds, when its state is loaded.
<1>7. CASE LoadState(p)
  <2>1. /\ pc[p] = "load_state" /\ pc'[p] \in {"check_seq", "load_held"} /\ p \notin touched'
        /\ pc'[p] = "check_seq" => slots[i].state = "Committed"
    BY <1>7, <1>a DEF LoadState, Moves, Slot
  <2>2. ASSUME pc'[p] = "check_seq"
        PROVE  \E g \in 1..generation :
                 /\ Carries(i, slots[i].seq, g) /\ (Settled => g = generation)
                 /\ cursor[p].quiet => cursor[p].gen <= g
    <3>1. PICK g \in 1..generation :
            Carries(i, slots[i].seq, g) /\ generation <= g + 1 /\ (Settled => g = generation)
      BY <1>a, <2>1, <2>2 DEF Copying, CommittedIsWhole
    <3>2. cursor[p].attached /\ cursor[p].gen <= generation /\ cursor[p].gen \in Nat
      <4>1. cursor[p] \in Cursors
        BY DEF Ownership, TypeOK
      <4> QED
        BY <1>b, <2>1, <4>1, RingAssumption DEF Reads, ReadingLabels, Cursors, RingAssumption
    <3>3. cursor[p].quiet /\ cursor[p].gen = generation => Settled
      BY <3>2 DEF Settled, QuietCursor
    <3> QED
      BY <1>a, <3>1, <3>2, <3>3
  <2>3. SlotRight(p)'
    BY <1>1, <1>3, <1>4, <2>1, <2>2 DEF SlotRight, RightIn, Carries, CopyLabels
  <2>4. CopyRight(p)' /\ Spoilt(p)'
    BY <2>1 DEF CopyRight, Spoilt
  <2>5. NotCleared(p)'
    <3> SUFFICES ASSUME pc'[p] = "check_seq", NEW q \in Procs,
                        pc'[q] \in {"reset_slot", "reset_owner"}
                 PROVE  local'[q].seq <= i
      BY <1>4, <2>1 DEF NotCleared, CopyLabels
    <3>1. pc[q] = pc'[q] /\ local'[q] = local[q] /\ q # p
      BY <1>1, <2>1
    <3>2. ~(i < local[q].seq)
      BY <1>a, <1>b, <2>1, <3>1 DEF Clears
    <3>3. local[q].seq \in Nat
      BY Ranges DEF Ownership
    <3> QED
      BY <1>a, <3>1, <3>2, <3>3 DEF Slots
  <2>6. Reached(p)'
    <3> SUFFICES ASSUME QuietCursor(p) PROVE Reached(p)'
      BY <1>2 DEF Reached
    <3>1. Ahead(p)
      BY <1>b DEF Knows, Reached
    <3>2. pc'[p] = "check_seq" => slots[i].seq < write_seq \/ Published
      <4> SUFFICES ASSUME pc'[p] = "check_seq", ~(slots[i].seq < write_seq) PROVE Published
        OBVIOUS
      <4>1. Settled
        BY DEF Settled
      <4>2. SlotKept(i)
        BY <1>a, <4>1 DEF Integrity, Kept, Slots
      <4>3. slots[i].seq = write_seq
        BY <1>a, <2>1, <4>2 DEF SlotKept, Used
      <4>4. SlotOf(write_seq) = i
        BY <2>1, <4>2, <4>3 DEF SlotKept, Used
      <4>5. Carries(i, write_seq, generation)
        BY <2>2, <4>1, <4>3
      <4>6. slots[i].len = Sent(write_seq)
        BY <4>5 DEF Carries, Sent
      <4>7. ~Unpublished
        BY <1>a, <4>2, <4>6 DEF SlotKept
      <4>8. writer_slot \in Procs \cup {Free, Electing}
        BY DEF Ownership, TypeOK
      <4>9. writer_slot \in Procs => pc[writer_slot] # "number"
        BY <1>b, <2>1, <4>4 DEF Fills
      <4> QED
        BY <4>7, <4>8, <4>9 DEF Unpublished, Published, Stuck
    <3>3. Ahead(p)'
      <4> SUFFICES ASSUME ~(n <= write_seq), ~Stuck PROVE Ahead(p)'
        BY <1>1, <1>4, <1>5 DEF Ahead
      <4>1. Published /\ n = write_seq + 1
        BY <3>1 DEF Ahead
      <4>2. writer_slot \in Procs /\ writer_slot # p
        BY <2>1, <4>1 DEF Published
      <4>3. pc[writer_slot] = "commit" /\ pc'[p] = "check_seq" => i # SlotOf(write_seq)
        BY <1>b, <2>1, <4>2 DEF Fills
      <4> QED
        BY <1>1, <1>4, <1>5, <2>1, <4>1, <4>2, <4>3 DEF Ahead, CopyLabels
    <3> QED
      BY <1>1, <1>4, <1>5, <2>1, <3>2, <3>3 DEF Reached
  <2>7. pc[p] \notin {"commit", "count"} /\ pc[p] # "dead"
    BY <2>1
  <2> QED
    BY <1>1, <1>3, <1>6, <2>1, <2>3, <2>4, <2>5, <2>6, <2>7, CopyCalm DEF Knows
\* The later looks keep to the slot that was found right.
<1>8. CASE CheckSeq(p) \/ ReadLow(p) \/ ReadHigh(p)
  <2>1. /\ local' = local /\ touched' = touched /\ pc[p] \in CopyLabels
        /\ pc'[p] \in {"read_lo", "read_hi", "copied"}
        /\ pc[p] = "check_seq" => slots[i].seq = n /\ pc'[p] = "read_lo"
        /\ pc[p] = "read_lo" =>
             /\ pc'[p] = IF slots[i].len = None THEN "copied" ELSE "read_hi"
             /\ slots[i].len # None => copy'[p].lo = slots[i].lo
        /\ pc[p] = "read_hi" =>
             pc'[p] = "copied" /\ copy'[p].lo = copy[p].lo /\ copy'[p].hi = slots[i].hi
    BY <1>8, <1>a DEF CheckSeq, ReadLow, ReadHigh, Goes, Moves, Slot, Copies, header, history,
      CopyLabels
  <2>2. ASSUME p \notin touched
        PROVE  \E g \in 1..generation :
                 /\ Carries(i, n, g) /\ (Settled => g = generation)
                 /\ cursor[p].quiet => cursor[p].gen <= g
                 /\ pc[p] = "read_hi" => copy[p].lo = [gen |-> g, seq |-> n]
    BY <1>b, <2>1, <2>2 DEF Knows, SlotRight, RightIn
  <2>3. ASSUME p \notin touched PROVE slots[i].len # None
    <3>1. PICK g \in 1..generation : Carries(i, n, g)
      BY <2>2, <2>3
    <3>2. [gen |-> g, seq |-> n] \in [gen : Nat, seq : Nat]
      BY <1>a
    <3> QED
      BY <3>1, <3>2, RingAssumption DEF Carries, RingAssumption
  <2>4. SlotRight(p)'
    BY <1>1, <1>3, <1>4, <2>1, <2>2, <2>3 DEF SlotRight, RightIn, Carries, CopyLabels
  <2>5. CopyRight(p)'
    BY <1>1, <1>4, <2>1, <2>2, <2>3 DEF CopyRight, Carries, CopyLabels
  <2>6. NotCleared(p)'
    <3>1. \A q \in Procs : pc'[q] \in {"reset_slot", "reset_owner"} => pc[q] = pc'[q]
      BY <1>1
    <3> QED
      BY <1>b, <1>4, <2>1, <3>1 DEF Knows, NotCleared
  <2>7. Spoilt(p)'
    BY <1>b, <1>2, <1>4, <2>1 DEF Knows, Spoilt
  <2>8. Reached(p)'
    <3> SUFFICES ASSUME QuietCursor(p) PROVE Reached(p)'
      BY <1>2 DEF Reached
    <3>1. Reached(p)
      BY <1>b DEF Knows
    <3>2. Ahead(p)'
      <4>1. Ahead(p)
        BY <3>1 DEF Reached
      <4>2. Published /\ ~Stuck => writer_slot \in Procs \ {p}
        BY <2>1 DEF Published, CopyLabels
      <4> QED
        BY <1>1, <1>4, <1>5, <2>1, <4>1, <4>2 DEF Ahead
    <3>3. n < write_seq \/ (n = write_seq /\ Published)
      <4>1. CASE pc[p] = "check_seq"
        <5>1. slots[i].seq = n /\ Used(i)
          BY <1>b, <2>1, <4>1 DEF Reads
        <5> QED
          BY <1>a, <3>1, <4>1, <5>1 DEF Reached, Used
      <4>2. CASE pc[p] # "check_seq"
        BY <2>1, <3>1, <4>2 DEF Reached, CopyLabels
      <4> QED
        BY <4>1, <4>2
    <3> QED
      BY <1>1, <1>4, <1>5, <2>1, <3>2, <3>3 DEF Reached
  <2>9. pc[p] \notin {"commit", "count"} /\ pc[p] # "dead"
    BY <2>1 DEF CopyLabels
  <2> QED
    BY <1>1, <1>3, <1>6, <2>1, <2>4, <2>5, <2>6, <2>7, <2>8, <2>9, CopyCalm DEF Knows
<1> QED
  BY <1>7, <1>8

\* A store of the writer spoils the read of a reader that it has overtaken, and no other.
LEMMA CopyStores ==
  ASSUME Ownership, Integrity, Copying, NEW p \in Procs,
         Mark(p) \/ CopyLow(p) \/ CopyHigh(p) \/ Number(p) \/ Commit(p)
  PROVE  Copying'
<1> USE DEF Stores, Goes, Moves, header
<1>1. PICK w \in Nat : w = write_seq
  BY Ranges DEF Ownership
<1>2. PICK g \in Nat : g = generation /\ g \in 1..generation
  BY RingAssumption DEF Ownership, TypeOK, RingAssumption
<1> DEFINE i == SlotOf(w)
           m == [gen |-> g, seq |-> w]
<1>3. /\ pc[p] \in Counting /\ Writing(p) /\ Writing(p)'
      /\ UNCHANGED <<generation, write_seq, writer_slot, local, cursor, copy, late>>
      /\ \A q \in Procs \ {p} : pc'[q] = pc[q]
      /\ touched' = touched \cup (ReadingAt(SlotOf(local[p].seq)) \cap WaitingElsewhere(p))
  BY DEF Mark, CopyLow, CopyHigh, Number, Commit, Writing, Counting, WritingLabels,
    Ownership, TypeOK
<1>4. /\ local[p].seq = w /\ Message(p) = m /\ Target(p) = slots[i] /\ writer_slot = p
      /\ Settled /\ \A q \in Procs \ {p} : ~Writing(q)
      /\ \A q \in Procs : ~Resetting(q)
      /\ Publishes(p) /\ Sent(w) = m
  BY <1>1, <1>2, <1>3, WriterAlone DEF Ownership, Counts, Message, Target, Integrity, Sent
<1>5. /\ i \in Slots /\ slots \in [Slots -> SlotRecords] /\ slots[i] \in SlotRecords
      /\ SlotCount \in Nat \ {0} /\ \A j \in Slots : slots[j].seq \in Nat
  <2>1. i \in Slots /\ slots \in [Slots -> SlotRecords]
    BY SlotInRange DEF Slots, Ownership, TypeOK
  <2> QED
    BY <2>1, RingAssumption DEF SlotRecords, RingAssumption
<1>6. SlotKept(i)
  BY <1>4, <1>5 DEF Integrity, Kept, Slots
<1>7. \A j \in Slots \ {i} : slots'[j] = slots[j]
  BY <1>4, <1>5 DEF Mark, CopyLow, CopyHigh, Number, Commit
<1>8. Fills(p) /\ \A q \in Procs : Knows(q) /\ Reads(q)
  BY DEF Copying, Knows, Integrity
<1>a. pc[p] # "mark" => slots[i].state = "Writing"
  BY <1>1, <1>3, <1>8 DEF Fills, Mark, CopyLow, CopyHigh, Number, Commit
\* What a step does to the slot, and where it leads.
<1>9. /\ slots'[i].state = "Writing" \/ (pc[p] = "commit" /\ slots'[i].state = "Committed")
      /\ pc[p] = "commit" => pc'[p] = "count"
      /\ pc[p] # "commit" => pc'[p] \in {"copy_lo", "copy_hi", "number", "commit"} /\ slots'[i].state = "Writing"
      /\ slots'[i].seq = slots[i].seq \/ (pc[p] = "number" /\ pc'[p] = "commit" /\ slots'[i].seq = w)
      /\ pc[p] \in {"number", "commit"} =>
           slots'[i].lo = slots[i].lo /\ slots'[i].hi = slots[i].hi /\ slots'[i].len = slots[i].len
      /\ pc[p] \in {"mark", "copy_lo", "copy_hi", "number", "commit"}
  <2>1. CASE Mark(p)
    BY <1>3, <1>4, <1>5, <2>1 DEF Mark, SlotRecords, Ownership, TypeOK
  <2>2. CASE CopyLow(p)
    BY <1>3, <1>4, <1>5, <1>a, <2>2 DEF CopyLow, SlotRecords, Ownership, TypeOK
  <2>3. CASE CopyHigh(p)
    BY <1>3, <1>4, <1>5, <1>a, <2>3 DEF CopyHigh, SlotRecords, Ownership, TypeOK
  <2>4. CASE Number(p)
    BY <1>3, <1>4, <1>5, <1>a, <2>4 DEF Number, SlotRecords, Ownership, TypeOK
  <2>5. CASE Commit(p)
    BY <1>3, <1>4, <1>5, <1>a, <2>5 DEF Commit, SlotRecords, Ownership, TypeOK
  <2> QED
    BY <2>1, <2>2, <2>3, <2>4, <2>5
<1>b. pc[p] \in {"number", "commit"} => Carries(i, w, g) /\ Carries(i, w, g)'
  BY <1>1, <1>2, <1>3, <1>4, <1>9 DEF Publishes, Holds, Sent, Carries
<1>c. pc[p] = "commit" => slots[i].seq = w
  BY <1>1, <1>4 DEF Publishes
<1>d. pc[p] \notin {"number", "commit"} => Unpublished
  BY <1>4, <1>9 DEF Unpublished
<1>e. ~Stuck /\ (Published => pc[p] = "commit") /\ (pc'[p] \in {"commit", "count"} => Published')
  BY <1>3, <1>4, <1>9, RingAssumption DEF Stuck, Published, RingAssumption
<1>10. ASSUME NEW j \in Slots PROVE CommittedIsWhole(j)'
  <2>1. CASE j # i
    BY <1>3, <1>4, <1>7, <2>1 DEF Copying, CommittedIsWhole, Carries
  <2>2. CASE j = i
    <3> SUFFICES ASSUME slots'[i].state = "Committed" PROVE CommittedIsWhole(i)'
      BY <2>2 DEF CommittedIsWhole
    <3>1. pc[p] = "commit" /\ slots'[i].seq = w
      BY <1>9, <1>c
    <3> QED
      BY <1>2, <1>3, <1>b, <3>1 DEF CommittedIsWhole
  <2> QED
    BY <2>1, <2>2
<1>11. ASSUME NEW q \in Procs PROVE Fills(q)'
  <2>1. CASE q = p
    BY <1>1, <1>3, <1>9, <2>1 DEF Fills
  <2>2. CASE q # p
    BY <1>3, <1>4, <2>2 DEF Fills, Writing, WritingLabels
  <2> QED
    BY <2>1, <2>2
\* The writer itself reads nothing.
<1>12. pc'[p] \notin CopyLabels \cup MidRead /\ pc'[p] # "copied" /\ pc'[p] # "judge"
  BY <1>3 DEF Writing, WritingLabels, CopyLabels, MidRead
<1>13. ASSUME NEW q \in Procs \ {p}
       PROVE  /\ Wanted(q)' = Wanted(q) /\ QuietCursor(q)' = QuietCursor(q) /\ Passed(q)' = Passed(q)
              /\ pc'[q] = pc[q] /\ (q \in touched => q \in touched')
              /\ Wanted(q) \in Nat /\ SlotOf(Wanted(q)) \in Slots
  <2>1. Wanted(q) \in Nat
    BY Ranges DEF Ownership
  <2>2. SlotOf(Wanted(q)) \in Slots
    BY <2>1, SlotInRange DEF Slots
  <2> QED
    BY <1>3, <2>1, <2>2 DEF Wanted, QuietCursor, Passed
<1>14. ASSUME NEW q \in Procs PROVE SlotRight(q)'
  <2>1. SUFFICES ASSUME q # p, q \notin touched', pc[q] \in CopyLabels,
                        pc[q] = "check_seq" => slots'[SlotOf(Wanted(q))].seq = Wanted(q)
                 PROVE  \E h \in 1..generation : RightIn(q, h)'
    BY <1>3, <1>12, <1>13 DEF SlotRight
  <2>2. q \notin touched
    BY <1>13, <2>1
  <2>3. CASE SlotOf(Wanted(q)) # i
    <3>1. slots'[SlotOf(Wanted(q))] = slots[SlotOf(Wanted(q))]
      BY <1>7, <1>13, <2>1, <2>3
    <3>2. PICK h \in 1..generation : RightIn(q, h)
      BY <1>8, <2>1, <2>2, <3>1 DEF Knows, SlotRight
    <3>3. RightIn(q, h)'
      BY <1>3, <1>4, <1>13, <2>1, <3>1, <3>2 DEF RightIn, Carries
    <3> QED
      BY <3>3
  <2>4. CASE SlotOf(Wanted(q)) = i
    <3>1. cursor[q].gen = g /\ Wanted(q) = w
      BY <1>2, <1>3, <1>4, <2>1, <2>4 DEF ReadingAt, WaitingElsewhere, CopyLabels
    <3>2. CASE pc[q] = "check_seq" /\ slots[i].seq # w
      <4>1. Carries(i, w, g)'
        BY <1>9, <1>b, <2>1, <2>4, <3>1, <3>2
      <4>2. RightIn(q, g)'
        BY <1>2, <1>3, <1>13, <2>1, <2>4, <3>1, <3>2, <4>1 DEF RightIn
      <4> QED
        BY <1>2, <4>2
    <3>3. CASE ~(pc[q] = "check_seq" /\ slots[i].seq # w)
      <4>1. PICK h \in 1..generation : RightIn(q, h)
        BY <1>8, <2>1, <2>2, <2>4, <3>1, <3>3 DEF Knows, SlotRight
      <4>2. h = g /\ slots[i].len = Sent(w)
        BY <1>2, <1>4, <2>4, <3>1, <4>1 DEF RightIn, Carries, Sent
      <4>3. pc[p] \in {"number", "commit"}
        BY <1>1, <1>6, <1>d, <4>2 DEF SlotKept
      <4>4. Carries(i, w, g)'
        BY <1>b, <4>3
      <4>5. RightIn(q, g)'
        BY <1>2, <1>3, <1>13, <2>1, <2>4, <3>1, <4>1, <4>2, <4>4 DEF RightIn
      <4> QED
        BY <1>2, <4>5
    <3> QED
      BY <3>2, <3>3
  <2> QED
    BY <2>3, <2>4
<1>15. ASSUME NEW q \in Procs PROVE CopyRight(q)' /\ NotCleared(q)' /\ Late(q)'
  <2>1. \A r \in Procs : pc'[r] \notin {"reset_slot", "reset_owner"}
    <3>1. pc'[p] \notin {"reset_slot", "reset_owner"}
      BY <1>3 DEF Writing, WritingLabels
    <3> QED
      BY <1>3, <1>4, <3>1 DEF Resetting, ResetLabels
  <2>2. CASE q = p
    BY <1>3, <1>8, <1>12, <2>1, <2>2 DEF CopyRight, NotCleared, Late, Knows
  <2>3. CASE q # p
    BY <1>3, <1>8, <1>13, <2>1, <2>3 DEF CopyRight, NotCleared, Late, Knows
  <2> QED
    BY <2>2, <2>3
<1>16. ASSUME NEW q \in Procs PROVE Spoilt(q)'
  <2>1. SUFFICES ASSUME q # p, q \in touched', pc[q] \in CopyLabels \cup {"copied"}, QuietCursor(q)
                 PROVE  Passed(q)
    BY <1>3, <1>12, <1>13 DEF Spoilt
  <2>2. CASE q \in touched
    BY <1>8, <2>1, <2>2 DEF Knows, Spoilt
  <2>3. CASE q \notin touched
    <3>1. pc[q] \in CopyLabels /\ SlotOf(Wanted(q)) = i /\ Wanted(q) # w
      BY <1>3, <1>4, <2>1, <2>3 DEF ReadingAt, WaitingElsewhere, QuietCursor, CopyLabels
    <3>2. Ahead(q)
      BY <1>8, <2>1 DEF Knows, Reached
    <3>3. Wanted(q) <= w
      BY <1>1, <1>4, <1>e, <3>1, <3>2 DEF Ahead
    <3>4. Wanted(q) \in Nat /\ Wanted(q) < w
      BY <1>13, <2>1, <3>1, <3>3
    <3>5. SUFFICES ASSUME w < Wanted(q) + SlotCount PROVE FALSE
      BY <1>1, <1>5, <3>4 DEF Passed
    <3>6. Wanted(q) % SlotCount = w % SlotCount
      BY <3>1 DEF SlotOf
    <3>7. w = Wanted(q) + SlotCount
      BY <1>5, <3>4, <3>5, <3>6, OneRound
    <3> QED
      BY <1>5, <3>4, <3>5, <3>7
  <2> QED
    BY <2>2, <2>3
<1>17. ASSUME NEW q \in Procs PROVE Reached(q)'
  <2>1. QuietCursor(q)' = QuietCursor(q) /\ Wanted(q)' = Wanted(q) /\ Wanted(q) \in Nat
    BY <1>3, Ranges DEF QuietCursor, Wanted, Ownership
  <2>2. SUFFICES ASSUME QuietCursor(q) PROVE Reached(q)'
    BY <2>1 DEF Reached
  <2>3. Reached(q)
    BY <1>8 DEF Knows
  <2>4. Ahead(q)'
    BY <1>1, <1>3, <1>4, <1>9, <1>e, <2>1, <2>2, <2>3 DEF Reached, Ahead
  <2>5. CASE q = p
    BY <1>12, <2>4, <2>5 DEF Reached, CopyLabels
  <2>6. CASE q # p
    <3>1. /\ pc'[q] = pc[q] /\ SlotOf(Wanted(q)) \in Slots
          /\ Published => Published'
      BY <1>9, <1>13, <1>e, <2>6
    <3>2. pc[q] = "check_seq" => slots'[SlotOf(Wanted(q))].seq < write_seq \/ Published'
      <4>1. CASE SlotOf(Wanted(q)) # i
        BY <1>7, <2>2, <2>3, <3>1, <4>1 DEF Reached
      <4>2. CASE SlotOf(Wanted(q)) = i
        BY <1>9, <1>e, <2>2, <2>3, <3>1, <4>2 DEF Reached
      <4> QED
        BY <4>1, <4>2
    <3> QED
      BY <1>3, <2>1, <2>2, <2>3, <2>4, <3>1, <3>2 DEF Reached
  <2> QED
    BY <2>5, <2>6
<1> QED
  BY <1>10, <1>11, <1>14, <1>15, <1>16, <1>17 DEF Copying, Knows

\* The message is counted: nobody is ahead by it any more.
LEMMA CopyCount ==
  ASSUME Ownership, Integrity, Copying, NEW p \in Procs, Count(p)
  PROVE  Copying'
<1>1. PICK w \in Nat : w = write_seq
  BY Ranges DEF Ownership
<1>2. /\ pc[p] = "count" /\ write_seq' = w + 1 /\ pc'[p] = "idle"
      /\ UNCHANGED <<generation, writer_slot, slots, cursor, copy, touched, late>>
      /\ \A q \in Procs \ {p} : pc'[q] = pc[q] /\ local'[q] = local[q]
  BY <1>1 DEF Count, Returns, Moves, Ownership, TypeOK, history
<1>3. /\ Writing(p) /\ Settled /\ writer_slot = p
      /\ \A q \in Procs \ {p} : ~Writing(q)
      /\ \A q \in Procs : ~Resetting(q)
  <2>1. Writing(p)
    BY <1>2 DEF Writing, WritingLabels
  <2> QED
    BY <2>1, WriterAlone
<1>4. SlotCount \in Nat \ {0} /\ \A i \in Slots : slots[i].seq \in Nat
  BY RingAssumption DEF Ownership, TypeOK, SlotRecords, Slots, RingAssumption
<1>5. ~Stuck
  BY <1>2, <1>3, RingAssumption DEF Stuck, RingAssumption
<1>6. ASSUME NEW i \in Slots PROVE CommittedIsWhole(i)'
  BY <1>2, <1>3 DEF Copying, CommittedIsWhole, Carries
<1>7. ASSUME NEW q \in Procs PROVE Knows(q)'
  <2>1. /\ Knows(q) /\ Reads(q) /\ Wanted(q)' = Wanted(q) /\ QuietCursor(q)' = QuietCursor(q)
        /\ pc'[q] \in {pc[q], "idle"} /\ Wanted(q) \in Nat
    BY <1>2, Ranges DEF Copying, Integrity, Wanted, QuietCursor, Ownership
  <2>2. SlotOf(Wanted(q)) \in Slots
    BY <2>1, SlotInRange DEF Slots
  <2>3. Fills(q)'
    BY <1>2, <1>3 DEF Fills, Writing, WritingLabels
  <2>4. SlotRight(q)'
    BY <1>2, <1>3, <2>1 DEF Knows, SlotRight, RightIn, Carries, CopyLabels
  <2>5. CopyRight(q)'
    BY <1>2, <2>1 DEF Knows, CopyRight
  <2>6. NotCleared(q)'
    BY <1>2, <1>3, <2>1 DEF NotCleared, Resetting, ResetLabels
  <2>7. Spoilt(q)'
    BY <1>1, <1>2, <1>4, <2>1 DEF Knows, Spoilt, Passed, CopyLabels
  <2>8. Late(q)'
    BY <1>2, <2>1 DEF Knows, Late, MidRead, CopyLabels
  <2>9. Reached(q)'
    <3> SUFFICES ASSUME QuietCursor(q) PROVE Reached(q)'
      BY <2>1 DEF Reached
    <3>1. Reached(q)
      BY <2>1 DEF Knows
    <3>2. Wanted(q) <= w + 1
      BY <1>1, <1>5, <2>1, <3>1 DEF Reached, Ahead
    <3>3. pc[q] = "check_seq" => slots[SlotOf(Wanted(q))].seq < w + 1
      BY <1>1, <1>4, <2>1, <2>2 DEF Reads, Used
    <3>4. pc[q] \in {"read_lo", "read_hi", "copied"} => Wanted(q) < w + 1
      BY <1>1, <2>1, <3>1 DEF Reached
    <3>5. pc'[q] = "judge" => q # p
      BY <1>2
    <3> QED
      BY <1>2, <2>1, <3>1, <3>2, <3>3, <3>4, <3>5 DEF Reached, Ahead
  <2> QED
    BY <2>3, <2>4, <2>5, <2>6, <2>7, <2>8, <2>9 DEF Knows
<1> QED
  BY <1>6, <1>7 DEF Copying

\* reset_ring: readers of the old generation are spoilt, and none is left when it is over.
LEMMA CopyResets ==
  ASSUME Ownership, Integrity, Copying, NEW p \in Procs,
         ResetGeneration(p) \/ ResetSlot(p) \/ ResetCount(p) \/ ResetOwner(p)
  PROVE  Copying'
<1> USE DEF Moves, Goes, Returns, header, history
<1>a. /\ pc \in [Procs -> Labels] /\ local \in [Procs -> Locals] /\ local[p] \in Locals
      /\ cursor \in [Procs -> Cursors] /\ slots \in [Slots -> SlotRecords]
      /\ local[p].seq \in Nat /\ generation \in Nat /\ SlotCount \in Nat \ {0}
      /\ \A q \in Procs : cursor[q].gen \in Nat /\ SlotOf(Wanted(q)) \in Slots
  <2>1. TypeOK /\ local[p].seq \in Nat /\ MaxGen \in Nat
    BY Ranges, RingAssumption DEF Ownership, RingAssumption
  <2>2. \A q \in Procs : cursor[q].gen \in Nat
    BY <2>1 DEF TypeOK, Cursors
  <2>3. \A q \in Procs : SlotOf(Wanted(q)) \in Slots
    BY <2>1, Ranges, SlotInRange DEF Slots
  <2> QED
    BY <2>1, <2>2, <2>3, RingAssumption DEF TypeOK, RingAssumption, Slots
<1>b. pc[p] \in ResetLabels /\ writer_slot = Electing
  BY DEF ResetGeneration, ResetSlot, ResetCount, ResetOwner, ResetLabels, Ownership, Owns,
    Resetting
<1>c. \A q \in Procs \ {p} : ~Resetting(q) /\ ~Writing(q)
  BY <1>b, RingAssumption DEF Ownership, OneResetter, Resetting, Owns, RingAssumption
<1>d. \A q \in Procs : cursor[q].gen <= generation /\ Knows(q)
  BY DEF Integrity, Reads, Copying
<1>e. pc[p] \notin MidRead \cup CopyLabels
  BY <1>b DEF ResetLabels, MidRead, CopyLabels
\* Nobody's cursor is of a generation whose slots are being cleared.
<1>1. ASSUME /\ \A q \in Procs \ {p} : pc'[q] = pc[q]
             /\ pc'[p] \in {"reset_slot", "reset_owner", "load_seq", "idle"}
             /\ \A q \in Procs : ~QuietCursor(q)' /\ cursor'[q].gen = cursor[q].gen
             /\ \A q \in Procs : cursor'[q].attached => cursor[q].attached
             /\ late' = late /\ generation <= generation' /\ generation' \in Nat,
             NEW q \in Procs
      PROVE  Fills(q)' /\ Spoilt(q)' /\ Reached(q)' /\ Late(q)'
  <2>1. Fills(q)'
    BY <1>1, <1>c DEF Fills, Writing, WritingLabels
  <2>2. Spoilt(q)' /\ Reached(q)'
    BY <1>1 DEF Spoilt, Reached
  <2>3. Late(q)'
    <3> SUFFICES ASSUME q \in late
                 PROVE  pc'[q] \notin MidRead /\ (cursor'[q].attached => cursor'[q].gen # generation')
      BY <1>1 DEF Late
    <3>1. pc[q] \notin MidRead /\ (cursor[q].attached => cursor[q].gen # generation)
      BY <1>d DEF Knows, Late
    <3>2. pc'[q] \notin MidRead
      BY <1>1, <3>1 DEF MidRead, CopyLabels
    <3>3. cursor[q].gen # generation => cursor[q].gen # generation'
      BY <1>1, <1>a, <1>d
    <3> QED
      BY <1>1, <3>1, <3>2, <3>3
  <2> QED
    BY <2>1, <2>2, <2>3
<1>2. CASE ResetGeneration(p)
  <2>1. /\ \A q \in Procs \ {p} : pc'[q] = pc[q] /\ local'[q] = local[q]
        /\ pc[p] = "reset_gen" /\ pc'[p] = "reset_slot" /\ local'[p].seq = local[p].seq
        /\ generation' = generation + 1
        /\ UNCHANGED <<write_seq, writer_slot, cursor, copy, slots, touched, late>>
    BY <1>2, <1>a DEF ResetGeneration, Locals
  <2>2. local[p].seq = 0 /\ Settled
    BY <2>1 DEF Ownership, Counts, Settled
  <2>3. \A q \in Procs : ~QuietCursor(q)'
    BY <1>a, <1>d, <2>1 DEF QuietCursor
  <2>4. ~Settled'
    BY <1>b, <1>c, <2>1, <2>3 DEF Settled, Resetting, ResetLabels
  <2>5. \A g \in 1..generation : g \in 1..generation' /\ g # generation'
    BY <1>a, <2>1
  <2>6. ASSUME NEW i \in Slots PROVE CommittedIsWhole(i)'
    <3> SUFFICES ASSUME slots[i].state = "Committed" PROVE CommittedIsWhole(i)'
      BY <2>1 DEF CommittedIsWhole
    <3>1. PICK h \in 1..generation : h = generation /\ Carries(i, slots[i].seq, h)
      BY <2>2 DEF Copying, CommittedIsWhole
    <3>2. h \in 1..generation' /\ generation' <= h + 1
      BY <1>a, <2>1, <3>1
    <3>3. Carries(i, slots[i].seq, h)'
      BY <2>1, <3>1 DEF Carries
    <3> QED
      BY <2>4, <3>2, <3>3 DEF CommittedIsWhole
  <2>7. ASSUME NEW q \in Procs PROVE SlotRight(q)' /\ CopyRight(q)' /\ NotCleared(q)'
    <3>1. CASE q = p
      BY <1>e, <2>1, <3>1 DEF SlotRight, CopyRight, NotCleared, CopyLabels
    <3>2. CASE q # p
      <4>1. SlotRight(q) /\ CopyRight(q) /\ NotCleared(q) /\ Wanted(q)' = Wanted(q)
        BY <1>d, <2>1 DEF Knows, Wanted
      <4>2. SlotRight(q)'
        BY <2>1, <2>4, <2>5, <3>2, <4>1 DEF SlotRight, RightIn, Carries
      <4>3. CopyRight(q)'
        BY <2>1, <2>5, <3>2, <4>1 DEF CopyRight
      <4>4. \A r \in Procs : pc'[r] \in {"reset_slot", "reset_owner"} => r = p
        BY <1>c, <2>1 DEF Resetting, ResetLabels
      <4>5. 0 <= SlotOf(Wanted(q))
        BY <1>a DEF Slots
      <4>6. NotCleared(q)'
        BY <2>1, <2>2, <4>1, <4>4, <4>5 DEF NotCleared
      <4> QED
        BY <4>2, <4>3, <4>6
    <3> QED
      BY <3>1, <3>2
  <2>8. ASSUME NEW q \in Procs PROVE Fills(q)' /\ Spoilt(q)' /\ Reached(q)' /\ Late(q)'
    <3>1. generation <= generation' /\ generation' \in Nat
      BY <1>a, <2>1
    <3> QED
      BY <1>1, <2>1, <2>3, <3>1
  <2> QED
    BY <2>6, <2>7, <2>8 DEF Copying, Knows, Slots
<1>3. CASE ResetSlot(p)
  <2>1. PICK k \in Nat : k = local[p].seq
    BY <1>a
  <2>2. /\ \A q \in Procs \ {p} : pc'[q] = pc[q] /\ local'[q] = local[q]
        /\ pc[p] = "reset_slot" /\ pc'[p] = "reset_slot" /\ local'[p].seq = k + 1
        /\ k < SlotCount /\ touched' = touched \cup ReadingAt(k)
        /\ UNCHANGED <<generation, write_seq, writer_slot, cursor, copy, late>>
    BY <1>3, <1>a, <2>1 DEF ResetSlot, Locals
  <2>3. k \in Slots
    BY <1>a, <2>2 DEF Slots
  <2>4. /\ slots'[k].state = "Empty"
        /\ \A i \in Slots \ {k} : slots'[i] = slots[i]
    BY <1>3, <1>a, <2>1, <2>3 DEF ResetSlot, SlotRecords
  <2>5. \A q \in Procs : ~QuietCursor(q) /\ ~QuietCursor(q)'
    BY <2>2 DEF Integrity, Clears, QuietCursor
  <2>6. ~Settled'
    BY <1>b, <1>c, <2>2, <2>5 DEF Settled, Resetting, ResetLabels
  <2>7. ASSUME NEW i \in Slots PROVE CommittedIsWhole(i)'
    BY <2>2, <2>4, <2>6 DEF Copying, CommittedIsWhole, Carries
  <2>8. ASSUME NEW q \in Procs PROVE SlotRight(q)' /\ CopyRight(q)' /\ NotCleared(q)'
    <3>1. CASE q = p
      BY <1>e, <2>2, <3>1 DEF SlotRight, CopyRight, NotCleared, CopyLabels
    <3>2. CASE q # p
      <4>1. SlotRight(q) /\ CopyRight(q) /\ NotCleared(q) /\ Wanted(q)' = Wanted(q)
        BY <1>d, <2>2 DEF Knows, Wanted
      <4>2. pc'[q] = pc[q] /\ (q \notin touched' => q \notin touched)
        BY <2>2, <3>2
      <4>3. CopyRight(q)'
        BY <2>2, <4>1, <4>2 DEF CopyRight
      <4>4. q \notin touched' /\ pc[q] \in CopyLabels => SlotOf(Wanted(q)) # k
        BY <2>2 DEF ReadingAt, CopyLabels
      <4>5. SlotRight(q)'
        BY <1>a, <2>2, <2>4, <2>6, <4>1, <4>2, <4>4 DEF SlotRight, RightIn, Carries
      <4>6. NotCleared(q)'
        <5> SUFFICES ASSUME q \notin touched', pc[q] \in CopyLabels
                     PROVE  k + 1 <= SlotOf(Wanted(q))
          <6>1. \A r \in Procs : pc'[r] \in {"reset_slot", "reset_owner"} => r = p
            BY <1>c, <2>2 DEF Resetting, ResetLabels
          <6> QED
            BY <2>2, <4>1, <4>2, <6>1 DEF NotCleared
        <5>1. k <= SlotOf(Wanted(q))
          BY <2>1, <2>2, <4>1, <4>2 DEF NotCleared
        <5> QED
          BY <1>a, <2>1, <4>4, <5>1 DEF Slots
      <4> QED
        BY <4>3, <4>5, <4>6
    <3> QED
      BY <3>1, <3>2
  <2>9. ASSUME NEW q \in Procs PROVE Fills(q)' /\ Spoilt(q)' /\ Reached(q)' /\ Late(q)'
    <3>1. generation <= generation' /\ generation' \in Nat
      BY <1>a, <2>2
    <3> QED
      BY <1>1, <2>2, <2>5, <3>1
  <2> QED
    BY <2>7, <2>8, <2>9 DEF Copying, Knows, Slots
<1>4. CASE ResetCount(p)
  <2>1. /\ \A q \in Procs \ {p} : pc'[q] = pc[q]
        /\ pc[p] = "reset_slot" /\ pc'[p] = "reset_owner" /\ local[p].seq = SlotCount
        /\ UNCHANGED <<generation, writer_slot, cursor, copy, slots, local, touched, late>>
    BY <1>4, <1>a DEF ResetCount
  <2>2. \A q \in Procs : ~QuietCursor(q) /\ ~QuietCursor(q)'
    BY <2>1 DEF Integrity, Clears, QuietCursor
  <2>3. ~Settled'
    BY <1>b, <1>c, <2>1, <2>2 DEF Settled, Resetting, ResetLabels
  <2>4. ASSUME NEW i \in Slots PROVE CommittedIsWhole(i)'
    BY <2>1, <2>3 DEF Copying, CommittedIsWhole, Carries
  <2>5. ASSUME NEW q \in Procs PROVE SlotRight(q)' /\ CopyRight(q)' /\ NotCleared(q)'
    <3>1. CASE q = p
      BY <1>e, <2>1, <3>1 DEF SlotRight, CopyRight, NotCleared, CopyLabels
    <3>2. CASE q # p
      <4>1. SlotRight(q) /\ CopyRight(q) /\ NotCleared(q) /\ Wanted(q)' = Wanted(q) /\ pc'[q] = pc[q]
        BY <1>d, <2>1, <3>2 DEF Knows, Wanted
      <4>2. \A r \in Procs : pc'[r] \in {"reset_slot", "reset_owner"} =>
                               pc[r] \in {"reset_slot", "reset_owner"}
        BY <2>1
      <4> QED
        BY <2>1, <2>3, <4>1, <4>2 DEF SlotRight, CopyRight, NotCleared, RightIn, Carries
    <3> QED
      BY <3>1, <3>2
  <2>6. ASSUME NEW q \in Procs PROVE Fills(q)' /\ Spoilt(q)' /\ Reached(q)' /\ Late(q)'
    <3>1. generation <= generation' /\ generation' \in Nat
      BY <1>a, <2>1
    <3> QED
      BY <1>1, <2>1, <2>2, <3>1
  <2> QED
    BY <2>4, <2>5, <2>6 DEF Copying, Knows, Slots
<1>5. CASE ResetOwner(p)
  <2>1. /\ \A q \in Procs \ {p} : pc'[q] = pc[q] /\ cursor'[q] = cursor[q] /\ local'[q] = local[q]
        /\ pc[p] = "reset_owner" /\ pc'[p] \in {"load_seq", "idle"}
        /\ ~cursor'[p].attached /\ cursor'[p].gen = cursor[p].gen
        /\ UNCHANGED <<generation, write_seq, copy, slots, touched, late>>
    <3>1. CASE Sends(p)
      BY <1>5, <1>a, <3>1 DEF ResetOwner, Cursors
    <3>2. CASE ~Sends(p)
      BY <1>5, <1>a, <3>2 DEF ResetOwner, Cursors
    <3> QED
      BY <3>1, <3>2
  <2>2. /\ \A q \in Procs : ~QuietCursor(q)
        /\ local[p].seq = SlotCount
        /\ \A i \in Slots : i < SlotCount => slots[i].state = "Empty"
    BY <2>1 DEF Integrity, Clears, Slots
  <2>3. \A i \in Slots : slots[i].state = "Empty"
    BY <1>a, <2>2 DEF Slots
  <2>4. \A q \in Procs : ~QuietCursor(q)'
    BY <2>1, <2>2 DEF QuietCursor
  <2>5. ASSUME NEW i \in Slots PROVE CommittedIsWhole(i)'
    BY <2>1, <2>3 DEF CommittedIsWhole
  <2>6. ASSUME NEW q \in Procs PROVE SlotRight(q)' /\ CopyRight(q)' /\ NotCleared(q)'
    <3>1. CASE q = p
      BY <2>1, <3>1 DEF SlotRight, CopyRight, NotCleared, CopyLabels
    <3>2. CASE q # p
      <4>1. CopyRight(q) /\ NotCleared(q) /\ Wanted(q)' = Wanted(q) /\ pc'[q] = pc[q]
        BY <1>d, <2>1, <3>2 DEF Knows, Wanted
      <4>2. ~(SlotCount <= SlotOf(Wanted(q)))
        BY <1>a DEF Slots
      <4>3. ~(q \notin touched /\ pc[q] \in CopyLabels)
        BY <2>1, <2>2, <4>1, <4>2 DEF NotCleared
      <4> QED
        BY <2>1, <3>2, <4>1, <4>3 DEF SlotRight, CopyRight, NotCleared
    <3> QED
      BY <3>1, <3>2
  <2>7. ASSUME NEW q \in Procs PROVE Fills(q)' /\ Spoilt(q)' /\ Reached(q)' /\ Late(q)'
    <3>1. generation <= generation' /\ generation' \in Nat
      BY <1>a, <2>1
    <3> QED
      BY <1>1, <2>1, <2>4, <3>1
  <2> QED
    BY <2>5, <2>6, <2>7 DEF Copying, Knows, Slots
<1> QED
  BY <1>2, <1>3, <1>4, <1>5

LEMMA CopyUntouched ==
  ASSUME Copying,
         UNCHANGED <<generation, write_seq, writer_slot, slots, pc, local, cursor, copy, history>>
  PROVE  Copying'
<1> USE DEF history
<1>1. /\ Settled' = Settled /\ Stuck' = Stuck /\ Published' = Published
      /\ \A p \in Procs : /\ QuietCursor(p)' = QuietCursor(p) /\ Passed(p)' = Passed(p)
                          /\ Wanted(p)' = Wanted(p)
  BY DEF Settled, Stuck, Published, QuietCursor, Passed, Wanted
<1>2. \A i, n, g : Carries(i, n, g)' = Carries(i, n, g)
  BY DEF Carries
<1>3. \A i \in Slots : CommittedIsWhole(i)'
  BY <1>1, <1>2 DEF Copying, CommittedIsWhole
<1>4. ASSUME NEW p \in Procs PROVE Knows(p)'
  <2>1. Knows(p)
    BY DEF Copying
  <2>2. \A g : RightIn(p, g)' = RightIn(p, g)
    BY <1>1, <1>2 DEF RightIn
  <2>3. SlotRight(p)' /\ CopyRight(p)'
    BY <1>1, <2>1, <2>2 DEF Knows, SlotRight, CopyRight
  <2>4. Fills(p)' /\ NotCleared(p)' /\ Spoilt(p)' /\ Late(p)'
    BY <1>1, <2>1 DEF Knows, Fills, NotCleared, Spoilt, Late
  <2>5. Reached(p)'
    BY <1>1, <2>1 DEF Knows, Reached, Ahead
  <2> QED
    BY <2>3, <2>4, <2>5 DEF Knows
<1> QED
  BY <1>3, <1>4 DEF Copying, Slots

\* Copying is inductive, given Ownership and Integrity.
LEMMA CopyingStep ==
  ASSUME Ownership, Integrity, Copying, WritersStayOpen, [Next]_vars
  PROVE  Copying'
<1>1. CASE UNCHANGED vars
  BY <1>1, CopyUntouched DEF vars, header
<1>2. CASE HeartbeatTimesOut
  BY <1>2, CopyUntouched DEF HeartbeatTimesOut
<1>3. ASSUME NEW p \in Procs,
             WriterStep(p) \/ ReaderStep(p) \/ Close(p) \/ CloseFrees(p) \/ Crash(p)
      PROVE  Copying'
  BY <1>3, TypeStep, CopySilentActions, CopyLookActions, CopyStores, CopyCount, CopyResets
    DEF WriterStep, ReaderStep
<1> QED
  BY <1>1, <1>2, <1>3 DEF Next

LEMMA InitCopying ==
  ASSUME Init
  PROVE  Copying
<1>1. /\ \A p \in Procs : pc[p] = "idle" /\ cursor[p] = NoCursor
      /\ \A i \in Slots : slots[i] = EmptySlot
      /\ touched = {} /\ late = {}
  BY DEF Init, Slots
<1>2. \A i \in Slots : CommittedIsWhole(i)
  BY <1>1 DEF CommittedIsWhole, EmptySlot
<1>3. ASSUME NEW p \in Procs PROVE Knows(p)
  <2>1. pc[p] = "idle" /\ ~cursor[p].attached
    BY <1>1 DEF NoCursor
  <2> QED
    BY <1>1, <2>1 DEF Knows, Fills, SlotRight, CopyRight, NotCleared, Spoilt, Reached, Late,
      CopyLabels, QuietCursor
<1> QED
  BY <1>2, <1>3 DEF Copying

\* A message that nobody else stored into while it was read is whole, has the number that
\* was asked for and is of no older generation than an undisturbed cursor; the read of such
\* a cursor is disturbed only by a writer that has come round or by a takeover; and after a
\* takeover no reader gets a second message (CopyIsIntact; send, reset_ring, receive_for).
THEOREM RingCopiesAreIntact == WritersStayOpen => (Spec => []CopyIsIntact)
<1> SUFFICES ASSUME WritersStayOpen PROVE Spec => []CopyIsIntact
  OBVIOUS
<1>1. Ownership /\ Integrity /\ Copying => CopyIsIntact
  <2> SUFFICES ASSUME Ownership, Integrity, Copying, NEW p \in Procs, pc[p] = "copied"
               PROVE  /\ p \notin touched =>
                           \E g \in 1..generation :
                             /\ copy[p].lo = [gen |-> g, seq |-> Wanted(p)] /\ copy[p].hi = copy[p].lo
                             /\ cursor[p].quiet => g >= cursor[p].gen
                      /\ p \in touched /\ cursor[p].quiet =>
                           generation # cursor[p].gen \/ write_seq >= Wanted(p) + SlotCount
                      /\ p \notin late
    BY DEF CopyIsIntact
  <2>1. Reads(p) /\ Knows(p)
    BY DEF Integrity, Copying
  <2>2. generation \in Nat /\ cursor[p].gen \in Nat
    <3>1. TypeOK
      BY DEF Ownership
    <3>2. cursor[p] \in Cursors /\ generation \in 1..MaxGen
      BY <3>1 DEF TypeOK
    <3> QED
      BY <3>2, RingAssumption DEF Cursors, RingAssumption
  <2>3. p \notin touched =>
          \E g \in 1..generation :
            /\ copy[p].lo = [gen |-> g, seq |-> Wanted(p)] /\ copy[p].hi = copy[p].lo
            /\ cursor[p].quiet => g >= cursor[p].gen
    BY <2>1, <2>2 DEF Knows, CopyRight
  <2>4. cursor[p].attached
    BY <2>1 DEF Reads, ReadingLabels
  <2>5. p \in touched /\ cursor[p].quiet =>
          generation # cursor[p].gen \/ write_seq >= Wanted(p) + SlotCount
    BY <2>1, <2>4 DEF Knows, Spoilt, QuietCursor, Passed
  <2>6. p \notin late
    BY <2>1 DEF Knows, Late, MidRead
  <2> QED
    BY <2>3, <2>5, <2>6
<1> QED
  BY <1>1, InitOwnership, OwnershipStep, InitIntegrity, IntegrityStep, InitCopying, CopyingStep,
    PTL DEF Spec
=============================================================================
