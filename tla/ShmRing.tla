------------------------------- MODULE ShmRing -------------------------------
(***************************************************************************)
(* ca::process::ipc::ShmRingQueue (process/ipc.{hpp,cpp}): one writer and   *)
(* many readers in different processes, over a ring of slots in shared     *)
(* memory, synchronised by sequentially consistent atomics only.  Every    *)
(* load, store or compare-and-swap of a shared field that another process  *)
(* can tell apart is a step of its own; any process can die before any     *)
(* step.                                                                   *)
(*                                                                         *)
(* A payload is two halves, written and copied one after the other by      *)
(* memcpy; a message is the pair of its generation and sequence number,    *)
(* and its length is that pair again, None for zero.  Process              *)
(* identities are never reused, so a pid and a birth stamp are both the    *)
(* process itself.  Time is abstracted to whether the heartbeat has timed  *)
(* out.                                                                    *)
(***************************************************************************)
EXTENDS Naturals

CONSTANTS
  Procs,                \* the processes that open the queue, one object each
  Senders,              \* those that call send
  Resetters,            \* those that call reset_if_writer_dead
  Readers,              \* those that call receive_for
  Closers,              \* those that close their queue object and open another
  SlotCount,            \* RingHeader::slot_count
  MaxSeq,               \* bound: messages published in a generation
  MaxGen,               \* bound: generations
  Free, Electing,       \* kRingWriterFree, kRingWriterElecting
  None                  \* an unknown birth stamp (0), no message

ASSUME RingAssumption ==
  /\ SlotCount \in Nat \ {0} /\ MaxSeq \in Nat /\ MaxGen \in Nat \ {0}
  /\ UNION {Senders, Resetters, Readers, Closers} \subseteq Procs
  /\ {Free, Electing, None} \cap Procs = {}
  /\ Free # Electing /\ None \notin [gen : Nat, seq : Nat]

VARIABLES
  generation, write_seq, writer_slot, writer_birth,     \* RingHeader
  fresh,                \* writer_heartbeat is within heartbeat_timeout
  slots,                \* the slots: state, sequence, length, the payload's halves
  pc,                   \* where each process is, "dead" once it has died
  claimed,              \* writer_claimed_
  local,                \* the locals of the call under way
  cursor,               \* reader_attached_, reader_generation_, reader_next_seq_
  copy,                 \* receive_for's message, and the DATA_LOSS it ended in
  touched, late         \* history: readers whose slot was stored to, and readers
                        \* that got a message after a takeover

header == <<generation, write_seq, writer_slot, writer_birth, fresh>>
history == <<touched, late>>
vars == <<header, slots, pc, claimed, local, cursor, copy, history>>

SlotOf(seq) == seq % SlotCount
EmptySlot == [state |-> "Empty", seq |-> 0, len |-> None, lo |-> None, hi |-> None]

\* op is the call, held the writer_slot it loaded, seq send's sequence or
\* reset_ring's index, state the slot state a reader loaded.
NoLocal == [op |-> "none", held |-> Free, seq |-> 0, state |-> "Empty"]

\* quiet is a history variable: the cursor was not taken during a reset.
NoCursor == [attached |-> FALSE, gen |-> 0, next |-> 0, quiet |-> TRUE]
NoCopy == [loss |-> "none", lo |-> None, hi |-> None]

\* create() publishes the header before anyone can open the segment.
Init ==
  /\ generation = 1 /\ write_seq = 0
  /\ writer_slot = Free /\ writer_birth = None /\ fresh = FALSE
  /\ slots = [i \in 0..(SlotCount - 1) |-> EmptySlot]
  /\ pc = [p \in Procs |-> "idle"]
  /\ claimed = [p \in Procs |-> FALSE]
  /\ local = [p \in Procs |-> NoLocal]
  /\ cursor = [p \in Procs |-> NoCursor]
  /\ copy = [p \in Procs |-> NoCopy]
  /\ touched = {} /\ late = {}

Moves(p, l, m) ==
  /\ pc[p] = l
  /\ pc' = [pc EXCEPT ![p] = m]

\* A step from label l to label m that leaves the locals alone.
Goes(p, l, m) == Moves(p, l, m) /\ UNCHANGED local

\* A step from label l that ends the call.
Returns(p, l) == Moves(p, l, "idle") /\ local' = [local EXCEPT ![p] = NoLocal]

\* process_identity_alive: the pid exists and the birth stamp, if known, is
\* its own.
IdentityAlive(pid, birth) ==
  pid \in Procs /\ pc[pid] # "dead" /\ birth \in {None, pid}
-----------------------------------------------------------------------------
(* The reader's message and slot, and which stores spoil its read.         *)

Wanted(p) == cursor[p].next
Slot(p) == slots[SlotOf(Wanted(p))]

\* Readers of slot i, between their load of its state and the end of the copy.
ReadingAt(i) ==
  {q \in Procs : pc[q] \in {"check_seq", "read_lo", "read_hi"} /\ SlotOf(Wanted(q)) = i}

\* Those for whom the message that p sends is not the one they wait for.
WaitingElsewhere(p) ==
  {q \in Procs : cursor[q].gen # generation \/ Wanted(q) # local[p].seq}
-----------------------------------------------------------------------------
(* ensure_writer_claimed (send) and reset_if_writer_dead (reset).          *)

Begins(p, call) ==
  /\ Moves(p, "idle", "claim")
  /\ local' = [local EXCEPT ![p].op = call]
  /\ UNCHANGED <<header, slots, claimed, cursor, copy, history>>

Send(p) == p \in Senders /\ write_seq < MaxSeq /\ Begins(p, "send")
ResetIfWriterDead(p) == p \in Resetters /\ Begins(p, "reset")

Sends(p) == local[p].op = "send"

\* The process holds the ring already; under another birth stamp, what it
\* holds is residue, which it frees before it looks again.
ClaimOwn(p) ==
  LET own == writer_birth = p
  IN  /\ Sends(p) /\ writer_slot = p
      /\ Goes(p, "claim", IF own THEN "load_seq" ELSE "claim")
      /\ writer_slot' = IF own THEN p ELSE Free
      /\ claimed' = [claimed EXCEPT ![p] = @ \/ own]
      /\ UNCHANGED <<generation, write_seq, writer_birth, fresh, slots, cursor, copy, history>>

\* The CAS from Free succeeds; birth and heartbeat are stored after it.
ClaimFree(p) ==
  /\ Sends(p) /\ writer_slot = Free
  /\ Goes(p, "claim", "claim_birth")
  /\ writer_slot' = p
  /\ UNCHANGED <<generation, write_seq, writer_birth, fresh, slots, claimed, cursor, copy, history>>

ClaimBirth(p) ==
  /\ Goes(p, "claim_birth", "load_seq")
  /\ writer_birth' = p /\ fresh' = TRUE
  /\ claimed' = [claimed EXCEPT ![p] = TRUE]
  /\ UNCHANGED <<generation, write_seq, writer_slot, slots, cursor, copy, history>>

\* Nothing to take over: UNAVAILABLE, or reset_if_writer_dead's false.
Refusal(p) ==
  \/ /\ pc[p] = "claim"
     /\ writer_slot = Electing \/ (~Sends(p) /\ writer_slot \in {Free, p})
  \/ pc[p] = "probe" /\ fresh
  \/ pc[p] = "probe_alive" /\ IdentityAlive(local[p].held, writer_birth)

ClaimRefused(p) ==
  /\ Refusal(p)
  /\ Returns(p, pc[p])
  /\ UNCHANGED <<header, slots, claimed, cursor, copy, history>>

\* Another process holds the ring: its heartbeat first, then the process.
ClaimHeld(p) ==
  /\ writer_slot \in Procs \ {p}
  /\ Moves(p, "claim", "probe")
  /\ local' = [local EXCEPT ![p].held = writer_slot]
  /\ UNCHANGED <<header, slots, claimed, cursor, copy, history>>

ProbeStale(p) ==
  /\ ~Refusal(p)
  /\ Goes(p, "probe", "probe_alive")
  /\ UNCHANGED <<header, slots, claimed, cursor, copy, history>>

ProbeDead(p) ==
  /\ ~Refusal(p)
  /\ Goes(p, "probe_alive", "elect")
  /\ UNCHANGED <<header, slots, claimed, cursor, copy, history>>

\* Mutant: the ring is marked with a store instead of a CAS.
ElectByStore(p) ==
  /\ generation < MaxGen
  /\ Goes(p, "elect", "reset_gen")
  /\ writer_slot' = Electing
  /\ UNCHANGED <<generation, write_seq, writer_birth, fresh, slots, claimed, cursor, copy, history>>

\* CAS(held -> ELECTING); a failed CAS starts over.
Elect(p) ==
  /\ writer_slot = local[p].held
  /\ generation < MaxGen
  /\ Goes(p, "elect", "reset_gen")
  /\ writer_slot' = Electing
  /\ UNCHANGED <<generation, write_seq, writer_birth, fresh, slots, claimed, cursor, copy, history>>

ElectFails(p) ==
  /\ writer_slot # local[p].held
  /\ Moves(p, "elect", "claim")
  /\ local' = [local EXCEPT ![p].held = Free]
  /\ UNCHANGED <<header, slots, claimed, cursor, copy, history>>
-----------------------------------------------------------------------------
(* reset_ring: generation, then the slots, then the count and the owner.   *)

ResetGeneration(p) ==
  /\ Moves(p, "reset_gen", "reset_slot")
  /\ generation' = generation + 1
  /\ local' = [local EXCEPT ![p].held = Free]
  /\ UNCHANGED <<write_seq, writer_slot, writer_birth, fresh, slots, claimed, cursor, copy, history>>

ResetSlot(p) ==
  LET i == local[p].seq
  IN  /\ i < SlotCount
      /\ Moves(p, "reset_slot", "reset_slot")
      /\ slots' = [slots EXCEPT ![i].state = "Empty", ![i].len = None, ![i].seq = 0]
      /\ local' = [local EXCEPT ![p].seq = i + 1]
      /\ touched' = touched \cup ReadingAt(i)
      /\ UNCHANGED <<header, claimed, cursor, copy, late>>

ResetCount(p) ==
  /\ local[p].seq = SlotCount
  /\ Goes(p, "reset_slot", "reset_owner")
  /\ write_seq' = 0
  /\ UNCHANGED <<generation, writer_slot, writer_birth, fresh, slots, claimed, cursor, copy, history>>

\* The resetter takes the ring (send) or leaves it free (reset); its own
\* reader cursor is detached either way.
ResetOwner(p) ==
  /\ IF Sends(p) THEN Goes(p, "reset_owner", "load_seq") ELSE Returns(p, "reset_owner")
  /\ writer_slot' = IF Sends(p) THEN p ELSE Free
  /\ writer_birth' = IF Sends(p) THEN p ELSE None
  /\ fresh' = Sends(p)
  /\ claimed' = [claimed EXCEPT ![p] = @ \/ Sends(p)]
  /\ cursor' = [cursor EXCEPT ![p].attached = FALSE]
  /\ UNCHANGED <<generation, write_seq, slots, copy, history>>
-----------------------------------------------------------------------------
(* send: mark the slot Writing, store payload and sequence, commit, count. *)

Message(p) == [gen |-> generation, seq |-> local[p].seq]

LoadSeq(p) ==
  /\ Moves(p, "load_seq", "mark")
  /\ local' = [local EXCEPT ![p].seq = write_seq]
  /\ UNCHANGED <<header, slots, claimed, cursor, copy, history>>

\* A store into the slot of the message being sent, which then reads new.
Target(p) == slots[SlotOf(local[p].seq)]

Stores(p, l, m, new) ==
  /\ Goes(p, l, m)
  /\ slots' = [slots EXCEPT ![SlotOf(local[p].seq)] = new]
  /\ touched' = touched \cup (ReadingAt(SlotOf(local[p].seq)) \cap WaitingElsewhere(p))
  /\ UNCHANGED <<header, claimed, cursor, copy, late>>

\* Mutant: the sequence number is stored before the payload.
MarkNumbered(p) ==
  Stores(p, "mark", "copy_lo", [Target(p) EXCEPT !.state = "Writing", !.seq = local[p].seq])

Mark(p) == Stores(p, "mark", "copy_lo", [Target(p) EXCEPT !.state = "Writing"])
CopyLow(p) == Stores(p, "copy_lo", "copy_hi", [Target(p) EXCEPT !.lo = Message(p)])
\* The payload's end and, after it, the length.
CopyHigh(p) ==
  Stores(p, "copy_hi", "number", [Target(p) EXCEPT !.hi = Message(p), !.len = Message(p)])
Number(p) == Stores(p, "number", "commit", [Target(p) EXCEPT !.seq = local[p].seq])
Commit(p) == Stores(p, "commit", "count", [Target(p) EXCEPT !.state = "Committed"])

\* write_seq.fetch_add, and the throttled refresh_heartbeat.
Count(p) ==
  /\ Returns(p, "count")
  /\ write_seq' = write_seq + 1
  /\ fresh' \in {fresh, TRUE}
  /\ UNCHANGED <<generation, writer_slot, writer_birth, slots, claimed, cursor, copy, history>>
-----------------------------------------------------------------------------
(* receive_for: attach, then check generation, state, sequence, and copy.  *)

Receive(p) ==
  /\ p \in Readers
  /\ Goes(p, "idle", IF cursor[p].attached THEN "check_gen" ELSE "attach")
  /\ copy' = [copy EXCEPT ![p] = NoCopy]
  /\ UNCHANGED <<header, slots, claimed, cursor, history>>

AttachGeneration(p) ==
  /\ Goes(p, "attach", "attach_seq")
  /\ cursor' = [cursor EXCEPT ![p] = [NoCursor EXCEPT !.gen = generation]]
  /\ late' = late \ {p}
  /\ UNCHANGED <<header, slots, claimed, copy, touched>>

\* Mutant: the first number is taken before checking that the ring has wrapped.
AttachUnderflows(p) ==
  /\ Goes(p, "attach_seq", "check_gen")
  /\ cursor' = [cursor EXCEPT ![p].attached = TRUE,
                  ![p].next = write_seq - SlotCount,
                  ![p].quiet = writer_slot # Electing]
  /\ UNCHANGED <<header, slots, claimed, copy, history>>

\* The oldest message that is still retained.
AttachSeq(p) ==
  /\ Goes(p, "attach_seq", "check_gen")
  /\ cursor' = [cursor EXCEPT ![p].attached = TRUE,
                  ![p].next = IF write_seq > SlotCount THEN write_seq - SlotCount ELSE 0,
                  ![p].quiet = writer_slot # Electing]
  /\ UNCHANGED <<header, slots, claimed, copy, history>>

\* receive_for returns with an error, or with nothing.
Ends(p, l) ==
  /\ Returns(p, l)
  /\ UNCHANGED <<header, slots, claimed, cursor, history>>

SeesReset(p) ==
  /\ generation # cursor[p].gen
  /\ Ends(p, "check_gen")
  /\ UNCHANGED copy

CheckGeneration(p) ==
  /\ generation = cursor[p].gen
  /\ Goes(p, "check_gen", "load_state")
  /\ UNCHANGED <<header, slots, claimed, cursor, copy, history>>

LoadState(p) ==
  LET s == Slot(p).state
  IN  /\ Moves(p, "load_state", IF s = "Committed" THEN "check_seq" ELSE "load_held")
      /\ local' = [local EXCEPT ![p].state = s]
      /\ touched' = touched \ {p}
      /\ UNCHANGED <<header, slots, claimed, cursor, copy, late>>

CheckSeq(p) ==
  /\ Slot(p).seq = Wanted(p)
  /\ Goes(p, "check_seq", "read_lo")
  /\ UNCHANGED <<header, slots, claimed, cursor, copy, history>>

\* Another sequence number is in the slot: DATA_LOSS.  "lapped" when it is a
\* later one, "old" when it is an earlier one.
SeesLoss(p) ==
  /\ Slot(p).seq # Wanted(p)
  /\ Ends(p, "check_seq")
  /\ copy' = [copy EXCEPT ![p].loss = IF Slot(p).seq > Wanted(p) THEN "lapped" ELSE "old"]

\* The length, and the first half; a length of zero leaves nothing to copy.
ReadLow(p) ==
  /\ Goes(p, "read_lo", IF Slot(p).len = None THEN "copied" ELSE "read_hi")
  /\ copy' = [copy EXCEPT ![p].lo = IF Slot(p).len = None THEN None ELSE Slot(p).lo]
  /\ UNCHANGED <<header, slots, claimed, cursor, history>>

ReadHigh(p) ==
  /\ Goes(p, "read_hi", "copied")
  /\ copy' = [copy EXCEPT ![p].hi = Slot(p).hi]
  /\ UNCHANGED <<header, slots, claimed, cursor, history>>

\* The cursor advances and the message is the caller's.
Received(p) ==
  /\ Returns(p, "copied")
  /\ cursor' = [cursor EXCEPT ![p].next = @ + 1]
  /\ copy' = [copy EXCEPT ![p] = NoCopy]
  /\ late' = IF generation = cursor[p].gen THEN late ELSE late \cup {p}
  /\ UNCHANGED <<header, slots, claimed, touched>>

LoadHeld(p) ==
  /\ Moves(p, "load_held", "judge")
  /\ local' = [local EXCEPT ![p].held = writer_slot]
  /\ UNCHANGED <<header, slots, claimed, cursor, copy, history>>

\* The writer that the reader loaded is a process that has died.
WriterDead(p) ==
  local[p].held \in Procs /\ ~IdentityAlive(local[p].held, writer_birth)

\* Round receive_for's loop again, past a slot or not.
Retries(p, next) ==
  /\ Moves(p, "judge", "check_gen")
  /\ local' = [local EXCEPT ![p] = NoLocal]
  /\ cursor' = [cursor EXCEPT ![p].next = next]
  /\ UNCHANGED <<header, slots, claimed, copy, history>>

\* A slot left Writing by a dead writer is torn: skip it.
SkipTorn(p) == WriterDead(p) /\ local[p].state = "Writing" /\ Retries(p, Wanted(p) + 1)

SeesDrained(p) ==
  /\ WriterDead(p) /\ local[p].state = "Empty"
  /\ Ends(p, "judge")
  /\ UNCHANGED copy

\* The writer may still come: wait on, or the deadline has passed.
WaitsOn(p) == ~WriterDead(p) /\ Retries(p, Wanted(p))

TimesOut(p) ==
  /\ ~WriterDead(p)
  /\ Ends(p, "judge")
  /\ UNCHANGED copy
-----------------------------------------------------------------------------
\* close() looks whether the ring is its own, frees it if it was, and forgets
\* the rest; the process then opens the queue anew.
Close(p) ==
  /\ p \in Closers
  /\ Moves(p, "idle", "closing")
  /\ local' = [local EXCEPT ![p].held =
                 IF claimed[p] /\ writer_birth = p THEN writer_slot ELSE Free]
  /\ UNCHANGED <<header, slots, claimed, cursor, copy, history>>

CloseFrees(p) ==
  /\ Returns(p, "closing")
  /\ writer_slot' = IF local[p].held = p THEN Free ELSE writer_slot
  /\ claimed' = [claimed EXCEPT ![p] = FALSE]
  /\ cursor' = [cursor EXCEPT ![p] = NoCursor]
  /\ UNCHANGED <<generation, write_seq, writer_birth, fresh, slots, copy, history>>

RefreshHeartbeat(p) ==
  /\ claimed[p]
  /\ Goes(p, "idle", "idle")
  /\ fresh' = TRUE
  /\ UNCHANGED <<generation, write_seq, writer_slot, writer_birth, slots, claimed, cursor, copy, history>>

\* Time passes: the heartbeat is older than heartbeat_timeout.
HeartbeatTimesOut ==
  /\ fresh
  /\ fresh' = FALSE
  /\ UNCHANGED <<generation, write_seq, writer_slot, writer_birth, slots, pc, claimed,
                 local, cursor, copy, history>>

\* The process is killed, wherever it is; what it stored in the segment stays.
Crash(p) ==
  /\ pc[p] # "dead"
  /\ pc' = [pc EXCEPT ![p] = "dead"]
  /\ claimed' = [claimed EXCEPT ![p] = FALSE]
  /\ local' = [local EXCEPT ![p] = NoLocal]
  /\ cursor' = [cursor EXCEPT ![p] = NoCursor]
  /\ copy' = [copy EXCEPT ![p] = NoCopy]
  /\ UNCHANGED <<header, slots, history>>
-----------------------------------------------------------------------------
WriterStep(p) ==
  \/ Send(p) \/ ResetIfWriterDead(p)
  \/ ClaimOwn(p) \/ ClaimFree(p) \/ ClaimBirth(p) \/ ClaimRefused(p)
  \/ ClaimHeld(p) \/ ProbeStale(p) \/ ProbeDead(p) \/ Elect(p) \/ ElectFails(p)
  \/ ResetGeneration(p) \/ ResetSlot(p) \/ ResetCount(p) \/ ResetOwner(p)
  \/ LoadSeq(p) \/ Mark(p) \/ CopyLow(p) \/ CopyHigh(p) \/ Number(p)
  \/ Commit(p) \/ Count(p) \/ RefreshHeartbeat(p)

ReaderStep(p) ==
  \/ Receive(p) \/ AttachGeneration(p) \/ AttachSeq(p) \/ SeesReset(p)
  \/ CheckGeneration(p) \/ LoadState(p) \/ CheckSeq(p) \/ SeesLoss(p)
  \/ ReadLow(p) \/ ReadHigh(p) \/ Received(p) \/ LoadHeld(p) \/ SkipTorn(p)
  \/ SeesDrained(p) \/ WaitsOn(p) \/ TimesOut(p)

Next ==
  \/ \E p \in Procs : WriterStep(p) \/ ReaderStep(p) \/ Close(p) \/ CloseFrees(p) \/ Crash(p)
  \/ HeartbeatTimesOut

Spec == Init /\ [][Next]_vars
-----------------------------------------------------------------------------
Messages == [gen : 1..MaxGen, seq : 0..MaxSeq]
Stored == Messages \cup {None}
SlotStates == {"Empty", "Writing", "Committed"}
WritingLabels == {"load_seq", "mark", "copy_lo", "copy_hi", "number", "commit", "count"}
ResetLabels == {"reset_gen", "reset_slot", "reset_owner"}
Labels == WritingLabels \cup ResetLabels \cup
          {"idle", "claim", "claim_birth", "probe", "probe_alive", "elect", "attach",
           "attach_seq", "check_gen", "load_state", "check_seq", "read_lo", "read_hi",
           "copied", "load_held", "judge", "closing", "dead"}

SlotRecords ==
  [state : SlotStates, seq : 0..MaxSeq, len : Stored, lo : Stored, hi : Stored]
Locals ==
  [op : {"none", "send", "reset"}, held : Procs \cup {Free, Electing}, seq : Nat,
   state : SlotStates]
Cursors == [attached : BOOLEAN, gen : 0..MaxGen, next : Nat, quiet : BOOLEAN]
Copies == [loss : {"none", "lapped", "old"}, lo : Stored, hi : Stored]

\* Every shared field, local and cursor holds a value of its type.
TypeOK ==
  /\ generation \in 1..MaxGen /\ write_seq \in 0..MaxSeq
  /\ writer_slot \in Procs \cup {Free, Electing}
  /\ writer_birth \in Procs \cup {None}
  /\ fresh \in BOOLEAN
  /\ slots \in [0..(SlotCount - 1) -> SlotRecords]
  /\ pc \in [Procs -> Labels]
  /\ claimed \in [Procs -> BOOLEAN]
  /\ local \in [Procs -> Locals]
  /\ cursor \in [Procs -> Cursors]
  /\ copy \in [Procs -> Copies]
  /\ touched \subseteq Procs /\ late \subseteq Procs

\* At most one live process changes the ring, as its writer or as the one
\* that takes it over: what the CAS, the birth stamp, the heartbeat and the
\* check that the process is gone are for (ensure_writer_claimed).
SingleWriter ==
  \A p, q \in Procs :
    pc[p] \in WritingLabels \cup ResetLabels /\ pc[q] \in WritingLabels \cup ResetLabels => p = q

\* What the message that receive_for is about to return is.  Nothing is checked
\* after the copy, so: as long as nobody else's store fell into the slot during
\* the read, it is one whole message with the number asked for, and of no
\* older generation than the cursor's unless the cursor was taken during a
\* reset.  Such a store falls only into the read of a reader that was lapped,
\* or whose ring was taken over or reset after the last check of the
\* generation; what it then gets may be torn.  After a takeover a reader gets
\* at most one more message: the next call reports the reset (receive_for,
\* send, reset_ring).
CopyIsIntact ==
  \A p \in Procs : pc[p] = "copied" =>
    /\ p \notin touched =>
         \E g \in 1..generation :
           /\ copy[p].lo = [gen |-> g, seq |-> Wanted(p)] /\ copy[p].hi = copy[p].lo
           /\ cursor[p].quiet => g >= cursor[p].gen
    /\ p \in touched /\ cursor[p].quiet =>
         generation # cursor[p].gen \/ write_seq >= Wanted(p) + SlotCount
    /\ p \notin late

\* "A reader never reads torn content": the two halves of the message that
\* receive_for is about to return are of one message.
NoTornRead == \A p \in Procs : pc[p] = "copied" => copy[p].lo = copy[p].hi

\* "A reader never mixes data of the old and the new generation": the message
\* is of the generation that the reader attached to.
NoMixedGenerations ==
  \A p \in Procs : pc[p] = "copied" /\ copy[p].lo # None => copy[p].lo.gen = cursor[p].gen

\* While nobody has died, receive_for reports DATA_LOSS only to a reader whose
\* message has been overwritten by a later one.
LossIsReal ==
  (\A q \in Procs : pc[q] # "dead") => \A p \in Procs : copy[p].loss # "old"
=============================================================================
