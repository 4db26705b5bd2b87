----------------------------- MODULE BufferedIo -----------------------------
(***************************************************************************)
(* BufReader, BufWriter and the loops of Reader and Writer (buffered.cpp,  *)
(* reader.cpp, writer.cpp) over an inner stream that transfers fewer bytes *)
(* than asked, is interrupted, fails or ends.  Bytes are numbered in their *)
(* order, so a byte that is lost, repeated or swapped shows.  One step is  *)
(* one call of the inner stream.                                           *)
(***************************************************************************)
EXTENDS Naturals, Sequences, SequencesExt, FiniteSets

CONSTANTS BufferSize, SourceLength, Delimiters, MaxRequest, MaxIoCalls

VARIABLES side, taken_in, buffer_, position_, output, rcall,
          accepted, wbuffer_, written_out, wcall, io_calls, lost_on_destroy

readerVars == <<taken_in, buffer_, position_, output, rcall>>
writerVars == <<accepted, wbuffer_, written_out, wcall, lost_on_destroy>>
vars == <<side, io_calls, readerVars, writerVars>>

Idle == [op |-> "idle", n |-> 0, from |-> 0]
NoWrite == [op |-> "idle", n |-> 0, flushing |-> FALSE]

Least(a, b) == IF a < b THEN a ELSE b

Numbers(from, n) == [i \in 1 .. n |-> from + i]
-----------------------------------------------------------------------------
(* reading: output is everything handed to the caller *)

Available == Len(buffer_) - position_

\* The inner stream gives n bytes; none at its end.
InnerGives(n, request) ==
  IF taken_in = SourceLength THEN n = 0 ELSE n \in 1 .. Least(request, SourceLength - taken_in)

StartRead(op, n) ==
  /\ side = "reader" /\ rcall = Idle /\ io_calls < MaxIoCalls /\ io_calls' = io_calls + 1
  /\ rcall' = [op |-> op, n |-> n, from |-> Len(output)]
  /\ UNCHANGED <<side, taken_in, buffer_, position_, output, writerVars>>

\* Mutant: a full-buffer request goes to the inner stream past what is still buffered.
TakesAny(n) == n < BufferSize

\* Buffered bytes are served before the inner stream is asked.
ServesBuffer(n) == Available > 0

Hand(n) == /\ output' = output \o SubSeq(buffer_, position_ + 1, position_ + n)
           /\ position_' = position_ + n

Wanted == rcall.n - (Len(output) - rcall.from)

\* The call is over: a plain read after any bytes, the loops at their own ends.
Goes(done) == rcall' = IF done THEN Idle ELSE rcall

UntilEnd == LET at == {i \in position_ + 1 .. Len(buffer_) : buffer_[i] \in Delimiters}
            IN  IF at = {} THEN Len(buffer_) ELSE Min(at)

\* read, read_exact and read_until take from the buffer.
FromBuffer ==
  /\ side = "reader" /\ rcall.op \in {"read", "exact", "until"} /\ Available > 0 /\ ServesBuffer(Wanted)
  /\ IF rcall.op = "until"
     THEN Hand(UntilEnd - position_) /\ Goes(buffer_[UntilEnd] \in Delimiters)
     ELSE Hand(Least(Available, Wanted)) /\ Goes(rcall.op = "read" \/ Available >= Wanted)
  /\ UNCHANGED <<side, taken_in, buffer_, io_calls, writerVars>>

\* fill_buf; at the end of the stream the call returns with what it has.
FillBuf(n) ==
  /\ side = "reader" /\ rcall.op \in {"read", "exact", "until"}
  /\ ~ServesBuffer(Wanted) /\ (rcall.op = "until" \/ Wanted < BufferSize)
  /\ InnerGives(n, BufferSize)
  /\ buffer_' = Numbers(taken_in, n) /\ position_' = 0 /\ taken_in' = taken_in + n
  /\ Goes(n = 0)
  /\ UNCHANGED <<side, output, io_calls, writerVars>>

\* A request of at least the buffer's size goes straight to the caller.
ReadAround(n) ==
  /\ side = "reader" /\ rcall.op \in {"read", "exact"} /\ ~ServesBuffer(Wanted) /\ Wanted >= BufferSize
  /\ InnerGives(n, Wanted)
  /\ output' = output \o Numbers(taken_in, n) /\ taken_in' = taken_in + n
  /\ buffer_' = <<>> /\ position_' = 0
  /\ Goes(n = 0 \/ rcall.op = "read" \/ n = Wanted)
  /\ UNCHANGED <<side, io_calls, writerVars>>

\* Interrupted is retried by the loops and reported by read; another error ends the call.
ReadInterrupted ==
  /\ side = "reader" /\ rcall # Idle /\ Available = 0 /\ io_calls < MaxIoCalls /\ io_calls' = io_calls + 1
  /\ rcall' \in {Idle} \cup (IF rcall.op = "read" THEN {} ELSE {rcall})
  /\ buffer_' = <<>> /\ position_' = 0
  /\ UNCHANGED <<side, taken_in, output, writerVars>>

\* consume: bytes the caller saw through fill_buf.
Consume(n) ==
  /\ side = "reader" /\ rcall = Idle /\ n \in 1 .. Available
  /\ Hand(n) /\ UNCHANGED <<side, taken_in, buffer_, rcall, io_calls, writerVars>>
-----------------------------------------------------------------------------
(* writing: accepted is what write reported as written *)

\* Mutant: bytes that do not fit go to the inner stream before those that are buffered.
FlushesNever(n) == FALSE

MustFlush(n) == n > BufferSize - Len(wbuffer_)

\* The caller offers the n bytes behind the accepted ones. Bytes that do not fit make
\* write flush the whole buffer first; an empty one has nothing to flush.
StartWrite(op, n) ==
  /\ side = "writer" /\ wcall = NoWrite /\ io_calls < MaxIoCalls /\ io_calls' = io_calls + 1
  /\ Len(accepted) + n <= SourceLength
  /\ wcall' = [op |-> op, n |-> n, flushing |-> op \in {"flush", "destroy"} \/ MustFlush(n)]
  /\ UNCHANGED <<side, accepted, wbuffer_, written_out, lost_on_destroy, readerVars>>

Flushing == wcall.flushing /\ wbuffer_ # <<>>

\* flush_buffer writes k of the buffered bytes; what was written is discarded at once or on failure.
FlushSome(k) ==
  /\ side = "writer" /\ Flushing /\ k \in 1 .. Len(wbuffer_)
  /\ written_out' = written_out \o SubSeq(wbuffer_, 1, k)
  /\ wbuffer_' = SubSeq(wbuffer_, k + 1, Len(wbuffer_))
  /\ UNCHANGED <<side, accepted, wcall, io_calls, lost_on_destroy, readerVars>>

\* An error or a count of zero ends the call; the rest stays buffered, except in the destructor.
FlushFails ==
  /\ side = "writer" /\ Flushing
  /\ io_calls < MaxIoCalls /\ io_calls' = io_calls + 1
  /\ wcall' = NoWrite
  /\ lost_on_destroy' = (lost_on_destroy \/ wcall.op = "destroy")
  /\ wbuffer_' = IF wcall.op = "destroy" THEN <<>> ELSE wbuffer_
  /\ UNCHANGED <<side, accepted, written_out, readerVars>>

FlushEnds ==
  /\ side = "writer" /\ wcall.op \in {"flush", "destroy"} /\ wbuffer_ = <<>> /\ wcall' = NoWrite
  /\ UNCHANGED <<side, accepted, wbuffer_, written_out, io_calls, lost_on_destroy, readerVars>>

Writing == side = "writer" /\ wcall.op \in {"write", "all"} /\ ~Flushing

\* The bytes fit behind the buffered ones.
IntoBuffer ==
  /\ Writing /\ wcall.n < BufferSize
  /\ wbuffer_' = wbuffer_ \o Numbers(Len(accepted), wcall.n)
  /\ accepted' = accepted \o Numbers(Len(accepted), wcall.n) /\ wcall' = NoWrite
  /\ UNCHANGED <<side, written_out, io_calls, lost_on_destroy, readerVars>>

\* Many bytes go around the buffer; a short count ends write and is continued by
\* write_all, whose rest may fit the buffer.
WriteAround(k) ==
  /\ Writing /\ wcall.n >= BufferSize /\ k \in 1 .. wcall.n
  /\ written_out' = written_out \o Numbers(Len(accepted), k)
  /\ accepted' = accepted \o Numbers(Len(accepted), k)
  /\ wcall' = IF wcall.op = "all" /\ k < wcall.n THEN [wcall EXCEPT !.n = @ - k] ELSE NoWrite
  /\ UNCHANGED <<side, wbuffer_, io_calls, lost_on_destroy, readerVars>>

\* The inner stream takes nothing: the call ends with what it has written so far.
WriteAroundFails ==
  /\ Writing /\ wcall.n >= BufferSize /\ wcall' = NoWrite
  /\ UNCHANGED <<side, accepted, wbuffer_, written_out, io_calls, lost_on_destroy, readerVars>>
-----------------------------------------------------------------------------
Init ==
  /\ side \in {"reader", "writer"} /\ io_calls = 0 /\ lost_on_destroy = FALSE
  /\ taken_in = 0 /\ buffer_ = <<>> /\ position_ = 0 /\ output = <<>> /\ rcall = Idle
  /\ accepted = <<>> /\ wbuffer_ = <<>> /\ written_out = <<>> /\ wcall = NoWrite

Next ==
  \/ \E n \in 1 .. MaxRequest : StartRead("read", n) \/ StartRead("exact", n) \/ Consume(n)
  \/ StartRead("until", SourceLength) \/ FromBuffer \/ ReadInterrupted
  \/ \E n \in 0 .. MaxRequest : FillBuf(n) \/ ReadAround(n)
  \/ \E n \in 1 .. MaxRequest : StartWrite("write", n) \/ StartWrite("all", n)
                            \/ FlushSome(n) \/ WriteAround(n)
  \/ StartWrite("flush", 0) \/ StartWrite("destroy", 0) \/ FlushFails \/ FlushEnds
  \/ IntoBuffer \/ WriteAroundFails

Spec == Init /\ [][Next]_vars
-----------------------------------------------------------------------------
(* Properties *)

\* What the caller was handed, what is still buffered and what the inner
\* stream still has are the source, in order: no call loses, repeats or
\* reorders a byte, whatever it asks for and wherever it is interrupted.
ReadsInOrder ==
  output \o SubSeq(buffer_, position_ + 1, Len(buffer_)) = Numbers(0, taken_in)

\* The inner stream has got a prefix of the accepted bytes and the buffer
\* holds the rest, so a retry after a failed flush continues where it stopped;
\* only the destructor, which cannot report, may drop what it could not write. So
\* bytes that go around the buffer never overtake those in it.
WritesInOrder == ~lost_on_destroy => written_out \o wbuffer_ = accepted

\* Together.
BufferedIoSound == ReadsInOrder /\ WritesInOrder
=============================================================================
