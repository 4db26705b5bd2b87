-------------------------------- MODULE Zip --------------------------------
(***************************************************************************)
(* ZipOutputStream, ZipFile and ZipInputStream (output_stream.cpp,         *)
(* file.cpp, input_stream.cpp).  An archive is a sequence of records: loc, *)
(* stored bytes, one compressed block, dd, cen and end; offsets count      *)
(* records and a CRC is the data it covers.  `out` is the writer's Impl.   *)
(* fwrite only hands records to stdio, which writes them when it likes, at *)
(* the latest in fclose.  On a full disk a write fails, what was buffered  *)
(* is lost and a torn record is left; the caller may go on.                *)
(***************************************************************************)
EXTENDS Naturals, Sequences, SequencesExt, FiniteSets

CONSTANTS EntryNames, Payload, Signature, MaxTotal, MaxZipOps, MaxPrefix

VARIABLES
  out, opened,
  archive,              \* what is on the disk after a close that returned Ok
  ops,
  disk_failed           \* history: "reported" by fwrite, "late": in fclose

vars == <<out, opened, archive, ops, disk_failed>>

NoEntry == [name |-> "", method |-> 0, crc |-> <<>>, csize |-> 0, loc |-> 0]
Fresh == [file |-> <<>>, flushed |-> 0, open |-> FALSE, entry |-> NoEntry, zstream |-> FALSE, damaged |-> FALSE,
          cen |-> <<>>, total |-> 0, ok |-> TRUE, crashed |-> FALSE]

Rec(t) == [t |-> t]
-----------------------------------------------------------------------------
(* the writer; each operator takes the state and the fate of its writes *)

Fates == {"buffered", "flushed", "failed"}

\* The records on the disk when stdio fails to write what it holds.
Torn(s) == Append(SubSeq(s.file, 1, s.flushed), Rec("torn"))

fwrite(s, recs, fate) ==
  IF fate = "failed" THEN [s EXCEPT !.file = Torn(s), !.flushed = @ + 1, !.ok = FALSE]
  ELSE [s EXCEPT !.file = @ \o recs,
                 !.flushed = IF fate = "flushed" THEN Len(s.file) + Len(recs) ELSE @]

\* The stream is released on failure too, while the entry stays open.
finish_and_release_zstream(s, fate) ==
  IF ~s.zstream THEN [s EXCEPT !.crashed = TRUE, !.ok = FALSE]
  ELSE LET w == fwrite(s, <<[t |-> "z", data |-> IF s.damaged THEN <<"damaged">> ELSE s.entry.crc]>>, fate)
       IN  [w EXCEPT !.zstream = FALSE, !.entry.csize = IF fate # "failed" THEN 1 ELSE @]

\* Mutant: the directory keeps the size of the data, not that of what was stored.
PlainSize(e) == Len(e.crc)

StoredSize(e) == e.csize

CenRecord(e) ==
  [t |-> "cen", name |-> e.name, method |-> e.method, crc |-> e.crc, csize |-> StoredSize(e), loc |-> e.loc]

\* The data descriptor and the directory record; the limit is checked after both.
DescribeEntry(s, fate) ==
  LET w == fwrite(s, <<Rec("dd")>>, fate)
      c == [w EXCEPT !.cen = Append(@, CenRecord(s.entry))]
  IN  IF ~w.ok THEN w
      ELSE IF s.total = MaxTotal THEN [c EXCEPT !.ok = FALSE]
      ELSE [c EXCEPT !.total = @ + 1, !.open = FALSE, !.entry = NoEntry]

close_entry(s, fate) ==
  IF ~s.open THEN s
  ELSE LET f == IF s.entry.method = 8 THEN finish_and_release_zstream(s, fate) ELSE s
       IN  IF f.ok THEN DescribeEntry(f, fate) ELSE f

BeginEntry(s, name, method, fate) ==
  LET b == [s EXCEPT !.entry = [NoEntry EXCEPT !.name = name, !.method = method, !.loc = Len(s.file)],
                     !.damaged = FALSE]
      w == fwrite(b, <<[t |-> "loc", name |-> name, method |-> method]>>, fate)
  IN  IF w.ok THEN [w EXCEPT !.open = TRUE, !.zstream = method = 8] ELSE w

put_next_entry(s, name, method, fate) ==
  LET c == close_entry(s, fate) IN IF c.ok THEN BeginEntry(c, name, method, fate) ELSE c

\* deflate may keep the data for later or write a block now; the CRC counts what the caller gave.
write(s, b, flushes, fate) ==
  LET a == [s EXCEPT !.entry.crc = Append(@, b)]
      w == fwrite(a, <<[t |-> "byte", b |-> b]>>, fate)
  IN  IF s.entry.method = 8 /\ ~s.zstream THEN [a EXCEPT !.crashed = TRUE, !.ok = FALSE]
      ELSE IF s.entry.method = 0 THEN [w EXCEPT !.entry.csize = IF fate # "failed" THEN @ + 1 ELSE @]
      ELSE IF flushes /\ fate = "failed" THEN [fwrite(a, <<>>, fate) EXCEPT !.damaged = TRUE]
      ELSE a

EndRecord(s) == [t |-> "end", count |-> s.total, size |-> Len(s.cen), offset |-> Len(s.file)]

\* close: the directory and the end record; the state is reset only on success.
close(s, fate) ==
  LET c == close_entry(s, fate)
      w == fwrite(c, Append(c.cen, EndRecord(c)), fate)
  IN  IF c.ok THEN w ELSE c
-----------------------------------------------------------------------------
(* ZipFile *)

Failed == [ok |-> FALSE]

IsAt(d, i, t) == i \in 1 .. Len(d) /\ d[i].t = t

\* Mutant: offsets are never taken relative to the end of the directory.
NeverRecovers(d, e) == FALSE

\* The directory is looked for in front of the end record when it is not where it should be.
shouldRecoverBase(d, e) ==
  \/ e.offset + e.size > Len(d) - 1
  \/ e.size > 0 /\ ~IsAt(d, e.offset + 1, "cen")

cenStart(d, e) == IF shouldRecoverBase(d, e) THEN Len(d) - e.size ELSE e.offset + 1

\* An entry as read through the directory, its CRC checked.
read_entry(d, c, base) ==
  LET at == c.loc + base + 1
      bytes == SubSeq(d, at + 1, at + c.csize)
      data == IF c.method = 8 /\ Len(bytes) = 1 /\ bytes[1].t = "z" THEN bytes[1].data
              ELSE [i \in 1 .. Len(bytes) |-> IF bytes[i].t = "byte" THEN bytes[i].b ELSE "damaged"]
  IN  IF IsAt(d, at, "loc") /\ at + c.csize <= Len(d) /\ data = c.crc
      THEN [ok |-> TRUE, name |-> c.name, data |-> data] ELSE Failed

\* Every entry of the directory, or nothing when the directory cannot be parsed.
ZipFile(d) ==
  LET e == d[Len(d)]
      start == cenStart(d, e)
      recs == SubSeq(d, start, start + e.size - 1)
  IN  IF d = <<>> \/ ~IsAt(d, Len(d), "end") \/ (\E i \in 1 .. Len(recs) : recs[i].t # "cen")
      THEN <<Failed>>
      ELSE [i \in 1 .. Len(recs) |-> read_entry(d, recs[i], start - 1 - e.offset)]
-----------------------------------------------------------------------------
(* ZipInputStream: every entry carries a data descriptor, so its end is searched for *)

HasSignature(r) == r.t \in {"loc", "cen", "end"} \/ (r.t = "byte" /\ r.b = Signature)

scan_next_header(d, pos) == Min({i \in pos .. Len(d) : HasSignature(d[i])} \cup {Len(d) + 1})

\* Without a descriptor in front of the header the data is cut short.
StreamData(d, pos, next) ==
  LET bytes == SubSeq(d, pos + 1, next - 2)
  IN  IF d[next - 1].t # "dd" THEN <<"cut">>
      ELSE IF d[pos].method = 8 THEN bytes[1].data
      ELSE [i \in 1 .. Len(bytes) |-> bytes[i].b]

\* get_next_entry until it finds something that is no local header.
ZipInputStream(d) ==
  LET From[pos \in 1 .. Len(d) + 1] ==
        LET next == scan_next_header(d, pos + 1)
        IN  IF ~IsAt(d, pos, "loc") THEN <<>>
            ELSE IF next > Len(d) THEN <<Failed>>
            ELSE <<[ok |-> TRUE, name |-> d[pos].name, data |-> StreamData(d, pos, next)]>> \o From[next]
  IN  From[1]
-----------------------------------------------------------------------------
Init == out = Fresh /\ opened = FALSE /\ archive = <<>> /\ ops = 0 /\ disk_failed = {}

Begins == ~out.crashed /\ ops < MaxZipOps /\ ops' = ops + 1

\* A call reports its result; the caller may call again after an error.
Step(s, failures) == out' = [s EXCEPT !.ok = TRUE] /\ disk_failed' = disk_failed \cup failures

Reported(fate) == IF fate = "failed" THEN {"reported"} ELSE {}

Open == /\ Begins /\ ~opened /\ opened' = TRUE /\ out' = Fresh /\ disk_failed' = {}
        /\ archive' = <<>>

PutNextEntry(n, m, fate) ==
  /\ Begins /\ opened /\ Step(put_next_entry(out, n, m, fate), Reported(fate))
  /\ UNCHANGED <<opened, archive>>

Write(b, flushes, fate) ==
  /\ Begins /\ out.open /\ Step(write(out, b, flushes, fate), Reported(fate))
  /\ UNCHANGED <<opened, archive>>

CloseEntry(fate) ==
  Begins /\ out.open /\ Step(close_entry(out, fate), Reported(fate)) /\ UNCHANGED <<opened, archive>>

\* close, also by the destructor.  fclose writes what stdio still holds; what
\* it returns is not looked at.
Close(fate, fclose) ==
  /\ Begins /\ opened
  /\ LET c == close(out, fate)
         late == c.ok /\ fclose = "failed"
     IN  /\ late => c.flushed < Len(c.file)
         /\ Step(c, Reported(fate) \cup (IF late THEN {"late"} ELSE {}))
         /\ opened' = ~c.ok
         /\ archive' = IF ~c.ok THEN archive ELSE IF late THEN Torn(c) ELSE c.file

Next == \/ Open
        \/ \E fate \in Fates :
             \/ \E n \in EntryNames, m \in {0, 8} : PutNextEntry(n, m, fate)
             \/ \E b \in Payload, flushes \in BOOLEAN : Write(b, flushes, fate)
             \/ CloseEntry(fate)
             \/ \E fclose \in {"flushed", "failed"} : Close(fate, fclose)

Spec == Init /\ [][Next]_vars
-----------------------------------------------------------------------------
(* Properties *)

Described(s) == [i \in 1 .. Len(s.cen) |-> [ok |-> TRUE, name |-> s.cen[i].name, data |-> s.cen[i].crc]]

\* After a close that returned Ok every entry of the archive reads back as the
\* data given to write, or is refused when a write of it was reported as failed;
\* alone or behind other data, since offsets are relative to the archive's own
\* start.  An archive that fclose could not write out is refused as a whole.
ArchiveReadsBack ==
  archive # <<>> =>
    \A p \in 0 .. MaxPrefix :
      LET got == ZipFile([i \in 1 .. p |-> Rec("junk")] \o archive) IN
      IF "late" \in disk_failed THEN got = <<Failed>>
      ELSE /\ Len(got) = Len(out.cen)
           /\ \A i \in 1 .. Len(got) :
                got[i] = Described(out)[i] \/ ("reported" \in disk_failed /\ got[i] = Failed)

LooksLikeHeader(d) == \E i \in 1 .. Len(d) : d[i].t = "byte" /\ HasSignature(d[i])

\* The streaming reader, which never sees the directory, finds the entries the
\* directory lists, if no write failed and no stored byte looks like a header.
StreamAgrees ==
  archive # <<>> /\ disk_failed = {} /\ ~LooksLikeHeader(archive) => ZipInputStream(archive) = ZipFile(archive)

\* Together.
ZipSound == ArchiveReadsBack /\ StreamAgrees

\* output_stream.cpp: the destructor swallows a failed close ("only silent").
\* An entry whose final block could not be written has lost its stream, and
\* closing it once more uses the stream again.
ClosedTwiceIsSafe == ~out.crashed

\* Not so: output_stream.cpp:118 says that a full disk is reported by the result
\* of close; the directory and the end record mostly meet the disk in fclose,
\* whose result is dropped.
FullDiskIsReported == "late" \notin disk_failed
-----------------------------------------------------------------------------
(***************************************************************************)
(* GzipWriter and GzipReader (gzip_writer.cpp, gzip_reader.cpp).  A stream *)
(* is the concatenation of finished members: a header, one token per byte  *)
(* of deflate data, the end of the data and a trailer with CRC and ISIZE.  *)
(* On its way it may be cut short or damaged in one token.  The reader is  *)
(* called with buffers of any size; one step is one turn of read's loop.   *)
(***************************************************************************)
CONSTANTS GzipBytes, MaxMembers, MaxGzip, SizeModulus, MaxBuffer

VARIABLES gz_out, gz_crc, original, phase, zdata, cursor, gstate, crc_read, filled, size, restored, gz_error

gzipVars == <<gz_out, gz_crc, original, phase, zdata, cursor, gstate, crc_read, filled, size, restored, gz_error>>
readerVars == <<zdata, cursor, gstate, crc_read, filled, size, restored, gz_error>>

Token(t, v) == [t |-> t, v |-> v]
-----------------------------------------------------------------------------
(* GzipWriter *)

\* The constructor writes the header.
NewWriter ==
  /\ phase = "none" /\ Len(SelectSeq(gz_out, LAMBDA k : k.t = "head")) < MaxMembers
  /\ phase' = "writing" /\ gz_out' = Append(gz_out, Token("head", "")) /\ gz_crc' = <<>>
  /\ UNCHANGED <<original, readerVars>>

GzipWrite(b) ==
  /\ phase = "writing" /\ Len(original) < MaxGzip
  /\ gz_out' = Append(gz_out, Token("byte", b)) /\ gz_crc' = Append(gz_crc, b)
  /\ original' = Append(original, b) /\ UNCHANGED <<phase, readerVars>>

\* The ISIZE field keeps the length modulo 2^32.
Trailer(crc) == [t |-> "trailer", v |-> "", crc |-> crc, isize |-> Len(crc) % SizeModulus]

Finish ==
  /\ phase = "writing" /\ phase' = "none"
  /\ gz_out' = gz_out \o <<Token("end", ""), Trailer(gz_crc)>>
  /\ UNCHANGED <<gz_crc, original, readerVars>>

\* The bytes reach a reader whole, cut short, or with one token damaged.
Deliver(d) ==
  /\ phase = "none" /\ gz_out # <<>> /\ phase' = "reading" /\ zdata' = d
  /\ UNCHANGED <<gz_out, gz_crc, original, cursor, gstate, crc_read, filled, size, restored, gz_error>>

Deliveries ==
  {gz_out} \cup {SubSeq(gz_out, 1, n) : n \in 0 .. Len(gz_out)}
  \cup {[gz_out EXCEPT ![i] = Token("damaged", "")] : i \in 1 .. Len(gz_out)}
-----------------------------------------------------------------------------
(* GzipReader *)

Reading == phase = "reading" /\ size > 0 /\ filled < size

At(t) == cursor < Len(zdata) /\ zdata[cursor + 1].t = t

Fails == /\ gz_error' = TRUE /\ size' = 0 /\ filled' = 0
         /\ UNCHANGED <<gz_out, gz_crc, original, phase, zdata, gstate, crc_read, restored>>

\* The caller, like read_all, stops at the first error.
StartRead(n) ==
  /\ phase = "reading" /\ ~gz_error /\ size = 0 /\ gstate # "done" /\ size' = n /\ filled' = 0
  /\ UNCHANGED <<gz_out, gz_crc, original, phase, zdata, cursor, gstate, crc_read, restored, gz_error>>

\* read returns when the buffer is full or everything is read.
ReadReturns ==
  /\ phase = "reading" /\ size > 0 /\ (filled = size \/ gstate = "done") /\ size' = 0
  /\ UNCHANGED <<gz_out, gz_crc, original, phase, zdata, cursor, gstate, crc_read, filled, restored, gz_error>>

begin_member ==
  /\ Reading /\ gstate = "header"
  /\ IF At("head")
     THEN /\ cursor' = cursor + 1 /\ crc_read' = <<>> /\ gstate' = "deflate"
          /\ UNCHANGED <<gz_out, gz_crc, original, phase, zdata, filled, size, restored, gz_error>>
     ELSE Fails /\ UNCHANGED cursor

\* inflate gives one byte; damaged data is an error or, as zlib cannot always tell, another byte.
Inflate ==
  /\ Reading /\ gstate = "deflate" /\ (At("byte") \/ At("damaged"))
  /\ LET b == IF At("byte") THEN zdata[cursor + 1].v ELSE "wrong" IN
     /\ cursor' = cursor + 1 /\ crc_read' = Append(crc_read, b)
     /\ restored' = Append(restored, b) /\ filled' = filled + 1
  /\ UNCHANGED <<gz_out, gz_crc, original, phase, zdata, gstate, size, gz_error>>

InflateEnds ==
  /\ Reading /\ gstate = "deflate" /\ At("end") /\ gstate' = "trailer" /\ cursor' = cursor + 1
  /\ UNCHANGED <<gz_out, gz_crc, original, phase, zdata, crc_read, filled, size, restored, gz_error>>

InflateFails ==
  /\ Reading /\ gstate = "deflate" /\ ~At("byte") /\ ~At("end") /\ Fails /\ UNCHANGED cursor

\* Mutant: the checksum is compared with nothing.
LengthOnly(t) == Len(crc_read) % SizeModulus = t.isize

TrailerMatches(t) == crc_read = t.crc /\ Len(crc_read) % SizeModulus = t.isize

\* Mutant: a reader that stops behind the first member.
OneMember == "done"

AfterMember == IF cursor + 1 < Len(zdata) THEN "header" ELSE "done"

\* finish_member: a mismatch is reported with the cursor behind the trailer.
finish_member ==
  /\ Reading /\ gstate = "trailer"
  /\ IF At("trailer") /\ TrailerMatches(zdata[cursor + 1])
     THEN /\ cursor' = cursor + 1 /\ gstate' = AfterMember
          /\ UNCHANGED <<gz_out, gz_crc, original, phase, zdata, crc_read, filled, size, restored, gz_error>>
     ELSE Fails /\ cursor' = IF cursor < Len(zdata) THEN cursor + 1 ELSE cursor
-----------------------------------------------------------------------------
GzipInit ==
  /\ gz_out = <<>> /\ gz_crc = <<>> /\ original = <<>> /\ phase = "none"
  /\ zdata = <<>> /\ cursor = 0 /\ gstate = "header" /\ crc_read = <<>>
  /\ filled = 0 /\ size = 0 /\ restored = <<>> /\ gz_error = FALSE

GzipNext ==
  \/ NewWriter \/ Finish \/ (\E b \in GzipBytes : GzipWrite(b))
  \/ (\E d \in Deliveries : Deliver(d))
  \/ (\E n \in 1 .. MaxBuffer : StartRead(n))
  \/ ReadReturns \/ begin_member \/ Inflate \/ InflateEnds \/ InflateFails \/ finish_member

-----------------------------------------------------------------------------
(* Properties *)

Boundaries == {i \in 0 .. Len(gz_out) : i = 0 \/ gz_out[i].t = "trailer"}

\* Every read that ended well gave the data of whole members: a reader that is
\* done has restored exactly what went into the members it was delivered,
\* whatever the sizes of its buffers, and a stream that was damaged or cut
\* inside a member is never read to the end.
GzipSound ==
  gstate = "done" =>
    /\ \E n \in Boundaries : zdata = SubSeq(gz_out, 1, n)
    /\ IsPrefix(restored, original)
    /\ zdata = gz_out => restored = original
=============================================================================
