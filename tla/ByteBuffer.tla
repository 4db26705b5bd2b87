----------------------------- MODULE ByteBuffer -----------------------------
(***************************************************************************)
(* BytesMut and Bytes (core/bytes.{hpp,cpp}): a buffer that grows, values  *)
(* of fixed width in both byte orders, varints and zigzag, the read cursor *)
(* and what freeze, slice, copies and truncate do to it.                   *)
(*                                                                         *)
(* A byte is a number below Base; its upper half marks a varint that goes  *)
(* on.  Memory that was allocated and not written holds "junk".            *)
(***************************************************************************)
EXTENDS Integers, Sequences, FiniteSets, SequencesExt

CONSTANTS
  Base,         \* 256: one more than the largest byte (even)
  VarBits,      \* 32 or 64: the width of a varint's value
  GroupBits,    \* 7: the bits of it in one byte; Base is 2 ^ (GroupBits + 1)
  MinCapacity,  \* 32: the smallest buffer that is allocated
  SizeMax,      \* SIZE_MAX; also bounds the buffer
  MaxPuts,      \* bound: values written
  MaxWireBytes  \* bound: the bytes of an input nobody wrote with this class

VARIABLES
  data_,        \* the allocation, capacity_ bytes
  len_, pos_,
  frozen,       \* it has become a Bytes
  puts,         \* history: the values between 0 and len_, [codec, value, end]
  nread,        \* history: how many of them are behind the cursor
  wire          \* an input to read varints from

vars == <<data_, len_, pos_, frozen, puts, nread, wire>>

capacity_ == Len(data_)
-----------------------------------------------------------------------------
(* The encodings *)

Group == 2 ^ GroupBits
MaxGroups == (VarBits + GroupBits - 1) \div GroupBits
LastMax == 2 ^ (VarBits - GroupBits * (MaxGroups - 1)) - 1

put_be(n, v) == [i \in 1..n |-> (v \div Base ^ (n - i)) % Base]
put_le(n, v) == [i \in 1..n |-> (v \div Base ^ (i - 1)) % Base]

\* The shortest encoding: groups from the lowest, all but the last marked.
put_var(v) ==
  LET n == CHOOSE k \in 1..MaxGroups : v < Group ^ k /\ (k = 1 \/ v >= Group ^ (k - 1))
  IN [i \in 1..n |-> ((v \div Group ^ (i - 1)) % Group) + (IF i < n THEN Group ELSE 0)]

\* (val << 1) ^ (val >> 31), and back, in VarBits bits.
zigzag_encode(v) ==
  LET shifted == (2 * v) % 2 ^ VarBits IN IF v < 0 THEN 2 ^ VarBits - 1 - shifted ELSE shifted
zigzag_decode(u) == IF u % 2 = 1 THEN -(u \div 2) - 1 ELSE u \div 2

Read(value, pos) == [ok |-> TRUE, value |-> value, pos |-> pos]
Fails(error, pos) == [ok |-> FALSE, value |-> error, pos |-> pos]

Weighed(s, w) == FoldLeft(LAMBDA acc, i : acc + s[i] * w[i], 0, [i \in DOMAIN w |-> i])

\* Fewer than n bytes are left: the cursor does not move.
get_be(s, pos, n) ==
  IF pos + n > Len(s) THEN Fails("Underflow", pos)
  ELSE Read(Weighed(SubSeq(s, pos + 1, pos + n), [i \in 1..n |-> Base ^ (n - i)]), pos + n)
get_le(s, pos, n) ==
  IF pos + n > Len(s) THEN Fails("Underflow", pos)
  ELSE Read(Weighed(SubSeq(s, pos + 1, pos + n), [i \in 1..n |-> Base ^ (i - 1)]), pos + n)

\* Mutant: a padded encoding is taken.
TakesPadded(i, byte) == i = MaxGroups - 1 /\ byte > LastMax

\* The byte at i is not one a shortest encoding has there.
Malformed(i, byte) == (i > 0 /\ byte = 0) \/ (i = MaxGroups - 1 /\ byte > LastMax)

\* Byte by byte until one ends it, is malformed or is missing.
get_var(s, pos) ==
  LET rest == SubSeq(s, pos + 1, Len(s))
      Stops(i) == i >= Len(rest) \/ Malformed(i, rest[i + 1]) \/ rest[i + 1] < Group
      at == CHOOSE i \in 0..MaxGroups : (i = MaxGroups \/ Stops(i)) /\ \A j \in 0..(i - 1) : ~Stops(j)
  IN IF at < MaxGroups /\ at >= Len(rest) THEN Fails("Underflow", pos)
     ELSE IF at = MaxGroups \/ Malformed(at, rest[at + 1]) THEN Fails("MalformedVarint", pos)
     ELSE Read(Weighed([i \in 1..(at + 1) |-> rest[i] % Group],
                       [i \in 1..(at + 1) |-> Group ^ (i - 1)]), pos + at + 1)

Codecs == {"u8", "u16_be", "u16_le", "var", "zigzag"}
\* Values at the edges of what a codec can hold.
ValuesOf(c) ==
  CASE c = "u8" -> {Base - 1} [] c \in {"u16_be", "u16_le"} -> {Base + 2}
    [] c = "var" -> {Group, 2 ^ VarBits - 1}
    [] OTHER -> {-(2 ^ (VarBits - 1))}

Encoded(c, v) ==
  CASE c = "u8" -> <<v>> [] c = "u16_be" -> put_be(2, v) [] c = "u16_le" -> put_le(2, v)
    [] c = "var" -> put_var(v) [] OTHER -> put_var(zigzag_encode(v))

\* What ensure_writable asks for: a varint's longest encoding.
Reserved(c) == IF c \in {"var", "zigzag"} THEN MaxGroups ELSE Len(Encoded(c, 0))

Get(s, pos, c) ==
  CASE c = "u8" -> get_be(s, pos, 1) [] c = "u16_be" -> get_be(s, pos, 2)
    [] c = "u16_le" -> get_le(s, pos, 2) [] c = "var" -> get_var(s, pos)
    [] OTHER -> LET r == get_var(s, pos) IN IF r.ok THEN Read(zigzag_decode(r.value), r.pos) ELSE r
-----------------------------------------------------------------------------
(* BytesMut and Bytes *)

Init ==
  /\ data_ = <<>> /\ len_ = 0 /\ pos_ = 0 /\ frozen = FALSE
  /\ puts = <<>> /\ nread = 0 /\ wire = <<>>

Largest(S) == CHOOSE n \in S : \A m \in S : m <= n

\* Mutant: twice as much is taken to be enough.
Doubles(min_capacity) == Largest({(2 * capacity_) % (SizeMax + 1), MinCapacity})

\* Twice the size, unless that overflows or is not enough, and not too small.
NewCapacity(min_capacity) ==
  Largest({(2 * capacity_) % (SizeMax + 1), min_capacity, MinCapacity})

\* The allocation after ensure_writable(needed): what is not copied is junk.
ensure_writable(needed) ==
  IF len_ + needed <= capacity_ THEN data_
  ELSE [i \in 1..NewCapacity(len_ + needed) |-> IF i <= len_ THEN data_[i] ELSE "junk"]

\* A size that would overflow is refused (length_error) and changes nothing.
Put(c, v) ==
  /\ ~frozen /\ Len(puts) < MaxPuts
  /\ Reserved(c) <= SizeMax - len_
  /\ LET e == Encoded(c, v)
         room == ensure_writable(Reserved(c))
     IN /\ data_' = [i \in DOMAIN room |-> IF i - len_ \in DOMAIN e THEN e[i - len_] ELSE room[i]]
        /\ len_' = len_ + Len(e)
        /\ puts' = Append(puts, [codec |-> c, value |-> v, end |-> len_ + Len(e)])
  /\ UNCHANGED <<pos_, frozen, nread, wire>>

reserve(additional) ==
  /\ ~frozen /\ additional <= SizeMax - len_
  /\ data_' = ensure_writable(additional)
  /\ UNCHANGED <<len_, pos_, frozen, puts, nread, wire>>

Content == SubSeq(data_, 1, len_)

\* A typed read of the next value, or advance over it.
GetNext ==
  /\ nread < Len(puts)
  /\ pos_' = Get(Content, pos_, puts[nread + 1].codec).pos
  /\ nread' = nread + 1
  /\ UNCHANGED <<data_, len_, frozen, puts, wire>>

clear ==
  /\ ~frozen
  /\ len_' = 0 /\ pos_' = 0 /\ puts' = <<>> /\ nread' = 0
  /\ UNCHANGED <<data_, frozen, wire>>

truncate(n) ==
  /\ ~frozen /\ n < Len(puts)
  /\ len_' = IF n = 0 THEN 0 ELSE puts[n].end
  /\ pos_' = IF pos_ > len_' THEN len_' ELSE pos_
  /\ puts' = SubSeq(puts, 1, n) /\ nread' = IF nread > n THEN n ELSE nread
  /\ UNCHANGED <<data_, frozen, wire>>

\* A deep copy is as large as its content.
Copy ==
  /\ ~frozen
  /\ data_' = Content
  /\ UNCHANGED <<len_, pos_, frozen, puts, nread, wire>>

\* The frozen Bytes is read from its first byte, whatever had been read.
freeze ==
  /\ ~frozen /\ frozen' = TRUE
  /\ data_' = IF len_ = 0 THEN <<>> ELSE data_
  /\ pos_' = 0 /\ nread' = 0
  /\ UNCHANGED <<len_, puts, wire>>

\* The slice that holds the values from m + 1 to n; it has a cursor of its own.
slice(m, n) ==
  LET begin == IF m = 0 THEN 0 ELSE puts[m].end IN
  /\ frozen
  /\ data_' = SubSeq(data_, begin + 1, puts[n].end) /\ len_' = puts[n].end - begin
  /\ pos_' = 0 /\ nread' = 0
  /\ puts' = [i \in 1..(n - m) |-> [puts[m + i] EXCEPT !.end = @ - begin]]
  /\ UNCHANGED <<frozen, wire>>

\* One more byte of an input that was written elsewhere.
Arrives(b) ==
  /\ data_ = <<>> /\ Len(wire) < MaxWireBytes
  /\ wire' = Append(wire, b)
  /\ UNCHANGED <<data_, len_, pos_, frozen, puts, nread>>

Next ==
  \/ /\ wire = <<>>
     /\ \/ \E c \in Codecs : \E v \in ValuesOf(c) : Put(c, v)
        \/ GetNext \/ clear \/ Copy \/ freeze
        \/ \E n \in {1, SizeMax - len_} : reserve(n)
        \/ \E n \in 0..MaxPuts : truncate(n)
        \/ \E n \in DOMAIN puts : \E m \in 0..(n - 1) : slice(m, n)
  \/ \E b \in 0..(Base - 1) : Arrives(b)

Spec == Init /\ [][Next]_vars
-----------------------------------------------------------------------------
\* What is left to read is what was written, value by value and to the last
\* byte, however the buffer was grown, copied, cut, frozen and sliced.
ReadsWhatWasWritten ==
  LET Step(at, p) == IF at = SizeMax + 1 \/ ~Get(Content, at, p.codec).ok
                        \/ Get(Content, at, p.codec).value # p.value
                     THEN SizeMax + 1 ELSE Get(Content, at, p.codec).pos
  IN /\ 0 <= pos_ /\ pos_ <= len_ /\ len_ <= capacity_
     /\ FoldLeft(Step, pos_, SubSeq(puts, nread + 1, Len(puts))) = len_

\* A varint that is accepted is the shortest encoding of its value, and one that
\* is not leaves the cursor where it was: what is missing can be waited for.
VarintsAreCanonical ==
  LET r == get_var(wire, 0) IN
    /\ r.ok => SubSeq(wire, 1, r.pos) = put_var(r.value) /\ r.value < 2 ^ VarBits
    /\ ~r.ok => r.pos = 0
    /\ ~r.ok /\ r.value = "Underflow" =>
         \E v \in 0..(2 ^ VarBits - 1) : IsPrefix(wire, put_var(v))

\* Together.
ByteBufferSound == ReadsWhatWasWritten /\ VarintsAreCanonical
=============================================================================
