-------------------------------- MODULE Text --------------------------------
(***************************************************************************)
(* The Unicode core of str: the UTF-8 scanner and codec (utf8_util.cpp),   *)
(* the byte-level operations of Utf8StringRef, the conversions between     *)
(* UTF-8, UTF-16, UTF-32 and Latin-1 (conversion.cpp) and Utf16String with *)
(* its builder.  Bytes and code units are the real numbers; a text is      *)
(* built byte by byte (anything a caller may hand in) or code point by     *)
(* code point (Utf8StringBuilder), a UTF-16 text by the builder's edits.   *)
(***************************************************************************)
EXTENDS Integers, Sequences, FiniteSets, SequencesExt

CONSTANTS
  Bytes, MaxBytes,     \* bytes appended, and how many (bound)
  Points, MaxPoints,   \* code points appended, and how many (bound)
  Units, MaxUnits      \* UTF-16 code units put into the builder, and how many (bound)

VARIABLES bytes, points, units

vars == <<bytes, points, units>>

-----------------------------------------------------------------------------
(* utf8_util                                                                *)

utf8_code_point_bytes(b) ==
  CASE b < 128 -> 1 [] b \div 32 = 6 -> 2 [] b \div 16 = 14 -> 3 [] b \div 8 = 30 -> 4 [] OTHER -> 0

utf8_code_point_bytes_safe(b) == IF utf8_code_point_bytes(b) > 0 THEN utf8_code_point_bytes(b) ELSE 1

Continuation(b) == b \div 64 = 2

utf8_valid_continuation(s, pos, n) == \A i \in 1..(n - 1) : Continuation(s[pos + i])

\* The value of the n bytes at pos; the first one carries 7, 5, 4 or 3 bits.
utf8_sequence_value(s, pos, n) ==
  FoldLeft(LAMBDA v, b : (v * 64) + (b % 64), s[pos] % (IF n = 1 THEN 128 ELSE 2^(7 - n)),
           SubSeq(s, pos + 1, pos + n - 1))

utf8_decode_code_point(s, pos) == utf8_sequence_value(s, pos, utf8_code_point_bytes(s[pos]))

Surrogate(cp) == cp \in 55296..57343

SkipsOverlong(cp, n) == ~(n = 3 /\ Surrogate(cp)) /\ ~(n = 4 /\ cp > 1114111)

utf8_sequence_valid(cp, n) ==
  /\ n = 2 => cp >= 128
  /\ n = 3 => cp >= 2048 /\ ~Surrogate(cp)
  /\ n = 4 => cp \in 65536..1114111

utf8_encode_code_point(cp) ==
  CASE cp > 1114111 \/ Surrogate(cp) -> <<>>
    [] cp < 128 -> <<cp>>
    [] cp < 2048 -> <<192 + (cp \div 64), 128 + (cp % 64)>>
    [] cp < 65536 -> <<224 + (cp \div 4096), 128 + ((cp \div 64) % 64), 128 + (cp % 64)>>
    [] OTHER -> <<240 + (cp \div 262144), 128 + ((cp \div 4096) % 64), 128 + ((cp \div 64) % 64), 128 + (cp % 64)>>

\* The shape every scanner asks for: a leading byte and its continuation bytes.
Shaped(s, pos) ==
  LET n == utf8_code_point_bytes(s[pos])
  IN n # 0 /\ pos + n - 1 <= Len(s) /\ utf8_valid_continuation(s, pos, n)

WellFormed(s, pos) ==
  Shaped(s, pos) /\ utf8_sequence_valid(utf8_decode_code_point(s, pos), utf8_code_point_bytes(s[pos]))

Refused == -1

\* Counts code points, or Refused (the code's 0 with *invalid_pos set).
RECURSIVE utf8_count_code_points(_, _)
utf8_count_code_points(s, pos) ==
  IF pos > Len(s) THEN 0
  ELSE IF ~WellFormed(s, pos) THEN Refused
  ELSE LET rest == utf8_count_code_points(s, pos + utf8_code_point_bytes(s[pos]))
       IN IF rest = Refused THEN Refused ELSE rest + 1

RECURSIVE utf8_is_valid(_, _)
utf8_is_valid(s, pos) ==
  pos > Len(s) \/ (WellFormed(s, pos) /\ utf8_is_valid(s, pos + utf8_code_point_bytes(s[pos])))

-----------------------------------------------------------------------------
(* conversion.cpp: a result is a sequence, or NoText for a refusal (0)      *)

NoText == <<Refused>>

Convertible(s, pos) ==
  Shaped(s, pos) /\ LET cp == utf8_decode_code_point(s, pos) IN cp <= 1114111 /\ ~Surrogate(cp)

RECURSIVE utf8_to_utf32(_, _)
utf8_to_utf32(s, pos) ==
  IF pos > Len(s) THEN <<>>
  ELSE IF ~Convertible(s, pos) THEN NoText
  ELSE LET rest == utf8_to_utf32(s, pos + utf8_code_point_bytes(s[pos]))
       IN IF rest = NoText THEN NoText ELSE <<utf8_decode_code_point(s, pos)>> \o rest

encode_pair(cp) == <<55296 + ((cp - 65536) \div 1024), 56320 + ((cp - 65536) % 1024)>>

UnitsOf(cp) == IF cp >= 65536 THEN encode_pair(cp) ELSE <<cp>>

RECURSIVE utf8_to_utf16(_, _)
utf8_to_utf16(s, pos) ==
  IF pos > Len(s) THEN <<>>
  ELSE IF ~Convertible(s, pos) THEN NoText
  ELSE LET rest == utf8_to_utf16(s, pos + utf8_code_point_bytes(s[pos]))
       IN IF rest = NoText THEN NoText ELSE UnitsOf(utf8_decode_code_point(s, pos)) \o rest

\* The first pass of the two-pass conversions: it sizes the buffer.
RECURSIVE utf8_to_utf16_length(_, _)
utf8_to_utf16_length(s, pos) ==
  IF pos > Len(s) THEN 0
  ELSE IF ~Convertible(s, pos) THEN Refused
  ELSE LET rest == utf8_to_utf16_length(s, pos + utf8_code_point_bytes(s[pos]))
       IN IF rest = Refused THEN Refused
          ELSE rest + (IF utf8_decode_code_point(s, pos) >= 65536 THEN 2 ELSE 1)

Lead(u) == u \in 55296..56319
Trail(u) == u \in 56320..57343
decode_pair(high, low) == 65536 + (high - 55296) * 1024 + (low - 56320)

\* The code point at i of a UTF-16 text and the units it takes, or none.
ReadUnits(u, i) ==
  IF Lead(u[i]) THEN IF i < Len(u) /\ Trail(u[i + 1]) THEN <<decode_pair(u[i], u[i + 1]), 2>> ELSE <<>>
  ELSE IF Trail(u[i]) THEN <<>> ELSE <<u[i], 1>>

RECURSIVE utf16_to_utf8(_, _)
utf16_to_utf8(u, i) ==
  IF i > Len(u) THEN <<>>
  ELSE IF ReadUnits(u, i) = <<>> THEN NoText
  ELSE LET rest == utf16_to_utf8(u, i + ReadUnits(u, i)[2])
       IN IF rest = NoText THEN NoText ELSE utf8_encode_code_point(ReadUnits(u, i)[1]) \o rest

ByteCount(cp) == IF cp < 128 THEN 1 ELSE IF cp < 2048 THEN 2 ELSE IF cp < 65536 THEN 3 ELSE 4

RECURSIVE utf16_to_utf8_length(_, _)
utf16_to_utf8_length(u, i) ==
  IF i > Len(u) THEN 0
  ELSE IF ReadUnits(u, i) = <<>> THEN Refused
  ELSE LET rest == utf16_to_utf8_length(u, i + ReadUnits(u, i)[2])
       IN IF rest = Refused THEN Refused ELSE rest + ByteCount(ReadUnits(u, i)[1])

utf32_to_utf8(cps) ==
  IF \E i \in DOMAIN cps : utf8_encode_code_point(cps[i]) = <<>> THEN NoText
  ELSE FlattenSeq([i \in DOMAIN cps |-> utf8_encode_code_point(cps[i])])

latin1_to_utf8(s) ==
  FlattenSeq([i \in DOMAIN s |-> IF s[i] < 128 THEN <<s[i]>> ELSE <<192 + (s[i] \div 64), 128 + (s[i] % 64)>>])

RECURSIVE utf8_to_latin1(_, _)
utf8_to_latin1(s, pos) ==
  IF pos > Len(s) THEN <<>>
  ELSE IF ~Shaped(s, pos) \/ utf8_decode_code_point(s, pos) > 255 THEN NoText
  ELSE LET rest == utf8_to_latin1(s, pos + utf8_code_point_bytes(s[pos]))
       IN IF rest = NoText THEN NoText ELSE <<utf8_decode_code_point(s, pos)>> \o rest

-----------------------------------------------------------------------------
(* Utf8StringRef.  Positions are 1-based; pos = Len(s) + 1 is the end.      *)

RECURSIVE Advance(_, _, _)
Advance(s, pos, n) ==
  IF n = 0 \/ pos > Len(s) THEN pos ELSE Advance(s, pos + utf8_code_point_bytes_safe(s[pos]), n - 1)

code_point_at(s, index) ==
  LET pos == Advance(s, 1, index) IN IF pos > Len(s) THEN 0 ELSE utf8_decode_code_point(s, pos)

slice(s, from, to) == IF from > to \/ from > Len(s) THEN <<>> ELSE SubSeq(s, from, to)

slice_by_cp(s, cp_start, cp_count) ==
  IF cp_start >= utf8_count_code_points(s, 1) \/ cp_count = 0 THEN <<>>
  ELSE LET start == Advance(s, 1, cp_start) IN slice(s, start, Advance(s, start, cp_count) - 1)

MatchesAt(s, pos, needle) == pos + Len(needle) - 1 <= Len(s) /\ SubSeq(s, pos, pos + Len(needle) - 1) = needle

\* The first byte position, stepping by code points, where needle is found.
RECURSIVE FindFrom(_, _, _)
FindFrom(s, pos, needle) ==
  IF pos + Len(needle) - 1 > Len(s) THEN 0
  ELSE IF MatchesAt(s, pos, needle) THEN pos
  ELSE FindFrom(s, pos + utf8_code_point_bytes_safe(s[pos]), needle)

index_of(s, needle, start_cp) ==
  LET found == FindFrom(s, Advance(s, 1, start_cp), needle)
  IN IF needle = <<>> \/ Len(needle) > Len(s) \/ found = 0 THEN Refused
     ELSE utf8_count_code_points(SubSeq(s, 1, found - 1), 1)

is_space(cp) == cp \in {9, 10, 11, 12, 13, 32, 160, 12288}

RECURSIVE SkipSpace(_, _)
SkipSpace(s, pos) ==
  IF pos > Len(s) \/ ~is_space(utf8_decode_code_point(s, pos)) THEN pos
  ELSE SkipSpace(s, pos + utf8_code_point_bytes_safe(s[pos]))

trim_start(s) == slice(s, SkipSpace(s, 1), Len(s))

RECURSIVE StartOfLast(_, _)
StartOfLast(s, prev) == IF prev > 1 /\ Continuation(s[prev]) THEN StartOfLast(s, prev - 1) ELSE prev

RECURSIVE trim_end(_)
trim_end(s) ==
  IF s = <<>> THEN s
  ELSE LET prev == StartOfLast(s, Len(s))
       IN IF utf8_code_point_bytes(s[prev]) = 0 \/ ~is_space(utf8_decode_code_point(s, prev)) THEN s
          ELSE trim_end(SubSeq(s, 1, prev - 1))

trim(s) == trim_end(trim_start(s))

RECURSIVE Parts(_, _, _)
Parts(s, start, d) ==
  LET found == FindFrom(s, start, d)
  IN IF found = 0 THEN <<slice(s, start, Len(s))>>
     ELSE <<slice(s, start, found - 1)>> \o Parts(s, found + Len(d), d)

split(s, d) == IF s = <<>> THEN <<>> ELSE IF d = <<>> THEN <<s>> ELSE Parts(s, 1, d)

join(parts, d) ==
  FlattenSeq([i \in DOMAIN parts |-> IF i > 1 THEN d \o parts[i] ELSE parts[i]])

replace_all(s, from, to) == IF from = <<>> THEN s ELSE join(split(s, from), to)

RECURSIVE compare(_, _)
compare(s, t) ==
  CASE s = <<>> /\ t = <<>> -> 0
    [] s = <<>> -> -1
    [] t = <<>> -> 1
    [] s[1] # t[1] -> s[1] - t[1]
    [] OTHER -> compare(Tail(s), Tail(t))

-----------------------------------------------------------------------------
(* Utf16StringRef and Utf16StringBuilder                                    *)

utf16_code_point_at(u, i) ==
  IF i > Len(u) THEN 0
  ELSE IF Lead(u[i]) /\ i < Len(u) /\ Trail(u[i + 1]) THEN decode_pair(u[i], u[i + 1]) ELSE u[i]

RECURSIVE utf16_index_of(_, _, _)
utf16_index_of(u, needle, from) ==
  IF from + Len(needle) - 1 > Len(u) THEN 0
  ELSE IF MatchesAt(u, from, needle) THEN from ELSE utf16_index_of(u, needle, from + 1)

RECURSIVE utf16_last_index_of(_, _, _)
utf16_last_index_of(u, needle, from) ==
  IF Len(needle) > Len(u) \/ from < 1 THEN 0
  ELSE IF MatchesAt(u, from, needle) THEN from ELSE utf16_last_index_of(u, needle, from - 1)

RECURSIVE reverse(_)
reverse(u) ==
  LET n == Len(u)
  IN IF n = 0 THEN <<>>
     ELSE IF n >= 2 /\ Trail(u[n]) /\ Lead(u[n - 1]) THEN <<u[n - 1], u[n]>> \o reverse(SubSeq(u, 1, n - 2))
     ELSE <<u[n]>> \o reverse(SubSeq(u, 1, n - 1))

ReversesUnits(u) == Reverse(u)

Reversed(u) == reverse(u)

delete_range(u, begin, end) ==
  IF begin > Len(u) \/ begin > end THEN u ELSE SubSeq(u, 1, begin - 1) \o SubSeq(u, end + 1, Len(u))

insert(u, index, w) ==
  LET at == IF index > Len(u) THEN Len(u) ELSE index IN SubSeq(u, 1, at) \o w \o SubSeq(u, at + 1, Len(u))

-----------------------------------------------------------------------------
Init == bytes = <<>> /\ points = 0 /\ units = <<>>

\* A caller's buffer.
AppendByte(b) ==
  /\ points = 0 /\ Len(bytes) < MaxBytes
  /\ bytes' = Append(bytes, b)
  /\ UNCHANGED <<points, units>>

\* Utf8StringBuilder::append_code_point
append_code_point(cp) ==
  /\ points < MaxPoints /\ (points = 0 => bytes = <<>>)
  /\ bytes' = bytes \o utf8_encode_code_point(cp)
  /\ points' = points + 1
  /\ UNCHANGED units

\* Utf16StringBuilder: each edit of the buffer
EditUnits(u) == Len(u) <= MaxUnits /\ units' = u /\ UNCHANGED <<bytes, points>>

Next ==
  \/ \E b \in Bytes : AppendByte(b) /\ units = <<>>
  \/ \E cp \in Points : append_code_point(cp) /\ units = <<>>
  \/ \E i \in 0..MaxUnits, w \in Units : EditUnits(insert(units, i, <<w>>)) /\ bytes = <<>>
  \/ \E cp \in Points : EditUnits(units \o UnitsOf(cp)) /\ bytes = <<>>
  \/ \E i, j \in 1..Len(units) : EditUnits(delete_range(units, i, j))
  \/ EditUnits(Reversed(units))

Spec == Init /\ [][Next]_vars

-----------------------------------------------------------------------------
Valid == utf8_is_valid(bytes, 1)
Cps == utf8_to_utf32(bytes, 1)
Needles == {utf32_to_utf8(<<p>>) : p \in Points} \cup {utf32_to_utf8(<<p, q>>) : p, q \in Points}

\* The scanner accepts exactly the shortest encodings of scalar values, and
\* counts them: a text is valid iff decoding and encoding it gives it back.
ValidIsCanonical ==
  /\ Valid <=> Cps # NoText /\ utf32_to_utf8(Cps) = bytes
  /\ utf8_count_code_points(bytes, 1) = IF Valid THEN Len(Cps) ELSE Refused

\* The conversions invert each other, and the pass that sizes the buffer
\* agrees with the pass that fills it.
ConversionsInvert ==
  /\ LET u == utf8_to_utf16(bytes, 1) IN
       /\ utf8_to_utf16_length(bytes, 1) = IF u = NoText THEN Refused ELSE Len(u)
       /\ Valid => utf16_to_utf8(u, 1) = bytes
  /\ LET b == utf16_to_utf8(units, 1) IN
       /\ utf16_to_utf8_length(units, 1) = IF b = NoText THEN Refused ELSE Len(b)
       /\ b # NoText => utf8_is_valid(b, 1) /\ utf8_to_utf16(b, 1) = units
  /\ utf8_to_latin1(latin1_to_utf8(bytes), 1) = bytes

FirstIndex(cps, needle) ==
  LET at == {i \in 1..(Len(cps) + 1) : MatchesAt(cps, i, needle)}
  IN IF at = {} THEN Refused ELSE (CHOOSE i \in at : \A j \in at : i <= j) - 1

Sign(n) == IF n < 0 THEN -1 ELSE IF n > 0 THEN 1 ELSE 0

\* On valid text the byte-level operations are those on code points: slices,
\* searches, splits and trims never cut one and never find half of one, and
\* the byte order is the code point order.
BytesActAsCodePoints ==
  Valid =>
    /\ \A i \in 0..(Len(Cps) + 1), n \in 0..Len(Cps) :
         /\ slice_by_cp(bytes, i, n) = utf32_to_utf8(SubSeq(Cps, i + 1, IF i + n > Len(Cps) THEN Len(Cps) ELSE i + n))
         /\ code_point_at(bytes, i) = IF i < Len(Cps) THEN Cps[i + 1] ELSE 0
    /\ \A d \in Needles :
         LET needle == utf8_to_utf32(d, 1) IN
         /\ index_of(bytes, d, 0) = FirstIndex(Cps, needle)
         /\ replace_all(bytes, d, d) = bytes
         /\ \A i \in DOMAIN split(bytes, d) : index_of(split(bytes, d)[i], d, 0) = Refused
         /\ Sign(compare(bytes, d)) = Sign(compare(Cps, needle))
    /\ LET t == trim(bytes)
           kept == {i \in DOMAIN Cps : ~is_space(Cps[i])}
       IN IF kept = {} THEN t = <<>>
          ELSE \E a, z \in kept : /\ \A i \in kept : a <= i /\ i <= z
                                  /\ t = utf32_to_utf8(SubSeq(Cps, a, z))

\* Reversing keeps surrogate pairs whole, so that well-formed text stays so
\* and reads backwards; the searches find the first and the last match.
PairsStayWhole ==
  LET b == utf16_to_utf8(units, 1)
  IN /\ b # NoText => utf8_to_utf32(utf16_to_utf8(Reversed(units), 1), 1) = Reverse(utf8_to_utf32(b, 1))
     /\ b # NoText => LET cps == utf8_to_utf32(b, 1)
                      IN cps # <<>> => utf16_code_point_at(units, 1) = cps[1]
     /\ \A w \in Units :
          LET at == {i \in DOMAIN units : units[i] = w} IN
          /\ utf16_index_of(units, <<w>>, 1) = IF at = {} THEN 0 ELSE CHOOSE i \in at : \A j \in at : i <= j
          /\ utf16_last_index_of(units, <<w>>, Len(units)) =
               IF at = {} THEN 0 ELSE CHOOSE i \in at : \A j \in at : i >= j

\* Together.
TextSound == ValidIsCanonical /\ ConversionsInvert /\ BytesActAsCodePoints /\ PairsStayWhole

\* conversion.hpp: the conversions give 0 for an input that is not UTF-8.
OnlyValidIsConverted == utf8_to_utf16(bytes, 1) # NoText => Valid
=============================================================================
