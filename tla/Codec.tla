------------------------------- MODULE Codec -------------------------------
(***************************************************************************)
(* The algorithms of crypto (and the URL codecs of str::StringUtil) whose  *)
(* correctness is a matter of structure: the text encodings, the block     *)
(* modes, padding and counters, the inner structure of AES and DES, and    *)
(* the key derivations built on HMAC.                                      *)
(*                                                                         *)
(* The tables are abstracted: the S-box of AES is some permutation, the    *)
(* round function of DES some function, the block cipher of the modes some *)
(* permutation of short blocks, HMAC an uninterpreted term.  What is       *)
(* checked holds for the real tables if it holds for any.                  *)
(***************************************************************************)
EXTENDS Integers, Sequences, FiniteSets, SequencesExt, Bitwise

CONSTANTS
  Octets, MaxOctets,     \* bytes of a message to encode, and how many (bound)
  Symbols, MaxSymbols,   \* digits of a text to decode, and how many (bound)
  Radix,                 \* values of a byte in the block modes
  BlockBytes,            \* bytes of a block in the block modes
  MaxPlain               \* bound: bytes of a message in the block modes

VARIABLES octets, symbols, plain

vars == <<octets, symbols, plain>>

Refused == <<-1>>
Pad == 64       \* '='
Bad == 65       \* any character outside the alphabet

-----------------------------------------------------------------------------
(* Digits of w bits.  The code's accumulators are bit strings here.         *)

BitsOf(v, w) == [i \in 1..w |-> (v \div 2^(w - i)) % 2]
Bits(s, w) == FlattenSeq([i \in DOMAIN s |-> BitsOf(s[i], w)])
ValueOf(bits) == FoldLeft(LAMBDA v, b : (2 * v) + b, 0, bits)
Digits(bits, w) == [i \in 1..(Len(bits) \div w) |-> ValueOf(SubSeq(bits, ((i - 1) * w) + 1, i * w))]
Zeros(n) == [i \in 1..n |-> 0]
Missing(n, m) == (m - (n % m)) % m

\* Whole digits of `from` bits as digits of `to` bits, zero bits at the end.
Regroup(s, from, to) == LET b == Bits(s, from) IN Digits(b \o Zeros(Missing(Len(b), to)), to)

Padded(digits, group) == digits \o [i \in 1..Missing(Len(digits), group) |-> Pad]

base64_encode(s) == Padded(Regroup(s, 8, 6), 4)

base32_encode(s, padding) == IF padding THEN Padded(Regroup(s, 8, 5), 8) ELSE Regroup(s, 8, 5)

hex_encode(s) == Regroup(s, 8, 4)

base64_url_encode(s, padding) == IF padding THEN Padded(Regroup(s, 8, 6), 4) ELSE Regroup(s, 8, 6)

\* The data before the first pad.
DataOf(t) == SelectSeq(t, LAMBDA c : c # Pad)
PadsAtEnd(t) == \A i, j \in DOMAIN t : i < j /\ t[i] = Pad => t[j] = Pad

AnySpare(s, w) == TRUE

\* The bits that do not fill a byte must be zero (canonical encoding).
SpareBitsZero(s, w) ==
  LET b == Bits(s, w) IN \A i \in DOMAIN b : i > Len(b) - (Len(b) % 8) => b[i] = 0

Decoded(s, w) == LET b == Bits(s, w) IN Digits(SubSeq(b, 1, Len(b) - (Len(b) % 8)), 8)

base64_decode(t) ==
  LET d == DataOf(t) IN
  IF /\ Len(t) % 4 = 0 /\ PadsAtEnd(t) /\ Len(t) - Len(d) <= 2
     /\ \A i \in DOMAIN d : d[i] < 64
     /\ SpareBitsZero(d, 6)
  THEN Decoded(d, 6) ELSE Refused

base32_decode(t) ==
  LET d == DataOf(t) IN
  IF /\ PadsAtEnd(t) /\ Len(d) % 8 \notin {1, 3, 6}
     /\ Len(t) # Len(d) => Len(d) % 8 # 0 /\ Len(t) - Len(d) = 8 - (Len(d) % 8)
     /\ \A i \in DOMAIN d : d[i] < 32
     /\ SpareBitsZero(d, 5)
  THEN Decoded(d, 5) ELSE Refused

hex_decode(t) ==
  IF Len(t) % 2 = 0 /\ \A i \in DOMAIN t : t[i] < 16 THEN Decoded(t, 4) ELSE Refused

base64_url_decode(t) ==
  LET d == DataOf(t) IN
  IF /\ PadsAtEnd(t) /\ Len(t) - Len(d) <= 2 /\ Len(d) % 4 # 1
     /\ Len(t) # Len(d) => Missing(Len(d), 4) # 0 /\ Len(t) - Len(d) = Missing(Len(d), 4)
     /\ \A i \in DOMAIN d : d[i] < 64
     /\ SpareBitsZero(d, 6)
  THEN Decoded(d, 6) ELSE Refused

\* '%' is 37, '+' is 43, ' ' is 32; an escape is <<"%", high, low>>.
Unreserved(c) == c \in (48..57) \cup (65..90) \cup (97..122) \cup {45, 46, 95, 126}

HexDigit(n) == IF n < 10 THEN 48 + n ELSE 55 + n
HexValue(c) == IF c \in 48..57 THEN c - 48 ELSE IF c \in 65..70 THEN c - 55 ELSE IF c \in 97..102 THEN c - 87 ELSE -1

percent_encode(s, space_as_plus) ==
  FlattenSeq([i \in DOMAIN s |->
    CASE space_as_plus /\ s[i] = 32 -> <<43>>
      [] Unreserved(s[i]) -> <<s[i]>>
      [] OTHER -> <<37, HexDigit(s[i] \div 16), HexDigit(s[i] % 16)>>])

RECURSIVE percent_decode(_, _)
percent_decode(t, plus_as_space) ==
  LET rest(n) == percent_decode(SubSeq(t, n + 1, Len(t)), plus_as_space)
      then(c, n) == IF rest(n) = Refused THEN Refused ELSE <<c>> \o rest(n)
  IN CASE t = <<>> -> <<>>
       [] plus_as_space /\ t[1] = 43 -> then(32, 1)
       [] t[1] # 37 -> then(t[1], 1)
       [] Len(t) < 3 -> Refused
       [] HexValue(t[2]) < 0 \/ HexValue(t[3]) < 0 -> Refused
       [] OTHER -> then((HexValue(t[2]) * 16) + HexValue(t[3]), 3)

-----------------------------------------------------------------------------
(* Block modes over some permutation of blocks                              *)

XorBytes(a, b) == [i \in DOMAIN a |-> a[i] ^^ b[i]]

RECURSIVE Number(_)
Number(s) == IF s = <<>> THEN 0 ELSE (Number(SubSeq(s, 1, Len(s) - 1)) * Radix) + s[Len(s)]
BlockOf(v) == [i \in 1..BlockBytes |-> (v \div Radix^(BlockBytes - i)) % Radix]

Blocks == [1..BlockBytes -> 0..(Radix - 1)]
Encrypt(b) == BlockOf(((5 * Number(b)) + 3) % Radix^BlockBytes)
Decrypt(c) == CHOOSE b \in Blocks : Encrypt(b) = c

FirstBlock(s) == SubSeq(s, 1, BlockBytes)
Rest(s) == SubSeq(s, BlockBytes + 1, Len(s))

RECURSIVE builtin_ecb(_, _)
builtin_ecb(s, encrypt) ==
  IF s = <<>> THEN <<>>
  ELSE (IF encrypt THEN Encrypt(FirstBlock(s)) ELSE Decrypt(FirstBlock(s))) \o builtin_ecb(Rest(s), encrypt)

RECURSIVE builtin_cbc(_, _, _)
builtin_cbc(s, feedback, encrypt) ==
  IF s = <<>> THEN <<>>
  ELSE LET out == IF encrypt THEN Encrypt(XorBytes(FirstBlock(s), feedback)) ELSE XorBytes(Decrypt(FirstBlock(s)), feedback)
       IN out \o builtin_cbc(Rest(s), IF encrypt THEN out ELSE FirstBlock(s), encrypt)

CarryLost(counter) == [counter EXCEPT ![BlockBytes] = (@ + 1) % Radix]

\* Big-endian +1 with the carry through the bytes; wraps at the top.
increment_counter(counter) ==
  [i \in 1..BlockBytes |-> IF \A j \in (i + 1)..BlockBytes : counter[j] = Radix - 1
                           THEN (counter[i] + 1) % Radix ELSE counter[i]]

RECURSIVE builtin_ctr(_, _)
builtin_ctr(s, counter) ==
  IF s = <<>> THEN <<>>
  ELSE LET take == IF Len(s) < BlockBytes THEN Len(s) ELSE BlockBytes
       IN XorBytes(SubSeq(s, 1, take), SubSeq(Encrypt(counter), 1, take))
          \o builtin_ctr(SubSeq(s, take + 1, Len(s)), increment_counter(counter))

pkcs5_pad(s) ==
  LET n == BlockBytes - (Len(s) % BlockBytes) IN s \o [i \in 1..n |-> n]

pkcs5_unpad(s) ==
  IF s = <<>> \/ Len(s) % BlockBytes # 0 THEN Refused
  ELSE LET n == s[Len(s)] IN
       IF n = 0 \/ n > BlockBytes \/ \E i \in (Len(s) - n + 1)..Len(s) : s[i] # n THEN Refused
       ELSE SubSeq(s, 1, Len(s) - n)

\* chacha20_xor: the counter word of the state is taken modulo Radix.
RECURSIVE chacha20_xor(_, _)
chacha20_xor(s, counter) ==
  IF s = <<>> THEN <<>>
  ELSE LET take == IF Len(s) < BlockBytes THEN Len(s) ELSE BlockBytes
       IN XorBytes(SubSeq(s, 1, take), SubSeq(Encrypt(BlockOf(counter)), 1, take))
          \o chacha20_xor(SubSeq(s, take + 1, Len(s)), (counter + 1) % Radix)

\* The key stream generator of RC4 over a permutation of 0..Radix-1.
Swap(S, i, j) == [S EXCEPT ![i] = S[j], ![j] = S[i]]

RECURSIVE KeySchedule(_, _, _, _)
KeySchedule(key, S, i, j) ==
  IF i = Radix THEN S
  ELSE LET k == (j + S[i] + key[(i % Len(key)) + 1]) % Radix IN KeySchedule(key, Swap(S, i, k), i + 1, k)

RECURSIVE Stream(_, _, _, _)
Stream(s, S, i, j) ==
  IF s = <<>> THEN <<>>
  ELSE LET i2 == (i + 1) % Radix
           j2 == (j + S[i2]) % Radix
           T == Swap(S, i2, j2)
       IN <<s[1] ^^ T[(T[i2] + T[j2]) % Radix]>> \o Stream(Tail(s), T, i2, j2)

rc4_crypt(key, s) ==
  IF key = <<>> THEN Refused ELSE Stream(s, KeySchedule(key, [i \in 0..(Radix - 1) |-> i], 0, 0), 0, 0)

-----------------------------------------------------------------------------
(* AES: the state is 16 bytes, column by column, indexed from 0             *)

xtime(v) == ((2 * v) % 256) ^^ (IF v >= 128 THEN 27 ELSE 0)

RECURSIVE gmul(_, _)
gmul(a, b) ==
  IF b = 0 THEN 0 ELSE (IF b % 2 = 1 THEN a ELSE 0) ^^ gmul(xtime(a), b \div 2)

AES_SBOX(v) == ((5 * v) + 99) % 256
AES_INV_SBOX(v) == (205 * (v + 256 - 99)) % 256

sub_bytes(s) == [i \in 0..15 |-> AES_SBOX(s[i])]
inv_sub_bytes(s) == [i \in 0..15 |-> AES_INV_SBOX(s[i])]

\* Row r (the bytes r, r + 4, r + 8, r + 12) turns left by r.
shift_rows(s) == [i \in 0..15 |-> s[(i + (4 * (i % 4))) % 16]]
inv_shift_rows(s) == [i \in 0..15 |-> s[(i + 16 - (4 * (i % 4))) % 16]]

MixWith(s, m) ==
  [i \in 0..15 |-> LET c == 4 * (i \div 4)
                       term(k) == gmul(s[c + k], m[((k + 4 - (i % 4)) % 4) + 1])
                   IN ((term(0) ^^ term(1)) ^^ term(2)) ^^ term(3)]

mix_columns(s) == MixWith(s, <<2, 3, 1, 1>>)
inv_mix_columns(s) == MixWith(s, <<14, 11, 13, 9>>)

RoundKey(round) == [i \in 0..15 |-> ((31 * round) + (7 * i) + 5) % 256]
add_round_key(s, round) == [i \in 0..15 |-> s[i] ^^ RoundKey(round)[i]]

RECURSIVE EncryptRounds(_, _, _)
EncryptRounds(s, round, nr) ==
  LET t == shift_rows(sub_bytes(s))
  IN IF round = nr THEN add_round_key(t, nr)
     ELSE EncryptRounds(add_round_key(mix_columns(t), round), round + 1, nr)

encrypt_block(s, nr) == EncryptRounds(add_round_key(s, 0), 1, nr)

RECURSIVE DecryptRounds(_, _)
DecryptRounds(s, round) ==
  LET t == add_round_key(inv_sub_bytes(inv_shift_rows(s)), round)
  IN IF round = 0 THEN t ELSE DecryptRounds(inv_mix_columns(t), round - 1)

decrypt_block(s, nr) == DecryptRounds(add_round_key(s, nr), nr - 1)

(* DES: 16 Feistel rounds on two halves; decryption reverses the subkeys    *)
feistel(half, subkey) == (half * half + (3 * subkey) + (half \div 2)) % 16

derive_subkeys(key, reverse) ==
  [r \in 1..16 |-> LET round == IF reverse THEN 17 - r ELSE r IN ((key * round) + (round \div 3)) % 16]

RECURSIVE Rounds(_, _, _, _)
Rounds(left, right, subkeys, round) ==
  IF round > 16 THEN <<right, left>>
  ELSE Rounds(right, left ^^ feistel(right, subkeys[round]), subkeys, round + 1)

des_crypt_block(block, subkeys) == Rounds(block[1], block[2], subkeys, 1)

(* HMAC is a term; its digest is two tokens                                 *)
hmac(key, data) == <<<<"mac", key, data, 1>>, <<"mac", key, data, 2>>>>
HASH_LEN == 2
MaxHkdfBlocks == 3     \* 255 in the code: the counter is one byte

RECURSIVE ExpandFrom(_, _, _, _, _)
ExpandFrom(prk, info, length, t_prev, counter) ==
  IF length = 0 THEN <<>>
  ELSE LET t == hmac(prk, <<t_prev, info, counter>>)
           take == IF length < HASH_LEN THEN length ELSE HASH_LEN
       IN SubSeq(t, 1, take) \o ExpandFrom(prk, info, length - take, t, counter + 1)

hkdf_expand_common(prk, info, length) ==
  IF length > MaxHkdfBlocks * HASH_LEN THEN Refused ELSE ExpandFrom(prk, info, length, <<>>, 1)

-----------------------------------------------------------------------------
Init == octets = <<>> /\ symbols = <<>> /\ plain = <<>>

Message(b) == /\ symbols = <<>> /\ plain = <<>> /\ Len(octets) < MaxOctets
              /\ octets' = Append(octets, b) /\ UNCHANGED <<symbols, plain>>
TextToDecode(c) == /\ octets = <<>> /\ plain = <<>> /\ Len(symbols) < MaxSymbols
                   /\ symbols' = Append(symbols, c) /\ UNCHANGED <<octets, plain>>
Plaintext(b) == /\ octets = <<>> /\ symbols = <<>> /\ Len(plain) < MaxPlain
                /\ plain' = Append(plain, b) /\ UNCHANGED <<octets, symbols>>

Next ==
  \/ \E b \in Octets : Message(b)
  \/ \E c \in Symbols : TextToDecode(c)
  \/ \E b \in 0..(Radix - 1) : Plaintext(b)

Spec == Init /\ [][Next]_vars

-----------------------------------------------------------------------------
\* Every encoder is inverted by its decoder.
EncodersInvert ==
  /\ base64_decode(base64_encode(octets)) = octets
  /\ hex_decode(hex_encode(octets)) = octets
  /\ \A p \in BOOLEAN : /\ base32_decode(base32_encode(octets, p)) = octets
                        /\ base64_url_decode(base64_url_encode(octets, p)) = octets
                        /\ percent_decode(percent_encode(octets, p), p) = octets

\* Every decoder accepts the canonical text only: what it accepts is what
\* the encoder writes for the bytes it returns (two texts never decode to
\* the same bytes, but for the optional padding).
DecodersAreCanonical ==
  LET canonical(bytes, texts(_)) == bytes # Refused => symbols \in texts(bytes) IN
  /\ canonical(base64_decode(symbols), LAMBDA b : {base64_encode(b)})
  /\ canonical(hex_decode(symbols), LAMBDA b : {hex_encode(b)})
  /\ canonical(base32_decode(symbols), LAMBDA b : {base32_encode(b, p) : p \in BOOLEAN})
  /\ canonical(base64_url_decode(symbols), LAMBDA b : {base64_url_encode(b, p) : p \in BOOLEAN})

\* The modes decrypt what they encrypt, whatever the length, the IV and the
\* place where the counter carries; CTR never uses a counter block twice.
ModesInvert ==
  LET padded == pkcs5_pad(plain) IN
  /\ pkcs5_unpad(padded) = plain
  /\ pkcs5_unpad(plain) # Refused => pkcs5_pad(pkcs5_unpad(plain)) = plain
  /\ builtin_ecb(builtin_ecb(padded, TRUE), FALSE) = padded
  /\ Len(plain) >= BlockBytes =>
       LET iv == FirstBlock(plain) IN
       /\ builtin_cbc(builtin_cbc(padded, iv, TRUE), iv, FALSE) = padded
       /\ builtin_ctr(builtin_ctr(plain, iv), iv) = plain
       /\ chacha20_xor(chacha20_xor(plain, iv[1]), iv[1]) = plain
       /\ rc4_crypt(iv, rc4_crypt(iv, plain)) = plain
       /\ Number(increment_counter(iv)) = (Number(iv) + 1) % Radix^BlockBytes

\* A block cipher's decryption undoes its encryption, for any S-box, any
\* round function and any round keys.
CiphersInvert ==
  /\ Len(octets) = 1 =>
       LET block == [i \in 0..15 |-> IF i % 5 = 1 THEN octets[1] ELSE i]
       IN decrypt_block(encrypt_block(block, 3), 3) = block
  /\ Len(plain) = 3 =>
       LET block == <<plain[1] * 5, plain[2] + 2>>
       IN des_crypt_block(des_crypt_block(block, derive_subkeys(plain[3], FALSE)),
                          derive_subkeys(plain[3], TRUE)) = block

\* A derived key of n bytes is the beginning of every longer one.
DerivedKeysExtend ==
  Len(octets) + Len(plain) = 1 => \A n, m \in 0..(MaxHkdfBlocks * HASH_LEN) :
    n <= m => LET long == hkdf_expand_common(plain, octets, m)
              IN Len(long) = m /\ hkdf_expand_common(plain, octets, n) = SubSeq(long, 1, n)
                 /\ Cardinality(ToSet(long)) = m

\* Together.
CodecSound ==
  EncodersInvert /\ DecodersAreCanonical /\ ModesInvert /\ CiphersInvert /\ DerivedKeysExtend
-----------------------------------------------------------------------------
(***************************************************************************)
(* The streaming digests: MD5, SHA1, SHA256, SHA384/512 (a block buffer    *)
(* and a padding that ends in the length) and SHA3 (a sponge), each with   *)
(* add, get_hash and reset.  The compression function is taken to be       *)
(* injective: hash_ is the sequence of the blocks it was given.  Byte k of *)
(* the message is <<"data", k>>, so a byte lost, doubled or out of order   *)
(* shows.  BlockSize and LengthBytes are 64 and 8, or 128 and 16, in the   *)
(* code, and the padding is the same arithmetic.                           *)
(***************************************************************************)
CONSTANTS BlockSize, LengthBytes,
          MaxMessage    \* bound: bytes added since the last reset

VARIABLES
  algorithm,            \* one of Algorithms
  hash_,                \* the blocks compressed
  buffer_,              \* the block buffer, with what older data left in it
  buffer_size_,
  num_bytes_,           \* bytes in the blocks compressed
  message               \* history: the length of what was added

Algorithms == {"MD5", "SHA1", "SHA256", "SHA512", "SHA3"}
sponge == algorithm = "SHA3"

digestVars == <<algorithm, hash_, buffer_, buffer_size_, num_bytes_, message>>

DigestInit ==
  /\ algorithm \in Algorithms
  /\ hash_ = <<>> /\ buffer_ = [k \in 1..BlockSize |-> <<"junk", 0>>]
  /\ buffer_size_ = 0 /\ num_bytes_ = 0 /\ message = 0

Numbers(a, b) == [k \in 1..(b - a) |-> <<"data", a + k>>]
PadByte(byte) == <<"pad", byte>>
Block(seq, k) == SubSeq(seq, (k - 1) * BlockSize + 1, k * BlockSize)
-----------------------------------------------------------------------------
\* add(data, num_bytes): fill a buffer that is begun, compress it when full,
\* compress whole blocks in place, keep the rest.
Filled(n) == IF buffer_size_ = 0 THEN 0
             ELSE LET room == BlockSize - buffer_size_ IN IF n < room THEN n ELSE room

\* Mutant: the buffer is compressed only by the next byte that needs room.
LateFlush(n) == buffer_size_ + Filled(n) = BlockSize /\ n > Filled(n)
Flushes(n) == buffer_size_ + Filled(n) = BlockSize

add(n) ==
  LET data  == Numbers(message, message + n)
      taken == Filled(n)
      full  == [k \in 1..BlockSize |->
                  IF k > buffer_size_ /\ k <= buffer_size_ + taken
                  THEN data[k - buffer_size_] ELSE buffer_[k]]
      rest  == SubSeq(data, taken + 1, n)
      whole == Len(rest) \div BlockSize
      tail  == SubSeq(rest, whole * BlockSize + 1, Len(rest))
      kept  == IF Flushes(n) THEN 0 ELSE buffer_size_ + taken
  IN  /\ message + n <= MaxMessage /\ message' = message + n
      /\ hash_' = hash_ \o (IF Flushes(n) THEN <<full>> ELSE <<>>)
                        \o [k \in 1..whole |-> Block(rest, k)]
      /\ num_bytes_' = num_bytes_ + ((IF Flushes(n) THEN 1 ELSE 0) + whole) * BlockSize
      /\ buffer_size_' = kept + Len(tail)
      /\ buffer_' = [k \in 1..BlockSize |->
                       IF k > kept /\ k <= kept + Len(tail) THEN tail[k - kept] ELSE full[k]]
      /\ UNCHANGED algorithm

\* The padded length of MD5, SHA1 and SHA256 in bits, then bytes; a second
\* block when there is no room for the length ...
paddedLength ==
  LET bits == buffer_size_ * 8 + 1
      low  == bits % (8 * BlockSize)
      room == 8 * (BlockSize - LengthBytes)
  IN  (IF low <= room THEN bits + room - low ELSE bits + 8 * BlockSize + room - low) \div 8

\* ... and of SHA384 and SHA512, in bytes.
padded_len ==
  LET used == buffer_size_ + 1
      low  == used % BlockSize
      room == BlockSize - LengthBytes
  IN  IF low <= room THEN used + room - low ELSE used + BlockSize + room - low

PaddedLength == IF algorithm = "SHA512" THEN padded_len ELSE paddedLength

\* Byte k of the length in bits, zero for the lowest, of all that was added.
LengthByte(k) == <<"length", num_bytes_ + buffer_size_, k>>

\* process_buffer of MD5 writes the low byte first, ...
MD5_length == [k \in 1..LengthBytes |-> LengthByte(k - 1)]
\* ... those of SHA1 ...
SHA1_length == [k \in 1..LengthBytes |-> LengthByte(LengthBytes - k)]
\* ... and SHA256 the high byte, ...
SHA256_length == [k \in 1..LengthBytes |-> LengthByte(LengthBytes - k)]
\* ... and sha512_finalize the high word, then the low word.
SHA512_length ==
  LET word == LengthBytes \div 2
  IN  [k \in 1..word |-> LengthByte(LengthBytes - k)] \o [k \in 1..word |-> LengthByte(word - k)]

LengthField ==
  CASE algorithm = "MD5" -> MD5_length
    [] algorithm = "SHA1" -> SHA1_length
    [] algorithm = "SHA256" -> SHA256_length
    [] OTHER -> SHA512_length

process_buffer ==
  LET cell(k) == IF k <= buffer_size_ THEN buffer_[k]
                 ELSE IF k = buffer_size_ + 1 THEN PadByte(128)
                 ELSE IF k <= PaddedLength THEN PadByte(0)
                 ELSE LengthField[k - PaddedLength]
      padded == [k \in 1..(PaddedLength + LengthBytes) |-> cell(k)]
  IN  [k \in 1..(Len(padded) \div BlockSize) |-> Block(padded, k)]

\* SHA3::squeeze_into: on a copy; 0x06 and 0x80 may fall on the same byte.
squeeze ==
  LET cell(k) == IF k <= buffer_size_ THEN buffer_[k]
                 ELSE IF k = buffer_size_ + 1 /\ k = BlockSize THEN PadByte(134)
                 ELSE IF k = buffer_size_ + 1 THEN PadByte(6)
                 ELSE IF k = BlockSize THEN PadByte(128) ELSE PadByte(0)
  IN  <<[k \in 1..BlockSize |-> cell(k)]>>

Hash == hash_ \o (IF sponge THEN squeeze ELSE process_buffer)

\* get_hash: hash_ is restored, the padding stays in the buffer.
get_hash ==
  /\ buffer_' = IF sponge THEN buffer_ ELSE process_buffer[1]
  /\ UNCHANGED <<algorithm, hash_, buffer_size_, num_bytes_, message>>

reset ==
  /\ hash_' = <<>> /\ buffer_size_' = 0 /\ num_bytes_' = 0 /\ message' = 0
  /\ UNCHANGED <<algorithm, buffer_>>

DigestNext == (\E n \in 0..MaxMessage : add(n)) \/ get_hash \/ reset

-----------------------------------------------------------------------------
\* The reference: pad the message, cut it into blocks.
ZeroBytes(n) == [k \in 1..n |-> PadByte(0)]
PadTo(used) == (BlockSize - (used % BlockSize)) % BlockSize
Reference ==
  LET text == Numbers(0, message)
      tail == IF sponge
              THEN LET z == PadTo(message + 1)
                   IN  IF z = 0 THEN <<PadByte(134)>> ELSE <<PadByte(6)>> \o ZeroBytes(z - 1) \o <<PadByte(128)>>
              ELSE <<PadByte(128)>> \o ZeroBytes(PadTo(message + 1 + LengthBytes))
                   \o [k \in 1..LengthBytes |->
                        <<"length", message, IF algorithm = "MD5" THEN k - 1 ELSE LengthBytes - k>>]
      all  == text \o tail
  IN  [k \in 1..(Len(all) \div BlockSize) |-> Block(all, k)]

\* The digest at any moment is that of the whole message: however it was cut
\* into calls of add, whatever its length is to the block, with get_hash
\* called in between and whatever older data the buffer holds.
DigestSound == Hash = Reference
=============================================================================
