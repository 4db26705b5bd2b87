------------------------------- MODULE Http1 -------------------------------
(***************************************************************************)
(* Http1Writer, Http1ChunkedBodyWriter and Http1Reader (http1_codec.cpp),  *)
(* the two ends of one direction of a connection.  The wire carries tokens:*)
(* a head with its framing fields, a chunk-size line, a byte of data, the  *)
(* CRLF after a chunk, the trailers.  A peer that is not this library may  *)
(* send any tokens.  Reading from the stream blocks until there is a token *)
(* or the end of the stream.                                               *)
(***************************************************************************)
EXTENDS Naturals, Sequences, FiniteSets, SequencesExt, TLC

CONSTANTS
  MaxBody,              \* limits_.max_body_bytes
  MaxWire,              \* bound: tokens ever put on the wire
  MaxUnread             \* bound: unread tokens when something is written

VARIABLES
  method,               \* of the request the direction answers; "none": it carries requests
  chunked_body_active_, \* of the writer
  chunks,               \* the Http1ChunkedBodyWriter: "none", "open", "dropped"
  stream,               \* tokens that are written and not yet read
  closed,               \* the writing side is closed
  foreign,              \* something else than this library's writer wrote
  state_, body_remaining_, body_decoded_, body_info_,   \* of the reader
  pushed,               \* bound: tokens written
  outgoing,             \* history: lengths of the bodies written and not yet read
  partial               \* history: bytes of the chunked body being written

vars == <<method, chunked_body_active_, chunks, stream, closed, foreign, state_, body_remaining_,
          body_decoded_, body_info_, pushed, outgoing, partial>>
reader == <<state_, body_remaining_, body_decoded_, body_info_>>

Init ==
  /\ method \in {"none", "GET", "HEAD", "CONNECT"}
  /\ chunked_body_active_ = FALSE /\ chunks = "none"
  /\ stream = <<>> /\ closed = FALSE /\ foreign = FALSE
  /\ state_ = "Ready" /\ body_remaining_ = 0 /\ body_decoded_ = 0 /\ body_info_ = "None"
  /\ pushed = 0 /\ outgoing = <<>> /\ partial = 0
-----------------------------------------------------------------------------
(* messages *)

None == 99                                  \* no Content-Length field
Lengths == {None, 0, MaxBody, MaxBody + 1}
Codings == {"none", "chunked", "gzip"}      \* Transfer-Encoding
Statuses == {"1xx", "200", "204", "304"}

IsResponse == method # "none"
Heads == [t : {"head"}, cl : Lengths, te : Codings, http10 : BOOLEAN, status : Statuses]
Sensible == {h \in Heads : (h.http10 => h.cl = None) /\ (h.status # "200" => IsResponse)}
Byte == [t |-> "byte"]
Crlf == [t |-> "crlf"]
Size(n) == [t |-> "size", n |-> n]
Trailers(ok) == [t |-> "trailers", ok |-> ok]
Bad == [t |-> "bad"]                        \* a malformed or overlong line

ForbidsFraming(h) == IsResponse /\ h.status \in {"1xx", "204"}
ForbidsBody(h) == IsResponse /\ h.status # "200"
Tunnel(h) == method = "CONNECT" /\ h.status = "200"
Bodiless(h) == ForbidsBody(h) \/ method = "HEAD" \/ Tunnel(h)
HasFraming(h) == h.cl # None \/ h.te # "none"

\* body_framing, with what a message without framing fields is taken for.
Framing(h, default) ==
  CASE h.te = "gzip" -> "error"
    [] h.te = "chunked" /\ h.cl # None -> "error"
    [] h.te = "chunked" -> "Chunked"
    [] h.cl # None -> "ContentLength"
    [] OTHER -> default
-----------------------------------------------------------------------------
(* Http1Writer *)

\* Every prefix may be all that reaches the stream: write_all failed.
Push(tokens, done) ==
  /\ ~closed /\ Len(stream) < MaxUnread /\ pushed + Len(tokens) <= MaxWire /\ pushed' = pushed + Len(tokens)
  /\ \/ stream' = stream \o tokens /\ done /\ UNCHANGED closed
     \/ /\ \E n \in 0..(Len(tokens) - 1) : stream' = stream \o SubSeq(tokens, 1, n)
        /\ closed' = TRUE /\ UNCHANGED <<outgoing, chunked_body_active_, chunks, partial>>

Data(n) == [i \in 1..n |-> Byte]
Chunk(n) == IF n = 0 THEN <<>> ELSE <<Size(n)>> \o Data(n) \o <<Crlf>>

\* set_content_length, where the caller gave no framing.
Completed(h, body) ==
  IF ~HasFraming(h) /\ ~ForbidsBody(h) /\ ~Tunnel(h) /\ (IsResponse \/ body # 0)
    THEN [h EXCEPT !.cl = body] ELSE h

\* The checks of write_request and write_response.
Accepted(h, body, trailers) ==
  LET f == Framing(Completed(h, body), "None")
  IN  /\ ~(h.http10 /\ h.te # "none")
      /\ (ForbidsBody(h) \/ Tunnel(h)) => body = 0
      /\ (ForbidsFraming(h) \/ Tunnel(h)) => ~HasFraming(h)
      /\ Bodiless(h) => ~trailers
      /\ ~Bodiless(h) => /\ f # "error" /\ (f = "ContentLength" => Completed(h, body).cl = body)
                         /\ trailers => f = "Chunked"

\* Mutant: the body of an answer to HEAD is sent.
BodyAlways(h, body) ==
  IF h.te = "chunked" THEN Chunk(body) \o <<Size(0), Trailers(TRUE)>> ELSE Data(body)

\* write_body.
BodyTokens(h, body) ==
  CASE Bodiless(h) -> <<>>
    [] h.te = "chunked" -> Chunk(body) \o <<Size(0), Trailers(TRUE)>>
    [] OTHER -> Data(body)

\* write_request, write_response.
WriteMessage(h, body, trailers) ==
  /\ ~chunked_body_active_ /\ ~closed /\ Accepted(h, body, trailers)
  /\ Push(<<Completed(h, body)>> \o BodyTokens(h, body),
          /\ outgoing' = Append(outgoing, IF Bodiless(h) THEN 0 ELSE body)
          /\ UNCHANGED <<chunked_body_active_, chunks, partial>>)
  /\ UNCHANGED <<method, foreign, reader>>

\* begin_chunked_request, begin_chunked_response; Transfer-Encoding is added.
BeginChunked(h) ==
  /\ ~chunked_body_active_ /\ ~h.http10 /\ ~Bodiless(h) /\ h.cl = None /\ h.te # "gzip"
  /\ Push(<<[h EXCEPT !.te = "chunked"]>>,
          /\ chunked_body_active_' = TRUE /\ chunks' = "open" /\ partial' = 0
          /\ UNCHANGED outgoing)
  /\ UNCHANGED <<method, foreign, reader>>

WriteChunk(n) ==
  /\ chunks = "open" /\ chunked_body_active_
  /\ Push(Chunk(n), /\ partial' = partial + n
                    /\ UNCHANGED <<outgoing, chunked_body_active_, chunks>>)
  /\ UNCHANGED <<method, foreign, reader>>

FinishChunks ==
  /\ chunks = "open" /\ chunked_body_active_
  /\ Push(<<Size(0), Trailers(TRUE)>>,
          /\ chunked_body_active_' = FALSE /\ chunks' = "none"
          /\ outgoing' = Append(outgoing, partial) /\ UNCHANGED partial)
  /\ UNCHANGED <<method, foreign, reader>>

\* Destroyed before finish: the writer stays active and refuses every message.
DropChunks ==
  /\ chunks = "open" /\ chunks' = "dropped"
  /\ UNCHANGED <<method, chunked_body_active_, stream, closed, foreign, reader, pushed, outgoing,
                 partial>>

CloseWriter ==
  /\ ~closed /\ closed' = TRUE
  /\ UNCHANGED <<method, chunked_body_active_, chunks, stream, foreign, reader, pushed, outgoing,
                 partial>>

\* A peer of another make, which has the connection for itself.
ForeignPush(token) ==
  /\ foreign \/ pushed = 0
  /\ token.t = "head" => stream = <<>>
  /\ ~closed /\ Len(stream) < MaxUnread /\ pushed < MaxWire /\ pushed' = pushed + 1
  /\ stream' = Append(stream, token) /\ foreign' = TRUE
  /\ chunked_body_active_' = TRUE
  /\ UNCHANGED <<method, chunks, closed, reader, outgoing, partial>>
-----------------------------------------------------------------------------
(* Http1Reader *)

Available == stream # <<>>
Is(type) == Available /\ Head(stream).t = type
Ended == stream = <<>> /\ closed
Unread == UNCHANGED <<method, chunked_body_active_, chunks, closed, foreign, pushed, partial>>

\* read_line where an EOF is not allowed: a token that is not the line.
NotALine(type) == Ended \/ (Available /\ ~Is(type))

\* What read_request_head and read_response_head make of a whole head.
HeadKind(h) ==
  IF \/ h.http10 /\ h.te # "none"
     \/ ForbidsFraming(h) /\ HasFraming(h)
  THEN "error"
  ELSE IF Bodiless(h) THEN "None"
  ELSE Framing(h, IF IsResponse THEN "CloseDelimited" ELSE "None")

\* begin_body.
StateFor(kind, length) ==
  CASE kind = "ContentLength" -> IF length > MaxBody THEN "Failed"
                                 ELSE IF length = 0 THEN "BodyComplete" ELSE "FixedBody"
    [] kind = "Chunked" -> "ChunkSize"
    [] kind = "CloseDelimited" -> "CloseDelimitedBody"
    [] OTHER -> "BodyComplete"

\* ensure_ready and the head; after an error the reader stays in ReadingHead.
ReadHead ==
  /\ state_ = "Ready"
  /\ \/ Ended /\ UNCHANGED <<stream, outgoing, reader>>
     \/ /\ Available /\ stream' = Tail(stream) /\ UNCHANGED outgoing
        /\ IF Is("head") /\ HeadKind(Head(stream)) # "error"
             THEN LET kind == HeadKind(Head(stream))
                      length == IF kind = "ContentLength" THEN Head(stream).cl ELSE 0
                  IN  /\ state_' = StateFor(kind, length) /\ body_info_' = kind
                      /\ body_remaining_' = length /\ body_decoded_' = 0
             ELSE state_' = "ReadingHead" /\ UNCHANGED <<body_remaining_, body_decoded_, body_info_>>
  /\ Unread

\* Takes n bytes: no more than the buffer holds and the framing allows.
Takes(n, limit, next) ==
  /\ n \in 1..Len(stream) /\ n <= limit /\ stream' = SubSeq(stream, n + 1, Len(stream))
  /\ body_remaining_' = body_remaining_ - n /\ body_decoded_' = body_decoded_ + n
  /\ state_' = IF body_remaining_ = n THEN next ELSE state_
  /\ UNCHANGED <<body_info_, outgoing>> /\ Unread

Broken == /\ state_' = "Failed" /\ UNCHANGED <<stream, body_remaining_, body_decoded_, body_info_, outgoing>>
          /\ Unread

ReadFixed(n) ==
  /\ state_ = "FixedBody"
  /\ Takes(n, body_remaining_, "BodyComplete") \/ (Ended /\ Broken)

ReadCloseDelimited(n) ==
  /\ state_ = "CloseDelimitedBody"
  /\ \/ /\ n \in 1..Len(stream) /\ n <= MaxBody - body_decoded_
        /\ stream' = SubSeq(stream, n + 1, Len(stream)) /\ body_decoded_' = body_decoded_ + n
        /\ UNCHANGED <<state_, body_remaining_, body_info_, outgoing>> /\ Unread
     \/ n \in 1..Len(stream) /\ n > MaxBody - body_decoded_ /\ Broken
     \/ /\ Ended /\ state_' = "BodyComplete"
        /\ UNCHANGED <<stream, body_remaining_, body_decoded_, body_info_, outgoing>> /\ Unread

\* Mutant: the limit is compared with this chunk alone.
ChunkFitsAlone(n) == n <= MaxBody

ChunkFits(n) == n <= MaxBody - body_decoded_

\* read_chunked_body_part, one turn of its loop: the size line, ...
ReadChunkSize ==
  /\ state_ = "ChunkSize"
  /\ \/ NotALine("size") /\ Broken
     \/ /\ Is("size") /\ Head(stream).n # 0 /\ ~ChunkFits(Head(stream).n) /\ Broken
     \/ /\ Is("size") /\ Head(stream).n # 0 /\ ChunkFits(Head(stream).n)
        /\ stream' = Tail(stream) /\ state_' = "ChunkData" /\ body_remaining_' = Head(stream).n
        /\ UNCHANGED <<body_decoded_, body_info_, outgoing>> /\ Unread
     \* ... the trailers after the last chunk, ...
     \/ /\ Is("size") /\ Head(stream).n = 0 /\ Len(stream) > 1
        /\ IF stream[2].t = "trailers" /\ stream[2].ok
             THEN /\ stream' = SubSeq(stream, 3, Len(stream)) /\ state_' = "BodyComplete"
                  /\ UNCHANGED <<body_remaining_, body_decoded_, body_info_, outgoing>> /\ Unread
             ELSE Broken
     \/ Is("size") /\ Head(stream).n = 0 /\ Len(stream) = 1 /\ closed /\ Broken

\* ... the data, ...
ReadChunkData(n) ==
  /\ state_ = "ChunkData"
  /\ Takes(n, body_remaining_, "ChunkDataEnding") \/ (Ended /\ Broken)

\* ... and the CRLF that ends the chunk.
ReadChunkEnding ==
  /\ state_ = "ChunkDataEnding"
  /\ \/ NotALine("crlf") /\ Broken
     \/ /\ Is("crlf") /\ stream' = Tail(stream) /\ state_' = "ChunkSize"
        /\ UNCHANGED <<body_remaining_, body_decoded_, body_info_, outgoing>> /\ Unread

\* finish_body; the message is compared with the one that was written.
FinishBody ==
  /\ state_ = "BodyComplete" /\ state_' = "Ready"
  /\ body_remaining_' = 0 /\ body_decoded_' = 0 /\ body_info_' = "None"
  /\ outgoing' = IF outgoing = <<>> THEN outgoing ELSE Tail(outgoing)
  /\ UNCHANGED stream /\ Unread

Next ==
  \/ ~closed /\ \E h \in Sensible :
                      \/ BeginChunked(h)
                      \/ \E b \in 0..MaxBody, t \in BOOLEAN : WriteMessage(h, b, t)
                      \/ ForeignPush(h)
  \/ \E n \in 1..MaxBody : WriteChunk(n)
  \/ FinishChunks \/ DropChunks \/ CloseWriter
  \/ \E n \in 0..MaxBody : ForeignPush(Size(n))
  \/ \E t \in {Byte, Crlf, Bad, Trailers(TRUE), Trailers(FALSE)} : ForeignPush(t)
  \/ ReadHead \/ ReadChunkSize \/ ReadChunkEnding \/ FinishBody
  \/ \E n \in 1..MaxWire : ReadFixed(n) \/ ReadCloseDelimited(n) \/ ReadChunkData(n)

Spec == Init /\ [][Next]_vars
-----------------------------------------------------------------------------
\* The values of the variables.
TypeOK ==
  /\ state_ \in {"Ready", "ReadingHead", "FixedBody", "ChunkSize", "ChunkData", "ChunkDataEnding",
                 "CloseDelimitedBody", "BodyComplete", "Failed"}
  /\ body_remaining_ \in Nat /\ body_decoded_ \in Nat /\ pushed \in 0..MaxWire

\* What this writer writes this reader reads: each body has the length it was
\* written with, the reader is at the start of a message when the stream is
\* empty and the writer between messages, and it fails only if the stream was
\* cut inside a message (the framing of the two sides).
SameBoundaries ==
  ~foreign =>
    /\ state_ = "BodyComplete" =>
         IF outgoing # <<>> THEN body_decoded_ = Head(outgoing) ELSE FALSE
    /\ (stream = <<>> /\ ~closed /\ ~chunked_body_active_) =>
         state_ \in {"FixedBody", "ChunkData", "BodyComplete", "Ready"}
         /\ (state_ = "Ready" => outgoing = <<>>)
    /\ state_ \in {"ReadingHead", "Failed"} => closed \/ partial > MaxBody

\* Whatever the peer sends, no more than the limit is ever decoded, and the
\* bytes still owed to the current part never wrap.
WithinLimit ==
  /\ body_decoded_ <= MaxBody
  /\ state_ \in {"FixedBody", "ChunkData"} => body_remaining_ \in 1..MaxBody
                                             /\ body_decoded_ + body_remaining_ <= MaxBody

\* Together.
Http1Sound == SameBoundaries /\ WithinLimit
-----------------------------------------------------------------------------
(***************************************************************************)
(* HttpUrl (url.cpp): parse, to_string, normalize and the query helpers.   *)
(* A URL is what follows its scheme, a sequence of symbols: a character, a *)
(* whole IPv6 literal "::", or a whole percent sequence ("%2E" is the dot, *)
(* which needs none, "%2f" and "%2F" the slash, "%" a broken one).         *)
(***************************************************************************)
CONSTANTS
  MaxAuthority, MaxTarget,      \* bound: symbols of each part of a text
  DefaultPort, MaxPort          \* 80 and 65535 in the code

AuthoritySymbols == {"a", "A", "8", "0", ":", "@", "[", "]", "::", "%2E"}
TargetSymbols == {"/", "a", ".", "%2E", "%2f", "?", "#", "&", "="}

VARIABLES authority_text, target_text
urlVars == <<authority_text, target_text>>

UrlInit ==
  \/ authority_text = <<>> /\ target_text \in {<<>>, <<"/">>}
  \/ authority_text = <<"a">> /\ target_text = <<>>

\* A text grows by a symbol; one part is varied at a time.
UrlNext ==
  \/ /\ Len(authority_text) < MaxAuthority /\ Len(target_text) <= 1
     /\ \E c \in AuthoritySymbols : authority_text' = Append(authority_text, c)
     /\ UNCHANGED target_text
  \/ /\ Len(target_text) < MaxTarget /\ authority_text = <<"a">>
     /\ \E c \in TargetSymbols : target_text' = Append(target_text, c)
     /\ UNCHANGED authority_text

-----------------------------------------------------------------------------
(* Positions: find and rfind give 0 when there is nothing to find. *)

Find(s, cs) == SelectInSeq(s, LAMBDA c : c \in cs)
RFind(s, cs) == SelectLastInSeq(s, LAMBDA c : c \in cs)
Before(s, i) == SubSeq(s, 1, i - 1)
Behind(s, i) == SubSeq(s, i + 1, Len(s))

Digits == [c \in {"8", "0"} |-> IF c = "8" THEN 8 ELSE 0]
RegName == {"a", "A", "8", "0", "."}
UserInfo == RegName \cup {":", "@", "%2E", "%2f", "%2F"}
NoPort == 0

valid_percent_sequences(s) == "%" \notin ToSet(s)
valid_userinfo(s) == ToSet(s) \subseteq UserInfo
valid_reg_name(s) == s # <<>> /\ ToSet(s) \subseteq RegName

\* The value of a port, or NoPort for an empty, a non-decimal, a zero or a large one.
parse_port(s) ==
  IF s = <<>> \/ ~(ToSet(s) \subseteq DOMAIN Digits) THEN NoPort
  ELSE LET n == FoldLeft(LAMBDA acc, c : IF acc > MaxPort THEN acc ELSE acc * 10 + Digits[c], 0, s)
       IN IF n > MaxPort THEN NoPort ELSE n

RECURSIVE PortText(_)
PortText(n) ==
  LET d == <<CHOOSE c \in DOMAIN Digits : Digits[c] = n % 10>>
  IN IF n < 10 THEN d ELSE PortText(n \div 10) \o d
-----------------------------------------------------------------------------
(* HttpUrl::parse *)

Refused == [ok |-> FALSE]
HostOk(host, port, explicit) ==
  [ok |-> TRUE, host |-> host, port |-> port, explicit_port |-> explicit]

\* The part behind the host: nothing, or a colon and a port.
PortSuffix(host, suffix) ==
  IF suffix = <<>> THEN HostOk(host, DefaultPort, FALSE)
  ELSE IF Head(suffix) # ":" \/ parse_port(Tail(suffix)) = NoPort THEN Refused
  ELSE HostOk(host, parse_port(Tail(suffix)), TRUE)

BracketedHost(s) ==
  LET closing == Find(s, {"]"}) IN
  IF SubSeq(s, 2, closing - 1) # <<"::">> THEN Refused
  ELSE PortSuffix(<<"::">>, Behind(s, closing))

\* An IPv6 literal holds colons, so it is refused where one colon is allowed.
NamedHost(s) ==
  LET colon == RFind(s, {":", "::"})
      host == IF colon = 0 THEN s ELSE Before(s, colon)
  IN IF \/ Find(s, {"[", "]", "::"}) # 0 \/ Find(s, {":"}) # colon \/ ~valid_reg_name(host)
     THEN Refused
     ELSE PortSuffix(host, IF colon = 0 THEN <<>> ELSE SubSeq(s, colon, Len(s)))

ParseHost(s) ==
  IF s = <<>> THEN Refused
  ELSE IF Head(s) = "[" THEN BracketedHost(s) ELSE NamedHost(s)

userinfo_end(authority) == RFind(authority, {"@"})

\* The target: the fragment is cut off first, then the query; an empty path is "/".
ParseTarget(rest) ==
  LET f == Find(rest, {"#"})
      message == IF f = 0 THEN rest ELSE Before(rest, f)
      q == Find(message, {"?"})
      path == IF q = 0 THEN message ELSE Before(message, q)
  IN [path |-> IF path = <<>> THEN <<"/">> ELSE path,
      has_query |-> q # 0, query |-> IF q = 0 THEN <<>> ELSE Behind(message, q),
      has_fragment |-> f # 0, fragment |-> IF f = 0 THEN <<>> ELSE Behind(rest, f)]

parse(value) ==
  LET target_start == Find(value, {"/", "?", "#"})
      authority == IF target_start = 0 THEN value ELSE Before(value, target_start)
      at == userinfo_end(authority)
      user == IF at = 0 THEN <<>> ELSE Before(authority, at)
      host == ParseHost(IF at = 0 THEN authority ELSE Behind(authority, at))
      target == ParseTarget(IF target_start = 0 THEN <<>> ELSE SubSeq(value, target_start, Len(value)))
  IN IF \/ authority = <<>> \/ ~host.ok \/ ~valid_userinfo(user)
        \/ ~valid_percent_sequences(user \o target.path \o target.query \o target.fragment)
     THEN Refused
     ELSE host @@ target @@ [has_userinfo |-> at # 0, userinfo |-> user]
-----------------------------------------------------------------------------
(* to_string, authority, normalize *)

Bracketed(host) == IF Find(host, {":", "::"}) # 0 THEN <<"[">> \o host \o <<"]">> ELSE host

to_string(u) ==
  (IF u.has_userinfo THEN Append(u.userinfo, "@") ELSE <<>>) \o Bracketed(u.host)
  \o (IF u.explicit_port THEN <<":">> \o PortText(u.port) ELSE <<>>)
  \o u.path
  \o (IF u.has_query THEN <<"?">> \o u.query ELSE <<>>)
  \o (IF u.has_fragment THEN <<"#">> \o u.fragment ELSE <<>>)

\* The Host header: the port only when it is not the scheme's.
authority(u) ==
  Bracketed(u.host) \o (IF u.port # DefaultPort THEN <<":">> \o PortText(u.port) ELSE <<>>)

ascii_lowercase(s) == [i \in DOMAIN s |-> IF s[i] = "A" THEN "a" ELSE s[i]]

\* Unreserved bytes are decoded, the others get capital digits.
normalize_percent(s) ==
  [i \in DOMAIN s |-> CASE s[i] = "%2E" -> "." [] s[i] = "%2f" -> "%2F" [] OTHER -> s[i]]

\* The segments of an absolute path, the last one empty when it ends in a slash.
Segments(path) ==
  FoldLeft(LAMBDA acc, c : IF c = "/" THEN Append(acc, <<>>)
                           ELSE Append(Front(acc), Append(Last(acc), c)), <<>>, path)

\* "." is dropped and ".." takes the segment before it; both leave a slash at the end.
Step(kept, segment) ==
  CASE segment = <<".">>      -> kept
    [] segment = <<".", ".">> -> IF kept = <<>> THEN kept ELSE Front(kept)
    [] OTHER                  -> Append(kept, segment)

remove_dot_segments(path) ==
  LET all == Segments(path)
      ends == Last(all) \in {<<>>, <<".">>, <<".", ".">>}
      kept == FoldLeft(Step, <<>>, IF Last(all) = <<>> THEN Front(all) ELSE all)
      output == FlattenSeq([i \in DOMAIN kept |-> <<"/">> \o kept[i]])
  IN output \o (IF ends \/ output = <<>> THEN <<"/">> ELSE <<>>)

\* Mutant: dots are removed before they are decoded.
DotsFirst(path) == normalize_percent(remove_dot_segments(path))

NormalPath(path) == remove_dot_segments(normalize_percent(path))

normalize(u) ==
  [u EXCEPT !.userinfo = normalize_percent(@), !.host = ascii_lowercase(@),
            !.explicit_port = @ /\ u.port # DefaultPort, !.path = NormalPath(@),
            !.query = normalize_percent(@), !.fragment = normalize_percent(@)]
-----------------------------------------------------------------------------
(* Query parameters *)

Escapes == ("/" :> "%2F") @@ ("&" :> "%26") @@ ("=" :> "%3D") @@ ("?" :> "%3F") @@ ("#" :> "%23")

percent_encode(s) == [i \in DOMAIN s |-> IF s[i] \in DOMAIN Escapes THEN Escapes[s[i]] ELSE s[i]]

Unescaped(c) ==
  CASE c = "%2E" -> "." [] c = "%2f" -> "/"
    [] \E d \in DOMAIN Escapes : Escapes[d] = c -> CHOOSE d \in DOMAIN Escapes : Escapes[d] = c
    [] OTHER -> c
percent_decode(s) == [i \in DOMAIN s |-> Unescaped(s[i])]

SplitAt(s, c) ==
  FoldLeft(LAMBDA acc, x : IF x = c THEN Append(acc, <<>>)
                           ELSE Append(Front(acc), Append(Last(acc), x)), <<<<>>>>, s)

\* Empty segments are skipped; a segment without = is a key with an empty value.
parse_query_params(query) ==
  LET segments == SelectSeq(SplitAt(query, "&"), LAMBDA g : g # <<>>)
      Param(g) == LET e == Find(g, {"="}) IN
        [key |-> percent_decode(IF e = 0 THEN g ELSE Before(g, e)),
         value |-> IF e = 0 THEN <<>> ELSE percent_decode(Behind(g, e))]
  IN [i \in DOMAIN segments |-> Param(segments[i])]
-----------------------------------------------------------------------------
\* The URL the text is parsed to, if it is one.
Parsed == {u \in {parse(authority_text \o target_text)} : u.ok}

\* A URL that was parsed is written as a text that parses to the same URL, and
\* its normal form too; its Host header reads as the same host and port.
TextParsesBack(u) ==
  /\ \A v \in {u, normalize(u)} : parse(to_string(v)) = v
  /\ \A h \in {parse(authority(u))} : h.host = u.host /\ h.port = u.port

\* A normal form is stable, and no segment of its path is a dot segment, however
\* the dots were written.
NormalIsStable(u) ==
  \A n \in {normalize(u)} :
    /\ normalize(n) = n
    /\ \A g \in ToSet(Segments(n.path)) : g \notin {<<".">>, <<".", ".">>}

\* The parameters of a query do not depend on its escapes being in normal form.
ParamsSurvive(u) == parse_query_params(normalize(u).query) = parse_query_params(u.query)

\* A key and a value that were encoded are read back whatever they hold.
EncodedIsReadBack ==
  \A t \in {SelectSeq(target_text, LAMBDA c : c \notin {"%2E", "%2f"})} \ {<<>>} :
    parse_query_params(percent_encode(t) \o <<"=">> \o percent_encode(t))
      = <<[key |-> t, value |-> t]>>

\* Together.
UrlSound ==
  /\ \A u \in Parsed : TextParsesBack(u) /\ NormalIsStable(u) /\ ParamsSurvive(u)
  /\ EncodedIsReadBack
=============================================================================
