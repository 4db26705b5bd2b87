----------------------------- MODULE TlsStream -----------------------------
(***************************************************************************)
(* TlsStream (tls_stream.cpp): TLS over two memory BIOs.  The SSL engine   *)
(* turns plaintext into records in the write BIO and records of the read   *)
(* BIO into plaintext; the stream carries records between the BIOs and the *)
(* TCP connection.  A server calls it through DeadlineReader and           *)
(* DeadlineWriter (deadline_io.hpp), which repeat a call that timed out.   *)
(***************************************************************************)
EXTENDS Naturals, Sequences

CONSTANTS
  ClientPlaintexts, ServerPlaintexts,   \* bound: plaintexts an application writes
  MaxKeyUpdates         \* bound: key updates the client asks for

Sides == {"client", "server"}
Plaintexts(s) == IF s = "client" THEN ClientPlaintexts ELSE ServerPlaintexts
Other(s) == IF s = "client" THEN "server" ELSE "client"

VARIABLES
  ssl,                  \* side -> the SSL engine and its two BIOs
  tcall,                \* side -> the call in progress
  link,                 \* side -> records on the wire towards it
  hung_up,              \* sides that have closed the TCP connection
  accepted_n,           \* side -> plaintexts whose write returned Ok
  received,             \* side -> plaintexts its reads returned
  ended,                \* sides whose read returned 0, the end of the stream
  missed,               \* history: side -> the plaintext a failed flush took from it, or 0
  gap,                  \* sides of which a flush lost records
  spoke                 \* history: sides that sent records after they lost some

vars == <<ssl, tcall, link, hung_up, accepted_n, received, ended, missed, gap, spoke>>
appVars == <<accepted_n, received, ended, missed>>

NoTls == [at |-> "none", value |-> 0]
\* sealed: the records it has made so far, in order, those that were lost too.
Fresh == [flights |-> 0, sealed |-> <<>>, opened |-> 0, rbio |-> <<>>, wbio |-> <<>>,
          updates |-> 0, notified |-> FALSE]

Init ==
  /\ ssl = [s \in Sides |-> Fresh] /\ tcall = [s \in Sides |-> NoTls]
  /\ link = [s \in Sides |-> <<>>] /\ hung_up = {}
  /\ accepted_n = [s \in Sides |-> 0] /\ received = [s \in Sides |-> <<>>]
  /\ missed = [s \in Sides |-> 0] /\ ended = {} /\ gap = {} /\ spoke = {}
-----------------------------------------------------------------------------
(* The SSL engine, external: records are numbered, and one out of order is *)
(* a bad record.  The value of a record that is no data is history: the    *)
(* plaintexts that were written before it.                                 *)

Flights == <<"client", "server", "client">>
HandshakeOver(s) == ssl[s].flights = Len(Flights)
Speaks(s) == ~HandshakeOver(s) /\ Flights[ssl[s].flights + 1] = s

Sealed(e, kind, value) ==
  LET r == [no |-> Len(e.sealed), kind |-> kind, value |-> value]
  IN  [e EXCEPT !.sealed = Append(@, r), !.wbio = Append(@, r)]
Opened(e) == [e EXCEPT !.opened = @ + 1, !.rbio = Tail(@)]
HasRecord(s) == ssl[s].rbio # <<>>
Kind(s) == Head(ssl[s].rbio).kind
BadRecord(s) == HasRecord(s) /\ Head(ssl[s].rbio).no # ssl[s].opened
WantsRead(s) == ~HasRecord(s) /\ ssl[s].wbio = <<>>

Sets(s, e) == ssl' = [ssl EXCEPT ![s] = e]
Calls(s, at) == tcall' = [tcall EXCEPT ![s].at = at]
Ready(s) == tcall[s].at = "open"
-----------------------------------------------------------------------------
(* perform_handshake *)

\* connect and accept: the handshake starts on a new engine.
connect(s) ==
  /\ tcall[s].at = "none" /\ Calls(s, "handshake")
  /\ UNCHANGED <<ssl, link, hung_up, appVars, gap, spoke>>

\* SSL_connect and SSL_accept write a flight or take one.
HandshakeSteps(s) ==
  /\ tcall[s].at = "handshake" /\ ~HandshakeOver(s)
  /\ \/ Speaks(s) /\ Sets(s, [Sealed(ssl[s], "flight", accepted_n[s]) EXCEPT !.flights = @ + 1])
     \/ /\ ~Speaks(s) /\ HasRecord(s) /\ ~BadRecord(s)
        /\ Sets(s, [Opened(ssl[s]) EXCEPT !.flights = @ + 1])
  /\ UNCHANGED <<tcall, link, hung_up, appVars, gap, spoke>>

HandshakeReturns(s) ==
  /\ tcall[s].at = "handshake" /\ HandshakeOver(s) /\ ssl[s].wbio = <<>>
  /\ Calls(s, "open")
  /\ UNCHANGED <<ssl, link, hung_up, appVars, gap, spoke>>

\* The deadline, the before_retry hook, a bad record: the stream is given up.
HandshakeFails(s) ==
  /\ tcall[s].at = "handshake" /\ Calls(s, "failed")
  /\ UNCHANGED <<ssl, link, hung_up, appVars, gap, spoke>>
-----------------------------------------------------------------------------
(* flush_write_bio and the reads of ciphertext, in any call *)

Flushing(s) ==
  /\ ssl[s].wbio # <<>>
  /\ \/ tcall[s].at \in {"wrote", "read_some", "closing"}
     \/ tcall[s].at = "reading" /\ ~HasRecord(s)
     \/ tcall[s].at = "handshake" /\ (HandshakeOver(s) \/ (~Speaks(s) /\ ~HasRecord(s)))

Sends(s, n) ==
  /\ link' = IF Other(s) \in hung_up THEN link
             ELSE [link EXCEPT ![Other(s)] = @ \o SubSeq(ssl[s].wbio, 1, n)]
  /\ spoke' = IF s \in gap /\ n > 0 THEN spoke \cup {s} ELSE spoke

flush_write_bio(s) ==
  /\ Flushing(s) /\ Sends(s, Len(ssl[s].wbio))
  /\ Sets(s, [ssl[s] EXCEPT !.wbio = <<>>])
  /\ UNCHANGED <<tcall, hung_up, appVars, gap>>

\* write_all fails when n records are out: a chunk of records, already taken out of
\* the BIO, is lost. The calls fail; the plaintext read_some has opened goes with them.
\* The time limit of a poll is no failure to DeadlineReader and DeadlineWriter: they
\* make the same call again. (Bound: one failed flush of a side.)
FlushFails(s, n, lost, retried) ==
  /\ Flushing(s) /\ s \notin gap /\ n + lost <= Len(ssl[s].wbio)
  /\ Sends(s, n) /\ gap' = gap \cup {s}
  /\ Sets(s, [ssl[s] EXCEPT !.wbio = SubSeq(@, n + lost + 1, Len(@))])
  /\ tcall' = [tcall EXCEPT ![s].at =
       CASE retried /\ @ = "wrote"                    -> "writing"
         [] retried /\ @ \in {"reading", "read_some"} -> "reading"
         [] OTHER                                     -> "failed"]
  /\ missed' = IF tcall[s].at = "read_some" THEN [missed EXCEPT ![s] = tcall[s].value] ELSE missed
  /\ UNCHANGED <<hung_up, accepted_n, received, ended>>

\* input.read returns some records.
Receives(s, n) ==
  /\ \/ tcall[s].at = "reading"
     \/ tcall[s].at = "handshake" /\ ~Speaks(s) /\ ~HandshakeOver(s)
  /\ WantsRead(s) /\ n <= Len(link[s])
  /\ Sets(s, [ssl[s] EXCEPT !.rbio = @ \o SubSeq(link[s], 1, n)])
  /\ link' = [link EXCEPT ![s] = SubSeq(@, n + 1, Len(@))]
  /\ UNCHANGED <<tcall, hung_up, appVars, gap, spoke>>

\* Mutant: the end of the TCP connection is the end of the data.
EofIsEnd(s) == ended \cup {s}

\* The end of the TCP connection is no end of the TLS stream: UnexpectedEof.
AfterEof(s) == ended

UncleanEof(s) ==
  /\ tcall[s].at \in {"reading", "handshake"} /\ WantsRead(s)
  /\ link[s] = <<>> /\ Other(s) \in hung_up
  /\ ended' = AfterEof(s) /\ Calls(s, "failed")
  /\ UNCHANGED <<ssl, link, hung_up, accepted_n, received, missed, gap, spoke>>
-----------------------------------------------------------------------------
(* TlsStream::read *)

read(s) ==
  /\ Ready(s) /\ s \notin ended /\ Calls(s, "reading")
  /\ UNCHANGED <<ssl, link, hung_up, appVars, gap, spoke>>

\* SSL_read opens a plaintext; a key update is answered on the way.
SSL_read(s) ==
  /\ tcall[s].at = "reading" /\ HasRecord(s) /\ ~BadRecord(s) /\ ~ssl[s].notified
  /\ \/ /\ Kind(s) = "update" /\ Sets(s, Sealed(Opened(ssl[s]), "updated", accepted_n[s]))
        /\ UNCHANGED tcall
     \/ Kind(s) = "updated" /\ Sets(s, Opened(ssl[s])) /\ UNCHANGED tcall
     \/ /\ Kind(s) = "data" /\ Sets(s, Opened(ssl[s]))
        /\ tcall' = [tcall EXCEPT ![s] = [at |-> "read_some", value |-> Head(ssl[s].rbio).value]]
     \/ /\ Kind(s) = "notify" /\ Sets(s, [Opened(ssl[s]) EXCEPT !.notified = TRUE])
        /\ UNCHANGED tcall
  /\ UNCHANGED <<link, hung_up, appVars, gap, spoke>>

ReadReturns(s) ==
  /\ tcall[s].at = "read_some" /\ ssl[s].wbio = <<>>
  /\ received' = [received EXCEPT ![s] = Append(@, tcall[s].value)]
  /\ Calls(s, "open")
  /\ UNCHANGED <<ssl, link, hung_up, accepted_n, ended, missed, gap, spoke>>

\* close_notify: SSL_ERROR_ZERO_RETURN, the clean end.
ReadsTheEnd(s) ==
  /\ tcall[s].at = "reading" /\ ssl[s].notified
  /\ ended' = ended \cup {s} /\ Calls(s, "open")
  /\ UNCHANGED <<ssl, link, hung_up, accepted_n, received, missed, gap, spoke>>

ssl_io_error(s) ==
  /\ tcall[s].at = "reading" /\ BadRecord(s) /\ Calls(s, "failed")
  /\ UNCHANGED <<ssl, link, hung_up, appVars, gap, spoke>>
-----------------------------------------------------------------------------
(* TlsStream::write, shutdown and the end of the connection *)

write(s) ==
  /\ Ready(s) /\ accepted_n[s] < Plaintexts(s)
  /\ tcall' = [tcall EXCEPT ![s] = [at |-> "writing", value |-> accepted_n[s] + 1]]
  /\ UNCHANGED <<ssl, link, hung_up, appVars, gap, spoke>>

SSL_write(s) ==
  /\ tcall[s].at = "writing"
  /\ Sets(s, Sealed(ssl[s], "data", tcall[s].value)) /\ Calls(s, "wrote")
  /\ UNCHANGED <<link, hung_up, appVars, gap, spoke>>

WriteReturns(s) ==
  /\ tcall[s].at = "wrote" /\ ssl[s].wbio = <<>>
  /\ accepted_n' = [accepted_n EXCEPT ![s] = @ + 1] /\ Calls(s, "open")
  /\ UNCHANGED <<ssl, link, hung_up, received, ended, missed, gap, spoke>>

\* shutdown queues close_notify and does not wait for the peer's.
shutdown(s) ==
  /\ Ready(s) /\ Sets(s, Sealed(ssl[s], "notify", accepted_n[s])) /\ Calls(s, "closing")
  /\ UNCHANGED <<link, hung_up, appVars, gap, spoke>>

\* The owner closes the connection: after shutdown, after a failure, or at any time.
HangUp(s) ==
  /\ s \notin hung_up /\ tcall[s].at \in {"open", "closing", "failed"}
  /\ tcall[s].at = "closing" => ssl[s].wbio = <<>>
  /\ hung_up' = hung_up \cup {s}
  /\ Calls(s, IF tcall[s].at = "closing" THEN "closed" ELSE "dropped")
  /\ link' = [link EXCEPT ![s] = <<>>]
  /\ UNCHANGED <<ssl, appVars, gap, spoke>>

\* External: the client's TLS library asks for new keys.
KeyUpdate ==
  /\ Ready("client") /\ ssl["client"].updates < MaxKeyUpdates
  /\ Sets("client", [Sealed(ssl["client"], "update", accepted_n["client"]) EXCEPT !.updates = @ + 1])
  /\ UNCHANGED <<tcall, link, hung_up, appVars, gap, spoke>>
-----------------------------------------------------------------------------
Handshake(s) ==
  connect(s) \/ HandshakeSteps(s) \/ HandshakeReturns(s) \/ HandshakeFails(s)

Carry(s) ==
  \/ flush_write_bio(s) \/ UncleanEof(s)
  \/ \E n \in 1..Len(link[s]) : Receives(s, n)
  \/ \E n \in 0..Len(ssl[s].wbio), lost \in 1..Len(ssl[s].wbio),
        retried \in {FALSE, s = "server"} :
       FlushFails(s, n, lost, retried)

Use(s) ==
  \/ read(s) \/ SSL_read(s) \/ ReadReturns(s) \/ ReadsTheEnd(s) \/ ssl_io_error(s)
  \/ write(s) \/ SSL_write(s) \/ WriteReturns(s) \/ shutdown(s) \/ HangUp(s)

Next == KeyUpdate \/ \E s \in Sides : Handshake(s) \/ Carry(s) \/ Use(s)

Spec == Init /\ [][Next]_vars
-----------------------------------------------------------------------------
Missing(s) == IF missed[s] # 0 THEN 1 ELSE 0

\* What a side reads is what the other wrote, in order and without a gap or a
\* repetition, whatever the other side lost in its flushes or wrote again. The one
\* exception: the plaintext read_some had opened when its own flush failed is
\* missing, and only that one, though a server reads on behind it.
PlaintextIsPrefix ==
  \A s \in Sides :
    /\ \A i \in 1..Len(received[s]) : received[s][i] = i + IF missed[s] \in 1..i THEN 1 ELSE 0
    /\ Len(received[s]) + Missing(s) <= Plaintexts(Other(s))

\* A read returns the end of the stream only behind the peer's close_notify, with
\* everything before it: every plaintext whose write the peer was told went well,
\* the one a failed flush of its own took excepted.
EndIsComplete ==
  \A s \in ended : /\ tcall[Other(s)].at \in {"closing", "closed"}
                   /\ Len(received[s]) + Missing(s) = accepted_n[Other(s)]

\* Not so: a read that is made again behind a failed flush loses no plaintext.
ReadLosesNothing == \A s \in Sides : missed[s] # 0 => Len(received[s]) < missed[s]

\* Together.
TlsStreamSound == PlaintextIsPrefix /\ EndIsComplete

\* flush_write_bio: "so every call site treats a failed flush as fatal and passes
\* it up". A side that lost records sends none behind them.
FlushFailureIsFatal == spoke = {}
=============================================================================
