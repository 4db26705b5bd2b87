----------------------------- MODULE HttpClient -----------------------------
(***************************************************************************)
(* HttpClient, HttpStreamingResponse, HttpChunkedRequest (client.cpp) and  *)
(* HttpConnectionPool (client_pool.cpp): clients, each used by one thread, *)
(* that share a pool, and servers that close connections when they like.   *)
(*                                                                         *)
(* A connection is a number with an origin; its peer is "open" or          *)
(* "closed".  Whether both sides' headers and the framing of the body      *)
(* allow the connection to be used again is known when a response ends.    *)
(* The timeout of an idle connection is a choice made when it is popped.   *)
(***************************************************************************)
EXTENDS Naturals, Sequences, FiniteSets

CONSTANTS
  Origins, Clients,
  MaxIdlePerHost,       \* options.max_idle_per_host
  MaxInformational,     \* options.max_informational_responses
  MaxConnections,       \* bound: connections that are ever opened
  MaxRequests           \* bound: requests that are ever made

VARIABLES
  pooled,               \* options.pool is set, fixed
  bucket,               \* origin -> idle connections, the newest last
  origin,               \* connection -> its origin
  peer,                 \* connection -> "open" or "closed"
  keep,                 \* connection -> its last response allows reuse
  conn,                 \* client -> Impl::connection; zero: none
  candidate,            \* client -> the popped connection it probes
  held,                 \* client -> the connection of its streaming object
  hmode,                \* client -> what that object is: "chunked", "streaming"
  hpc,                  \* client -> where it is
  req,                  \* client -> the request: origin, idempotent, mode
  attempt, reused, info,\* client -> the locals of request()
  sends,                \* history: client -> the connections its request was written to
  requests              \* bound: requests made

vars == <<pooled, bucket, origin, peer, keep, conn, candidate, held, hmode, hpc, req, attempt,
          reused, info, sends, requests>>
wire == <<pooled, origin, requests>>
locals == <<attempt, reused, info>>

Conns == 1..MaxConnections
Known == DOMAIN origin
Modes == {"buffered", "streaming", "chunked"}

Init ==
  /\ pooled \in BOOLEAN /\ bucket = [o \in Origins |-> <<>>]
  /\ origin = [n \in {} |-> n] /\ peer = [n \in Conns |-> "open"] /\ keep = [n \in Conns |-> TRUE]
  /\ conn = [c \in Clients |-> 0] /\ candidate = [c \in Clients |-> 0]
  /\ held = [c \in Clients |-> 0] /\ hmode = [c \in Clients |-> "streaming"]
  /\ hpc = [c \in Clients |-> "idle"]
  /\ req = [c \in Clients |-> [to |-> "none", idempotent |-> TRUE, mode |-> "buffered"]]
  /\ attempt = [c \in Clients |-> 0] /\ reused = [c \in Clients |-> FALSE]
  /\ info = [c \in Clients |-> 0] /\ sends = [c \in Clients |-> <<>>]
  /\ requests = 0

Goes(c, from, to) == hpc[c] = from /\ hpc' = [hpc EXCEPT ![c] = to]
SameOrigin(c, o) == conn[c] # 0 /\ origin[conn[c]] = o

\* The connection is closed and the call returns an error.
Fails(c) ==
  /\ conn' = [conn EXCEPT ![c] = 0] /\ hpc' = [hpc EXCEPT ![c] = "idle"]
-----------------------------------------------------------------------------
(* connect *)

\* request, request_streaming and begin_chunked up to connect; a connection
\* to another origin is closed.
Request(c, o, idempotent, mode) ==
  /\ requests < MaxRequests /\ requests' = requests + 1
  /\ mode # "buffered" => held[c] = 0
  /\ req' = [req EXCEPT ![c] = [to |-> o, idempotent |-> idempotent, mode |-> mode]]
  /\ Goes(c, "idle", IF SameOrigin(c, o) THEN "write" ELSE "checkout")
  /\ conn' = [conn EXCEPT ![c] = IF SameOrigin(c, o) THEN @ ELSE 0]
  /\ reused' = [reused EXCEPT ![c] = SameOrigin(c, o)]
  /\ attempt' = [attempt EXCEPT ![c] = 0] /\ info' = [info EXCEPT ![c] = 0]
  /\ sends' = [sends EXCEPT ![c] = <<>>]
  /\ UNCHANGED <<pooled, origin, bucket, peer, keep, candidate, held, hmode>>

\* pool_checkout under the lock: entries that were idle too long are thrown
\* away until one is fresh (left of them remain) or none is left.
Checkout(c) ==
  /\ pooled /\ hpc[c] = "checkout"
  /\ LET b == bucket[req[c].to]
     IN  \E left \in 0..Len(b) :
           /\ bucket' = [bucket EXCEPT ![req[c].to] = SubSeq(b, 1, left)]
           /\ \/ /\ left < Len(b) /\ Goes(c, "checkout", "probe")
                 /\ candidate' = [candidate EXCEPT ![c] = b[left + 1]]
              \/ left = 0 /\ Goes(c, "checkout", "open") /\ UNCHANGED candidate
  /\ UNCHANGED <<wire, peer, keep, conn, held, hmode, req, locals, sends>>

NoPool(c) ==
  /\ ~pooled /\ Goes(c, "checkout", "open")
  /\ UNCHANGED <<wire, bucket, peer, keep, conn, candidate, held, hmode, req, locals, sends>>

\* probe_alive outside the lock; a connection that fails is closed.
Probe(c) ==
  /\ hpc[c] = "probe"
  /\ Goes(c, "probe", IF peer[candidate[c]] = "open" THEN "write" ELSE "checkout")
  /\ conn' = [conn EXCEPT ![c] = IF peer[candidate[c]] = "open" THEN candidate[c] ELSE 0]
  /\ candidate' = [candidate EXCEPT ![c] = 0]
  /\ UNCHANGED <<wire, bucket, peer, keep, held, hmode, req, locals, sends>>

\* Name resolution, TCP connection and TLS handshake.
Open(c) ==
  /\ Cardinality(Known) < MaxConnections
  /\ LET n == Cardinality(Known) + 1
     IN  /\ origin' = [m \in Known \cup {n} |-> IF m = n THEN req[c].to ELSE origin[m]]
         /\ conn' = [conn EXCEPT ![c] = n]
  /\ Goes(c, "open", "write")
  /\ UNCHANGED <<pooled, requests, bucket, peer, keep, candidate, held, hmode, req, locals, sends>>

OpenFails(c) ==
  /\ hpc[c] = "open" /\ Fails(c)
  /\ UNCHANGED <<wire, bucket, peer, keep, candidate, held, hmode, req, locals, sends>>
-----------------------------------------------------------------------------
(* the exchange *)

\* Mutant: every request that was not answered is sent again.
RetryAny(c) == info[c] = 0 /\ reused[c] /\ attempt[c] = 0 /\ req[c].mode = "buffered"

\* The request may be sent again: nothing was answered, the connection was
\* reused, this is the first attempt and the method is idempotent.
Retryable(c) ==
  /\ info[c] = 0 /\ reused[c] /\ attempt[c] = 0
  /\ req[c].idempotent /\ req[c].mode = "buffered"

\* The connection turns out to be dead: another one, or an error.
Stale(c) ==
  IF Retryable(c)
    THEN /\ conn' = [conn EXCEPT ![c] = 0] /\ hpc' = [hpc EXCEPT ![c] = "checkout"]
         /\ attempt' = [attempt EXCEPT ![c] = 1] /\ UNCHANGED <<reused, info>>
    ELSE Fails(c) /\ UNCHANGED locals

\* A write to a closed peer succeeds or is reset; begin_chunked hands the
\* connection to the request object once the head is written.
Write(c) ==
  /\ hpc[c] = "write" /\ sends' = [sends EXCEPT ![c] = Append(@, conn[c])]
  /\ \/ /\ req[c].mode # "chunked" /\ Goes(c, "write", "head")
        /\ UNCHANGED <<conn, held, hmode, locals>>
     \/ /\ req[c].mode = "chunked" /\ Goes(c, "write", "idle")
        /\ held' = [held EXCEPT ![c] = conn[c]] /\ hmode' = [hmode EXCEPT ![c] = "chunked"]
        /\ conn' = [conn EXCEPT ![c] = 0]
        /\ UNCHANGED <<locals>>
     \/ peer[conn[c]] = "closed" /\ Stale(c) /\ UNCHANGED <<held, hmode>>
     \/ Fails(c) /\ UNCHANGED <<held, hmode, locals>>
  /\ UNCHANGED <<wire, bucket, peer, keep, candidate, req>>

\* read_response_head: a 1xx response is skipped, up to a number of them.
Informational(c) ==
  /\ hpc[c] = "head" /\ peer[conn[c]] = "open"
  /\ info' = [info EXCEPT ![c] = @ + 1]
  /\ IF info[c] + 1 > MaxInformational THEN Fails(c) ELSE UNCHANGED <<conn, hpc>>
  /\ UNCHANGED <<wire, bucket, peer, keep, candidate, held, hmode, req, attempt, reused, sends>>

\* EOF or a reset before the final head.
HeadMissing(c) ==
  /\ hpc[c] = "head" /\ peer[conn[c]] = "closed" /\ Stale(c)
  /\ UNCHANGED <<wire, bucket, peer, keep, candidate, held, hmode, req, sends>>

\* The head, with what it says about keeping the connection; a streaming
\* response takes the connection away from the client.
Head200(c, alive) ==
  /\ hpc[c] = "head" /\ peer[conn[c]] = "open"
  /\ keep' = [keep EXCEPT ![conn[c]] = alive]
  /\ IF req[c].mode = "streaming"
       THEN /\ Goes(c, "head", "idle") /\ held' = [held EXCEPT ![c] = conn[c]]
            /\ hmode' = [hmode EXCEPT ![c] = "streaming"]
            /\ conn' = [conn EXCEPT ![c] = 0]
       ELSE Goes(c, "head", "body") /\ UNCHANGED <<held, hmode, conn>>
  /\ UNCHANGED <<wire, bucket, peer, candidate, req, locals, sends>>

\* A timeout, a malformed message, a limit.
ExchangeFails(c) ==
  /\ hpc[c] \in {"head", "body"} /\ Fails(c)
  /\ UNCHANGED <<wire, bucket, peer, keep, candidate, held, hmode, req, locals, sends>>

\* Mutant: the place in the bucket is not counted.
CheckedInAlways(n) == [bucket EXCEPT ![origin[n]] = Append(@, n)]

\* pool_checkin: dropped if the bucket is full.
CheckedIn(n) ==
  [bucket EXCEPT ![origin[n]] = IF Len(@) >= MaxIdlePerHost THEN @ ELSE Append(@, n)]

\* The body is read to its end: the connection is kept, given to the pool or
\* closed.
BodyEnds(c) ==
  /\ hpc[c] = "body" /\ Goes(c, "body", "idle")
  /\ conn' = [conn EXCEPT ![c] = IF keep[conn[c]] /\ ~pooled THEN @ ELSE 0]
  /\ bucket' = IF keep[conn[c]] /\ pooled THEN CheckedIn(conn[c]) ELSE bucket
  /\ UNCHANGED <<wire, peer, keep, candidate, held, hmode, req, locals, sends>>
-----------------------------------------------------------------------------
(* HttpStreamingResponse, HttpChunkedRequest *)

\* HttpChunkedRequest::finish: the last chunk is written and a final head read.
ChunkedFinish(c, alive) ==
  /\ held[c] # 0 /\ hmode[c] = "chunked" /\ hpc[c] = "idle"
  /\ peer[held[c]] = "open"
  /\ keep' = [keep EXCEPT ![held[c]] = alive]
  /\ hmode' = [hmode EXCEPT ![c] = "streaming"]
  /\ UNCHANGED <<wire, bucket, peer, conn, candidate, held, hpc, req, locals, sends>>

\* HttpStreamingResponse::finish: the rest of the body is read; the
\* connection goes to the pool, whatever keep says, or is closed.
StreamFinish(c) ==
  /\ held[c] # 0 /\ hmode[c] = "streaming" /\ hpc[c] = "idle"
  /\ bucket' = IF pooled THEN CheckedIn(held[c]) ELSE bucket
  /\ held' = [held EXCEPT ![c] = 0]
  /\ UNCHANGED <<wire, peer, keep, conn, candidate, hmode, hpc, req, locals, sends>>

\* abort, or an error of write_chunk, flush, read_body or finish.
StreamAbort(c) ==
  /\ held[c] # 0 /\ hpc[c] = "idle" /\ held' = [held EXCEPT ![c] = 0]
  /\ UNCHANGED <<wire, bucket, peer, keep, conn, candidate, hmode, hpc, req, locals, sends>>
-----------------------------------------------------------------------------
CloseClient(c) ==
  /\ hpc[c] = "idle" /\ conn[c] # 0 /\ conn' = [conn EXCEPT ![c] = 0]
  /\ UNCHANGED <<wire, bucket, peer, keep, candidate, held, hmode, hpc, req, locals, sends>>

ClearPool ==
  /\ pooled /\ bucket' = [o \in Origins |-> <<>>]
  /\ UNCHANGED <<wire, peer, keep, conn, candidate, held, hmode, hpc, req, locals, sends>>

ServerCloses(n) ==
  /\ n \in Known /\ peer[n] = "open" /\ peer' = [peer EXCEPT ![n] = "closed"]
  /\ UNCHANGED <<wire, bucket, keep, conn, candidate, held, hmode, hpc, req, locals, sends>>

Next ==
  \/ ClearPool \/ \E n \in Conns : ServerCloses(n)
  \/ \E c \in Clients :
       \/ \E o \in Origins, i \in BOOLEAN, m \in Modes : Request(c, o, i, m)
       \/ Checkout(c) \/ NoPool(c) \/ Probe(c) \/ Open(c) \/ OpenFails(c)
       \/ Write(c) \/ Informational(c) \/ HeadMissing(c) \/ ExchangeFails(c) \/ BodyEnds(c)
       \/ \E alive \in BOOLEAN : Head200(c, alive) \/ ChunkedFinish(c, alive)
       \/ StreamFinish(c) \/ StreamAbort(c) \/ CloseClient(c)

Spec == Init /\ [][Next]_vars
-----------------------------------------------------------------------------
Idle == UNION {{bucket[o][k] : k \in DOMAIN bucket[o]} : o \in Origins}
Places(n) ==
  Cardinality({c \in Clients : conn[c] = n}) + Cardinality({c \in Clients : candidate[c] = n})
  + Cardinality({c \in Clients : held[c] = n})
  + Cardinality({<<o, k>> \in Origins \X (1..MaxConnections) : k \in DOMAIN bucket[o] /\ bucket[o][k] = n})

\* The values of the variables.
TypeOK ==
  /\ bucket \in [Origins -> Seq(Known)] /\ Known \subseteq Conns
  /\ conn \in [Clients -> Known \cup {0}] /\ candidate \in [Clients -> Known \cup {0}]
  /\ held \in [Clients -> Known \cup {0}] /\ pooled \in BOOLEAN
  /\ hpc \in [Clients -> {"idle", "checkout", "probe", "open", "write", "head", "body"}]

\* A connection has one owner: a client, a probe, a streaming object or the
\* pool, under the origin it was opened for; the pool keeps to its limit
\* although connections are popped, probed and given back by several clients
\* (pool_checkout, pool_checkin).
OneOwner ==
  /\ \A n \in Known : Places(n) <= 1
  /\ \A o \in Origins : Len(bucket[o]) <= MaxIdlePerHost
                        /\ \A k \in DOMAIN bucket[o] : origin[bucket[o][k]] = o
  /\ \A c \in Clients : hpc[c] \in {"write", "head", "body"} => SameOrigin(c, req[c].to)

\* A request is written to at most one connection, a buffered idempotent one to at
\* most two, which are different: nothing is sent twice on a connection, and no
\* request that is not idempotent, or that streams, is repeated (request,
\* request_streaming, begin_chunked).
SentOnce ==
  \A c \in Clients :
    /\ Len(sends[c]) <= IF req[c].idempotent /\ req[c].mode = "buffered" THEN 2 ELSE 1
    /\ \A i, j \in DOMAIN sends[c] : i # j => sends[c][i] # sends[c][j]

\* Together.
HttpClientSound == OneOwner /\ SentOnce

\* What the design document says: only a connection whose last exchange allows
\* keep-alive is given to the pool (section 7; client_pool.hpp 41).
PooledIsKeepAlive == \A n \in Idle : keep[n]
=============================================================================
