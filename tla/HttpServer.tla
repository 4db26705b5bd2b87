----------------------------- MODULE HttpServer -----------------------------
(***************************************************************************)
(* HttpServer (server.cpp): the accept loop in the thread of serve, the    *)
(* workers of its ThreadPool, which handle one connection each, and stop() *)
(* from any thread.  The pool is its abstract service: a bounded queue and *)
(* Workers threads.  Reads and writes go through DeadlineReader and        *)
(* DeadlineWriter (deadline_io.hpp): each returns data, a time-out, a reset*)
(* of the peer or, once stop was requested, ConnectionAborted.             *)
(***************************************************************************)
EXTENDS Naturals, Sequences, FiniteSets, SequencesExt

CONSTANTS
  HttpConns,            \* connections that clients may open
  HttpWorkers,          \* the worker threads
  PendingConnections,   \* options_.pending_connections
  MaxRequestsPerConn    \* options_.max_requests_per_connection

VARIABLES
  apc,                  \* where serve is
  serve_started_, running_, stopping,
  accepted,             \* the connection the accept loop holds
  jobs,                 \* queue of the pool
  handles,              \* worker -> the connection it handles
  cpc,                  \* connection -> where it is
  count,                \* connection -> the index of the loop in handle_connection
  request,              \* connection -> the request under way
  reply,                \* connection -> the reply under way
  served,               \* history: connection -> requests read to their end
  finals,               \* history: connection -> complete final responses
  said                  \* history: connection -> "open", "close" was said, "cut" inside a response

vars == <<apc, serve_started_, running_, stopping, accepted, jobs, handles, cpc, count, request,
          reply, served, finals, said>>
acceptor == <<apc, serve_started_, running_, accepted>>
local == <<count, request, reply>>
history == <<served, finals, said>>

Nobody == "nobody"

\* What the server tells apart: may the connection be kept, is the request
\* HTTP/1.1 and not HEAD, so that its answer may be chunked.
Requests == [keep : BOOLEAN, chunkable : BOOLEAN]
NoRequest == [keep |-> FALSE, chunkable |-> FALSE]
Kinds == {"buffered", "chunked", "failed"}
NoReply == [kind |-> "failed", keep |-> FALSE]

Init ==
  /\ apc = "off" /\ serve_started_ = FALSE /\ running_ = FALSE /\ stopping = FALSE
  /\ accepted = Nobody /\ jobs = <<>> /\ handles = [w \in HttpWorkers |-> Nobody]
  /\ cpc = [c \in HttpConns |-> "none"] /\ count = [c \in HttpConns |-> 0]
  /\ request = [c \in HttpConns |-> NoRequest] /\ reply = [c \in HttpConns |-> NoReply]
  /\ served = [c \in HttpConns |-> 0] /\ finals = [c \in HttpConns |-> 0]
  /\ said = [c \in HttpConns |-> "open"]

Goes(c, to) == cpc' = [cpc EXCEPT ![c] = to]
-----------------------------------------------------------------------------
(* serve *)

\* A client connects: the connection waits in the backlog of the listener.
Connect(c) ==
  /\ cpc[c] = "none" /\ apc # "done" /\ Goes(c, IF apc \in {"off", "accept", "submit", "overload"}
                                                THEN "backlog" ELSE "closed")
  /\ UNCHANGED <<acceptor, stopping, jobs, handles, local, history>>

\* Loading the certificates may fail, and serve may be called again; creating
\* the pool may fail, and it may not.
Serve(outcome) ==
  /\ ~serve_started_ /\ apc = "off" /\ outcome \in {"ok", "no certificate", "no pool"}
  /\ serve_started_' = (outcome # "no certificate")
  /\ running_' = (outcome = "ok") /\ apc' = IF outcome = "ok" THEN "accept" ELSE "off"
  /\ UNCHANGED <<stopping, accepted, jobs, handles, cpc, local, history>>

\* accept and prepare_connection; without a connection the loop polls stop.
Accept(c, prepared) ==
  /\ apc = "accept" /\ ~stopping /\ cpc[c] = "backlog"
  /\ Goes(c, IF prepared THEN "accepted" ELSE "closed")
  /\ accepted' = IF prepared THEN c ELSE Nobody
  /\ apc' = IF prepared THEN "submit" ELSE "accept"
  /\ UNCHANGED <<serve_started_, running_, stopping, jobs, handles, local, history>>

AcceptEnds ==     \* an error of accept, or stop was requested
  /\ apc = "accept" /\ apc' = "stop"
  /\ UNCHANGED <<serve_started_, running_, accepted, stopping, jobs, handles, cpc, local, history>>

\* try_submit: a full queue answers 503 from the accept loop.
Submit ==
  /\ apc = "submit"
  /\ CASE stopping -> apc' = "stop" /\ Goes(accepted, "closed") /\ accepted' = Nobody /\ UNCHANGED jobs
       [] ~stopping /\ Len(jobs) < PendingConnections ->
            /\ jobs' = Append(jobs, accepted) /\ Goes(accepted, "queued")
            /\ apc' = "accept" /\ accepted' = Nobody
       [] OTHER -> apc' = "overload" /\ UNCHANGED <<accepted, cpc, jobs>>
  /\ UNCHANGED <<serve_started_, running_, stopping, handles, local, history>>

\* send_overloaded, or with TLS only the shutdown.
Overload(sent) ==
  /\ apc = "overload" /\ apc' = "accept" /\ accepted' = Nobody /\ Goes(accepted, "closed")
  /\ said' = [said EXCEPT ![accepted] = IF sent THEN "close" ELSE "cut"]
  /\ finals' = [finals EXCEPT ![accepted] = @ + (IF sent THEN 1 ELSE 0)]
  /\ UNCHANGED <<serve_started_, running_, stopping, jobs, handles, local, served>>

\* Mutant: the jobs that wait are left in the queue.
ForgetsPending == jobs' = <<>> /\ cpc' = [c \in HttpConns |-> IF cpc[c] = "backlog" THEN "closed" ELSE cpc[c]]

\* listener_.close() and pool.shutdown(CancelPending) close what waits.
DropsPending ==
  /\ jobs' = <<>>
  /\ cpc' = [c \in HttpConns |-> IF cpc[c] \in {"backlog", "queued"} THEN "closed" ELSE cpc[c]]

Stopping ==
  /\ apc = "stop" /\ apc' = "join" /\ stopping' = TRUE /\ DropsPending
  /\ UNCHANGED <<serve_started_, running_, accepted, handles, local, history>>

\* pool.join().
Joined ==
  /\ apc = "join" /\ \A w \in HttpWorkers : handles[w] = Nobody
  /\ apc' = "done" /\ running_' = FALSE
  /\ UNCHANGED <<serve_started_, accepted, stopping, jobs, handles, cpc, local, history>>

\* stop(), the destructor and move assignment.
Stop ==
  /\ ~stopping /\ stopping' = TRUE
  /\ UNCHANGED <<acceptor, jobs, handles, cpc, local, history>>
-----------------------------------------------------------------------------
(* handle_connection *)

Handled(c) == \E w \in HttpWorkers : handles[w] = c

\* A worker takes a job; with TLS the handshake may fail.
Begin(w, secured) ==
  /\ handles[w] = Nobody /\ jobs # <<>>
  /\ jobs' = Tail(jobs) /\ handles' = [handles EXCEPT ![w] = Head(jobs)]
  /\ Goes(Head(jobs), IF secured THEN "loop" ELSE "closing")
  /\ UNCHANGED <<acceptor, stopping, local, history>>

End(w) ==
  /\ handles[w] # Nobody /\ cpc[handles[w]] = "closing"
  /\ Goes(handles[w], "closed") /\ handles' = [handles EXCEPT ![w] = Nobody]
  /\ request' = [request EXCEPT ![handles[w]] = NoRequest]
  /\ reply' = [reply EXCEPT ![handles[w]] = NoReply]
  /\ count' = [count EXCEPT ![handles[w]] = 0]
  /\ UNCHANGED <<acceptor, stopping, jobs, history>>

Loop(c) ==
  /\ cpc[c] = "loop"
  /\ Goes(c, IF count[c] < MaxRequestsPerConn /\ ~stopping THEN "head" ELSE "closing")
  /\ UNCHANGED <<acceptor, stopping, jobs, handles, local, history>>

\* read_request up to the head.
ReadHead(c, r) ==
  /\ cpc[c] = "head" /\ ~stopping /\ Goes(c, "body")
  /\ request' = [request EXCEPT ![c] = r]
  /\ UNCHANGED <<acceptor, stopping, jobs, handles, count, reply, history>>

\* A malformed message, a limit, a time-out and an unsupported Expect are
\* answered, a clean EOF and a broken connection are not.
ReadFails(c, answer) ==
  /\ cpc[c] \in {"head", "body"} /\ (stopping => ~answer)
  /\ Goes(c, IF answer THEN "error" ELSE "closing")
  /\ UNCHANGED <<acceptor, stopping, jobs, handles, local, history>>

\* The interim 100 if the body is still to come, the body, finish_body.
ReadBody(c) ==
  /\ cpc[c] = "body" /\ Goes(c, "dispatch") /\ served' = [served EXCEPT ![c] = @ + 1]
  /\ UNCHANGED <<acceptor, stopping, jobs, handles, local, finals, said>>

\* send_protocol_error: the answer says close, then the input is drained.
ProtocolError(c, sent) ==
  /\ cpc[c] = "error" /\ (stopping => ~sent) /\ Goes(c, "closing")
  /\ said' = [said EXCEPT ![c] = IF sent THEN "close" ELSE "cut"]
  /\ finals' = [finals EXCEPT ![c] = @ + (IF sent THEN 1 ELSE 0)]
  /\ UNCHANGED <<acceptor, stopping, jobs, handles, local, served>>

\* dispatch: middleware, the route, 405, the fallback or 404; an error or an
\* exception is answered with 500.  Whether the answer may keep the
\* connection is decided here: Connection: close is set otherwise.
Dispatch(c, kind, keeps) ==
  /\ cpc[c] = "dispatch" /\ Goes(c, "send")
  /\ reply' = [reply EXCEPT ![c] = [kind |-> kind, keep |->
       kind # "failed" /\ keeps /\ request[c].keep /\ count[c] + 1 < MaxRequestsPerConn /\ ~stopping]]
  /\ UNCHANGED <<acceptor, stopping, jobs, handles, count, request, history>>

Refusable(c) == reply[c].kind = "chunked" /\ ~request[c].chunkable

\* begin_chunked_response refuses HEAD and HTTP/1.0: nothing is written.
Refused(c) ==
  /\ cpc[c] = "send" /\ Refusable(c)
  /\ Goes(c, "closing")
  /\ UNCHANGED <<acceptor, stopping, jobs, handles, local, history>>


\* Mutant: what was sent is not looked at.
LoopsAlways(c, sent) == TRUE

\* send_response returns sent.is_ok() && keep_alive.
LoopsOn(c, sent) == sent /\ reply[c].keep

\* The response; a producer that fails leaves it without its last chunk.
Send(c, sent) ==
  /\ cpc[c] = "send" /\ ~Refusable(c) /\ (stopping => ~sent)
  /\ Goes(c, IF LoopsOn(c, sent) THEN "loop" ELSE "closing")
  /\ count' = [count EXCEPT ![c] = @ + 1]
  /\ finals' = [finals EXCEPT ![c] = @ + (IF sent THEN 1 ELSE 0)]
  /\ said' = [said EXCEPT ![c] = IF ~sent THEN "cut" ELSE IF reply[c].keep THEN "open" ELSE "close"]
  /\ UNCHANGED <<acceptor, stopping, jobs, handles, request, reply, served>>

Acceptor == AcceptEnds \/ Submit \/ Stopping \/ Joined \/ \E s \in BOOLEAN : Overload(s)

Worker(w) ==
  LET c == handles[w]
  IN  \/ \E s \in BOOLEAN : Begin(w, s)
      \/ End(w)
      \/ /\ c # Nobody
         /\ \/ Loop(c) \/ ReadBody(c) \/ Refused(c) \/ \E r \in Requests : ReadHead(c, r)
            \/ \E s \in BOOLEAN : ReadFails(c, s) \/ ProtocolError(c, s) \/ Send(c, s)
            \/ \E k \in Kinds, s \in BOOLEAN : Dispatch(c, k, s)

Next ==
  \/ \E c \in HttpConns : Connect(c) \/ \E p \in BOOLEAN : Accept(c, p)
  \/ \E o \in {"ok", "no certificate", "no pool"} : Serve(o)
  \/ Acceptor \/ Stop \/ \E w \in HttpWorkers : Worker(w)

\* Every call of the socket ends at its deadline or, polling, at stop; the
\* handlers and producers are assumed to return.
Fairness == WF_vars(Acceptor) /\ \A w \in HttpWorkers : WF_vars(Worker(w))

Spec == Init /\ [][Next]_vars
FairSpec == Spec /\ Fairness
-----------------------------------------------------------------------------
\* The values of the variables.
TypeOK ==
  /\ apc \in {"off", "accept", "submit", "overload", "stop", "join", "done"}
  /\ accepted \in HttpConns \cup {Nobody} /\ handles \in [HttpWorkers -> HttpConns \cup {Nobody}]
  /\ jobs \in Seq(HttpConns) /\ request \in [HttpConns -> Requests]
  /\ count \in [HttpConns -> 0..MaxRequestsPerConn]

\* A connection is in one place, and no more wait than the queue holds.
OnePlace ==
  /\ Len(jobs) <= PendingConnections
  /\ \A c \in HttpConns :
       Cardinality({w \in HttpWorkers : handles[w] = c}) + Cardinality({i \in DOMAIN jobs : jobs[i] = c})
       + (IF accepted = c THEN 1 ELSE 0)
       = (IF cpc[c] \in {"none", "backlog", "closed"} THEN 0 ELSE 1)

\* When serve has returned nothing is left: no handler runs and every
\* connection is closed.
ServeEndsClean == apc = "done" => ~running_ /\ \A c \in HttpConns : cpc[c] \in {"none", "closed"}

\* A request is answered at most once, and nothing is read or sent on a
\* connection after an answer that said close or was cut short.
OneAnswerEach ==
  \A c \in HttpConns :
    /\ finals[c] <= served[c] + 1
    /\ said[c] # "open" => cpc[c] \in {"closing", "closed"}
    /\ cpc[c] \in {"loop", "head", "body"} => finals[c] = served[c]

\* Together.
HttpServerSound == OnePlace /\ ServeEndsClean /\ OneAnswerEach

\* serve returns after stop, whatever the clients do: every wait polls the
\* stop token (deadline_io.hpp, serve).
StopEndsServe == (stopping /\ apc # "off") ~> apc = "done"
=============================================================================
