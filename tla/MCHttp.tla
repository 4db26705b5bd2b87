------------------------------- MODULE MCHttp -------------------------------
(***************************************************************************)
(* The HTTP library, part by part: the pooled client against any peer, the *)
(* server with its acceptor and workers, the two codecs of one connection, *)
(* and URLs.  "part" says which of them a behaviour is about.              *)
(***************************************************************************)
EXTENDS Naturals, Sequences, FiniteSets, TLC

CONSTANTS
  Origins, Clients, MaxIdlePerHost, MaxInformational, MaxConnections, MaxRequests, HttpConns,
  HttpWorkers, PendingConnections, MaxRequestsPerConn, MaxBody, MaxWire, MaxUnread,
  MaxAuthority, MaxTarget, DefaultPort, MaxPort

VARIABLES
  part,                 \* the component that is checked
  pooled, bucket, origin, peer, keep, conn, candidate, held, hmode, hpc, req, attempt, reused,
  info, sends, requests,
  apc, serve_started_, running_, stopping, accepted, jobs, handles, cpc, count, request, reply,
  served, finals, said,
  method, chunked_body_active_, chunks, stream, closed, foreign, state_, body_remaining_,
  body_decoded_, body_info_, pushed, outgoing, partial,
  authority_text, target_text

clientVars == <<pooled, bucket, origin, peer, keep, conn, candidate, held, hmode, hpc, req,
  attempt, reused, info, sends, requests>>
serverVars == <<apc, serve_started_, running_, stopping, accepted, jobs, handles, cpc, count,
  request, reply, served, finals, said>>
codecVars == <<method, chunked_body_active_, chunks, stream, closed, foreign, state_,
  body_remaining_, body_decoded_, body_info_, pushed, outgoing, partial>>
urlVars == <<authority_text, target_text>>

Cl == INSTANCE HttpClient
Sv == INSTANCE HttpServer
H1 == INSTANCE Http1

\* The component that is checked moves, the others stay as they began.
Init ==
  /\ part \in {"client", "server", "codec", "url"}
  /\ Sv!Init
  /\ Cl!Init /\ (part # "client" => pooled)
  /\ H1!Init /\ (part # "codec" => method = "none")
  /\ H1!UrlInit /\ (part # "url" => authority_text = <<"a">>)

\* What stays as it is while a component moves.
Rest(moving) ==
  /\ UNCHANGED part
  /\ IF moving = "client" THEN TRUE ELSE UNCHANGED clientVars
  /\ IF moving = "server" THEN TRUE ELSE UNCHANGED serverVars
  /\ IF moving = "codec" THEN TRUE ELSE UNCHANGED codecVars
  /\ IF moving = "url" THEN TRUE ELSE UNCHANGED urlVars

Next ==
  \/ part = "client" /\ Cl!Next /\ Rest("client")
  \/ part = "server" /\ Sv!Next /\ Rest("server")
  \/ part = "codec" /\ H1!Next /\ Rest("codec")
  \/ part = "url" /\ H1!UrlNext /\ Rest("url")

\* The clients are alike, and so are the origins.
HttpSymmetry == Permutations(Clients) \cup Permutations(Origins)

vars == <<part, clientVars, serverVars, codecVars, urlVars>>
Spec == Init /\ [][Next]_vars
-----------------------------------------------------------------------------
\* A connection has one owner at a time: a client, a handle or the pool; and a
\* request that may not be repeated is sent once (client.cpp, client_pool.cpp).
ExchangesAreSound ==
  part = "client" => Cl!TypeOK /\ Cl!HttpClientSound

\* An accepted connection is in one place and answered or closed, and serve
\* leaves nothing running (server.cpp).
ServerIsSound ==
  part = "server" => Sv!TypeOK /\ Sv!HttpServerSound

\* Reader and writer of a message agree on where it ends, and nothing beyond
\* the limits is decoded (http1_codec.cpp); the text of a URL parses back to
\* it, and its normal form is stable (url.cpp).
WireIsSound ==
  /\ part = "codec" => H1!TypeOK /\ H1!Http1Sound
  /\ part = "url" => H1!UrlSound
=============================================================================
