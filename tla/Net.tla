-------------------------------- MODULE Net --------------------------------
(***************************************************************************)
(* TCP sockets (tcp.cpp, socket.cpp) and the timed reads of the HTTP       *)
(* server on them (deadline_io.hpp).  One thread connects by name, with or *)
(* without a timeout: the addresses are tried one after the other, each on *)
(* a socket of its own, non-blocking while it connects.  The streams it    *)
(* gets are cloned, switched, closed, and one of them is read by a         *)
(* DeadlineReader that polls a stop token.                                 *)
(***************************************************************************)
EXTENDS Naturals, FiniteSets

CONSTANTS
  NetEnd,               \* bound: the end of the clock
  ConnectTimeouts,      \* the timeouts given to connect_timeout
  MaxAddresses,         \* bound: addresses a name resolves to
  MaxDescriptors,       \* bound: descriptors ever opened
  IdleTimeout, HeaderTimeout, StopPoll  \* options of the reader

VARIABLES
  ticks,                \* steady_clock
  descriptors,          \* open descriptors: descriptor -> its socket
  nonblocking,          \* sockets in non-blocking mode
  streams,              \* descriptors held by TcpStream objects
  opened,               \* descriptors opened so far
  dial,                 \* the connect call under way
  listening,            \* descriptor of the TcpListener, or 0
  timed_read,           \* the DeadlineReader
  stopped_at,           \* when the stop token was set, or NetEnd + 1
  switched              \* history: sockets the user switched himself

vars == <<ticks, descriptors, nonblocking, streams, opened, dial, listening,
          timed_read, stopped_at, switched>>
connectVars == <<descriptors, nonblocking, streams, opened, dial>>
userVars == <<listening, timed_read, stopped_at, switched>>

Idle == [at |-> "idle", timeout |-> 0, deadline |-> 0, left |-> 0, tried |-> 0,
         fd |-> 0, last_error |-> "none", system |-> FALSE, outcome |-> "none"]
NoRead == [at |-> "none", waiting_first_byte |-> FALSE, deadline |-> 0, begun |-> 0,
           wake |-> 0]

Init ==
  /\ ticks = 0 /\ opened = 0 /\ listening = 0
  /\ descriptors = [d \in {} |-> 0] /\ nonblocking = {} /\ streams = {} /\ switched = {}
  /\ dial = Idle /\ timed_read = NoRead /\ stopped_at = NetEnd + 1
-----------------------------------------------------------------------------
(* OwnedSocket: whoever holds a descriptor closes it when it goes away. *)

Without(ds) == [d \in DOMAIN descriptors \ ds |-> descriptors[d]]
With(d, socket) == [e \in DOMAIN descriptors \cup {d} |->
                      IF e = d THEN socket ELSE descriptors[e]]

create_socket ==
  /\ opened < MaxDescriptors /\ opened' = opened + 1
  /\ descriptors' = With(opened + 1, opened + 1)

Drop(d) == descriptors' = Without({d})
-----------------------------------------------------------------------------
(* TcpStream::connect and connect_timeout *)

\* history: left, timeout, deadline and system tell how the call ended.
Returns(outcome) == dial' = [Idle EXCEPT !.outcome = outcome, !.left = dial.left,
                               !.timeout = dial.timeout, !.deadline = dial.deadline,
                               !.system = dial.system]

\* The error of one address: the next one is tried.
TryNext == dial' = [dial EXCEPT !.at = "next", !.fd = 0, !.left = @ - 1, !.last_error = "other"]

Dials(timeout) ==
  /\ dial.at = "idle" /\ timed_read.at = "none" /\ opened < MaxDescriptors
  /\ dial' = [Idle EXCEPT !.at = "resolve", !.timeout = timeout]
  /\ UNCHANGED <<ticks, descriptors, nonblocking, streams, opened, userVars>>

connect == Dials(0)

validate_connect_timeout(timeout) == timeout > 0
connect_timeout(timeout) == validate_connect_timeout(timeout) /\ Dials(timeout)
Timed == dial.timeout > 0

\* The clock of the call starts when the name is resolved.
Resolved(n) ==
  /\ dial.at = "resolve"
  /\ dial' = [dial EXCEPT !.at = "next", !.left = n,
                          !.deadline = ticks + dial.timeout]
  /\ UNCHANGED <<ticks, descriptors, nonblocking, streams, opened, userVars>>

ResolveFails ==
  /\ dial.at = "resolve" /\ Returns("other")
  /\ UNCHANGED <<ticks, descriptors, nonblocking, streams, opened, userVars>>

\* Mutant: the deadline is looked at only while a connect is in progress.
NeverLate == FALSE

Late == Timed /\ ticks >= dial.deadline

\* No address is left: the last error, or NotFound when there was none.
GiveUp ==
  /\ dial.at = "next"
  /\ \/ dial.left = 0 /\ Returns(IF dial.last_error = "none" THEN "NotFound" ELSE dial.last_error)
     \/ dial.left > 0 /\ Late /\ Returns("TimedOut")
  /\ UNCHANGED <<ticks, descriptors, nonblocking, streams, opened, userVars>>

\* connect_until and create_connected_socket, up to the system call.
connect_until ==
  /\ dial.at = "next" /\ dial.left > 0 /\ ~Late
  /\ \/ TryNext /\ UNCHANGED <<descriptors, nonblocking, opened>>
     \/ /\ create_socket
        /\ dial' = [dial EXCEPT !.at = "connecting", !.fd = opened + 1, !.tried = ticks]
        /\ nonblocking' = IF Timed THEN nonblocking \cup {opened + 1} ELSE nonblocking
  /\ UNCHANGED <<ticks, streams, userVars>>

\* The attempt fails, but not with ETIMEDOUT: connect, SO_ERROR, select or an
\* option. The socket is closed.
AttemptFails ==
  /\ dial.at \in {"connecting", "waiting", "restoring"}
  /\ TryNext /\ Drop(dial.fd)
  /\ nonblocking' = nonblocking \ {dial.fd}
  /\ UNCHANGED <<ticks, streams, opened, userVars>>

\* The system itself times the attempt out: connect tries the next address,
\* connect_timeout returns the error at once, whatever its deadline.
ConnectHearsTimeout ==
  /\ dial.at = "connecting" /\ ~Timed
  /\ dial' = [dial EXCEPT !.at = "next", !.fd = 0, !.left = @ - 1, !.last_error = "TimedOut",
                          !.system = TRUE]
  /\ Drop(dial.fd) /\ UNCHANGED <<ticks, nonblocking, streams, opened, userVars>>

TimedHearsTimeout ==
  /\ dial.at \in {"connecting", "waiting"} /\ Timed
  /\ dial' = [Idle EXCEPT !.outcome = "TimedOut", !.left = dial.left, !.timeout = dial.timeout,
                          !.deadline = dial.deadline, !.system = TRUE]
  /\ Drop(dial.fd) /\ nonblocking' = nonblocking \ {dial.fd}
  /\ UNCHANGED <<ticks, streams, opened, userVars>>

connect_is_in_progress ==
  /\ dial.at = "connecting" /\ Timed
  /\ dial' = [dial EXCEPT !.at = "waiting"]
  /\ UNCHANGED <<ticks, descriptors, nonblocking, streams, opened, userVars>>

\* select reports the socket ready and SO_ERROR is zero; or connect succeeds at once.
wait_for_connect ==
  /\ \/ dial.at = "waiting" /\ ~Late
     \/ dial.at = "connecting" /\ Timed
  /\ dial' = [dial EXCEPT !.at = "restoring"]
  /\ UNCHANGED <<ticks, descriptors, nonblocking, streams, opened, userVars>>

WaitTimesOut ==
  /\ dial.at = "waiting" /\ Late
  /\ Returns("TimedOut") /\ Drop(dial.fd)
  /\ nonblocking' = nonblocking \ {dial.fd}
  /\ UNCHANGED <<ticks, streams, opened, userVars>>

\* Mutant: the stream is handed out as it connected.
LeavesNonblocking(socket) == nonblocking

Restored(socket) == nonblocking \ {socket}

\* from_socket: the stream is the caller's.
from_socket ==
  /\ \/ dial.at = "restoring"
     \/ dial.at = "connecting" /\ ~Timed
  /\ streams' = streams \cup {dial.fd}
  /\ nonblocking' = Restored(dial.fd)
  /\ Returns("Ok")
  /\ UNCHANGED <<ticks, descriptors, opened, userVars>>
-----------------------------------------------------------------------------
(* The streams and the listener in the hands of their user *)

\* duplicate: a second descriptor of the same socket, whose mode is the socket's.
try_clone(d) ==
  /\ opened < MaxDescriptors /\ opened' = opened + 1
  /\ descriptors' = With(opened + 1, descriptors[d])
  /\ streams' = streams \cup {opened + 1}
  /\ UNCHANGED <<ticks, nonblocking, dial, userVars>>

set_nonblocking(d, enabled) ==
  /\ nonblocking' = IF enabled THEN nonblocking \cup {descriptors[d]}
                    ELSE nonblocking \ {descriptors[d]}
  /\ switched' = switched \cup {descriptors[d]}
  /\ UNCHANGED <<ticks, descriptors, streams, opened, dial, listening, timed_read, stopped_at>>

close(d) ==
  /\ timed_read.at = "none"
  /\ streams' = streams \ {d} /\ Drop(d)
  /\ UNCHANGED <<ticks, nonblocking, opened, dial, userVars>>

\* bind: a step that fails after the socket was made closes it, which changes nothing else.
bind ==
  /\ listening = 0 /\ create_socket /\ listening' = opened + 1
  /\ UNCHANGED <<ticks, nonblocking, streams, dial, timed_read, stopped_at, switched>>

\* accept: a connection that cannot be configured is closed again.
accept(configured) ==
  /\ listening # 0 /\ opened < MaxDescriptors /\ opened' = opened + 1
  /\ IF configured
     THEN streams' = streams \cup {opened + 1} /\ descriptors' = With(opened + 1, opened + 1)
     ELSE UNCHANGED <<streams, descriptors>>
  /\ UNCHANGED <<ticks, nonblocking, dial, userVars>>

ListenerCloses ==
  /\ listening # 0 /\ listening' = 0 /\ Drop(listening)
  /\ UNCHANGED <<ticks, nonblocking, streams, opened, dial, timed_read, stopped_at, switched>>
-----------------------------------------------------------------------------
(* DeadlineReader: the head of a request *)

readerVars == <<descriptors, nonblocking, streams, opened, dial, listening, switched>>
Shorter(a, b) == IF a < b THEN a ELSE b
Stopped == stopped_at <= ticks

\* start_head: input that is already buffered starts the header timeout at once.
start_head(buffered) ==
  /\ timed_read.at = "none" /\ dial.at = "idle" /\ streams # {}
  /\ timed_read' = [at |-> "calling", waiting_first_byte |-> ~buffered, begun |-> ticks,
                    deadline |-> ticks + IF buffered THEN HeaderTimeout ELSE IdleTimeout,
                    wake |-> 0]
  /\ UNCHANGED <<ticks, stopped_at, readerVars>>

\* Mutant: the wait is the remaining time alone.
WaitsAll == timed_read.deadline - ticks

PolledWait == Shorter(timed_read.deadline - ticks, StopPoll)

\* The top of the loop: stop, deadline, then wait_socket_ready for at most one poll.
PollsOnce ==
  /\ timed_read.at = "calling" /\ ~Stopped /\ ticks < timed_read.deadline
  /\ timed_read' = [timed_read EXCEPT !.at = "selecting", !.wake = ticks + PolledWait]
  /\ UNCHANGED <<ticks, stopped_at, readerVars>>

ReadRefused ==
  /\ timed_read.at = "calling" /\ (Stopped \/ ticks >= timed_read.deadline)
  /\ timed_read' = NoRead
  /\ UNCHANGED <<ticks, stopped_at, readerVars>>

NotReady ==
  /\ timed_read.at = "selecting" /\ ticks >= timed_read.wake
  /\ timed_read' = [timed_read EXCEPT !.at = "calling"]
  /\ UNCHANGED <<ticks, stopped_at, readerVars>>

\* Mutant: every piece of data moves the deadline.
MovesAlways == ticks + HeaderTimeout

NextDeadline == IF timed_read.waiting_first_byte THEN ticks + HeaderTimeout ELSE timed_read.deadline

\* Data arrive: the codec asks for more, or has the whole head.
ReadsSome(complete) ==
  /\ timed_read.at = "selecting" /\ ticks <= timed_read.wake
  /\ timed_read' = IF complete THEN NoRead
                   ELSE [timed_read EXCEPT !.at = "calling", !.waiting_first_byte = FALSE,
                                           !.deadline = NextDeadline]
  /\ UNCHANGED <<ticks, stopped_at, readerVars>>

\* The peer closes, select or an option fails.
ReadEnds ==
  /\ timed_read.at = "selecting" /\ timed_read' = NoRead
  /\ UNCHANGED <<ticks, stopped_at, readerVars>>

RequestStop ==
  /\ ~Stopped /\ timed_read.at # "none" /\ stopped_at' = ticks
  /\ UNCHANGED <<ticks, timed_read, readerVars>>

\* Time passes. A select returns when its time is up, and code that does not wait takes none.
Tick ==
  /\ ticks < NetEnd /\ ticks' = ticks + 1
  /\ timed_read.at = "selecting" => ticks < timed_read.wake
  /\ timed_read.at # "calling"
  /\ UNCHANGED <<connectVars, userVars>>
-----------------------------------------------------------------------------
Connecting ==
  \/ connect \/ ResolveFails \/ GiveUp \/ connect_until \/ AttemptFails
  \/ ConnectHearsTimeout \/ TimedHearsTimeout \/ connect_is_in_progress
  \/ wait_for_connect \/ WaitTimesOut \/ from_socket
  \/ \E t \in ConnectTimeouts : connect_timeout(t)
  \/ \E n \in 0..MaxAddresses : Resolved(n)

Using ==
  \/ \E d \in streams : try_clone(d) \/ close(d) \/ \E b \in BOOLEAN : set_nonblocking(d, b)
  \/ bind \/ ListenerCloses \/ \E b \in BOOLEAN : accept(b)

Reading ==
  \/ PollsOnce \/ ReadRefused \/ NotReady \/ ReadEnds \/ RequestStop
  \/ \E b \in BOOLEAN : start_head(b) \/ ReadsSome(b)

Next == Connecting \/ Using \/ Reading \/ Tick

Spec == Init /\ [][Next]_vars
-----------------------------------------------------------------------------
Busy == IF dial.fd # 0 THEN {dial.fd} ELSE {}

\* Whatever step of a connect, an accept or a close fails, an open descriptor
\* is held by exactly one object: a stream, the listener, or the call under way.
EveryDescriptorIsOwned ==
  /\ DOMAIN descriptors = streams \cup Busy \cup ({listening} \ {0})
  /\ streams \cap Busy = {} /\ listening \notin streams \cup Busy

\* A stream is in blocking mode until its user switches it, also when its
\* socket was connected with a timeout or is shared by clones.
StreamsBlock ==
  \A d \in streams : descriptors[d] \in nonblocking => descriptors[d] \in switched

\* connect_timeout opens no socket for an address after its deadline; it fails
\* with TimedOut only when the deadline has passed or the system has timed an
\* attempt out, and with another error only when it has tried every address.
\* connect has always tried every address.
ConnectIsBounded ==
  /\ Timed /\ dial.fd # 0 => dial.tried < dial.deadline
  /\ dial.outcome = "TimedOut" => dial.system \/ (Timed /\ ticks >= dial.deadline)
  /\ dial.outcome = "TimedOut" /\ ~Timed => dial.left = 0
  /\ dial.outcome \in {"other", "NotFound"} => dial.left = 0

\* Not so: connect_timeout tries every address that its deadline leaves time
\* for (tcp.hpp). After an ETIMEDOUT of the system the others stay untried.
TriesEveryAddress == dial.outcome = "TimedOut" /\ ticks < dial.deadline => dial.left <= 1

\* However its bytes trickle in, the head of a request is read within the idle
\* and the header timeout together, and a stop is noticed within one poll.
HeadInTime ==
  timed_read.at = "selecting" =>
    /\ ticks - timed_read.begun <= IdleTimeout + HeaderTimeout
    /\ Stopped => ticks - stopped_at <= StopPoll

\* Together.
NetSound == EveryDescriptorIsOwned /\ StreamsBlock /\ ConnectIsBounded /\ HeadInTime
=============================================================================
