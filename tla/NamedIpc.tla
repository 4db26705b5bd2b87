------------------------------ MODULE NamedIpc ------------------------------
(***************************************************************************)
(* The named objects of ipc.cpp on POSIX: NamedPipeServer, NamedPipeClient *)
(* and NamedPipeConnection, SharedMemory, NamedSemaphore, MessageQueue and *)
(* the remove functions, used by several processes under one name.  A name *)
(* outlives the processes; an object outlives its name as long as somebody *)
(* holds it.  Processes may crash between any two system calls.            *)
(***************************************************************************)
EXTENDS Naturals, Sequences, FiniteSets, Functions

CONSTANTS
  Procs,
  QueueLimit,           \* mq_maxmsg, 10 in the code
  Backlog,              \* clients that may wait for accept, two under listen(fd, 1)
  MaxObjects,           \* bound: objects ever created
  MaxOps                \* bound: units and messages ever put into the objects

VARIABLES
  kind,                 \* which of the four the name is used for, fixed
  bound,                \* the object the name leads to; zero: none
  made,                 \* objects created
  sized,                \* object -> ftruncate was done; listen was called
  content,              \* object -> messages in it; for a semaphore, units
  given, taken,         \* history: object -> what was put in and taken out
  handle,               \* process -> the object it holds
  role,                 \* process -> "none", "creating", "owner", "user", "peer"
  backlog,              \* object -> clients that connected and were not accepted
  peers,                \* object -> the two processes that accept joined
  dead                  \* processes that crashed

vars == <<kind, bound, made, sized, content, given, taken, handle, role, backlog, peers, dead>>

Named == 1..MaxObjects
Up(p) == p \notin dead

Init ==
  /\ kind \in {"pipe", "memory", "semaphore", "queue"}
  /\ bound = 0 /\ made = 0 /\ sized = [o \in Named |-> FALSE]
  /\ content = [o \in Named |-> <<>>]
  /\ given = [o \in Named |-> <<>>] /\ taken = [o \in Named |-> <<>>]
  /\ handle = [p \in Procs |-> 0] /\ role = [p \in Procs |-> "none"]
  /\ backlog = [o \in Named |-> <<>>] /\ peers = [o \in Named |-> {}] /\ dead = {}

Sets(p, o, as) == handle' = [handle EXCEPT ![p] = o] /\ role' = [role EXCEPT ![p] = as]
Holds(p) == Up(p) /\ role[p] \in {"owner", "user", "peer"}
-----------------------------------------------------------------------------
(* create and open *)

\* The system call that makes the name, with O_EXCL or as a bind: it fails if
\* the name exists.  Complete at once, or after a second call.
Made(p, complete) ==
  /\ Up(p) /\ role[p] = "none" /\ bound = 0 /\ made < MaxObjects
  /\ made' = made + 1 /\ bound' = made + 1
  /\ sized' = [sized EXCEPT ![made + 1] = complete]
  /\ Sets(p, made + 1, IF complete THEN "owner" ELSE "creating")
  /\ UNCHANGED <<kind, content, given, taken, backlog, peers, dead>>

NamedPipeServer_create(p) == kind = "pipe" /\ Made(p, FALSE)
SharedMemory_create(p) == kind = "memory" /\ Made(p, FALSE)
NamedSemaphore_create(p) == kind = "semaphore" /\ Made(p, TRUE)
MessageQueue_create(p) == kind = "queue" /\ Made(p, TRUE)

\* ftruncate and mmap, listen.
Complete(p) ==
  /\ Up(p) /\ role[p] = "creating"
  /\ sized' = [sized EXCEPT ![handle[p]] = TRUE] /\ Sets(p, handle[p], "owner")
  /\ UNCHANGED <<kind, bound, made, content, given, taken, backlog, peers, dead>>

\* One of them fails: the object is closed and its name unlinked.
CompleteFails(p) ==
  /\ Up(p) /\ role[p] = "creating" /\ bound' = 0 /\ Sets(p, 0, "none")
  /\ UNCHANGED <<kind, made, sized, content, given, taken, backlog, peers, dead>>

\* Mutant: the size found is not looked at.
OpensAny(o) == TRUE

\* fstat: a segment of size zero is refused.
Openable(o) == sized[o]

Found(p) ==
  /\ Up(p) /\ role[p] = "none" /\ bound # 0 /\ Openable(bound) /\ Sets(p, bound, "user")
  /\ UNCHANGED <<kind, bound, made, sized, content, given, taken, backlog, peers, dead>>

SharedMemory_open(p) == kind = "memory" /\ Found(p)
NamedSemaphore_open(p) == kind = "semaphore" /\ Found(p)
MessageQueue_open(p) == kind = "queue" /\ Found(p)

\* Connects to a socket that listens and queues there; the server need not
\* have accepted, and may never: only the first that queues is served.
\* Bound: no process queues twice.
connect(p) ==
  /\ Up(p) /\ kind = "pipe" /\ role[p] = "none" /\ bound # 0 /\ sized[bound]
  /\ \E q \in Procs : Up(q) /\ role[q] = "owner" /\ handle[q] = bound
  /\ Len(backlog[bound]) < Backlog /\ \A i \in DOMAIN backlog[bound] : backlog[bound][i] # p
  /\ backlog' = [backlog EXCEPT ![bound] = Append(@, p)] /\ Sets(p, bound, "peer")
  /\ UNCHANGED <<kind, bound, made, sized, content, given, taken, peers, dead>>

\* Closing the socket that listens discards the clients that still wait.
Discards(o) == backlog' = [backlog EXCEPT ![o] = <<>>]

\* The first that waits, gone or not; then the socket is closed and its path
\* unlinked.
accept(p) ==
  /\ Up(p) /\ kind = "pipe" /\ role[p] = "owner" /\ backlog[handle[p]] # <<>>
  /\ peers' = [peers EXCEPT ![handle[p]] = {p, Head(backlog[handle[p]])}]
  /\ Discards(handle[p]) /\ Sets(p, handle[p], "peer") /\ bound' = 0
  /\ UNCHANGED <<kind, made, sized, content, given, taken, dead>>

\* Only a server that still listens unlinks its path.
NamedPipeServer_close(p) ==
  /\ Holds(p) /\ kind = "pipe" /\ role[p] = "owner" /\ bound' = 0
  /\ Discards(handle[p]) /\ Sets(p, 0, "none")
  /\ UNCHANGED <<kind, made, sized, content, given, taken, peers, dead>>

\* Any other handle: the name stays.
close(p) ==
  /\ Holds(p) /\ ~(kind = "pipe" /\ role[p] = "owner") /\ Sets(p, 0, "none")
  /\ UNCHANGED <<kind, bound, made, sized, content, given, taken, backlog, peers, dead>>

\* remove_shared_memory, remove_semaphore, remove_message_queue.
remove(p) ==
  /\ Up(p) /\ kind # "pipe" /\ bound # 0 /\ bound' = 0
  /\ UNCHANGED <<kind, made, sized, content, given, taken, handle, role, backlog, peers, dead>>

Crash(p) ==
  /\ Up(p) /\ dead' = dead \cup {p} /\ Sets(p, 0, "none")
  /\ IF kind = "pipe" /\ role[p] = "owner" THEN Discards(handle[p]) ELSE UNCHANGED backlog
  /\ UNCHANGED <<kind, bound, made, sized, content, given, taken, peers>>
-----------------------------------------------------------------------------
(* use *)

\* One unit or message more, with who sent it through a pipe.
Put(p, from) ==
  /\ Holds(p) /\ SumFunction([o \in Named |-> Len(given[o])]) < MaxOps
  /\ LET m == <<Len(given[handle[p]]) + 1, from>>
     IN  /\ given' = [given EXCEPT ![handle[p]] = Append(@, m)]
         /\ content' = [content EXCEPT ![handle[p]] = Append(@, m)]
  /\ UNCHANGED <<kind, bound, made, sized, taken, handle, role, backlog, peers, dead>>

release(p) == kind = "semaphore" /\ Put(p, 0)
\* A full queue blocks the sender.
send(p) == kind = "queue" /\ Holds(p) /\ Len(content[handle[p]]) < QueueLimit /\ Put(p, 0)
\* A client may write before it is accepted, not after it was discarded.
write_all(p) ==
  /\ kind = "pipe" /\ role[p] = "peer"
  /\ p \in peers[handle[p]] \/ \E i \in DOMAIN backlog[handle[p]] : backlog[handle[p]][i] = p
  /\ Put(p, p)

\* The first one that the other end of the pipe, or anybody, has put.
ForMe(p, o, m) == kind = "pipe" => p \in peers[o] /\ m[2] \in peers[o] \ {p}
First(p, o) == CHOOSE i \in DOMAIN content[o] :
  ForMe(p, o, content[o][i]) /\ \A j \in 1..(i - 1) : ~ForMe(p, o, content[o][j])

Take(p) ==
  /\ Holds(p) /\ \E i \in DOMAIN content[handle[p]] : ForMe(p, handle[p], content[handle[p]][i])
  /\ LET o == handle[p]
         i == First(p, o)
     IN  /\ taken' = [taken EXCEPT ![o] = Append(@, content[o][i])]
         /\ content' = [content EXCEPT ![o] = SubSeq(@, 1, i - 1) \o SubSeq(@, i + 1, Len(@))]
  /\ UNCHANGED <<kind, bound, made, sized, given, handle, role, backlog, peers, dead>>

\* With a timeout each may instead return nothing, which changes nothing.
acquire(p) == kind = "semaphore" /\ Take(p)
receive(p) == kind = "queue" /\ Take(p)
read(p) == kind = "pipe" /\ role[p] = "peer" /\ Take(p)

Next ==
  \E p \in Procs :
    \/ NamedPipeServer_create(p) \/ SharedMemory_create(p)
    \/ NamedSemaphore_create(p) \/ MessageQueue_create(p) \/ Complete(p) \/ CompleteFails(p)
    \/ SharedMemory_open(p) \/ NamedSemaphore_open(p) \/ MessageQueue_open(p)
    \/ connect(p) \/ accept(p) \/ NamedPipeServer_close(p) \/ close(p) \/ remove(p) \/ Crash(p)
    \/ release(p) \/ send(p) \/ write_all(p) \/ acquire(p) \/ receive(p) \/ read(p)

Spec == Init /\ [][Next]_vars
-----------------------------------------------------------------------------
\* The values of the variables.
TypeOK ==
  /\ bound \in 0..made /\ made \in 0..MaxObjects /\ handle \in [Procs -> 0..made]
  /\ role \in [Procs -> {"none", "creating", "owner", "user", "peer"}]

\* Who opened an object by its name finds it complete, also when it is being
\* created, removed or created again at the same time.
OpenedIsComplete == \A p \in Procs : role[p] \in {"owner", "user", "peer"} => sized[handle[p]]

\* Without a crash the path of a pipe exists exactly as long as its server is
\* being created or listens: no close removes the path of another server.
PathIsOwned ==
  kind = "pipe" /\ dead = {} =>
    (bound # 0) = \E p \in Procs : role[p] \in {"creating", "owner"} /\ handle[p] = bound

\* What is taken from an object was put into that object, once and, in each
\* direction, in order.
TakenWasGiven ==
  \A o \in Named :
    /\ Len(taken[o]) + Len(content[o]) = Len(given[o])
    /\ \A i, j \in DOMAIN taken[o] : i < j /\ taken[o][i][2] = taken[o][j][2] => taken[o][i][1] < taken[o][j][1]
    /\ kind = "queue" => Len(content[o]) <= QueueLimit

\* A pipe joins two processes for good: what is read from it was written by
\* one of them, whoever else was connected to the server that accepted.
JoinedInPairs ==
  kind = "pipe" => \A o \in Named :
    /\ \A p, q, r \in peers[o] : p = q \/ q = r \/ p = r
    /\ \A i \in DOMAIN taken[o] : taken[o][i][2] \in peers[o]

\* Together.
NamedIpcSound == OpenedIsComplete /\ PathIsOwned /\ TakenWasGiven /\ JoinedInPairs
=============================================================================
