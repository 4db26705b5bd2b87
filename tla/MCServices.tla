----------------------------- MODULE MCServices -----------------------------
(***************************************************************************)
(* The services that threads, processes and connections share, each by     *)
(* itself: "part" says which one a behaviour is about, so that the states  *)
(* of this module are those of its components, one after the other.        *)
(***************************************************************************)
EXTENDS Integers, Sequences, FiniteSets, TLC

CONSTANTS
  MaxId, MaxTime, Periods, Events, Emitters, MaxSubs, Objects, Self, Callers, MaxTries, Names,
  Values, Bad, Default, Loaded, Writers, MaxVars, MaxWrites, MaxListeners, Keys, Resolvers, DnsCapacity,
  Ttl, DnsEnd, MaxLookups, Kids, PipeSize, MaxBytes, Procs, QueueLimit, Backlog, MaxObjects, MaxOps,
  NetEnd, ConnectTimeouts, MaxAddresses, MaxDescriptors, IdleTimeout, HeaderTimeout, StopPoll,
  ClientPlaintexts, ServerPlaintexts, MaxKeyUpdates

\* TimerManager: a clock that starts at one, delays of either sign.
ASSUME TimerAssumption == MaxId \in Nat /\ MaxTime \in Nat \ {0} /\ Periods \subseteq Int
\* EventBus, Thread: nobody is called nobody.
ASSUME ThreadAssumption ==
  MaxSubs \in Nat /\ MaxTries \in Nat /\ Self \notin Callers /\ "nobody" \notin Callers \cup {Self}
\* Config: finitely many names, and the default of a variable is a value.
ASSUME ConfigAssumption ==
  /\ Default \in Values /\ Loaded \subseteq Values \cup {Bad} /\ IsFiniteSet(Names)
  /\ MaxWrites \in Nat
\* CachedDnsResolver: a cache of at least one entry, no key called none.
ASSUME DnsAssumption ==
  /\ DnsCapacity \in Nat \ {0} /\ Ttl \in Nat /\ DnsEnd \in Nat
  /\ IsFiniteSet(Resolvers) /\ "none" \notin Keys
\* Subprocess: a pipe has a size.
ASSUME ProcessAssumption == PipeSize \in Nat /\ MaxBytes \in Nat
\* Named IPC objects: processes have positive numbers.
ASSUME IpcAssumption ==
  Procs \subseteq Nat \ {0} /\ QueueLimit \in Nat /\ Backlog \in Nat /\ MaxObjects \in Nat /\ MaxOps \in Nat
\* TCP: times and numbers of things.
ASSUME NetAssumption ==
  /\ NetEnd \in Nat /\ ConnectTimeouts \subseteq Nat /\ MaxAddresses \in Nat /\ MaxDescriptors \in Nat
  /\ IdleTimeout \in Nat /\ HeaderTimeout \in Nat /\ StopPoll \in Nat
\* TLS: numbers of plaintexts.
ASSUME TlsAssumption == ClientPlaintexts \in Nat /\ ServerPlaintexts \in Nat

VARIABLES
  part,                 \* the component that is checked
  now, timers, next_id, shutdown, entry, spc, current, doomed, deadline, owed, mpc,
  listeners, next_sub, bus, snapshot, counted, subscribed, dropped, before,
  idle, pool_shutdown, pool, lent, returning, freed, dirty,
  requested, stopOwed, blocked, firsts, fun, native, joined_, join_status_, join_mutex_, jpc,
  result, object, once_mutex, value_, tries, seen,
  registry, pending, instances, stored, listeners_, todo, notify, loading, failed, writes,
  asked, start, changes, told, added, cut, raced,
  clock, lru, stats, asking, begun, answered, used,
  spawning, process, writers, buffered, stdout_, exit_status_, collected_stdout_, gathered, wpc, timed,
  written, handed, forgone, stray,
  kind, bound, made, sized, content, given, taken, handle, role, backlog, peers, dead,
  ticks, descriptors, nonblocking, streams, opened, dial, listening, timed_read, stopped_at,
  switched,
  ssl, tcall, link, hung_up, accepted_n, received, ended, missed, gap, spoke

timerVars == <<now, timers, next_id, shutdown, entry, spc, current, doomed, deadline, owed,
  mpc>>
busVars == <<listeners, next_sub, bus, snapshot, counted, subscribed, dropped, before>>
objectsVars == <<idle, pool_shutdown, pool, lent, returning, freed, dirty>>
threadVars == <<requested, stopOwed, blocked, firsts, fun, native, joined_, join_status_,
  join_mutex_, jpc, result, object, once_mutex, value_, tries, seen>>
configVars == <<registry, pending, instances, stored, listeners_, todo, notify, loading, failed,
  writes, asked, start, changes, told, added, cut, raced>>
dnsVars == <<clock, lru, stats, asking, begun, answered, used>>
processVars == <<spawning, process, writers, buffered, stdout_, exit_status_, collected_stdout_,
  gathered, wpc, timed, written, handed, forgone, stray>>
ipcVars == <<kind, bound, made, sized, content, given, taken, handle, role, backlog, peers, dead>>
netVars == <<ticks, descriptors, nonblocking, streams, opened, dial, listening, timed_read,
  stopped_at, switched>>
tlsVars == <<ssl, tcall, link, hung_up, accepted_n, received, ended, missed, gap, spoke>>

Tm == INSTANCE Timer
Eb == INSTANCE EventBus
Op == INSTANCE ObjectPool
Th == INSTANCE Thread
Cf == INSTANCE Config
Dn == INSTANCE DnsCache
Sp == INSTANCE Subprocess
Ni == INSTANCE NamedIpc
Nt == INSTANCE Net
Tl == INSTANCE TlsStream

\* The component that is checked moves, the others stay as they began.
Init ==
  /\ part \in {"timer", "bus", "objects", "thread", "config", "dns", "process", "ipc", "net",
              "tls"}
  /\ Tm!Init /\ Eb!Init /\ Op!Init /\ Th!Init /\ Cf!Init /\ Dn!Init /\ Sp!Init /\ Nt!Init
     /\ Tl!Init
  /\ Ni!Init /\ (part # "ipc" => kind = "pipe")

\* What stays as it is while a component moves.
Rest(moving) ==
  /\ UNCHANGED part
  /\ IF moving = "timer" THEN TRUE ELSE UNCHANGED timerVars
  /\ IF moving = "bus" THEN TRUE ELSE UNCHANGED busVars
  /\ IF moving = "objects" THEN TRUE ELSE UNCHANGED objectsVars
  /\ IF moving = "thread" THEN TRUE ELSE UNCHANGED threadVars
  /\ IF moving = "config" THEN TRUE ELSE UNCHANGED configVars
  /\ IF moving = "dns" THEN TRUE ELSE UNCHANGED dnsVars
  /\ IF moving = "process" THEN TRUE ELSE UNCHANGED processVars
  /\ IF moving = "ipc" THEN TRUE ELSE UNCHANGED ipcVars
  /\ IF moving = "net" THEN TRUE ELSE UNCHANGED netVars
  /\ IF moving = "tls" THEN TRUE ELSE UNCHANGED tlsVars

Next ==
  \/ part = "timer" /\ Tm!Next /\ Rest("timer")
  \/ part = "bus" /\ Eb!Next /\ Rest("bus")
  \/ part = "objects" /\ Op!Next /\ Rest("objects")
  \/ part = "thread" /\ Th!Next /\ Rest("thread")
  \/ part = "config" /\ Cf!Next /\ Rest("config")
  \/ part = "dns" /\ Dn!Next /\ Rest("dns")
  \/ part = "process" /\ Sp!Next /\ Rest("process")
  \/ part = "ipc" /\ Ni!Next /\ Rest("ipc")
  \/ part = "net" /\ Nt!Next /\ Rest("net")
  \/ part = "tls" /\ Tl!Next /\ Rest("tls")

\* Names and writers of the configuration are alike.
ServiceSymmetry == Permutations(Names) \cup Permutations(Writers)

vars == <<part, timerVars, busVars, objectsVars, threadVars, configVars, dnsVars,
          processVars, ipcVars, netVars, tlsVars>>
Spec == Init /\ [][Next]_vars
-----------------------------------------------------------------------------
\* A timer that cancel() has ended never fires again, one that is due is not
\* slept over, and its callback runs outside the lock (timer.cpp).
TimersAreExact ==
  part = "timer" => Tm!TypeOK /\ Tm!TimerSound

\* The subscription table and the snapshot an emit calls agree with what was
\* subscribed (event_bus.cpp); a pooled object is in one place, and a returned
\* one is reset before it is lent again (object_pool.hpp); a stop request reaches
\* every waiter, joins agree and a once_value is made once (thread.cpp,
\* stop_token.cpp, once.hpp).
ThreadServicesSound ==
  /\ part = "bus" => Eb!TypeOK /\ Eb!EventBusSound
  /\ part = "objects" => Op!TypeOK /\ Op!ObjectPoolSound
  /\ part = "thread" => Th!TypeOK /\ Th!ThreadSound

\* What load, set and the listeners leave behind (config.cpp, config_var.hpp).
ConfigurationSound ==
  part = "config" => Cf!TypeOK /\ Cf!ConfigSound

\* The cache is in order of use, within its capacity, and its counters add up
\* however resolvers interleave (dns_cache.cpp).
NamesAreCached ==
  part = "dns" => Dn!TypeOK /\ Dn!DnsCacheSound

\* The output of a child is handed out whole and the child is reaped once
\* (subprocess.cpp); a named object is complete when it is opened, its path is
\* its maker's, and what is taken was given (ipc.cpp).
ProcessesAreSound ==
  /\ part = "process" => Sp!TypeOK /\ Sp!SubprocessSound
  /\ part = "ipc" => Ni!TypeOK /\ Ni!NamedIpcSound

\* Descriptors are owned and blocking again, connect and the head of a message
\* are in time (tcp.cpp, deadline_io.hpp); TLS hands out a prefix of what was
\* written, and the end only after all of it (tls_stream.cpp).
ConnectionsAreSound ==
  /\ part = "net" => Nt!NetSound
  /\ part = "tls" => Tl!TlsStreamSound
=============================================================================
