# libca in TLA+

libca is a C++ library of twenty-seven modules: threads and what they share, processes
and what they share, HTTP over TCP and TLS, readers and writers of documents and
archives, text, cryptography, files, command lines. This project models the parts whose
correctness is a matter of order, of failure or of two sides that must agree, checks
them with TLC on small instances, and proves with TLAPS, for every instance, the safety of
the queue, the thread pool, the message loop, the channel, the shared-memory ring, Result
and the ten services of MCServices: timers, event bus, object pool, threads, config, DNS
cache, child processes, named IPC objects, TCP and TLS.

Source paths below are relative to `src/libca/<module>/src/libca/<module>/`. PROJECT.json
maps every definition to the lines it models, lists the hazards the properties are
about, and names for each property a mutant of the code that breaks it.

## Inventory

| Part | State | What is hard | What makes it correct |
|---|---|---|---|
| `thread/bounded_queue.hpp` | items, closed, two condition variables | notifications after unlock, barging, timeouts, close racing blocked threads | values conserved in order; no lost wakeup; close releases everyone |
| `thread/thread_pool` | PoolState, mode, stop source, two mutexes, queue, workers, one future per task | check-then-push, Drain upgraded to CancelPending, cancellation outside the lock, calls from inside tasks, failing create | every accepted future is completed, by one party; join and the destructor mean what they say |
| `process/ipc` ShmRingQueue | generation, count, owner, birth, heartbeat, slots | processes that die anywhere, takeover, torn slots, lapping | one writer; whole messages; honest errors |
| `thread/message_loop` | ready queue, delayed set, phase | stop racing posts, due tasks, join from the loop | each task run once or dropped by a stop; order |
| `thread/channel.hpp` | items, sender count, closed, receiver_alive | last sender leaving, receiver dying under blocked senders | nothing lost before the end; nobody blocked for ever |
| `thread/timer` | ordered timers, shutdown | callback outside the lock, cancel during it | a cancelled timer never returns; nobody oversleeps |
| `thread/thread`, `stop_token`, `once` | thread, stop and once state | join and stop racing | a stop reaches every waiter; joins agree |
| `thread/event_bus`, `object_pool` | handlers; idle objects | callbacks outside the lock; a pool that dies before its objects | no call in a later emit; no object lost or lent twice |
| `config` | registry, unclaimed values, listeners | listeners outside the lock that may throw, load in parts | dump is one object; a load is whole; every change is told, in order but for overlapping sets |
| `net/dns_cache`, `collection/lru_cache` | entries in order of use, counters | resolving outside the lock | within capacity, least recently used goes |
| `net/tcp`, `http/detail/deadline_io` | descriptors, modes, deadlines | connecting with a timeout, timeouts of the system, trickling heads, stop | descriptors owned and blocking, times kept |
| `net/tls_stream` | two BIOs, the SSL engine | records cut by timeouts, end of stream, key updates | a prefix is handed out, the end only after all of it |
| `process/subprocess`, `process/ipc` named objects | processes, pipes; names, objects | inherited descriptors, timeouts, reads that fail, crashes between system calls | no output lost but what a failed read takes; child reaped once; complete objects |
| `http` client, pool, server, codec, URL | connections, buckets, jobs, wire | retries, limits, overload, stop, framing | one owner; one answer; both sides agree where a message ends |
| `json`, `toml`, `yaml`, `xml`, `ini`, `csv` | parser state, document | nesting, redefinition, quoting | what is written reads back; what is read is what the text says |
| `zip`, `io`, `crypto`, `str`, `core/bytes` | streams, buffers, pools | failing writes, a full disk seen late, short reads, boundaries, lifetimes | bytes survive |
| `opt`, `json/kv_store`, `fs` | bound arguments; a file; a tree | precedence; crash during save; two processes; links | precedence kept; old file or new one; a copy is faithful |
| `core/result.hpp`, `core/option.hpp` | raw storage with a tag and a flag | constructors that throw, moved-from objects, self-assignment | storage destroyed and overwritten only in the right state; intact objects keep their content |
| `log`, `time`, `random`, `uuid`, `env`, `i18n`, `resources`, `test`, rest of `core` and `collection` | none shared, or one mutex | | not modelled, see below |

How the parts meet: ThreadPool calls BoundedQueue under and outside its own mutexes, and
its workers are Threads; HttpServer hands connections to a ThreadPool and reads them
through DeadlineReader over TcpStream or TlsStream with Http1Reader; HttpClient takes
connections from its pool; KvStore writes JSON through FileUtil; MessageLoop and
TimerManager each own a thread and call back into user code outside their lock;
ShmRingQueue's processes share memory only.

## Modules

Concurrency core:

* **BoundedQueue**: the queue's state and the critical sections of its operations
  as operators. A section under the mutex is one step. `waitFull` and `waitEmpty` are
  the threads blocked on the two condition variables, and `NotifyNotEmpty`,
  `NotifyNotFull` and `NotifyAll` are separate operators since the code notifies after
  it unlocks. `WakesAlone` is a spurious wakeup, or the end of a timed wait.
* **QueueUsers** extends it with threads that call anything at any time, and with
  histories of what was accepted (`sent`) and what left (`got`).
* **PoolService** says what a submitter may rely on: acceptance, start in FIFO order,
  completion once, and a cancellation that withdraws exactly what has not started.
* **ThreadPool** extends BoundedQueue with the pool. One action per section of
  thread_pool.cpp; `stateMutex` is a variable because `shutdown` holds it over calls,
  `joinMutex` because `join` holds it while it waits. `pending[t]` is the local deque
  of tasks that a shutdown is cancelling. `future[x]` is what the submitter holds. It
  implements PoolService with `open <- ~closed`, `order <- items` and the status of a
  task computed from where it is (`ImplementsService`).
* **ThreadPoolProofs**, **QueueProofs**, **LoopProofs**, **ChannelProofs**,
  **RingProofs**, **ResultProofs**, **ServiceProofs**: the theorems about ThreadPool,
  QueueUsers, MessageLoop, Channel, ShmRing, Result and MCServices. **SequenceFacts** has
  the lemmas about sequences that several of them share.
* **ShmRing**: the ring. Every load, store or compare-and-swap of shared memory that
  another process can observe is a step, and `Crash` may come before any step. A
  payload is two halves copied in two steps; a message is its generation and number.
* **MessageLoop**: the loop thread with its two waits, the posters, both stops, join
  and the destructor, and a clock `now`. The state mutex is never held over another
  call, so each section is one action; `woken` says that the waiting loop thread has
  been notified and has not yet looked at its predicate (`Awaited`). A scan of the loop
  (`Refills`) moves all due entries at once, as the code does under the lock.
* **Channel**: Senders that threads copy, drop and close, and the Receiver; the
  conventions are those of BoundedQueue. The capacity is chosen in `Init`, zero meaning
  no bound, so that one run covers both.
* **Timer**, **EventBus**, **ObjectPool**, **Thread**: in all four a critical section
  is a step and what runs outside the lock (a callback, a copied list of handlers, a
  deleter between its weak reference and the mutex) is a place where others step.

Processes and connections:

* **Subprocess**: threads that spawn, wait and collect; a pipe is the bytes in it and
  the set of those who hold its write end, which `fork` copies, also to the children of
  other threads and to their offspring. Every read may fail: `DrainFails`, `RestFails`
  and `OtherFails` are the places where `wait_with_output` gives up, and `gathered` is
  the local string of `read_to_end`, which goes with its error.
* **NamedIpc**: pipes, shared memory, semaphores and queues under one name; a name
  outlives processes, an object its name. Clients of a pipe wait in its backlog, and
  those left in it when the listening socket closes are discarded.
* **Net**: descriptors, sockets and their blocking mode; connecting through a list of
  addresses with one deadline; DeadlineReader's first-byte and header deadlines. An
  attempt fails (`AttemptFails`), runs into the deadline (`WaitTimesOut`) or is timed out
  by the system, which `connect` and `connect_timeout` treat differently
  (`ConnectHearsTimeout`, `TimedHearsTimeout`).
* **TlsStream**: records between the SSL engine, the BIOs and the connection; calls
  that time out half way and are repeated.
* **DnsCache**, **Config**: registries under a lock with work outside it. In Config a
  variable has listeners with ascending ids; `notify[w]` are the <<change, listener>>
  pairs a writer still has to call, and a listener that throws empties it.
* **HttpClient**, **HttpServer**, **Http1**: the client's three kinds of
  exchange and the shared pool; the accept loop, the workers and `stop`; the framing of
  messages between two ends, one of which may be somebody else's; URL texts (in Http1).

Documents, bytes and stores:

* **Json**, **Xml**, **Opt** and the CSV half of **Ini** read their input lazily: one unit
  (a token, a piece of markup, a character, an argument) a step, any unit, so that the
  states are all texts up to a bound with the parser's state after each. **Toml**, **Yaml**
  and **Ini** proper do so line by line. The writers are operators, and the properties read
  back what they give. Json has schema validation too, Toml the scalars: strings in their
  four quotings, the text of numbers, date-times.
* **Zip** (with gzip), **BufferedIo** and the digests of **Codec**: sequences of records or
  numbered bytes under failing, short or repeated calls. A write to an archive goes to
  stdio: it stays in the buffer, is flushed with everything before it, or fails, and what
  is still buffered may fail at `fclose`, whose result the code drops. Compression is a
  function that is undone, a CRC is the data it covers, a compression function is
  injective.
* **Codec**, **Text**: the arithmetic of encodings, block modes, AES and DES structure,
  UTF-8 and UTF-16, over the real byte values.
* **ByteBuffer**: growth, cursors, varints and freezing of BytesMut and Bytes.
* **StringPool**: reference counts and back pointers of interned strings, arenas.
* **Files**: tree operations of two processes, with links; copy_dir is a step for each
  entry, in any order, that creates, opens through a link or with `O_EXCL`, or fails
  and ends the copy; glob; KvStore, a store saved through a temporary file and a rename
  with a crash at every step.
* **Result**: Result's storage, which is constructed, destroyed and reused by hand, and
  Option. Every operation is called on every Result; one that reads storage without an
  object gets "garbage". `intact` is the set of those a user may read.

Instances:

* **MCLive** extends Channel and adds the ends of Timer and HttpServer.
* **MCServices**, **MCHttp**, **MCDocuments** put components side by side. They have a
  variable `part`, chosen in `Init`: a behaviour is a behaviour of that component, all
  other variables keep their initial values (`Rest`), and a property of the module says
  of each part what its component's module defines (`TimerSound`, `NetSound`, ...,
  together with its `TypeOK`). The states are those of the components one after the
  other, never their product.

The operators marked "Mutant" in the modules are deliberate bugs; each is known to break
the property of its module when it replaces the definition it imitates.

## Runs

| Run | Instance | Shows |
|---|---|---|
| `queue` | 3 threads, 3 values, capacity 1 | `Conservation`, `NoLostWakeup`, and `ClosedReleases` under weak fairness of each thread's steps inside an operation |
| `pool` | 2 callers, 2 workers, 3 tasks, capacity 2, tasks may submit and shut down | all safety properties and the refinement of PoolService |
| `pool_liveness` | 1 caller, 2 workers, 3 tasks, capacity 1, tasks may cancel the pool and submit with a limit | `MakesProgress`: accepted tasks complete; blocked calls, a failing create and the destructor end |
| `loop` | 2 callers, 2 tasks, delays 0 to 2, a clock up to 2; tasks may call everything | `StartOrder`, `StartsAreTimely`, `JoinedIsComplete`, `AsleepMeansIdle`; `EntriesLeave` and `JoinReturns` |
| `ring` | 2 senders, 1 reader, 2 slots, 3 messages a generation, 3 generations; all reset, all may die; the reader closes and opens again | `SingleWriter`, `CopyIsIntact` |
| `live` | 2 threads with Senders, 3 values, capacity 1 and none; 2 timers with a clock up to 2; one connection on a server with one worker and one place in its queue | `EndIsFinal`, `NoSenderForgotten`, `ChannelReleases`; `ShutdownEnds`: the timer manager's destructor and `serve` return |
| `services` | see MCServices.cfg: 2 timers of 3 ticks, 2 emitters, 3 objects, 2 writers, 2 variables and 2 listeners on either, 3 names for 2 places in the DNS cache, 2 children that write more than a pipe holds, 3 processes on a name, 2 addresses, 3 plaintexts over TLS | `TimersAreExact`, `ThreadServicesSound`, `ConfigurationSound`, `NamesAreCached`, `ProcessesAreSound`, `ConnectionsAreSound` |
| `http` | 2 clients, 2 origins, 3 requests in all three ways, idempotent or not, and a pool that keeps one connection per origin; 2 workers, 2 connections; bodies of 2 units and 6 tokens from a stranger; URLs of 4 and 4 symbols | `ExchangesAreSound`, `ServerIsSound`, `WireIsSound` |
| `documents` | every text of 3 lines or 4 to 6 units of each format; archives of 2 records; messages of more than two blocks; 4 arguments; 3 saves by 2 processes; 2 operations on ten trees of 2 names with links; 2 Results, with and without a value type, and 2 Options, in every order of operations | `DocumentsReadBack`, `BytesSurvive`, `StoresAreSound` |
| `loop_delay`, `ring_two_writers`, `http_pool_keepalive` (violations) | the smallest that shows it | see Findings |

The larger runs: `ring` has 496,589 distinct states (half a minute), `services` 1,757,409
and `http` 1,450,660 (two to four minutes each), `documents` 911,500 (three minutes), with two
workers.

Why the bounds are enough. Three threads are the fewest with which a notification can be
stolen from the thread it was meant for by a third; capacity one makes full and empty one
step apart. In the pool two workers race for tasks while a caller shuts down and another
submits, and three tasks with capacity two leave one queued, one running and one blocked.
In the ring two slots and three messages make the writer come round; two further
generations let a takeover itself be taken over. In the loop two entries are the fewest
that can be due in the wrong order, and a clock of two units lets the later one be due
first or at the same time. In the channel two senders and three values let both be blocked,
and let one take the place the other was woken for. In the services two users meet in one
component and a third object or name makes a limit bite; two listeners are the fewest of
which one can throw before the other is called, and two origins the fewest between which a
client can change; the clock of Net runs one tick longer than both of its timeouts
together. A pipe of one byte and children that write two make a writer block. In the HTTP
codec the limit of a body is two units, less than a stranger can send. Digests are fed more
than two blocks of four bytes with a length of two, so that the padding crosses a block in
every way. Three lines are the fewest with which a TOML table is made, left and reopened;
two saves race and a third sees the result. Two operations on the tree are a copy and what
comes before it or between its steps; links lead to a file, to a directory and out of the
source. A buffer of two and requests of three make a write fit, flush and go around it. No
operation of Result or Option touches more than two of them. Each mutant of a module is
found within these bounds. Symmetry is used in `pool` (callers, workers and tasks),
`services` (names and writers of the configuration) and `http` (clients and origins): no
definition tells these values apart, and none of these runs checks liveness.

That every action of a component is taken was checked on each component's module by
itself, with the constants of the run.

Deadlock is checked in the queue and the pool (a finished pool takes the `Done` step).
It is not checked in the ring, where all processes may be dead, nor in the loop, the
channel and the components of the other runs, which stop for good when they are
destroyed, have returned or have read their input.

Fairness. A thread inside an operation that can step does so: the scheduler runs
every thread, and nobody is obliged to call anything. `SF(TaskEnds)` says that the body
of a task ends however often it calls its pool or loop on the way. In the loop the
clock advances to its bound, all due times are within it, and a timed wait ends when
its time has come. The liveness properties of the loop make one exception,
`JoinedFromInside`: a task waits for `join_mutex` while a caller that holds it waits
for the loop. `pool_liveness` has no task that blocks in `submit` without a limit: with
all workers blocked on their own full queue nobody pops, which the documentation neither
forbids nor promises anything about. In `live` the timer's scheduler, its callbacks and
the notifications that are due are fair, spurious wakeups are not; the server's acceptor
and workers are fair because each of their waits ends by data, by its deadline or at
the next poll of the stop token, whatever the client does.

## Findings

* `loop_delay`: an idle loop waits for a stop or a ready task. `post_delay_task` adds a
  delayed one and notifies; the loop thread wakes, finds its predicate false and sleeps
  again without a limit, so the task does not run until somebody posts another. With
  `|| !delayed.empty()` in that predicate the property holds (checked with two callers
  and the definition of `Awaited` changed accordingly). `DelayedIsMoved`, part of
  `EntriesLeave`, says that this is the only way in which a delayed task is forgotten.
* `ring_two_writers`: `close` leaves the old birth stamp behind, and the next claimer
  publishes its pid before its stamp. A process that looks in between takes the live
  claimer for a reused pid and takes the ring over; both then write.
* `http_pool_keepalive`: `HttpStreamingResponse::finish` gives its connection to the
  pool without asking, as the buffered path does, whether the framing and both heads
  allow it to be used again.

## Observations

These disagree with a comment or a document, too. Each is stated as a definition that
TLC refutes on the module by itself, and is not part of a run.

* `ThreadPool.WorkerJoinNeverBlocks`: `join` takes `join_mutex` (thread_pool.cpp 221)
  before it asks whether the caller is a worker, so a task that joins while a caller
  joins waits for ever instead of getting `FAILED_PRECONDITION`. Thread::join and
  MessageLoop::join are written the same way.
* `ShmRing.NoTornRead`: nothing is checked after the copy (ipc.cpp 1458), so a lapping
  writer, or a takeover during the copy, tears it. `ShmRing.NoMixedGenerations`: for the
  same reason a reader that stalls while the ring is taken over and the new writer reaches
  its number returns a message of the new generation, and one that attached in the middle
  of a reset one of the old. `CopyIsIntact` says which reads these are.
  `ShmRing.LossIsReal`: a reader that has read everything gets `DATA_LOSS` once the ring
  has wrapped (1463), because the slot of the next message still holds the last lap's.
* `DnsCache.TtlCountsFromTheCall`: the comment at dns_cache.cpp 100 counts the TTL from
  the start of the lookup, the code reads the clock after it (103).
* `Subprocess.TimedWaitEnds`: `wait_with_output_for` reads to the end of the pipe after
  the child has exited, whatever the timeout, while offspring hold the pipe.
  `Subprocess.OutputIsWhole`: what `read_to_end` has gathered (subprocess.cpp 326-338) is
  dropped when a read fails or is interrupted, and the next call returns a short Output.
* `Net.TriesEveryAddress`: `connect_timeout` returns at once on any error of kind TimedOut
  (tcp.cpp 322), also on the ETIMEDOUT of the system long before its deadline, with
  addresses untried; `connect` goes on.
* `TlsStream.FlushFailureIsFatal`: DeadlineWriter repeats a call whose flush failed half
  way, and records go out behind lost ones. `TlsStream.ReadLosesNothing`: a read whose own
  flush fails (tls_stream.cpp 491-494) has already opened a plaintext, which is missing
  when the server reads on.
* In Config two facts have no definition of their own, since the properties name them
  exactly: a listener behind one that throws never hears of a value that is stored
  (config_var.hpp 115-119), and of two overlapping sets the older may be told last.
* `Zip.ClosedTwiceIsSafe`: closing an entry again after its last block could not be
  written uses a stream that is gone. `Zip.FullDiskIsReported`: the result of `fclose` is
  dropped (output_stream.cpp 175), so `close` answers Ok for an archive whose end did not
  reach the disk, against the comment at 118. `ArchiveReadsBack` says that such an
  archive is refused as a whole when it is opened.
* `Ini.SetToItselfIsKept`: the reader keeps the quotes of a value as part of it, and
  `rebuild_key_raw` puts quotes around it once more, so setting a quoted line to what
  `get` answered changes it, and a reader of the file finds quotes that were not set.
* `Files.LinksAreCopied`: copy_dir follows a link to a file or directory, since it asks
  `is_directory` and `is_regular_file` before `is_symlink`; and since `relative` resolves
  links, too, the entry of a link may be missing from the destination or written outside
  it. `Files.ExistingFileIsKept`: another process may make the file between the look and
  the act of create_file or move_ex. copy_dir without overwrite destroys nothing even then.
* `Result.GarbageIsNeverRead`: `destroy` asks whether the storage is initialized, `get`,
  `copy` and the combinators do not, so a Result that was moved from, or whose assignment
  threw, gives garbage to what is made of it.
* `Files.SavedIsLoadable` (KvStore): NaN is saved as null, which load refuses.
* `Toml.WriterIsReadable`, `Toml.InlineIsClosed`, `Toml.OnlyTomlNumbers`,
  `Yaml.EveryValueRoundTrips`, `Ini.EditedTextReads` (a key added behind a last line
  without line ending is glued to it): corners in which a writer's output is not read
  back or a text is accepted that the format does not have.
* `StringPool.InternedIsUtf8`, `Text.OnlyValidIsConverted`: inputs that are not UTF-8
  (the overlong C0 80) get through interning and conversion.

Seen while modelling and not stated as properties: a slot seen Writing is skipped
although it was committed before the writer died; a process that dies between the CAS to
ELECTING and the end of `reset_ring` leaves the ring without an owner for ever; with a
pool the client never counts a connection as reused, so idempotent requests are not
repeated; a crashed server of a named pipe leaves its path; freezing a BytesMut makes
what had been read readable again; a TOML header through an array without elements
takes `back()` of an empty vector (such lines are left out of Toml); `json_equal` is not
symmetric for objects with duplicate keys; a comment at check_type says that a float
without fraction is an integer, the code asks `is_int` only.

## Proofs

Every theorem holds for all values of the constants that satisfy the modules' named
assumptions, which say what the code or the C++ library guarantees: a capacity is not
zero (create refuses it), callers and workers are different threads and there is a
worker, the threads that use a queue, a channel or a DNS cache are finitely many, `None`
is no thread, task, value or message, a ring has a slot and a first generation. Those of
MCServices (`TimerAssumption`, `ConfigAssumption`, `NetAssumption`, ...) say little more
than that the bounds and the times are numbers, a process has a positive one, and the
default of a variable is a value. The theorems
about the ring have one hypothesis more, `WritersStayOpen`: a process that sends does not
close its queue object and open another. Without it `SingleWriter` is false
(`ring_two_writers`).

| Module | Theorems (`Spec => ...`) |
|---|---|
| ThreadPoolProofs | `[]` TypeOK, StopAfterTake, DrainCancelsNothing, NothingDropped, OneOwner, JoinedIsQuiet, DestroyedIsComplete; ImplementsService (the refinement of PoolService) |
| QueueProofs | `[]` TypeOK, Conservation (with the bound of the capacity), NoLostWakeup |
| LoopProofs | `[]` TypeOK, StartOrder, JoinedIsComplete, AsleepMeansIdle; StartsAreTimely (an action property) |
| ChannelProofs | `[]` TypeOK (with the meaning of sender_count), EndIsFinal, NoSenderForgotten |
| RingProofs | given WritersStayOpen, `[]` TypeOK, SingleWriter, CopyIsIntact |
| ResultProofs | `[]` StorageIsSound and ContentIsKept |
| ServiceProofs | `[]` TimersAreExact, ThreadServicesSound, NamesAreCached, ProcessesAreSound, ConfigurationSound, ConnectionsAreSound |

None of the invariants is inductive alone. What each needs:

**Pool.** Types (`TypeStep`) and control (`ControlStep`): which labels go with which
holder of `stateMutex`, with which `state` and `mode`, with a closed queue, and with a
task in hand. A stop requested is after the take because the thread at `request_stop`
holds the mutex and has emptied a queue that stays closed. Then ownership (`OwnerStep`):
an accepted task is in exactly one of the queue, a worker's hand and a shutdown's list,
and a submitted one is in none. The actions that move a task have a lemma each
(`OwnerAccepted`, `OwnerPops`, `OwnerTaskEnds`, `OwnerTakes`, `OwnerCancels`); all
others leave the places alone (`OwnerQuiet`). For the destructor, `Destroying`: while
the pool is being destroyed its caller is the only one inside, and from its shutdown on
the pool does not run, so that a join it is refused was an earlier join's success. The
list of a shutdown that is still cancelling would belong to a caller inside or to a
worker that has not exited, and there is neither.

The refinement uses ownership: where a task is determines what its submitter sees
(`StatusByPlace`). `SubmitAccepted` is the service's Accept, `WorkerPops` its Start,
`TaskEnds` its Finish, `ShutdownTakes` its Withdraw, `CancelTask` its Cancel, the two
sections that only close are Close (one lemma each), and every other step leaves the
service's variables alone.

**Queue.** `NoLostWakeup` counts threads: awake consumers plus notifications still to be
sent. A push adds an item and a notification, a notification that finds a waiter turns
into an awake thread, a pop removes an item and an awake thread. The strengthening says
where blocked threads are (`Waiting`), that a thread about to push carries one value
(`Carrying`) and that the capacity is kept (`Bounded`). The sets counted change by one
element at a time, hence the finiteness of the threads.

**Loop.** The invariant is about the line `ran \o ready`: the tasks that have started
followed by those that are ready. A task enters the line at its end and never moves, a
start only moves the boundary, and stop cuts the end off. In the line immediate
tasks are in the order of their posts and delayed ones in the order of due time, no task
is twice, delayed ones in it were due and are no longer in `delayed`, and everything in
`delayed` falls due after what is in the line (`Order`). `Accounted` says that without a
discarding stop every task posted without a delay is in the line; `PhaseControl` and
`EntryControl` tie the phases, labels and entries together. The wakeup property is proved
with it: whoever makes `Awaited` true has a notification to send.

**Channel.** `Counting`: sender_count is the number of Senders that live, although it
is incremented by a copy and decremented by a release in other places. `Sending`: a
thread in `send` holds a Sender and one value. `Ending`: once the end was reported the
channel is empty and closed or without Senders, and stays so, because only a live Sender
can be copied. Then the count of awake senders, as in the queue.

**Ring.** Three invariants, which TLC has checked on the instance of the run `ring`.
`Ownership`: whoever is in `send` is named by `writer_slot` and `writer_birth`, whoever
resets has set ELECTING and is alone, a live owner's birth stamp is its own or, before
the store after the CAS, unknown, and a process that is being probed holds the ring or
has died; so the CAS to ELECTING can only succeed against a dead process. `Integrity`,
on top of it, is about a ring that is `Settled`, that is neither being reset nor left in
the middle of it: a committed slot holds the message of its number in both halves and the
length, of the present generation, unless `write_seq` has come round to it (`Used`); the
message that `write_seq` numbers is in no slot before the writer stores it
(`Unpublished`); a reader that has seen Committed, and then its number, knows that its
slot is used, and every store of the writer keeps that, because it goes to the slot of
`write_seq` and two numbers with one remainder are a whole round apart (`NextRound`,
`OneRound`). `Copying` is about what a reader has in hand in every generation, also in
one that is over or being reset: unless another process stored into its slot since it saw
the number (`touched`), the slot carries one whole message with that number, of this
generation or, before the resetter has come to it, of the last (`CommittedIsWhole`,
`SlotRight`, `NotCleared`). Who can store there is `Spoilt`: in the reader's own generation
only a writer that has come round. For a cursor taken in the middle of a reset (not
`quiet`) the theorem leaves out only from which generation the message is and who may
disturb the read. `Late` says that a reader that got a message after a takeover has no
further read under way in the old generation.

**Result.** TypeOK, `StorageIsSound` and `ContentIsKept` are inductive together. A lemma for
each primitive says what it leaves: `construct` in an empty slot, `destroy`, copies and
moves of sound slots, whatever they hold. A Result that was moved from, or whose assignment
threw, is sound with empty storage; what is made of it holds garbage in sound storage and
is not `intact`. A self-assignment changes nothing since `IsOther` guards both.

**Services.** In MCServices only the component that `part` names moves, so each theorem
is a lemma per action of each component (`TimerNext`, `BusNext`, ..., `TlsNext`) and one
step that puts them together. What each component needs beside its property:

* *Timers* (`TimerInv`): ids in the queue and in the scheduler's hand were given out
  before, and the destructor is what shuts down. A sleeper's deadline is compared with
  the head when a timer is added, removed or renewed.
* *Event bus* (`BusInv`): the handles given out are the numbers below the next one, and
  what an emitter's snapshot may not call is what was dropped before it was taken.
* *Object pool* (`PoolIsExact`): nothing is idle twice, nothing is idle and lent, being
  returned, freed or not yet reset, and a pool that is gone has nothing idle. The bound
  of the idle list is the cardinality of a set of distinct members (`DistinctSequence`).
* *Threads* (`StopIsExact`, `JoinIsExact`, `OnceIsExact`): who is in the native join
  holds `join_mutex_`, what is cached is the status of a function that has ended.
* *DNS cache* (`DnsInv`): the list is strictly ordered by the last use, no use lies in the
  future, and misses are answers plus the callers that ask. `Touch` and `Put` move one
  entry to the front (`OneLess`, `OneMore`), whatever has happened while the resolver ran.
* *Child processes* (`SpawnIsExact`): how far a spawn is agrees with its process and its
  pipe ends; a process that runs holds the write end of its own pipe, and one that does
  not run holds none, so that a pipe reads as ended only when nobody can write to it. The
  sum in `NothingLost` is kept by each read, each failure and each hand-over.
* *Named objects* (`IpcInv`): `PathIsExact`, without a crash a path has one server and is
  that server's; `Flows`, what was taken and what is there together are what was given,
  each in order, and of one sender the former before the latter (`FlowIn`, `FlowOut`).
* *Config* (`ConfigInv`): `Telling`, what a writer still has to tell is one change, to
  listeners of its variable that have not heard it and that no other writer will tell;
  whatever changed that variable since is recorded in `raced`. `LoadsLeft`, what a load has
  left to do it was asked to do and what it has to tell came after its start.
* *TCP* (`NetInv`): the connect call owns exactly the socket it tries (`DialIsExact`), its
  last error is a timeout only if the system's, the table maps descriptors to sockets that
  were opened; the reader's deadline is bounded by its begin plus both timeouts, and its
  wake-up by its deadline and one poll.
* *TLS* (`TlsSafe`): the argument is about the sequence `sealed` of all records a side has
  ever made. The receiver has opened the first of them; its input, the connection and the
  sender's output hold the others, all of them and in order (`Exact`) or, after a flush
  that failed, without one that the receiver has not reached (`Lossy`). It cannot be
  passed, since a receiver only opens the record with the number it expects, and up to it
  the log counts the plaintexts one by one (`Clean`). So what has been read is the numbers
  up to the value of the last record opened, but for the one plaintext whose read failed
  in its own flush (`ReadInv`), and a close_notify, which is a
  side's last record (`LogInv`), is opened only after everything before it.

Each of these invariants is what the corresponding lemma `...IsSound`, or the theorem
itself, derives the run's property from. Nothing about the number of users, objects, records
or messages enters the proofs but that they are numbers.

Only model-checked: liveness (the prover has no fairness), HTTP, and the documents. What
the parsers, writers and codecs compute is defined by folds and recursion over their input
and stays with TLC: induction over data is out of the prover's reach, and some of these
modules declare RECURSIVE operators or use Bitwise.

## Not modelled

Of the modelled parts: allocation failures, empty tasks and moved-from objects (except
Results); the futures of `post_task_with_result`, which a discarded task breaks; `size`,
`capacity` and the like, which only read; weak memory orders (the ring's atomics are
sequentially consistent except the birth stamp and the heartbeat, which are relaxed); reuse
of a pid and an unreadable `/proc`; the Windows builds of process, net and fs; power loss
(no fsync is called); the bit-level tables of cryptography and deflate; messages, locations
and formatting; what PROJECT.json names for each component; `copy_ex` of a directory, and
what another process does between the first calls of copy_dir, which are one step with the
listing of the source.

Not at all: `log` (a registry under one mutex and formatting), `time`, `random`, `uuid`,
`env` (calendar arithmetic and system calls), `i18n`, `resources`, `test`, Status and the
registries of `core`, the containers of `collection` except the LRU cache, `str` formatting
and charset tables, UDP. None of them has two actors or a protocol; unit tests reach them.

## Plan

1. Done: all modules above and their runs; the proofs of the queue, the pool with its
   refinement, the loop, the channel, the ring, Result and the services.
2. Proofs next: `ServerIsSound` and `ExchangesAreSound`, whose modules are of the same
   kind as those of the services. `WireIsSound` and the documents stay with TLC.
3. Ring: delivery (every committed message is delivered or its loss reported) and
   liveness of takeover.
