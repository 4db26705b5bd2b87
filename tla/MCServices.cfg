CONSTANTS
  \* TimerManager: two timers, once, every tick and every second tick
  MaxId = 2  MaxTime = 3  Periods = {0, 1, 2}
  \* EventBus: two emitters, three subscriptions to two events
  Events = {e1, e2}  Emitters = {m1, m2}  MaxSubs = 3
  \* ObjectPool
  Objects = {o1, o2, o3}
  \* Thread: the thread, two others that stop and join it
  Self = self  Callers = {c1, c2}  MaxTries = 2
  \* Config
  Names = {n1, n2}  Values = {x, y}  Bad = bad  Default = x  Loaded = {y, bad}  Writers = {w1, w2}
  MaxVars = 2  MaxWrites = 2  MaxListeners = 2
  \* DnsCache: more names than places
  Keys = {k1, k2, k3}  Resolvers = {r1, r2}  DnsCapacity = 2  Ttl = 1  DnsEnd = 2  MaxLookups = 4
  \* Subprocess: two children that write more than a pipe holds
  Kids = {p1, p2}  PipeSize = 1  MaxBytes = 2
  \* named pipe, shared memory, semaphore and message queue
  Procs = {1, 2, 3}  QueueLimit = 1  Backlog = 2  MaxObjects = 2  MaxOps = 2
  \* TCP
  NetEnd = 4  ConnectTimeouts = {0, 2}  MaxAddresses = 2  MaxDescriptors = 2
  IdleTimeout = 2  HeaderTimeout = 1  StopPoll = 1
  \* TLS
  ClientPlaintexts = 2  ServerPlaintexts = 1  MaxKeyUpdates = 1
SPECIFICATION Spec
SYMMETRY ServiceSymmetry
INVARIANTS
  TimersAreExact ThreadServicesSound ConfigurationSound NamesAreCached
  ProcessesAreSound ConnectionsAreSound
CHECK_DEADLOCK FALSE
