CONSTANTS
  \* HttpClient: two threads, two servers, a pool that keeps one connection for each
  Origins = {o1, o2}  Clients = {c1, c2}
  MaxIdlePerHost = 1  MaxInformational = 1  MaxConnections = 2  MaxRequests = 3
  \* HttpServer: as many connections as workers, a queue of one
  HttpConns = {k1, k2}  HttpWorkers = {w1, w2}
  PendingConnections = 1  MaxRequestsPerConn = 2
  \* messages of at most two body units, what the other end may send besides
  MaxBody = 2  MaxWire = 6  MaxUnread = 2
  \* URL texts
  MaxAuthority = 4  MaxTarget = 4  DefaultPort = 80  MaxPort = 800
SPECIFICATION Spec
INVARIANTS ExchangesAreSound ServerIsSound WireIsSound
SYMMETRY HttpSymmetry
CHECK_DEADLOCK FALSE
