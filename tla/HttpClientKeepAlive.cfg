\* Two threads that share a pool of one connection per host.
CONSTANTS
  Origins = {o1}  Clients = {c1, c2}
  MaxIdlePerHost = 1  MaxInformational = 1  MaxConnections = 2  MaxRequests = 2
SPECIFICATION Spec
INVARIANT PooledIsKeepAlive
CHECK_DEADLOCK FALSE
