CONSTANTS
  \* Channel: two threads that copy, drop, use and close Senders, with a bound of
  \* one or none: both may be blocked, or one takes the place the other was woken for
  Senders = {s1, s2}  Creator = s1  Capacities = {0, 1}  Values = {v1, v2, v3}
  \* TimerManager
  MaxId = 2  MaxTime = 2  Periods = {0, 1}
  \* HttpServer
  HttpConns = {k1}  HttpWorkers = {h1}  PendingConnections = 1  MaxRequestsPerConn = 2
SPECIFICATION LiveSpec
INVARIANTS TypeOK EndIsFinal NoSenderForgotten
PROPERTIES ChannelReleases ShutdownEnds
CHECK_DEADLOCK FALSE
