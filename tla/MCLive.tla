------------------------------- MODULE MCLive -------------------------------
(***************************************************************************)
(* The channel, and the ends of two components that own threads: what      *)
(* those who wait for one another must eventually do.  "part" says which   *)
(* of them a behaviour is about; only that one moves, and only its threads *)
(* are fair.                                                               *)
(***************************************************************************)
EXTENDS Channel

CONSTANTS
  MaxId, MaxTime, Periods,
  HttpConns, HttpWorkers, PendingConnections, MaxRequestsPerConn

VARIABLES
  part,                 \* the component that is checked
  now, timers, next_id, shutdown, entry, spc, current, doomed, deadline, owed, mpc,
  apc, serve_started_, running_, stopping, accepted, jobs, handles, cpc, count, request, reply,
  served, finals, said

timerVars == <<now, timers, next_id, shutdown, entry, spc, current, doomed, deadline, owed, mpc>>
serverVars ==
  <<apc, serve_started_, running_, stopping, accepted, jobs, handles, cpc, count, request, reply,
    served, finals, said>>
liveVars == <<part, vars, timerVars, serverVars>>

Tm == INSTANCE Timer
Sv == INSTANCE HttpServer

LiveInit ==
  /\ part \in {"channel", "timer", "server"}
  /\ Init /\ (part # "channel" => capacity = 1)
  /\ Tm!Init /\ Sv!Init

OfChannel(A) == part = "channel" /\ A /\ UNCHANGED <<part, timerVars, serverVars>>
OfTimer(A) == part = "timer" /\ A /\ UNCHANGED <<part, vars, serverVars>>
OfServer(A) == part = "server" /\ A /\ UNCHANGED <<part, vars, timerVars>>

LiveNext == OfChannel(Next) \/ OfTimer(Tm!Next) \/ OfServer(Sv!Next)

\* The fairness of the component that moves, action by action.
LiveFairness ==
  /\ WF_liveVars(OfChannel(ReceiverStep))
  /\ \A s \in Senders : WF_liveVars(OfChannel(SenderStep(s)))
  /\ WF_liveVars(OfTimer(Tm!Exit)) /\ WF_liveVars(OfTimer(Tm!Dequeue))
  /\ WF_liveVars(OfTimer(Tm!CallbackStarts)) /\ WF_liveVars(OfTimer(Tm!CallbackEnds(FALSE)))
  /\ WF_liveVars(OfTimer(Tm!CancelNotifies)) /\ WF_liveVars(OfTimer(Tm!DestroyNotifies))
  /\ WF_liveVars(OfTimer(Tm!DestroyJoins))
  /\ WF_liveVars(OfServer(Sv!Acceptor))
  /\ \A w \in HttpWorkers : WF_liveVars(OfServer(Sv!Worker(w)))

LiveSpec == LiveInit /\ [][LiveNext]_liveVars /\ LiveFairness
-----------------------------------------------------------------------------
\* The timer manager's destructor returns: the scheduler wakes, or finishes its
\* callback, and leaves its loop (timer.cpp); and serve returns after stop,
\* whatever the clients do, since every wait polls the stop token (server.cpp).
ShutdownEnds == Tm!TimerIsDestroyed /\ Sv!StopEndsServe
=============================================================================
