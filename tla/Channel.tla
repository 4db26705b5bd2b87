------------------------------ MODULE Channel -------------------------------
(***************************************************************************)
(* channel<T>() (channel.hpp): threads with a Sender each, which they may  *)
(* copy to one another and drop, and one thread with the Receiver.         *)
(*                                                                         *)
(* As in BoundedQueue a critical section is one step, a condition variable *)
(* is the set of threads blocked on it, and notifications are sent after   *)
(* the mutex is released.                                                  *)
(***************************************************************************)
EXTENDS Naturals, Sequences, FiniteSets

CONSTANTS
  Senders,              \* threads that may hold a Sender
  Creator,              \* the one that holds the first
  Capacities,           \* channel(capacity); zero means no bound
  Values                \* the values, each sent by one call

ASSUME ChannelAssumption ==
  Creator \in Senders /\ Capacities \subseteq Nat /\ IsFiniteSet(Senders)

RecvOps == {"recv", "try_recv", "recv_timeout"}

VARIABLES
  capacity,             \* fixed at creation
  items,                \* oldest first
  sender_count,
  receiver_alive,
  explicitly_closed,
  waitFull,             \* the senders blocked on not_full
  waitEmpty,            \* the receiver is blocked on not_empty
  holds,                \* the threads whose Sender has a state_
  pc,                   \* where each sender is
  value,                \* what its send carries
  rpc,                  \* where the receiver is
  rop,                  \* the operation it is in
  sent,                 \* history: the accepted values, in order
  got,                  \* history: the received values, in order
  ended                 \* history: recv has reported the end

stateVars == <<capacity, items, sender_count, receiver_alive, explicitly_closed>>
senderVars == <<holds, pc, value>>
receiverVars == <<rpc, rop>>
history == <<sent, got, ended>>
vars == <<stateVars, waitFull, waitEmpty, senderVars, receiverVars, history>>

Init ==
  /\ capacity \in Capacities
  /\ items = <<>>
  /\ sender_count = 1
  /\ receiver_alive = TRUE
  /\ explicitly_closed = FALSE
  /\ waitFull = {} /\ waitEmpty = FALSE
  /\ holds = {Creator}
  /\ pc = [s \in Senders |-> "idle"]
  /\ value = [s \in Senders |-> <<>>]
  /\ rpc = "idle" /\ rop = "none"
  /\ sent = <<>> /\ got = <<>> /\ ended = FALSE

producers_alive == sender_count > 0 /\ ~explicitly_closed

Goes(s, from, to) == pc[s] = from /\ pc' = [pc EXCEPT ![s] = to]
-----------------------------------------------------------------------------
(* Sender: copy, drop, send, close *)

\* Mutant: an assignment does not release what the target held.
CopyOverHeld(s, u) ==
  /\ s \in holds /\ s # u
  /\ pc[s] = "idle" /\ pc[u] = "idle"
  /\ holds' = holds \cup {u}
  /\ sender_count' = sender_count + 1
  /\ UNCHANGED <<capacity, items, receiver_alive, explicitly_closed, waitFull, waitEmpty,
                 pc, value, receiverVars, history>>

Copy(s, u) ==
  /\ s \in holds /\ u \notin holds
  /\ pc[s] = "idle" /\ pc[u] = "idle"
  /\ holds' = holds \cup {u}
  /\ sender_count' = sender_count + 1
  /\ UNCHANGED <<capacity, items, receiver_alive, explicitly_closed, waitFull, waitEmpty,
                 pc, value, receiverVars, history>>

\* The destructor, or the first half of an assignment.  Only the one that
\* leaves no producer behind has somebody to notify.
Release(s) ==
  /\ s \in holds
  /\ holds' = holds \ {s}
  /\ sender_count' = IF sender_count > 0 THEN sender_count - 1 ELSE sender_count
  /\ UNCHANGED <<capacity, items, receiver_alive, explicitly_closed, waitFull, waitEmpty,
                 value, receiverVars, history>>
  /\ Goes(s, "idle", IF producers_alive' THEN "idle" ELSE "notify_end")

\* The values that nobody has sent; which of them is sent next is of no account.
Unsent ==
  {v \in Values : (\A i \in 1..Len(sent) : sent[i] # v) /\ (\A s \in Senders : value[s] # <<v>>)}

Send(s) ==
  /\ s \in holds
  /\ Goes(s, "idle", "send")
  /\ Unsent # {}
  /\ value' = [value EXCEPT ![s] = <<CHOOSE v \in Unsent : TRUE>>]
  /\ UNCHANGED <<stateVars, waitFull, waitEmpty, holds, receiverVars, history>>

Refused == ~receiver_alive \/ explicitly_closed
HasRoom == capacity = 0 \/ Len(items) < capacity

\* Mutant: after the wait only the room is looked at.
SendAcceptsUnchecked(s) ==
  /\ s \notin waitFull
  /\ HasRoom
  /\ Goes(s, "send", "notify_item")
  /\ items' = items \o value[s]
  /\ sent' = sent \o value[s]
  /\ value' = [value EXCEPT ![s] = <<>>]
  /\ UNCHANGED <<capacity, sender_count, receiver_alive, explicitly_closed, waitFull, waitEmpty,
                 holds, receiverVars, got, ended>>

SendAccepts(s) ==
  /\ s \notin waitFull
  /\ ~Refused /\ HasRoom
  /\ Goes(s, "send", "notify_item")
  /\ items' = items \o value[s]
  /\ sent' = sent \o value[s]
  /\ value' = [value EXCEPT ![s] = <<>>]
  /\ UNCHANGED <<capacity, sender_count, receiver_alive, explicitly_closed, waitFull, waitEmpty,
                 holds, receiverVars, got, ended>>

SendFails(s) ==
  /\ s \notin waitFull
  /\ Refused
  /\ Goes(s, "send", "idle")
  /\ value' = [value EXCEPT ![s] = <<>>]
  /\ UNCHANGED <<stateVars, waitFull, waitEmpty, holds, receiverVars, history>>

SendBlocks(s) ==
  /\ pc[s] = "send" /\ s \notin waitFull
  /\ ~Refused /\ ~HasRoom
  /\ waitFull' = waitFull \cup {s}
  /\ UNCHANGED <<stateVars, waitEmpty, senderVars, receiverVars, history>>

\* notify_one or notify_all of not_empty: the receiver is the only waiter.
SendNotifies(s) ==
  /\ Goes(s, "notify_item", "idle")
  /\ waitEmpty' = FALSE
  /\ UNCHANGED <<stateVars, waitFull, holds, value, receiverVars, history>>

\* Mutant: the producer that leaves last wakes nobody.
ReleaseForgets(s) ==
  /\ Goes(s, "notify_end", "idle")
  /\ UNCHANGED <<stateVars, waitFull, waitEmpty, holds, value, receiverVars, history>>

ReleaseNotifies(s) ==
  /\ Goes(s, "notify_end", "idle")
  /\ waitEmpty' = FALSE
  /\ UNCHANGED <<stateVars, waitFull, holds, value, receiverVars, history>>

Close(s) ==
  /\ s \in holds
  /\ Goes(s, "idle", "close_empty")
  /\ explicitly_closed' = TRUE
  /\ UNCHANGED <<capacity, items, sender_count, receiver_alive, waitFull, waitEmpty,
                 holds, value, receiverVars, history>>

CloseWakesReceiver(s) ==
  /\ Goes(s, "close_empty", "close_full")
  /\ waitEmpty' = FALSE
  /\ UNCHANGED <<stateVars, waitFull, holds, value, receiverVars, history>>

CloseWakesSenders(s) ==
  /\ Goes(s, "close_full", "idle")
  /\ waitFull' = {}
  /\ UNCHANGED <<stateVars, waitEmpty, holds, value, receiverVars, history>>
-----------------------------------------------------------------------------
(* Receiver: recv, try_recv, recv_timeout, mark_dead *)

RGoes(from, to) == rpc = from /\ rpc' = to
RReturns == RGoes("recv", "idle") /\ rop' = "none"

Recv ==
  /\ receiver_alive
  /\ RGoes("idle", "recv")
  /\ rop' \in RecvOps
  /\ UNCHANGED <<stateVars, waitFull, waitEmpty, senderVars, history>>

RecvTakes ==
  /\ items # <<>> /\ ~waitEmpty
  /\ RGoes("recv", "notify_room")
  /\ items' = Tail(items)
  /\ got' = Append(got, Head(items))
  /\ UNCHANGED <<capacity, sender_count, receiver_alive, explicitly_closed, waitFull, waitEmpty,
                 senderVars, rop, sent, ended>>

RecvEnds ==
  /\ items = <<>> /\ ~producers_alive /\ ~waitEmpty /\ rop # "try_recv"
  /\ RReturns
  /\ ended' = TRUE
  /\ UNCHANGED <<stateVars, waitFull, waitEmpty, senderVars, sent, got>>

RecvBlocks ==
  /\ items = <<>> /\ producers_alive /\ ~waitEmpty /\ rop # "try_recv"
  /\ rpc = "recv"
  /\ waitEmpty' = TRUE
  /\ UNCHANGED <<stateVars, waitFull, senderVars, receiverVars, history>>

\* try_recv finds nothing; recv_timeout finds nothing when its time is over.
RecvGivesUp ==
  /\ items = <<>>
  /\ rop = "try_recv" \/ (rop = "recv_timeout" /\ producers_alive)
  /\ RReturns
  /\ waitEmpty' = FALSE
  /\ UNCHANGED <<stateVars, waitFull, senderVars, history>>

\* Mutant: a place that becomes free is told to nobody.
RecvForgets ==
  /\ RGoes("notify_room", "idle") /\ rop' = "none"
  /\ UNCHANGED <<stateVars, waitFull, waitEmpty, senderVars, history>>

RecvNotifies ==
  /\ RGoes("notify_room", "idle") /\ rop' = "none"
  /\ IF waitFull = {} THEN UNCHANGED waitFull
                      ELSE \E w \in waitFull : waitFull' = waitFull \ {w}
  /\ UNCHANGED <<stateVars, waitEmpty, senderVars, history>>

MarkDead ==
  /\ receiver_alive
  /\ RGoes("idle", "notify_dead")
  /\ receiver_alive' = FALSE
  /\ UNCHANGED <<capacity, items, sender_count, explicitly_closed, waitFull, waitEmpty,
                 senderVars, rop, history>>

\* Mutant: one of the senders that are blocked is woken.
DeadNotifiesOne ==
  /\ RGoes("notify_dead", "idle")
  /\ IF waitFull = {} THEN UNCHANGED waitFull
                      ELSE \E w \in waitFull : waitFull' = waitFull \ {w}
  /\ UNCHANGED <<stateVars, waitEmpty, senderVars, rop, history>>

DeadNotifies ==
  /\ RGoes("notify_dead", "idle")
  /\ waitFull' = {}
  /\ UNCHANGED <<stateVars, waitEmpty, senderVars, rop, history>>

\* Spurious wakeups of a sender and of the receiver.
SenderWakesAlone(s) ==
  /\ s \in waitFull
  /\ waitFull' = waitFull \ {s}
  /\ UNCHANGED <<stateVars, waitEmpty, senderVars, receiverVars, history>>

ReceiverWakesAlone ==
  /\ waitEmpty
  /\ waitEmpty' = FALSE
  /\ UNCHANGED <<stateVars, waitFull, senderVars, receiverVars, history>>
-----------------------------------------------------------------------------
SenderStep(s) ==
  \/ SendAccepts(s) \/ SendFails(s) \/ SendBlocks(s) \/ SendNotifies(s)
  \/ ReleaseNotifies(s) \/ CloseWakesReceiver(s) \/ CloseWakesSenders(s)

SenderCall(s) == Release(s) \/ Send(s) \/ Close(s) \/ \E u \in Senders : Copy(s, u)

ReceiverStep ==
  RecvTakes \/ RecvEnds \/ RecvBlocks \/ RecvGivesUp \/ RecvNotifies \/ DeadNotifies

Next ==
  \/ ReceiverStep \/ Recv \/ MarkDead \/ ReceiverWakesAlone
  \/ \E s \in Senders : SenderStep(s) \/ SenderCall(s) \/ SenderWakesAlone(s)

Spec == Init /\ [][Next]_vars

FairSpec == Spec /\ WF_vars(ReceiverStep) /\ \A s \in Senders : WF_vars(SenderStep(s))
-----------------------------------------------------------------------------
\* The values of the variables.
TypeOK ==
  /\ capacity \in Capacities
  /\ items \in Seq(Values) /\ sent \in Seq(Values) /\ got \in Seq(Values)
  /\ sender_count \in 0..Cardinality(Senders)
  /\ receiver_alive \in BOOLEAN /\ explicitly_closed \in BOOLEAN /\ ended \in BOOLEAN
  /\ waitFull \subseteq Senders /\ waitEmpty \in BOOLEAN
  /\ holds \subseteq Senders
  /\ pc \in [Senders -> {"idle", "send", "notify_item", "notify_end", "close_empty", "close_full"}]
  /\ value \in [Senders -> {<<>>} \cup {<<v>> : v \in Values}]
  /\ rpc \in {"idle", "recv", "notify_room", "notify_dead"}
  /\ rop \in RecvOps \cup {"none"}

\* The receiver gets what was accepted, in order, whichever of the three ways
\* it asks, and when recv reports the end it has got everything and will get
\* nothing more, although senders may still be inside send (recv 202-206,
\* send 115-122).
EndIsFinal ==
  /\ sent = got \o items
  /\ ended => got = sent

\* A sender blocked on a channel that is open and has room has been, or is
\* about to be, woken: by the receiver that took the value, or because an
\* awake sender will fill the place (recv 209-210, send 115).
NoSenderForgotten ==
  waitFull # {} /\ ~Refused =>
    capacity - Len(items) <=
      Cardinality({s \in Senders : pc[s] = "send" /\ s \notin waitFull})
      + (IF rpc = "notify_room" THEN 1 ELSE 0)

\* A receiver blocked in recv returns once the producers are gone, however
\* copies, drops and closes interleave (release 155-171, close 129-140).
RecvSeesTheEnd ==
  (holds = {} \/ explicitly_closed) /\ rpc = "recv" ~> rpc = "idle"

\* A blocked send returns once the receiver is gone or the channel is closed
\* (mark_dead 273-274, close 139).
SendIsReleased ==
  \A s \in Senders : Refused /\ pc[s] = "send" ~> pc[s] = "idle"

\* Neither end is blocked for ever by the other one's end.
ChannelReleases == RecvSeesTheEnd /\ SendIsReleased
=============================================================================
