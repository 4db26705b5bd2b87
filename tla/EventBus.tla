------------------------------ MODULE EventBus ------------------------------
(***************************************************************************)
(* EventBus and SubscriptionHandle (event_bus.cpp).  Listeners are named   *)
(* by the id of their subscription; a thread that emits copies the         *)
(* listeners under the lock and calls them, in no particular order,        *)
(* outside it, so that subscribe, unsubscribe and emit may run in between. *)
(***************************************************************************)
EXTENDS Naturals, FiniteSets

CONSTANTS
  Events, Emitters,
  MaxSubs               \* bound: subscriptions that are ever made

VARIABLES
  listeners,            \* event -> ids; an event without an entry has none
  next_sub,             \* next_id
  bus,                  \* the EventBus exists (its handles only refer to it)
  snapshot,             \* emitter -> the listeners still to be called
  counted,              \* emitter -> invoked
  subscribed,           \* history: id -> the event of the handle
  dropped,              \* history: the ids whose unsubscribe has returned
  before                \* history: emitter -> the ids dropped when emit began

vars == <<listeners, next_sub, bus, snapshot, counted, subscribed, dropped, before>>
history == <<subscribed, dropped, before>>

Subs == 1..MaxSubs
Idle == {0}             \* an emitter that is in no emit has this snapshot

Init ==
  /\ listeners = [e \in {} |-> {}] /\ next_sub = 1 /\ bus = TRUE
  /\ snapshot = [m \in Emitters |-> Idle] /\ counted = [m \in Emitters |-> 0]
  /\ subscribed = [i \in {} |-> {}] /\ dropped = {} /\ before = [m \in Emitters |-> {}]

Known == DOMAIN listeners
ListenersOf(e) == IF e \in Known THEN listeners[e] ELSE {}
With(e, ids) == [x \in Known \cup {e} |-> IF x = e THEN ids ELSE listeners[x]]
Without(e) == [x \in Known \ {e} |-> listeners[x]]
-----------------------------------------------------------------------------
Subscribe(e) ==
  /\ bus /\ next_sub \in Subs
  /\ listeners' = With(e, ListenersOf(e) \cup {next_sub})
  /\ subscribed' = [i \in DOMAIN subscribed \cup {next_sub} |->
                      IF i = next_sub THEN e ELSE subscribed[i]]
  /\ next_sub' = next_sub + 1
  /\ UNCHANGED <<bus, snapshot, counted, dropped, before>>

\* Mutant: the event is dropped with the first listener that leaves.
DropWholeEvent(e, i) == Without(e)

\* What unsubscribe leaves: an event that has no listener has no entry.
Dropped(e, i) == IF ListenersOf(e) \ {i} = {} THEN Without(e) ELSE With(e, ListenersOf(e) \ {i})

\* A handle may be used again, and by copies of it; it does nothing once the
\* bus is gone.
Unsubscribe(i) ==
  /\ i \in DOMAIN subscribed
  /\ dropped' = dropped \cup {i}
  /\ listeners' = IF bus /\ subscribed[i] \in Known THEN Dropped(subscribed[i], i) ELSE listeners
  /\ UNCHANGED <<next_sub, bus, snapshot, counted, subscribed, before>>

EmitBegins(m, e) ==
  /\ bus /\ snapshot[m] = Idle /\ e \in Known
  /\ snapshot' = [snapshot EXCEPT ![m] = listeners[e]]
  /\ counted' = [counted EXCEPT ![m] = 0]
  /\ before' = [before EXCEPT ![m] = dropped]
  /\ UNCHANGED <<listeners, next_sub, bus, subscribed, dropped>>

\* Returning or throwing, a callback is counted.
EmitCalls(m) ==
  /\ snapshot[m] # Idle
  /\ \E i \in snapshot[m] : snapshot' = [snapshot EXCEPT ![m] = @ \ {i}]
  /\ counted' = [counted EXCEPT ![m] = @ + 1]
  /\ UNCHANGED <<listeners, next_sub, bus, history>>

EmitReturns(m) ==
  /\ snapshot[m] = {}
  /\ snapshot' = [snapshot EXCEPT ![m] = Idle]
  /\ UNCHANGED <<listeners, next_sub, bus, counted, history>>

\* Nobody is inside a member function; what emit copied does not matter any more.
Destroy ==
  /\ bus /\ \A m \in Emitters : snapshot[m] = Idle
  /\ bus' = FALSE /\ listeners' = [e \in {} |-> {}]
  /\ UNCHANGED <<next_sub, snapshot, counted, history>>
-----------------------------------------------------------------------------
Next ==
  \/ \E e \in Events : Subscribe(e) \/ \E m \in Emitters : EmitBegins(m, e)
  \/ \E i \in Subs : Unsubscribe(i)
  \/ \E m \in Emitters : EmitCalls(m) \/ EmitReturns(m)
  \/ Destroy

Spec == Init /\ [][Next]_vars
-----------------------------------------------------------------------------
\* The values of the variables.
TypeOK ==
  /\ Known \subseteq Events /\ \A e \in Known : listeners[e] \subseteq Subs
  /\ next_sub \in 1..(MaxSubs + 1) /\ bus \in BOOLEAN
  /\ snapshot \in [Emitters -> (SUBSET Subs) \cup {Idle}]
  /\ counted \in [Emitters -> Nat] /\ dropped \subseteq Subs

\* The table holds the subscriptions that were made and not dropped, under
\* their own event, and no event without any, however often and in whatever
\* order handles are used (unsubscribe).
TableIsExact ==
  /\ bus => \A e \in Events :
       ListenersOf(e) = {i \in DOMAIN subscribed : subscribed[i] = e /\ i \notin dropped}
  /\ \A e \in Known : listeners[e] # {}

\* An emit may call a listener whose unsubscribe returned while it was under
\* way, but none whose unsubscribe had returned before it began (emit).
NoCallAfterUnsubscribe == \A m \in Emitters : snapshot[m] \cap before[m] = {}

\* Together.
EventBusSound == TableIsExact /\ NoCallAfterUnsubscribe
=============================================================================
