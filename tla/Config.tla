------------------------------- MODULE Config -------------------------------
(***************************************************************************)
(* Config and ConfigVar<T> (config.cpp, config.hpp, config_var.hpp): the   *)
(* registry of variables by name, the documents nobody has claimed yet,    *)
(* and listeners that are called outside the locks.                        *)
(*                                                                         *)
(* A variable is an instance number, so that one that was registered again *)
(* after clear() differs from the one that handles still refer to.  Values *)
(* are members of Values, or Bad for JSON that does not convert.           *)
(***************************************************************************)
EXTENDS Naturals, Sequences, FiniteSets

CONSTANTS
  Names, Values, Bad,
  Default,              \* the default of a lookup, a member of Values
  Loaded,               \* bound: what documents hold, among Values and Bad
  Writers,              \* threads that call set or load
  MaxVars, MaxWrites,   \* bounds: instances, calls of set and load
  MaxListeners          \* bound: calls of add_listener

VARIABLES
  registry,             \* ConfigState::vars: name -> instance
  pending,              \* ConfigState::pending: name -> loaded value
  instances,            \* instance -> its name (a function on 1..n)
  stored,               \* instance -> value_
  listeners_,           \* instance -> the ids of its listeners; ids are given in
                        \* ascending order, over all variables
  todo,                 \* writer -> what load has still to apply, in order
  notify,               \* writer -> <<change, listener>> it has still to tell
  loading,              \* writer -> inside load
  failed,               \* writer -> variables that load will report
  writes,               \* bound: calls of set and load
  asked,                \* history: writer -> what its load found to apply
  start,                \* history: writer -> the last change before its load
  changes,              \* history: the variables whose value changed, in order
  told,                 \* history: listener -> the changes it was called for, in order
  added,                \* history: listener -> its variable, the last change before it
  cut,                  \* history: <<change, listener, writer>> where the listener threw
  raced                 \* history: <<m, n>> where n came while m was still being told

vars == <<registry, pending, instances, stored, listeners_, todo, notify, loading, failed, writes,
          asked, start, changes, told, added, cut, raced>>
writerVars == <<todo, notify, loading, failed>>
loadHistory == <<asked, start>>
listenHistory == <<told, added>>
changeHistory == <<changes, cut, raced>>
history == <<loadHistory, listenHistory, changeHistory>>

Empty == [x \in {} |-> x]
Put(f, x, v) == [y \in DOMAIN f \cup {x} |-> IF y = x THEN v ELSE f[y]]
Drop(f, x) == [y \in DOMAIN f \ {x} |-> f[y]]

Init ==
  /\ registry = Empty /\ pending = Empty /\ instances = Empty /\ stored = Empty
  /\ listeners_ = Empty /\ writes = 0
  /\ todo = [w \in Writers |-> <<>>] /\ notify = [w \in Writers |-> {}]
  /\ loading = [w \in Writers |-> FALSE] /\ failed = [w \in Writers |-> {}]
  /\ asked = [w \in Writers |-> {}] /\ start = [w \in Writers |-> 0]
  /\ changes = <<>> /\ told = <<>> /\ added = <<>> /\ cut = {} /\ raced = {}

Registered == DOMAIN registry

\* JsonCast<T>::from_json: whether a loaded value has the type of the variable.
Converts(x) == x # Bad

Free(w) == notify[w] = {} /\ ~loading[w]
-----------------------------------------------------------------------------
\* lookup<T> of a name that is not registered: a pending value is taken if it
\* converts, and forgotten in either case.
LookupNew(n) ==
  /\ n \notin Registered /\ Cardinality(DOMAIN instances) < MaxVars
  /\ LET v == Cardinality(DOMAIN instances) + 1
         init == IF n \in DOMAIN pending /\ Converts(pending[n]) THEN pending[n] ELSE Default
     IN  /\ registry' = Put(registry, n, v) /\ instances' = Put(instances, v, n)
         /\ stored' = Put(stored, v, init) /\ listeners_' = Put(listeners_, v, {})
  /\ pending' = Drop(pending, n)
  /\ UNCHANGED <<writerVars, writes, history>>

AddListener(v) ==
  /\ v \in DOMAIN instances /\ Len(told) < MaxListeners
  /\ listeners_' = [listeners_ EXCEPT ![v] = @ \cup {Len(told) + 1}]
  /\ told' = Append(told, <<>>) /\ added' = Append(added, <<v, Len(changes)>>)
  /\ UNCHANGED <<registry, pending, instances, stored, writerVars, writes, loadHistory,
                 changeHistory>>

RemoveListener(v) ==
  /\ v \in DOMAIN instances
  /\ \E l \in listeners_[v] : listeners_' = [listeners_ EXCEPT ![v] = @ \ {l}]
  /\ UNCHANGED <<registry, pending, instances, stored, writerVars, writes, history>>

\* The locked part of ConfigVar::set: an equal value changes nothing and tells
\* nobody; otherwise the listeners are copied, and called with the lock
\* released.
Store(w, v, x) ==
  IF stored[v] = x
    THEN UNCHANGED <<stored, notify, changeHistory>>
    ELSE LET n == Len(changes) + 1
         IN  /\ stored' = [stored EXCEPT ![v] = x]
             /\ notify' = [notify EXCEPT ![w] = {n} \X listeners_[v]]
             /\ changes' = Append(changes, v)
             /\ raced' = raced \cup {<<a[1], n>> : a \in {b \in UNION {notify[u] : u \in Writers} :
                                                         changes[b[1]] = v}}
             /\ UNCHANGED cut

Set(w, v, x) ==
  /\ Free(w) /\ v \in DOMAIN instances /\ writes < MaxWrites /\ writes' = writes + 1
  /\ Store(w, v, x)
  /\ UNCHANGED <<registry, pending, instances, listeners_, todo, loading, failed, loadHistory,
                 listenHistory>>

\* The next listener that w has to call: the map keeps them in the order of
\* their ids.
IsNext(w, a) == a \in notify[w] /\ \A b \in notify[w] : a[2] <= b[2]
Tell(a) == told' = [told EXCEPT ![a[2]] = Append(@, a[1])]

\* A listener is called; it may have been removed since.  It may call set
\* itself: what follows then is like a set of another writer at this point.
Notify(w) ==
  /\ \E a \in notify[w] :
       IsNext(w, a) /\ Tell(a) /\ notify' = [notify EXCEPT ![w] = @ \ {a}]
  /\ UNCHANGED <<registry, pending, instances, stored, listeners_, todo, loading, failed, writes,
                 added, loadHistory, changeHistory>>

\* A listener that throws ends the loop over the listeners: those after it are
\* not called.  Inside load the exception is caught and the key counted as
\* failed, otherwise it leaves set.
ListenerThrows(w) ==
  /\ \E a \in notify[w] :
       /\ IsNext(w, a) /\ Tell(a) /\ cut' = cut \cup {<<a[1], a[2], w>>}
       /\ failed' = IF loading[w] THEN [failed EXCEPT ![w] = @ \cup {changes[a[1]]}] ELSE failed
  /\ notify' = [notify EXCEPT ![w] = {}]
  /\ UNCHANGED <<registry, pending, instances, stored, listeners_, todo, loading, writes, added,
                 loadHistory, changes, raced>>
-----------------------------------------------------------------------------
\* The keys of a document that nobody has claimed.
Unclaimed(doc) == DOMAIN doc \ Registered
Claimed(doc) == {[var |-> registry[n], new |-> doc[n]] : n \in DOMAIN doc \cap Registered}

\* load of a document that parses to an object: under the registry lock it is
\* split into what is applied now and what waits for a lookup.  (One that
\* does not parse, or a file that cannot be read, changes nothing.)
LoadSplits(w, doc) ==
  /\ Free(w) /\ writes < MaxWrites /\ writes' = writes + 1
  /\ pending' = [n \in DOMAIN pending \cup Unclaimed(doc) |->
                   IF n \in Unclaimed(doc) THEN doc[n] ELSE pending[n]]
  /\ loading' = [loading EXCEPT ![w] = TRUE] /\ start' = [start EXCEPT ![w] = Len(changes)]
  /\ asked' = [asked EXCEPT ![w] = Claimed(doc)]
  /\ \E order \in [1..Cardinality(Claimed(doc)) -> Claimed(doc)] :
       /\ \A a \in Claimed(doc) : \E i \in DOMAIN order : order[i] = a
       /\ todo' = [todo EXCEPT ![w] = order]
  /\ UNCHANGED <<registry, instances, stored, listeners_, notify, failed, listenHistory, changeHistory>>

\* Mutant: the first key that does not convert ends the load.
StopsAtFailure(w) ==
  /\ loading[w] /\ notify[w] = {} /\ todo[w] # <<>>
  /\ LET a == Head(todo[w])
     IN  IF Converts(a.new)
           THEN /\ Store(w, a.var, a.new) /\ todo' = [todo EXCEPT ![w] = Tail(@)]
                /\ UNCHANGED failed
           ELSE /\ failed' = [failed EXCEPT ![w] = @ \cup {a.var}] /\ todo' = [todo EXCEPT ![w] = <<>>]
                /\ UNCHANGED <<stored, notify, changeHistory>>
  /\ UNCHANGED <<registry, pending, instances, listeners_, loading, writes, loadHistory, listenHistory>>

\* set_from_json outside the registry lock, key after key; what does not
\* convert is reported and the rest is applied all the same.
LoadApplies(w) ==
  /\ loading[w] /\ notify[w] = {} /\ todo[w] # <<>>
  /\ LET a == Head(todo[w])
     IN  IF Converts(a.new)
           THEN Store(w, a.var, a.new) /\ UNCHANGED failed
           ELSE /\ failed' = [failed EXCEPT ![w] = @ \cup {a.var}]
                /\ UNCHANGED <<stored, notify, changeHistory>>
  /\ todo' = [todo EXCEPT ![w] = Tail(@)]
  /\ UNCHANGED <<registry, pending, instances, listeners_, loading, writes, loadHistory,
                 listenHistory>>

\* The failures are in the error it returns.
LoadReturns(w) ==
  /\ loading[w] /\ notify[w] = {} /\ todo[w] = <<>>
  /\ loading' = [loading EXCEPT ![w] = FALSE] /\ failed' = [failed EXCEPT ![w] = {}]
  /\ asked' = [asked EXCEPT ![w] = {}] /\ start' = [start EXCEPT ![w] = 0]
  /\ UNCHANGED <<registry, pending, instances, stored, listeners_, todo, notify, writes,
                 listenHistory, changeHistory>>

\* clear: variables that are still referred to live on, unregistered.
Clear ==
  /\ registry' = Empty /\ pending' = Empty
  /\ UNCHANGED <<instances, stored, listeners_, writerVars, writes, history>>
-----------------------------------------------------------------------------
\* visit: the registered variables with their values, then what nobody claimed.
visit ==
  {[name |-> n, pending |-> FALSE, value |-> stored[registry[n]]] : n \in Registered}
    \cup {[name |-> n, pending |-> TRUE, value |-> pending[n]] : n \in DOMAIN pending}

\* dump writes them as the members of one object.
dump == {<<e.name, e.value>> : e \in visit}

Documents == UNION {[ns -> Loaded] : ns \in (SUBSET Names) \ {{}}}

Next ==
  \/ \E n \in Names : LookupNew(n)
  \/ \E v \in 1..MaxVars : AddListener(v) \/ RemoveListener(v)
  \/ \E w \in Writers :
       \/ \E v \in 1..MaxVars, x \in Values : Set(w, v, x)
       \/ \E doc \in Documents : LoadSplits(w, doc)
       \/ Notify(w) \/ LoadApplies(w) \/ ListenerThrows(w) \/ LoadReturns(w)
  \/ Clear

Spec == Init /\ [][Next]_vars
-----------------------------------------------------------------------------
\* The values of the variables.
TypeOK ==
  /\ Registered \subseteq Names /\ DOMAIN pending \subseteq Names
  /\ \A n \in Registered : registry[n] \in DOMAIN instances /\ instances[registry[n]] = n
  /\ \A n \in DOMAIN pending : pending[n] \in Values \cup {Bad}
  /\ DOMAIN stored = DOMAIN instances /\ DOMAIN listeners_ = DOMAIN instances
  /\ \A v \in DOMAIN instances : stored[v] \in Values /\ listeners_[v] \subseteq DOMAIN told
  /\ loading \in [Writers -> BOOLEAN] /\ writes \in 0..MaxWrites

\* dump writes every key once, so load restores what it wrote: no name is
\* registered and waits to be claimed at the same time, whichever way lookup,
\* load and clear interleave.
DumpIsAnObject == \A m, n \in dump : m[1] = n[1] => m = n

\* Whether the value that load had for a variable is, or was, stored since the load began.
WasApplied(w, a) ==
  stored[a.var] = a.new \/ \E n \in DOMAIN changes : n > start[w] /\ changes[n] = a.var
Threw(w, v) ==
  \E c \in cut : c[3] = w /\ c[1] > start[w] /\ changes[c[1]] = v

\* A load gets through all it found, whatever does not convert, whoever throws
\* and whatever other threads set, clear or look up meanwhile: a value that
\* converts is stored once its turn has come, and what is reported as failed
\* is just what did not convert or whose listeners were cut short (load).
LoadIsComplete ==
  \A w \in Writers : loading[w] =>
    /\ \A a \in asked[w] :
         \/ \E i \in DOMAIN todo[w] : todo[w][i] = a
         \/ IF Converts(a.new) THEN WasApplied(w, a) ELSE a.var \in failed[w]
    /\ \A v \in failed[w] :
         Threw(w, v) \/ \E a \in asked[w] : a.var = v /\ ~Converts(a.new)
    /\ \A v \in DOMAIN instances : Threw(w, v) => v \in failed[w]

\* A listener is called once for every change of its variable since it was
\* added, or the call is owed, or a listener before it threw at that change:
\* then nobody calls it, though the value is stored (config_var.hpp:110-118).
EveryChangeIsTold ==
  \A v \in DOMAIN instances : \A l \in listeners_[v] : \A n \in DOMAIN changes :
    changes[n] = v /\ n > added[l][2] =>
      \/ \E i \in DOMAIN told[l] : told[l][i] = n
      \/ \E w \in Writers : <<n, l>> \in notify[w]
      \/ \E c \in cut : c[1] = n /\ c[2] < l

\* A listener hears the changes in their order, each once, except that the
\* older of two may come last, and be the last it hears, when the newer was
\* stored while the older was still being told: set calls outside the lock.
ToldInOrder ==
  \A l \in DOMAIN told : \A i, j \in DOMAIN told[l] :
    i < j => told[l][i] < told[l][j] \/ <<told[l][j], told[l][i]>> \in raced

\* Together.
ConfigSound == DumpIsAnObject /\ LoadIsComplete /\ EveryChangeIsTold /\ ToldInOrder
=============================================================================
