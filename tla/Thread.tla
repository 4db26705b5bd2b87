------------------------------- MODULE Thread -------------------------------
(***************************************************************************)
(* StopSource/StopToken (stop_token.cpp), Thread (thread.cpp, thread.hpp)  *)
(* and OnceLock (once.hpp): one Thread object, the thread it runs, and     *)
(* threads that stop it, wait for its token, join it, destroy it, and      *)
(* share a OnceLock.                                                       *)
(***************************************************************************)
EXTENDS Naturals, FiniteSets

CONSTANTS
  Self,                 \* the thread the object runs
  Callers,              \* the other threads
  MaxTries              \* bound: runs of the OnceLock's factory

Threads == Callers \cup {Self}
NoThread == "nobody"

VARIABLES
  requested,            \* StopState::requested
  stopOwed,             \* request_stop calls between unlock and notify_all
  blocked,              \* threads inside StopToken::wait or wait_for
  firsts,               \* history: request_stop calls that returned true
  fun,                  \* the thread function: "runs", "ok", "threw"
  native,               \* native_: "joinable", "joined", "detached"
  joined_, join_status_,
  join_mutex_,          \* its holder
  jpc,                  \* thread -> "out", "enter", "native", "leave"
  result,               \* thread -> what its last join returned
  object,               \* the Thread object: "alive", "dying", "gone"
  once_mutex,           \* OnceLock: the holder, who runs the factory
  value_,               \* the value: the number of the factory run; zero: none
  tries,                \* history: factory runs
  seen                  \* history: values returned by get_or_init

stopVars == <<requested, stopOwed, blocked, firsts>>
joinVars == <<joined_, join_status_, join_mutex_, jpc, result>>
onceVars == <<once_mutex, value_, tries, seen>>
vars == <<stopVars, fun, native, joinVars, object, onceVars>>

Init ==
  /\ requested = FALSE /\ stopOwed = 0 /\ blocked = {} /\ firsts = 0
  /\ fun = "runs" /\ native = "joinable"
  /\ joined_ = FALSE /\ join_status_ = "none" /\ join_mutex_ = NoThread
  /\ jpc = [t \in Threads |-> "out"] /\ result = [t \in Threads |-> "none"]
  /\ object = "alive"
  /\ once_mutex = NoThread /\ value_ = 0 /\ tries = 0 /\ seen = {}

\* The thread can take a step of its own program.
Free(t) == t \notin blocked /\ jpc[t] = "out" /\ once_mutex # t /\ (t = Self => fun = "runs")
-----------------------------------------------------------------------------
(* StopSource and StopToken *)

RequestStop(t) ==
  /\ Free(t) /\ object = "alive"
  /\ requested' = TRUE
  /\ stopOwed' = stopOwed + (IF requested THEN 0 ELSE 1)
  /\ firsts' = firsts + (IF requested THEN 0 ELSE 1)
  /\ UNCHANGED <<blocked, fun, native, joinVars, object, onceVars>>

StopNotifies ==
  /\ stopOwed > 0 /\ stopOwed' = stopOwed - 1
  /\ blocked' = {}
  /\ UNCHANGED <<requested, firsts, fun, native, joinVars, object, onceVars>>

\* Mutant: the predicate is looked at only after the first sleep.
WaitUnchecked(t) ==
  /\ Free(t)
  /\ blocked' = blocked \cup {t}
  /\ UNCHANGED <<requested, stopOwed, firsts, fun, native, joinVars, object, onceVars>>

\* wait and wait_for return at once when the stop was requested.
Wait(t) ==
  /\ Free(t) /\ ~requested
  /\ blocked' = blocked \cup {t}
  /\ UNCHANGED <<requested, stopOwed, firsts, fun, native, joinVars, object, onceVars>>

\* wait_for runs out of time, or a spurious wakeup that only looks again.
WaitTimesOut(t) ==
  /\ t \in blocked /\ blocked' = blocked \ {t}
  /\ UNCHANGED <<requested, stopOwed, firsts, fun, native, joinVars, object, onceVars>>
-----------------------------------------------------------------------------
(* Thread *)

\* The function returns or throws; the exception is recorded before the
\* native thread ends.
FunctionEnds(how) ==
  /\ Free(Self) /\ fun' = how
  /\ UNCHANGED <<stopVars, native, joinVars, object, onceVars>>

\* join takes join_mutex_ and keeps it until it returns.
Join(t) ==
  /\ Free(t) /\ object = "alive" /\ jpc' = [jpc EXCEPT ![t] = "enter"]
  /\ UNCHANGED <<stopVars, fun, native, joined_, join_status_, join_mutex_, result, object, onceVars>>

\* An answer without a native join: the cached status, no joinable thread, or
\* a thread that would wait for itself.
JoinAnswers(t) ==
  /\ jpc[t] = "enter" /\ join_mutex_ = NoThread
  /\ joined_ \/ native # "joinable" \/ t = Self
  /\ result' = [result EXCEPT ![t] = IF joined_ THEN join_status_ ELSE "failed_precondition"]
  /\ jpc' = [jpc EXCEPT ![t] = "out"]
  /\ UNCHANGED <<stopVars, fun, native, joined_, join_status_, join_mutex_, object, onceVars>>

JoinStarts(t) ==
  /\ jpc[t] = "enter" /\ join_mutex_ = NoThread
  /\ ~joined_ /\ native = "joinable" /\ t # Self
  /\ join_mutex_' = t /\ jpc' = [jpc EXCEPT ![t] = "native"]
  /\ UNCHANGED <<stopVars, fun, native, joined_, join_status_, result, object, onceVars>>

completion_status == IF fun = "threw" THEN "internal" ELSE "ok"

\* native_.join() returns when the thread has ended.
JoinEnds(t) ==
  /\ jpc[t] = "native" /\ fun # "runs"
  /\ native' = "joined" /\ joined_' = TRUE /\ join_status_' = completion_status
  /\ result' = [result EXCEPT ![t] = completion_status]
  /\ jpc' = [jpc EXCEPT ![t] = "out"] /\ join_mutex_' = NoThread
  /\ UNCHANGED <<stopVars, fun, object, onceVars>>

\* ~Thread or a move assignment over it, by a thread that nobody else races
\* with: it asks the function to stop, then joins, or detaches if it runs in it.
Destroy(t) ==
  /\ Free(t) /\ object = "alive" /\ \A u \in Threads : jpc[u] = "out"
  /\ IF native = "joinable"
       THEN /\ requested' = TRUE
            /\ stopOwed' = stopOwed + (IF requested THEN 0 ELSE 1)
            /\ firsts' = firsts + (IF requested THEN 0 ELSE 1)
       ELSE UNCHANGED <<requested, stopOwed, firsts>>
  /\ object' = IF native = "joinable" /\ t # Self THEN "dying" ELSE "gone"
  /\ native' = IF native = "joinable" /\ t = Self THEN "detached" ELSE native
  /\ UNCHANGED <<blocked, fun, joinVars, onceVars>>

DestroyJoins ==
  /\ object = "dying" /\ fun # "runs"
  /\ object' = "gone" /\ native' = "joined"
  /\ UNCHANGED <<stopVars, fun, joinVars, onceVars>>
-----------------------------------------------------------------------------
(* OnceLock::get_or_init *)

OnceFound(t) ==
  /\ Free(t) /\ once_mutex = NoThread /\ value_ # 0
  /\ seen' = seen \cup {value_}
  /\ UNCHANGED <<stopVars, fun, native, joinVars, object, once_mutex, value_, tries>>

OnceBegins(t) ==
  /\ Free(t) /\ once_mutex = NoThread /\ value_ = 0 /\ tries < MaxTries
  /\ once_mutex' = t /\ tries' = tries + 1
  /\ UNCHANGED <<stopVars, fun, native, joinVars, object, value_, seen>>

\* The factory returns a value or throws, which leaves the lock empty.
OnceEnds(t, ok) ==
  /\ once_mutex = t /\ once_mutex' = NoThread
  /\ value_' = IF ok THEN tries ELSE value_
  /\ seen' = IF ok THEN seen \cup {tries} ELSE seen
  /\ UNCHANGED <<stopVars, fun, native, joinVars, object, tries>>
-----------------------------------------------------------------------------
StopStep(t) == RequestStop(t) \/ Wait(t) \/ WaitTimesOut(t)
JoinStep(t) == JoinAnswers(t) \/ JoinStarts(t) \/ JoinEnds(t)

Next ==
  \/ StopNotifies \/ DestroyJoins
  \/ \E how \in {"ok", "threw"} : FunctionEnds(how)
  \/ \E t \in Threads :
       \/ StopStep(t) \/ Join(t) \/ JoinStep(t) \/ Destroy(t)
       \/ OnceFound(t) \/ OnceBegins(t) \/ \E ok \in BOOLEAN : OnceEnds(t, ok)

Spec == Init /\ [][Next]_vars
-----------------------------------------------------------------------------
\* The values of the variables.
TypeOK ==
  /\ requested \in BOOLEAN /\ stopOwed \in 0..1 /\ blocked \subseteq Threads
  /\ fun \in {"runs", "ok", "threw"} /\ native \in {"joinable", "joined", "detached"}
  /\ joined_ \in BOOLEAN /\ join_status_ \in {"none", "ok", "internal"}
  /\ join_mutex_ \in Threads \cup {NoThread} /\ once_mutex \in Threads \cup {NoThread}
  /\ jpc \in [Threads -> {"out", "enter", "native"}] /\ object \in {"alive", "dying", "gone"}
  /\ result \in [Threads -> {"none", "ok", "internal", "failed_precondition"}]
  /\ value_ \in 0..MaxTries /\ tries \in 0..MaxTries /\ seen \subseteq 1..MaxTries

\* Nobody sleeps on the token of a thread that was asked to stop once the
\* notification is out (request_stop, wait).
NoStopMissed == requested /\ stopOwed = 0 => blocked = {}

\* One request_stop is the first one.  Joins that succeed come after the end
\* of the function and report the same status, whoever calls them and however
\* often; no thread is joined twice (join).
JoinsAgree ==
  /\ firsts <= 1
  /\ Cardinality({t \in Threads : jpc[t] = "native"}) <= 1
  /\ \A t \in Threads : result[t] \in {"ok", "internal"} =>
       native = "joined" /\ result[t] = completion_status /\ fun # "runs"

\* Nobody gets a Thread destroyed under a function that still runs, except
\* the function itself (finish_noexcept).
GoneMeansEnded == object = "gone" /\ native # "detached" => fun # "runs"

\* All who asked a OnceLock got the one value (once.hpp).
OneValue == Cardinality(seen) <= 1 /\ seen \subseteq {value_}

\* Together.
ThreadSound == NoStopMissed /\ JoinsAgree /\ GoneMeansEnded /\ OneValue
=============================================================================
