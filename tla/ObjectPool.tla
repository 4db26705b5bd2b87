----------------------------- MODULE ObjectPool -----------------------------
(***************************************************************************)
(* ObjectPool<T> (object_pool.hpp): objects lent as shared pointers whose  *)
(* deleter gives them back.  The deleter locks the weak reference to the   *)
(* state first and the mutex later; the pool may be shut down or destroyed *)
(* in between.                                                             *)
(***************************************************************************)
EXTENDS Sequences, FiniteSets, Naturals

CONSTANTS Objects       \* bound: the objects the factory makes

VARIABLES
  idle,                 \* State::idle, the back last
  pool_shutdown,        \* State::shutdown
  pool,                 \* the ObjectPool exists
  lent,                 \* the objects that users hold
  returning,            \* those whose deleter holds the state
  freed,                \* the deleted objects
  dirty                 \* history: used since the last recycle hook

vars == <<idle, pool_shutdown, pool, lent, returning, freed, dirty>>

Init ==
  /\ idle = <<>> /\ pool_shutdown = FALSE /\ pool = TRUE
  /\ lent = {} /\ returning = {} /\ freed = {} /\ dirty = {}

IdleSet == {idle[k] : k \in DOMAIN idle}
StateLives == pool \/ returning # {}
Fresh == Objects \ (lent \cup returning \cup freed \cup IdleSet)
-----------------------------------------------------------------------------
\* obtain: try_to_lock succeeds and there is an idle object.
ObtainIdle ==
  /\ pool /\ ~pool_shutdown /\ idle # <<>>
  /\ lent' = lent \cup {idle[Len(idle)]} /\ dirty' = dirty \cup {idle[Len(idle)]}
  /\ idle' = SubSeq(idle, 1, Len(idle) - 1)
  /\ UNCHANGED <<pool_shutdown, pool, returning, freed>>

\* obtain: the lock is taken by another, the pool is empty or shut down; the
\* factory makes an object outside the lock.  Which one is of no account.
ObtainNew ==
  /\ pool /\ Fresh # {}
  /\ LET o == CHOOSE x \in Fresh : TRUE
     IN  lent' = lent \cup {o} /\ dirty' = dirty \cup {o}
  /\ UNCHANGED <<idle, pool_shutdown, pool, returning, freed>>

\* Deleter: the last reference is gone; without a state the object is deleted.
Release(o) ==
  /\ o \in lent /\ lent' = lent \ {o}
  /\ IF StateLives THEN returning' = returning \cup {o} /\ UNCHANGED freed
                   ELSE freed' = freed \cup {o} /\ UNCHANGED returning
  /\ UNCHANGED <<idle, pool_shutdown, pool, dirty>>

\* Whoever lets go of the state last deletes what is idle.
Survives(rest) == pool \/ rest # {}

\* Mutant: the deleter does not look at shutdown.
ReturnUnchecked(o, keep) ==
  /\ o \in returning /\ returning' = returning \ {o}
  /\ keep
  /\ idle' = Append(idle, o) /\ dirty' = dirty \ {o}
  /\ UNCHANGED <<pool_shutdown, pool, lent, freed>>

\* Deleter under the lock: deleted after shutdown, when the recycle hook
\* throws or when idle cannot grow (keep is then FALSE), else kept.
Return(o, keep) ==
  /\ o \in returning /\ returning' = returning \ {o}
  /\ keep => ~pool_shutdown
  /\ IF keep THEN idle' = Append(idle, o) /\ dirty' = dirty \ {o} /\ UNCHANGED freed
     ELSE /\ idle' = IF Survives(returning \ {o}) THEN idle ELSE <<>>
          /\ freed' = freed \cup {o} \cup (IF Survives(returning \ {o}) THEN {} ELSE IdleSet)
          /\ UNCHANGED dirty
  /\ UNCHANGED <<pool_shutdown, pool, lent>>

Shutdown ==
  /\ pool /\ pool_shutdown' = TRUE
  /\ UNCHANGED <<idle, pool, lent, returning, freed, dirty>>

\* ~ObjectPool: shutdown, then the reference to the state.
Destroy ==
  /\ pool /\ pool' = FALSE /\ pool_shutdown' = TRUE
  /\ idle' = IF returning = {} THEN <<>> ELSE idle
  /\ freed' = IF returning = {} THEN freed \cup IdleSet ELSE freed
  /\ UNCHANGED <<lent, returning, dirty>>
-----------------------------------------------------------------------------
Next ==
  \/ ObtainIdle \/ ObtainNew \/ Shutdown \/ Destroy
  \/ \E o \in Objects : Release(o) \/ \E keep \in BOOLEAN : Return(o, keep)

Spec == Init /\ [][Next]_vars
-----------------------------------------------------------------------------
\* The values of the variables.
TypeOK ==
  /\ idle \in Seq(Objects) /\ pool_shutdown \in BOOLEAN /\ pool \in BOOLEAN
  /\ lent \subseteq Objects /\ returning \subseteq Objects
  /\ freed \subseteq Objects /\ dirty \subseteq Objects

\* An object is in one place only, one that is idle went through the recycle
\* hook since its last use, and when the pool and the last deleter that held
\* its state are gone no object is left behind (Deleter): neither
\* freed twice, nor lent twice, nor leaked.
ObjectPoolSound ==
  /\ Len(idle) = Cardinality(IdleSet)
  /\ IdleSet \cap (lent \cup returning \cup freed \cup dirty) = {}
  /\ lent \cap returning = {} /\ (lent \cup returning) \cap freed = {}
  /\ ~StateLives => idle = <<>>
=============================================================================
