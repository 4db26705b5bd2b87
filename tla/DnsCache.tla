------------------------------ MODULE DnsCache ------------------------------
(***************************************************************************)
(* CachedDnsResolver (dns_cache.cpp) over LruCache (lru_cache.hpp): a      *)
(* bounded cache under a mutex, with the real lookup outside the mutex, so *)
(* that several threads may resolve the same key at once.                  *)
(***************************************************************************)
EXTENDS Naturals, Sequences, FiniteSets, SequencesExt

CONSTANTS
  Keys, Resolvers,      \* cache keys, threads that call resolve
  DnsCapacity, Ttl,     \* options, both positive
  DnsEnd,               \* bound: the end of the clock
  MaxLookups            \* bound: calls of resolve

VARIABLES
  clock,                \* now_()
  lru,                  \* items_: entries [key, expires_at], most recent first
  stats,                \* hits, misses, expiries, evictions, resolver_calls
  asking,               \* thread -> the key it resolves, outside the mutex
  begun,                \* history: thread -> the clock when it called resolve
  answered,             \* history: resolve calls that have returned
  used                  \* history: key -> number of its last use

vars == <<clock, lru, stats, asking, begun, answered, used>>

NoKey == "none"

Init ==
  /\ clock = 0 /\ lru = <<>>
  /\ stats = [hits |-> 0, misses |-> 0, expiries |-> 0, evictions |-> 0, resolver_calls |-> 0]
  /\ asking = [r \in Resolvers |-> NoKey] /\ begun = [r \in Resolvers |-> 0]
  /\ answered = 0 /\ used = [k \in Keys |-> 0]

Calls == stats.hits + stats.misses
Uses == Calls + stats.resolver_calls
-----------------------------------------------------------------------------
(* LruCache *)

Cached(k) == \E i \in DOMAIN lru : lru[i].key = k
Place(k) == CHOOSE i \in DOMAIN lru : lru[i].key = k      \* index_
EntryOf(k) == lru[Place(k)]
Without(k) == IF Cached(k) THEN RemoveAt(lru, Place(k)) ELSE lru

\* Mutant: get leaves the order as it is.
GetInPlace(k) == lru

\* get: a hit becomes the most recent.
Touch(k) == <<EntryOf(k)>> \o Without(k)

\* put: a known key is overwritten and touched; else the least recent makes room.
Full(k) == ~Cached(k) /\ Len(lru) >= DnsCapacity
Put(e) == <<e>> \o (IF Full(e.key) THEN Front(lru) ELSE Without(e.key))
-----------------------------------------------------------------------------
(* CachedDnsResolver *)

Fresh(k) == Cached(k) /\ clock < EntryOf(k).expires_at

ResolveHits(r, k) ==
  /\ asking[r] = NoKey /\ Calls < MaxLookups /\ Fresh(k)
  /\ lru' = Touch(k)
  /\ stats' = [stats EXCEPT !.hits = @ + 1]
  /\ answered' = answered + 1 /\ used' = [used EXCEPT ![k] = Uses + 1]
  /\ UNCHANGED <<clock, asking, begun>>

\* An expired entry is removed; the mutex is released before the resolver runs.
ResolveMisses(r, k) ==
  /\ asking[r] = NoKey /\ Calls < MaxLookups /\ ~Fresh(k)
  /\ lru' = Without(k)
  /\ stats' = [stats EXCEPT !.misses = @ + 1, !.expiries = @ + (IF Cached(k) THEN 1 ELSE 0)]
  /\ asking' = [asking EXCEPT ![r] = k] /\ begun' = [begun EXCEPT ![r] = clock]
  /\ UNCHANGED <<clock, answered, used>>

\* The resolver answered.  The entry expires Ttl after this moment.
ResolverAnswers(r) ==
  /\ asking[r] # NoKey
  /\ lru' = Put([key |-> asking[r], expires_at |-> clock + Ttl])
  /\ stats' = [stats EXCEPT !.resolver_calls = @ + 1,
                            !.evictions = @ + (IF Full(asking[r]) THEN 1 ELSE 0)]
  /\ asking' = [asking EXCEPT ![r] = NoKey]
  /\ answered' = answered + 1 /\ used' = [used EXCEPT ![asking[r]] = Uses + 1]
  /\ UNCHANGED <<clock, begun>>

\* A failure is not cached.
ResolverFails(r) ==
  /\ asking[r] # NoKey
  /\ stats' = [stats EXCEPT !.resolver_calls = @ + 1]
  /\ asking' = [asking EXCEPT ![r] = NoKey] /\ answered' = answered + 1
  /\ UNCHANGED <<clock, lru, begun, used>>

Tick == clock < DnsEnd /\ clock' = clock + 1 /\ UNCHANGED <<lru, stats, asking, begun, answered, used>>

Next ==
  \/ Tick
  \/ \E r \in Resolvers :
       \/ \E k \in Keys : ResolveHits(r, k) \/ ResolveMisses(r, k)
       \/ ResolverAnswers(r) \/ ResolverFails(r)

Spec == Init /\ [][Next]_vars
-----------------------------------------------------------------------------
\* The values of the variables.
TypeOK ==
  /\ clock \in 0..DnsEnd /\ lru \in Seq([key : Keys, expires_at : Nat])
  /\ asking \in [Resolvers -> Keys \cup {NoKey}]
  /\ stats \in [{"hits", "misses", "expiries", "evictions", "resolver_calls"} -> Nat]

\* The list stays within the capacity, holds a key once and in the order of
\* use, so that what put evicts is the least recently used entry, although
\* several threads resolve and put the same key (put, get).
LruOrdered ==
  /\ Len(lru) <= DnsCapacity
  /\ \A i, j \in DOMAIN lru : i < j => used[lru[i].key] > used[lru[j].key]

\* Every miss leads to one call of the resolver, which is under way or
\* counted; every call of resolve is a hit or a miss (resolve).
CallsAddUp ==
  /\ stats.misses = stats.resolver_calls + Cardinality({r \in Resolvers : asking[r] # NoKey})
  /\ answered = stats.hits + stats.resolver_calls
  /\ Len(lru) + stats.evictions + stats.expiries <= stats.resolver_calls

\* Together.
DnsCacheSound == LruOrdered /\ CallsAddUp

\* What the comment in resolve says: the time an entry expires is counted from
\* the moment the lookup began, so that a slow lookup does not prolong it.
TtlCountsFromTheCall ==
  [][\A r \in Resolvers : asking[r] # NoKey /\ asking'[r] = NoKey =>
       \A i \in DOMAIN lru' : lru'[i].key = asking[r] /\ ~Cached(asking[r]) =>
         lru'[i].expires_at <= begun[r] + Ttl]_vars
=============================================================================
