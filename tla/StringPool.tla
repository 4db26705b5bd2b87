----------------------------- MODULE StringPool -----------------------------
(***************************************************************************)
(* The two interning stores of str: Utf8StringPool, whose handles count    *)
(* references to heap entries that point back at their pool, and           *)
(* Utf8StringArena, which copies texts into chunks and never frees one.    *)
(*                                                                         *)
(* Pools may be cleared, destroyed and moved while handles are alive.  A   *)
(* text is a sequence of byte classes: "a" (ASCII), "L" (a leading byte of *)
(* two) and "C" (a continuation byte).  Buckets are left out: equal texts  *)
(* have equal hashes, so a lookup finds exactly the entry with the text.   *)
(***************************************************************************)
EXTENDS Naturals, Sequences, FiniteSets, SequencesExt

CONSTANTS
  Texts,        \* the texts given to intern
  Pools,        \* the Utf8StringPool objects, and
  Handles,      \* the Utf8StringPooledPtr objects of the callers
  Arenas,       \* the Utf8StringArena objects
  ChunkSize,    \* DEFAULT_CHUNK_SIZE
  MaxEntries    \* bound: entries ever created, in pools and in arenas

VARIABLES
  side,          \* which of the two stores the behaviour is about
  entry_of,      \* entry id -> [text, length, ref_count, owner, freed]
  hash_index_,   \* pool -> the entries it owns
  active_count_, total_bytes_,
  living,        \* the pools that are constructed
  handle_of,     \* handle -> entry id, or 0 (null)
  chunks_,       \* arena -> sequence of [capacity, bytes]
  entries_,      \* arena -> sequence of [text, length, chunk_idx, chunk_offset]
  views          \* views handed out and still valid: [arena, chunk, offset, text, length, checked]

poolVars == <<entry_of, hash_index_, active_count_, total_bytes_, living, handle_of>>
arenaVars == <<chunks_, entries_, views>>
vars == <<side, poolVars, arenaVars>>

NoPool == "none"

utf8_count_code_points(t) ==
  IF \A i \in DOMAIN t : /\ t[i] = "L" => i < Len(t) /\ t[i + 1] = "C"
                         /\ t[i] = "C" => i > 1 /\ t[i - 1] = "L"
  THEN Cardinality({i \in DOMAIN t : t[i] # "C"})
  ELSE 0

-----------------------------------------------------------------------------
(* Utf8StringPool.  A pool state is a record, so that one call may release  *)
(* and acquire.                                                             *)

Now == [entry |-> entry_of, index |-> hash_index_, count |-> active_count_,
        bytes |-> total_bytes_, living |-> living, handle |-> handle_of]

Becomes(s) ==
  /\ entry_of' = s.entry /\ hash_index_' = s.index /\ active_count_' = s.count
  /\ total_bytes_' = s.bytes /\ living' = s.living /\ handle_of' = s.handle
  /\ UNCHANGED <<side, arenaVars>>

erase_entry(s, p, e) ==
  [s EXCEPT !.index[p] = @ \ {e},
            !.count[p] = IF @ > 0 THEN @ - 1 ELSE 0,
            !.bytes[p] = IF @ >= Len(s.entry[e].text) THEN @ - Len(s.entry[e].text) ELSE @,
            !.entry[e].freed = @ + 1]

acquire(s, e) == IF e = 0 THEN s ELSE [s EXCEPT !.entry[e].ref_count = @ + 1]

release(s, e) ==
  IF e = 0 THEN s
  ELSE LET t == [s EXCEPT !.entry[e].ref_count = @ - 1]
       IN CASE t.entry[e].ref_count > 0 -> t
            [] t.entry[e].owner # NoPool -> erase_entry(t, t.entry[e].owner, e)
            [] OTHER -> [t EXCEPT !.entry[e].freed = @ + 1]

find(s, p, t) == {e \in s.index[p] : s.entry[e].text = t}

\* The value returned by intern is moved into h, which releases what it held.
Intern(p, h, t) ==
  /\ p \in living /\ t # <<>>
  /\ LET hit == find(Now, p, t)
         new == Len(entry_of) + 1
         got == IF hit # {} THEN CHOOSE e \in hit : TRUE
                ELSE IF utf8_count_code_points(t) = 0 THEN 0 ELSE new
         put == IF got = new
                THEN [Now EXCEPT !.entry = Append(@, [text |-> t, ref_count |-> 1, owner |-> p, freed |-> 0,
                                                      length |-> utf8_count_code_points(t)]),
                                 !.index[p] = @ \cup {new}, !.count[p] = @ + 1, !.bytes[p] = @ + Len(t)]
                ELSE acquire(Now, got)
     IN /\ got = new => new <= MaxEntries
        /\ Becomes([release(put, handle_of[h]) EXCEPT !.handle[h] = got])

\* A handle from find() is moved into h; a miss gives the empty handle.
Find(p, h, t) ==
  /\ p \in living
  /\ LET hit == find(Now, p, t)
         got == IF hit = {} THEN 0 ELSE CHOOSE e \in hit : TRUE
     IN Becomes([release(acquire(Now, got), handle_of[h]) EXCEPT !.handle[h] = got])

CopyAssign(h, g) ==
  /\ h # g
  /\ LET s == [release(Now, handle_of[h]) EXCEPT !.handle[h] = handle_of[g]]
     IN Becomes(acquire(s, handle_of[g]))

MoveAssign(h, g) ==
  /\ h # g
  /\ Becomes([release(Now, handle_of[h]) EXCEPT !.handle[h] = handle_of[g], !.handle[g] = 0])

DestroyHandle(h) ==
  /\ handle_of[h] # 0
  /\ Becomes([release(Now, handle_of[h]) EXCEPT !.handle[h] = 0])

disown_all(s, p) ==
  [s EXCEPT !.entry = [e \in DOMAIN s.entry |->
                         IF e \in s.index[p] THEN [s.entry[e] EXCEPT !.owner = NoPool] ELSE s.entry[e]],
            !.index[p] = {}, !.count[p] = 0, !.bytes[p] = 0]

ClearPool(p) == p \in living /\ Becomes(disown_all(Now, p))

DestroyPool(p) == p \in living /\ Becomes([disown_all(Now, p) EXCEPT !.living = @ \ {p}])

ConstructPool(p) == p \notin living /\ Becomes([Now EXCEPT !.living = @ \cup {p}])

RepointsNothing(s, p) == s

repoint_entries(s, p) ==
  [s EXCEPT !.entry = [e \in DOMAIN s.entry |->
                         IF e \in s.index[p] THEN [s.entry[e] EXCEPT !.owner = p] ELSE s.entry[e]]]

\* operator=(Utf8StringPool&&), and the move constructor when p is new.
MovePool(p, q) ==
  /\ p # q /\ q \in living
  /\ LET s == IF p \in living THEN disown_all(Now, p) ELSE [Now EXCEPT !.living = @ \cup {p}]
         t == [s EXCEPT !.index[p] = s.index[q], !.count[p] = s.count[q], !.bytes[p] = s.bytes[q]]
     IN Becomes([repoint_entries(t, p) EXCEPT !.index[q] = {}, !.count[q] = 0, !.bytes[q] = 0])

-----------------------------------------------------------------------------
(* Utf8StringArena                                                          *)

Larger(a, b) == IF a < b THEN b ELSE a

alloc_chunk(chunks, min) ==
  Append(chunks, [capacity |-> Larger(ChunkSize, min), bytes |-> <<>>])

FitsEmpty(chunk, size) == size <= chunk.capacity

Fits(chunk, size) == size <= chunk.capacity - Len(chunk.bytes)

alloc_in_chunk(chunks, size) ==
  IF chunks = <<>> \/ ~Fits(Last(chunks), size) THEN alloc_chunk(chunks, size) ELSE chunks

Known(a, t) == {i \in DOMAIN entries_[a] : entries_[a][i].text = t}

ViewOf(a, e, checked) ==
  [arena |-> a, chunk |-> e.chunk_idx, offset |-> e.chunk_offset, text |-> e.text,
   length |-> e.length, checked |-> checked]

\* A text already stored is found by its bytes, whoever stored it.
InternHit(a, t, checked) ==
  \E i \in Known(a, t) :
    /\ views' = views \cup {ViewOf(a, entries_[a][i], checked)}
    /\ UNCHANGED <<side, poolVars, chunks_, entries_>>

Store(a, t, length, checked) ==
  /\ Known(a, t) = {} /\ Len(entries_[a]) < MaxEntries
  /\ LET cs == alloc_in_chunk(chunks_[a], Len(t))
         e == [text |-> t, length |-> length, chunk_idx |-> Len(cs), chunk_offset |-> Len(Last(cs).bytes)]
     IN /\ chunks_' = [chunks_ EXCEPT ![a] = [cs EXCEPT ![Len(cs)].bytes = @ \o t]]
        /\ entries_' = [entries_ EXCEPT ![a] = Append(@, e)]
        /\ views' = views \cup {ViewOf(a, e, checked)}
  /\ UNCHANGED <<side, poolVars>>

\* An empty or invalid text gives the empty view and changes nothing.
intern(a, t) ==
  \/ InternHit(a, t, TRUE)
  \/ utf8_count_code_points(t) # 0 /\ Store(a, t, utf8_count_code_points(t), TRUE)

intern_raw(a, t) == t # <<>> /\ (InternHit(a, t, FALSE) \/ Store(a, t, Len(t), FALSE))

owns(a, v) ==
  /\ v.arena = a
  /\ v.chunk \in DOMAIN chunks_[a]
  /\ v.offset + Len(v.text) <= Len(chunks_[a][v.chunk].bytes)

ClearArena(a) ==
  /\ chunks_' = [chunks_ EXCEPT ![a] = alloc_chunk(<<>>, 0)]
  /\ entries_' = [entries_ EXCEPT ![a] = <<>>]
  /\ views' = {v \in views : v.arena # a}
  /\ UNCHANGED <<side, poolVars>>

\* The source is left without a chunk; its views now read the target's chunks.
MoveArena(a, b) ==
  /\ a # b
  /\ chunks_' = [chunks_ EXCEPT ![a] = chunks_[b], ![b] = <<>>]
  /\ entries_' = [entries_ EXCEPT ![a] = entries_[b], ![b] = <<>>]
  /\ views' = {[v EXCEPT !.arena = a] : v \in {w \in views : w.arena = b}}
              \cup {v \in views : v.arena \notin {a, b}}
  /\ UNCHANGED <<side, poolVars>>

-----------------------------------------------------------------------------
Init ==
  /\ side \in {"pool", "arena"}
  /\ entry_of = <<>> /\ hash_index_ = [p \in Pools |-> {}]
  /\ active_count_ = [p \in Pools |-> 0] /\ total_bytes_ = [p \in Pools |-> 0]
  /\ living = Pools /\ handle_of = [h \in Handles |-> 0]
  /\ chunks_ = [a \in Arenas |-> alloc_chunk(<<>>, 0)]
  /\ entries_ = [a \in Arenas |-> <<>>] /\ views = {}

PoolStep ==
  \/ \E p \in Pools, h \in Handles, t \in Texts : Intern(p, h, t) \/ Find(p, h, t)
  \/ \E h, g \in Handles : CopyAssign(h, g) \/ MoveAssign(h, g)
  \/ \E h \in Handles : DestroyHandle(h)
  \/ \E p \in Pools : ClearPool(p) \/ DestroyPool(p) \/ ConstructPool(p)
  \/ \E p, q \in Pools : MovePool(p, q)

ArenaStep ==
  \/ \E a \in Arenas, t \in Texts : intern(a, t) \/ intern_raw(a, t)
  \/ \E a \in Arenas : ClearArena(a)
  \/ \E a, b \in Arenas : MoveArena(a, b)

Next == (side = "pool" /\ PoolStep) \/ (side = "arena" /\ ArenaStep)

Spec == Init /\ [][Next]_vars

-----------------------------------------------------------------------------
HoldersOf(e) == {h \in Handles : handle_of[h] = e}

\* No handle ever reads a freed entry and no entry is freed twice or leaked,
\* whatever order pools and handles die, are cleared or are moved in.
HandlesAreAlive ==
  \A e \in DOMAIN entry_of :
    /\ entry_of[e].ref_count = Cardinality(HoldersOf(e))
    /\ entry_of[e].freed = IF HoldersOf(e) = {} THEN 1 ELSE 0

\* A live entry's owner is the constructed pool that indexes it, so that the
\* last release finds it there; a pool holds a text once and counts it.
OwnersAreTrue ==
  \A p \in Pools :
    /\ hash_index_[p] = {e \in DOMAIN entry_of : entry_of[e].freed = 0 /\ entry_of[e].owner = p}
    /\ hash_index_[p] # {} => p \in living
    /\ \A e, f \in hash_index_[p] : entry_of[e].text = entry_of[f].text => e = f
    /\ active_count_[p] = Cardinality(hash_index_[p])
    /\ total_bytes_[p] = FoldLeft(LAMBDA n, e : n + Len(entry_of[e].text), 0, SetToSeq(hash_index_[p]))

\* A view of an arena reads the text it was given for ever (until clear), is
\* owned by exactly its arena, and one text lives at one place.
ViewsRead ==
  /\ \A v \in views :
       /\ owns(v.arena, v) /\ \A a \in Arenas \ {v.arena} : ~owns(a, v)
       /\ SubSeq(chunks_[v.arena][v.chunk].bytes, v.offset + 1, v.offset + Len(v.text)) = v.text
       /\ \A w \in views : (v.arena = w.arena /\ v.text = w.text) => v.chunk = w.chunk /\ v.offset = w.offset
  /\ \A a \in Arenas : \A c \in DOMAIN chunks_[a] : Len(chunks_[a][c].bytes) <= chunks_[a][c].capacity

\* Together.
StringPoolSound == HandlesAreAlive /\ OwnersAreTrue /\ ViewsRead

\* Utf8StringArena::intern gives a view of valid UTF-8 with its number of
\* code points (utf8_string_arena.hpp: an invalid input gives an empty view).
InternedIsUtf8 ==
  \A v \in views : v.checked => v.length = utf8_count_code_points(v.text) /\ v.length # 0
=============================================================================
