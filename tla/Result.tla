------------------------------- MODULE Result -------------------------------
(***************************************************************************)
(* Result<T, E> and Option<T> (result.hpp, option.hpp).  A Result keeps    *)
(* its value or its error in raw storage, where the object is constructed  *)
(* in place and must be destroyed once and as what it is; ok_ says which   *)
(* of the two it is and initialized_ whether there is one.  given, held    *)
(* and intact are what a user of the library thinks: the content of each   *)
(* Result and Option, and the Results that may be read: neither moved from *)
(* nor thrown out of, nor made from one that was.  The code does not ask:  *)
(* every operation is called on any Result, and one that reads storage     *)
(* without an object gets "garbage".                                       *)
(***************************************************************************)
CONSTANTS Results, Options, Values

VARIABLES
  void_value,           \* T is void
  slot,                 \* the members of every Result
  living,               \* the Results between constructor and destructor
  given, intact,        \* what the user thinks
  value_, held,         \* the content of every Option, and what the user thinks
  terminated            \* std::terminate has been called

vars == <<void_value, slot, living, given, intact, value_, held, terminated>>

\* An object of type T ("ok") or E ("err"), or no object.
Object(tag, v) == [tag |-> tag, val |-> v]
Nothing == Object("none", "none")
Tags == {"ok", "err"}
Held == Values \cup {"void", "moved", "garbage", "none"}

\* What a user can put into a Result.
Ok(v) == Object("ok", IF void_value THEN "void" ELSE v)
Err(v) == Object("err", v)
Contents == {Ok(v) : v \in Values} \cup {Err(v) : v \in Values}
-----------------------------------------------------------------------------
(* Storage and Constructor.  "bad" is set when an object is lost under     *)
(* another, or destroyed as what it is not.                                *)

Fresh == [ok_ |-> FALSE, initialized_ |-> FALSE, storage_ |-> Nothing, bad |-> FALSE]

NoObject(tag) == void_value /\ tag = "ok"

rawConstruct(s, o) ==
  [s EXCEPT !.storage_ = o, !.initialized_ = TRUE, !.bad = @ \/ s.storage_ # Nothing]

construct(s, o) ==
  IF NoObject(o.tag) THEN [s EXCEPT !.initialized_ = TRUE] ELSE rawConstruct(s, o)

destroy(s, tag) ==
  CASE NoObject(tag) -> [s EXCEPT !.initialized_ = FALSE]
    [] ~NoObject(tag) /\ s.initialized_ ->
         [s EXCEPT !.initialized_ = FALSE, !.storage_ = Nothing,
                   !.bad = @ \/ s.storage_.tag # tag]
    [] OTHER -> s

Tag(s) == IF s.ok_ THEN "ok" ELSE "err"

\* What a reader of the storage sees: get does not ask for initialized_.
Read(s) ==
  CASE NoObject(Tag(s)) -> Object("ok", "void")
    [] ~NoObject(Tag(s)) /\ s.storage_ # Nothing -> s.storage_
    [] OTHER -> Object(Tag(s), "garbage")

\* Constructor::copy and what Constructor::move does to its source.
copy(src, dst, tag) == IF NoObject(tag) THEN dst ELSE rawConstruct(dst, Read(src))
leave(src, tag) == IF NoObject(tag) THEN src ELSE destroy(src, tag)

\* operator==: of two values, or of two errors; there is nothing to compare in void.
Equal(s, t) ==
  CASE s.ok_ /\ t.ok_ -> void_value \/ Read(s).val = Read(t).val
    [] ~s.ok_ /\ ~t.ok_ -> Read(s).val = Read(t).val
    [] OTHER -> FALSE
-----------------------------------------------------------------------------
(* Constructors, assignments, destructor *)

\* The constructors from Ok and Err.
Made(o) == construct([Fresh EXCEPT !.ok_ = (o.tag = "ok")], o)

\* d may be read when its source may, and holds g then.
Gives(d, good, g) ==
  /\ intact' = IF good THEN intact \cup {d} ELSE intact \ {d}
  /\ given' = [given EXCEPT ![d] = IF good THEN g ELSE Nothing]

\* The same when what was in s goes to d.
Moves(s, d) ==
  /\ intact' = IF s \in intact THEN (intact \ {s}) \cup {d} ELSE intact \ {d}
  /\ given' = [given EXCEPT ![d] = given[s], ![s] = Nothing]

\* What is in these may not be read any more.
Spoils(rs) ==
  intact' = intact \ rs /\ given' = [r \in Results |-> IF r \in rs THEN Nothing ELSE given[r]]

\* A Result is made of o, which the user takes for g.
Build(d, o, g, good) ==
  /\ ~terminated /\ d \notin living
  /\ slot' = [slot EXCEPT ![d] = Made(o)]
  /\ living' = living \cup {d} /\ Gives(d, good, g)
  /\ UNCHANGED <<void_value, value_, held, terminated>>

New(d, o) == Build(d, o, o, TRUE)

\* A constructor whose element throws leaves nothing behind, so only the ones that
\* succeed are steps.
Into(src, dst) == [copy(src, dst, Tag(src)) EXCEPT !.ok_ = src.ok_]

CopyNew(s, d) ==
  /\ ~terminated /\ s \in living /\ d \notin living
  /\ slot' = [slot EXCEPT ![d] = Into(slot[s], Fresh)]
  /\ living' = living \cup {d} /\ Gives(d, s \in intact, given[s])
  /\ UNCHANGED <<void_value, value_, held, terminated>>

MoveNew(s, d) ==
  /\ ~terminated /\ s \in living /\ d \notin living
  /\ slot' = [slot EXCEPT ![d] = Into(slot[s], Fresh), ![s] = leave(slot[s], Tag(slot[s]))]
  /\ living' = living \cup {d} /\ Moves(s, d)
  /\ UNCHANGED <<void_value, value_, held, terminated>>

\* Both assignments destroy what the target holds and set ok_ before they construct.
Emptied(src, dst) == [destroy(dst, Tag(dst)) EXCEPT !.ok_ = src.ok_]

\* this != &other
IsOther(s, d) == s # d

\* What an assignment reads, it reads after the target is emptied.
Assigned(s, d) ==
  LET t == [slot EXCEPT ![d] = Emptied(slot[s], slot[d])] IN
  IF IsOther(s, d) THEN [t EXCEPT ![d] = Into(t[s], t[d])] ELSE slot

Assign(s, d) ==
  /\ ~terminated /\ s \in living /\ d \in living
  /\ slot' = Assigned(s, d) /\ Gives(d, s \in intact, given[s])
  /\ UNCHANGED <<void_value, living, value_, held, terminated>>

MoveAssign(s, d) ==
  /\ ~terminated /\ s \in living /\ d \in living
  /\ IF IsOther(s, d)
       THEN slot' = [Assigned(s, d) EXCEPT ![s] = leave(@, Tag(@))] /\ Moves(s, d)
       ELSE UNCHANGED <<slot, intact, given>>
  /\ UNCHANGED <<void_value, living, value_, held, terminated>>

\* The element's copy or move constructor throws out of either assignment; a move
\* may have taken something from its source.
AssignThrows(s, d, moving) ==
  /\ ~terminated /\ s \in living /\ d \in living /\ IsOther(s, d) /\ ~NoObject(Tag(slot[s]))
  /\ slot' = [slot EXCEPT ![d] = Emptied(slot[s], slot[d])]
  /\ Spoils(IF moving THEN {s, d} ELSE {d})
  /\ UNCHANGED <<void_value, living, value_, held, terminated>>

Destroy(r) ==
  /\ ~terminated /\ r \in living
  /\ slot' = [slot EXCEPT ![r] = destroy(@, Tag(@))]
  /\ living' = living \ {r} /\ Spoils({r})
  /\ UNCHANGED <<void_value, value_, held, terminated>>
-----------------------------------------------------------------------------
(* Combinators: the callback's answer is any value or Result. *)

Map(r, d, v) ==
  /\ r \in living
  /\ Build(d, IF slot[r].ok_ THEN Ok(v) ELSE Read(slot[r]),
              IF given[r].tag = "ok" THEN Ok(v) ELSE given[r], r \in intact)

MapError(r, d, v) ==
  /\ r \in living
  /\ Build(d, IF slot[r].ok_ THEN Read(slot[r]) ELSE Err(v),
              IF given[r].tag = "ok" THEN given[r] ELSE Err(v), r \in intact)

AndThen(r, d, o) ==
  /\ r \in living
  /\ Build(d, IF slot[r].ok_ THEN o ELSE Read(slot[r]),
              IF given[r].tag = "ok" THEN o ELSE given[r], r \in intact)

OrElse(r, d, o) ==
  /\ r \in living
  /\ Build(d, IF slot[r].ok_ THEN Read(slot[r]) ELSE o,
              IF given[r].tag = "ok" THEN given[r] ELSE o, r \in intact)

\* then and otherwise return a copy, whether or not they have called.
Then(r, d) == CopyNew(r, d)
Otherwise(r, d) == CopyNew(r, d)

MovedOut(s) == IF s.storage_ = Nothing THEN s ELSE [s EXCEPT !.storage_.val = "moved"]

\* unwrap, unwrap_err and expect of what is not there end the program; a moving one
\* leaves a value that has been moved from, and its object.
Unwrap(r, tag, moving) ==
  /\ ~terminated /\ r \in living
  /\ IF Tag(slot[r]) # tag
       THEN terminated' = TRUE /\ UNCHANGED <<slot, intact, given>>
       ELSE /\ moving /\ ~NoObject(tag) /\ UNCHANGED terminated
            /\ slot' = [slot EXCEPT ![r] = MovedOut(@)] /\ Spoils({r})
  /\ UNCHANGED <<void_value, living, value_, held>>

\* TRY: the local Result gives up its value, or its error to the Result that is
\* returned, and is destroyed.
Try(r, d) ==
  /\ r \in living /\ d # r
  /\ IF slot[r].ok_ THEN Destroy(r)
     ELSE /\ ~terminated /\ d \notin living
          /\ slot' = [slot EXCEPT ![d] = Made(Read(slot[r])), ![r] = destroy(@, "err")]
          /\ living' = (living \ {r}) \cup {d} /\ Moves(r, d)
          /\ UNCHANGED <<void_value, value_, held, terminated>>
-----------------------------------------------------------------------------
(* Option: "none" or a value *)

OptionBecomes(p, v, h) ==
  /\ ~terminated /\ value_' = [value_ EXCEPT ![p] = v] /\ held' = [held EXCEPT ![p] = h]
  /\ UNCHANGED <<void_value, slot, living, given, intact, terminated>>

\* Some, None, and map and and_then, whose answer replaces a value only.
OptionSet(p, v) == OptionBecomes(p, v, v)
OptionMap(p, q, v) ==
  OptionBecomes(q, IF value_[p] = "none" THEN "none" ELSE v, IF held[p] = "none" THEN "none" ELSE v)
OptionOrElse(p, q, v) ==
  OptionBecomes(q, IF value_[p] = "none" THEN v ELSE value_[p],
                   IF held[p] = "none" THEN v ELSE held[p])

take(p, q) ==
  /\ ~terminated /\ p # q
  /\ value_' = [value_ EXCEPT ![q] = value_[p], ![p] = "none"]
  /\ held' = [held EXCEPT ![q] = held[p], ![p] = "none"]
  /\ UNCHANGED <<void_value, slot, living, given, intact, terminated>>

swap(p, q) ==
  /\ ~terminated
  /\ value_' = [value_ EXCEPT ![q] = value_[p], ![p] = value_[q]]
  /\ held' = [held EXCEPT ![q] = held[p], ![p] = held[q]]
  /\ UNCHANGED <<void_value, slot, living, given, intact, terminated>>

\* A moving unwrap leaves Some of a value that has been moved from; none may be
\* unwrapped.
OptionUnwrap(p) ==
  IF value_[p] = "none"
    THEN /\ ~terminated /\ terminated' = TRUE
         /\ UNCHANGED <<void_value, slot, living, given, intact, value_, held>>
    ELSE OptionBecomes(p, "moved", "moved")

\* Result::ok and Result::err, and back.
ToOption(r, tag, p) ==
  LET v == IF Tag(slot[r]) = tag THEN Read(slot[r]).val ELSE "none" IN
  /\ r \in living /\ ~NoObject(tag)
  /\ OptionBecomes(p, v, IF r \notin intact THEN v
                         ELSE IF given[r].tag = tag THEN given[r].val ELSE "none")

ok_or(p, d, v) ==
  /\ ~void_value
  /\ Build(d, IF value_[p] = "none" THEN Err(v) ELSE Object("ok", value_[p]),
              IF held[p] = "none" THEN Err(v) ELSE Object("ok", held[p]),
              value_[p] \notin {"moved", "garbage"})
-----------------------------------------------------------------------------
Init ==
  /\ void_value \in BOOLEAN
  /\ slot = [r \in Results |-> Fresh] /\ living = {} /\ intact = {}
  /\ given = [r \in Results |-> Nothing]
  /\ value_ = [p \in Options |-> "none"] /\ held = value_ /\ terminated = FALSE

ResultStep(r, d) ==
  \/ CopyNew(r, d) \/ MoveNew(r, d) \/ Assign(r, d) \/ MoveAssign(r, d)
  \/ (\E moving \in BOOLEAN : AssignThrows(r, d, moving))
  \/ Then(r, d) \/ Otherwise(r, d) \/ Try(r, d)
  \/ \E v \in Values : Map(r, d, v) \/ MapError(r, d, v)
  \/ \E o \in Contents : AndThen(r, d, o) \/ OrElse(r, d, o)

OptionStep(p, q) ==
  \/ take(p, q) \/ swap(p, q) \/ OptionUnwrap(p)
  \/ \E v \in Values \cup {"none"} : OptionSet(p, v) \/ OptionMap(p, q, v) \/ OptionOrElse(p, q, v)

Next ==
  \/ \E r, d \in Results : ResultStep(r, d)
  \/ \E p, q \in Options : OptionStep(p, q)
  \/ \E r \in Results :
       \/ Destroy(r)
       \/ \E o \in Contents : New(r, o)
       \/ \E tag \in Tags, moving \in BOOLEAN : Unwrap(r, tag, moving)
       \/ \E p \in Options, tag \in Tags : ToOption(r, tag, p)
       \/ \E p \in Options, v \in Values : ok_or(p, r, v)

Spec == Init /\ [][Next]_vars
-----------------------------------------------------------------------------
Objects == [tag : Tags \cup {"none"}, val : Held]
Slots == [ok_ : BOOLEAN, initialized_ : BOOLEAN, bad : BOOLEAN, storage_ : Objects]

TypeOK ==
  /\ void_value \in BOOLEAN /\ terminated \in BOOLEAN
  /\ living \subseteq Results /\ intact \subseteq living
  /\ slot \in [Results -> Slots] /\ given \in [Results -> Objects]
  /\ value_ \in [Options -> Held] /\ held \in [Options -> Held]

SlotSound(s, alive) ==
  /\ ~s.bad
  /\ s.storage_ # Nothing =>
       s.initialized_ /\ s.storage_.tag = Tag(s) /\ ~NoObject(Tag(s))
  /\ s.initialized_ => alive /\ (s.storage_ # Nothing \/ NoObject(Tag(s)))

\* No object is lost under another or destroyed as what it is not, and the flags
\* tell what the storage holds, after any use: exceptions out of assignments,
\* self-assignments and operations on a Result that was moved from included
\* (Storage::destroy, Result::operator=).
StorageIsSound == \A r \in Results : SlotSound(slot[r], r \in living)

\* A Result that may be read holds what the user gave it, however it was passed
\* on, and so does an Option; two Results compare equal if and only if they were
\* given the same.  Garbage reaches only Results made from one that was moved
\* from or thrown out of (result.hpp, option.hpp).
ContentIsKept ==
  /\ \A r \in intact : Read(slot[r]) = given[r] /\ given[r].tag = Tag(slot[r])
  /\ \A r \in intact : given[r].val \in Values \cup {"void"}
  /\ \A r, q \in intact : Equal(slot[r], slot[q]) <=> given[r] = given[q]
  /\ value_ = held

ResultSound == StorageIsSound /\ ContentIsKept

\* Not so: destroy asks whether storage_ is initialized_, and nothing that reads it
\* does, so a Result that was moved from gives garbage away.
GarbageIsNeverRead == \A r \in living : slot[r].storage_.val # "garbage"
=============================================================================
