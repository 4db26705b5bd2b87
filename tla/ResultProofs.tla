---------------------------- MODULE ResultProofs ----------------------------
(***************************************************************************)
(* TypeOK, StorageIsSound and ContentIsKept of Result are inductive        *)
(* together, for any sets of Results, Options and Values.  An empty slot   *)
(* is one that a constructor, or an assignment about to construct, starts  *)
(* from; content is an object of type T or E.                              *)
(***************************************************************************)
EXTENDS Result, TLAPS

Inv == TypeOK /\ StorageIsSound /\ ContentIsKept

Empty(s) == s \in Slots /\ ~s.bad /\ ~s.initialized_ /\ s.storage_ = Nothing

IsContent(o) == o \in Objects /\ o.tag \in Tags /\ (NoObject(o.tag) => o.val = "void")

Readable(s) == IsContent(Read(s)) /\ Read(s).tag = Tag(s)

\* What construct leaves in an empty slot is sound and reads as what was given
\* (Storage::construct).
LEMMA ConstructKeeps ==
  ASSUME NEW o, IsContent(o), void_value \in BOOLEAN
  PROVE  Made(o) \in Slots /\ SlotSound(Made(o), TRUE) /\ Read(Made(o)) = o /\ Tag(Made(o)) = o.tag
<1> DEFINE f == [Fresh EXCEPT !.ok_ = (o.tag = "ok")]
<1>1. f \in Slots /\ ~f.bad /\ f.storage_ = Nothing /\ ~f.initialized_ /\ f.ok_ = (o.tag = "ok")
  BY DEF Fresh, Slots, Objects, Nothing, Object, Held
<1>2. o \in Objects /\ o.tag \in Tags /\ (NoObject(o.tag) => o = Object("ok", "void"))
  BY DEF IsContent, Objects, NoObject, Object
<1>3. Made(o) = construct(f, o)
  BY DEF Made
<1> HIDE DEF f
<1>4. CASE NoObject(o.tag)
  <2>1. Made(o) = [f EXCEPT !.initialized_ = TRUE] /\ o.tag = "ok"
    BY <1>4, <1>3 DEF construct, NoObject
  <2>2. Made(o) \in Slots /\ Made(o).ok_ /\ Made(o).initialized_ /\ ~Made(o).bad
        /\ Made(o).storage_ = Nothing
    BY <2>1, <1>1 DEF Slots
  <2> QED
    BY <2>1, <2>2, <1>2, <1>4 DEF SlotSound, Read, Tag
<1>5. CASE ~NoObject(o.tag)
  <2>1. Made(o) = [f EXCEPT !.storage_ = o, !.initialized_ = TRUE, !.bad = FALSE]
    BY <1>5, <1>3, <1>1 DEF construct, rawConstruct, Slots
  <2>2. Made(o) \in Slots /\ Made(o).ok_ = (o.tag = "ok") /\ Made(o).initialized_ /\ ~Made(o).bad
        /\ Made(o).storage_ = o
    BY <2>1, <1>1, <1>2 DEF Slots
  <2>3. Tag(Made(o)) = o.tag
    BY <2>2, <1>2 DEF Tag, Tags
  <2>4. o # Nothing
    BY <1>2 DEF Nothing, Object, Tags
  <2> QED
    BY <2>2, <2>3, <2>4, <1>2, <1>5 DEF SlotSound, Read
<1> QED
  BY <1>4, <1>5

\* Destroying what a slot holds, as what ok_ says it is, empties it and spoils
\* nothing (Storage::destroy).
LEMMA DestroyEmpties ==
  ASSUME NEW s \in Slots, NEW alive, SlotSound(s, alive), void_value \in BOOLEAN
  PROVE  Empty(destroy(s, Tag(s))) /\ destroy(s, Tag(s)).ok_ = s.ok_
  BY DEF SlotSound, Empty, destroy, NoObject, Tag, Slots, Objects, Nothing, Object, Tags, Held

\* Whatever is read of a sound slot is content, if only garbage.
LEMMA SoundIsReadable ==
  ASSUME NEW s \in Slots, NEW alive, SlotSound(s, alive), void_value \in BOOLEAN
  PROVE  Readable(s)
<1>1. Tag(s) \in Tags
  BY DEF Tag, Tags
<1>2. CASE NoObject(Tag(s))
  BY <1>2 DEF Readable, Read, IsContent, Object, Objects, Tags, Held, NoObject
<1>3. CASE ~NoObject(Tag(s)) /\ s.storage_ # Nothing
  BY <1>1, <1>3 DEF Readable, Read, IsContent, SlotSound, Slots
<1>4. CASE ~NoObject(Tag(s)) /\ s.storage_ = Nothing
  BY <1>1, <1>4 DEF Readable, Read, IsContent, Object, Objects, Held
<1> QED
  BY <1>2, <1>3, <1>4

\* A copy into an empty slot is sound and reads as its source (Constructor::copy).
LEMMA CopyKeeps ==
  ASSUME NEW src \in Slots, NEW alive, SlotSound(src, alive),
         NEW dst, Empty(dst), void_value \in BOOLEAN
  PROVE  /\ Into(src, dst) \in Slots /\ SlotSound(Into(src, dst), TRUE)
         /\ Read(Into(src, dst)) = Read(src) /\ Tag(Into(src, dst)) = Tag(src)
<1> DEFINE o == Read(src)
<1>0. IsContent(o) /\ o.tag = Tag(src)
  BY SoundIsReadable DEF Readable
<1>1. CASE NoObject(Tag(src))
  <2>1. Into(src, dst) = [dst EXCEPT !.ok_ = src.ok_]
    BY <1>1 DEF Into, copy
  <2>2. Into(src, dst) \in Slots /\ Into(src, dst).ok_ = src.ok_ /\ ~Into(src, dst).bad
        /\ ~Into(src, dst).initialized_ /\ Into(src, dst).storage_ = Nothing
    BY <2>1 DEF Empty, Slots
  <2> QED
    BY <1>1, <2>2 DEF SlotSound, Tag, Read
<1>2. CASE ~NoObject(Tag(src))
  <2>1. o \in Objects /\ o.tag = Tag(src) /\ o # Nothing
    BY <1>0 DEF IsContent, Nothing, Object, Tags
  <2>2. Into(src, dst) = [dst EXCEPT !.storage_ = o, !.initialized_ = TRUE, !.bad = FALSE,
                                     !.ok_ = src.ok_]
    BY <1>2 DEF Into, copy, rawConstruct, Empty, Slots
  <2> HIDE DEF o
  <2>3. Into(src, dst) \in Slots /\ Into(src, dst).ok_ = src.ok_ /\ ~Into(src, dst).bad
        /\ Into(src, dst).initialized_ /\ Into(src, dst).storage_ = o
    BY <2>1, <2>2 DEF Empty, Slots
  <2>4. Tag(Into(src, dst)) = Tag(src)
    BY <2>3 DEF Tag
  <2>5. Read(Into(src, dst)) = o
    BY <1>2, <2>1, <2>3, <2>4 DEF Read
  <2> QED
    BY <1>2, <2>1, <2>3, <2>4, <2>5 DEF SlotSound, o
<1> QED
  BY <1>1, <1>2

\* An empty slot is sound whether or not its Result lives, and so is one whose
\* object has moved on (Constructor::move).
LEMMA EmptyIsSound ==
  ASSUME NEW s, Empty(s), NEW alive, void_value \in BOOLEAN
  PROVE  SlotSound(s, alive)
  BY DEF Empty, SlotSound

LEMMA LeaveIsSound ==
  ASSUME NEW s \in Slots, NEW alive, SlotSound(s, alive), void_value \in BOOLEAN
  PROVE  leave(s, Tag(s)) \in Slots /\ SlotSound(leave(s, Tag(s)), alive)
  BY DestroyEmpties, EmptyIsSound DEF leave, Empty

\* The slot of any Result can be read, and what is in one that may be read is
\* what the user gave.
LEMMA SlotIsReadable ==
  ASSUME Inv, NEW r \in Results
  PROVE  slot[r] \in Slots /\ SlotSound(slot[r], r \in living) /\ Readable(slot[r])
  BY SoundIsReadable DEF Inv, TypeOK, StorageIsSound

LEMMA IntactIsReadable ==
  ASSUME Inv, NEW r \in intact
  PROVE  r \in Results /\ r \in living /\ Read(slot[r]) = given[r] /\ IsContent(given[r])
         /\ given[r].val \in Values \cup {"void"}
<1>1. r \in Results /\ r \in living /\ Read(slot[r]) = given[r]
      /\ given[r].val \in Values \cup {"void"}
  BY DEF Inv, TypeOK, ContentIsKept
<1> QED
  BY <1>1, SlotIsReadable DEF Readable

\* operator== compares what can be read.
LEMMA EqualIsSameContent ==
  ASSUME NEW s \in Slots, NEW t \in Slots, Readable(s), Readable(t), void_value \in BOOLEAN
  PROVE  Equal(s, t) <=> Read(s) = Read(t)
<1>1. CASE s.ok_ # t.ok_
  <2>1. Tag(s) # Tag(t)
    BY <1>1 DEF Tag, Slots
  <2>2. Read(s) # Read(t)
    BY <2>1 DEF Readable
  <2> QED
    BY <1>1, <2>2 DEF Equal, Slots
<1>2. CASE s.ok_ = t.ok_ /\ NoObject(Tag(s))
  BY <1>2 DEF Equal, Read, Tag, NoObject, Slots
<1>3. CASE s.ok_ = t.ok_ /\ ~NoObject(Tag(s))
  <2>1. Read(s).tag = Read(t).tag /\ Read(s) \in Objects /\ Read(t) \in Objects
    BY <1>3 DEF Tag, Readable, IsContent
  <2>2. Read(s) = Read(t) <=> Read(s).val = Read(t).val
    BY <2>1 DEF Objects
  <2>3. s.ok_ => ~void_value
    BY <1>3 DEF Tag, NoObject
  <2> QED
    BY <1>3, <2>2, <2>3 DEF Equal, Slots
<1> QED
  BY <1>1, <1>2, <1>3

\* What a step has to leave behind for the invariant to hold again.
LEMMA InvAgain ==
  ASSUME TypeOK', void_value' = void_value, void_value \in BOOLEAN, value_' = held',
         \A x \in Results : SlotSound(slot'[x], x \in living'),
         \A x \in intact' : Read(slot'[x]) = given'[x] /\ given'[x].val \in Values \cup {"void"}
  PROVE  Inv'
<1>1. StorageIsSound'
  BY DEF StorageIsSound, SlotSound, NoObject
<1>2. \A x \in intact' : x \in Results /\ slot'[x] \in Slots /\ Readable(slot'[x])
  <2> TAKE x \in intact'
  <2>1. x \in Results /\ slot'[x] \in Slots
    BY DEF TypeOK
  <2> QED
    BY <2>1, SoundIsReadable
<1>3. \A x \in intact' : Read(slot[x])' = given'[x] /\ given'[x].tag = Tag(slot[x])'
  BY <1>2 DEF Readable, Read, NoObject, Tag
<1>4. \A x, y \in intact' : Equal(slot'[x], slot'[y]) <=> given'[x] = given'[y]
  BY <1>2, EqualIsSameContent
<1>5. \A x, y \in intact' : Equal(slot[x], slot[y])' <=> given'[x] = given'[y]
  BY <1>4 DEF Equal, Read, NoObject, Tag
<1> QED
  BY <1>1, <1>3, <1>5 DEF Inv, ContentIsKept

\* What the user thinks after the steps that give, move and spoil.
LEMMA GivesSays ==
  ASSUME Inv, NEW d \in Results, NEW good, NEW g, good => g \in Objects,
         Gives(d, good, g)
  PROVE  /\ given' \in [Results -> Objects] /\ intact' \subseteq intact \cup {d}
         /\ d \in intact' => good /\ given'[d] = g
         /\ \A x \in intact' \ {d} : x \in intact /\ given'[x] = given[x]
<1>1. Nothing \in Objects
  BY DEF Nothing, Object, Objects, Held
<1> QED
  BY <1>1 DEF Gives, Inv, TypeOK

LEMMA MovesSays ==
  ASSUME Inv, NEW s \in Results, NEW d \in Results, s # d, Moves(s, d)
  PROVE  /\ given' \in [Results -> Objects] /\ intact' \subseteq intact \cup {d}
         /\ s \notin intact'
         /\ d \in intact' => s \in intact /\ given'[d] = given[s]
         /\ \A x \in intact' \ {d} : x \in intact /\ given'[x] = given[x]
<1>1. Nothing \in Objects
  BY DEF Nothing, Object, Objects, Held
<1> QED
  BY <1>1 DEF Moves, Inv, TypeOK

LEMMA SpoilsSays ==
  ASSUME Inv, NEW rs, Spoils(rs)
  PROVE  /\ given' \in [Results -> Objects] /\ intact' \subseteq intact
         /\ \A x \in intact' : x \notin rs /\ given'[x] = given[x]
<1>1. Nothing \in Objects
  BY DEF Nothing, Object, Objects, Held
<1> QED
  BY <1>1 DEF Spoils, Inv, TypeOK

\* A new Result of some content.
LEMMA BuildPreserves ==
  ASSUME Inv, NEW d \in Results, NEW o, IsContent(o), NEW g, NEW good \in BOOLEAN,
         good => g = o /\ o.val \in Values \cup {"void"}, Build(d, o, g, good)
  PROVE  Inv'
<1>1. Made(o) \in Slots /\ SlotSound(Made(o), TRUE) /\ Read(Made(o)) = o
  BY ConstructKeeps DEF Inv, TypeOK
<1>2. /\ slot' = [slot EXCEPT ![d] = Made(o)] /\ living' = living \cup {d}
      /\ Gives(d, good, g) /\ UNCHANGED <<void_value, value_, held, terminated>>
  BY DEF Build
<1>3. /\ given' \in [Results -> Objects] /\ intact' \subseteq intact \cup {d}
      /\ d \in intact' => good /\ given'[d] = g
      /\ \A x \in intact' \ {d} : x \in intact /\ given'[x] = given[x]
  BY <1>2, GivesSays DEF IsContent
<1>4. TypeOK' /\ slot'[d] = Made(o) /\ \A x \in Results \ {d} : slot'[x] = slot[x]
  BY <1>1, <1>2, <1>3 DEF Inv, TypeOK
<1>5. \A x \in Results : SlotSound(slot'[x], x \in living')
  BY <1>1, <1>2, <1>4 DEF Inv, StorageIsSound, SlotSound
<1>6. \A x \in intact' : Read(slot'[x]) = given'[x] /\ given'[x].val \in Values \cup {"void"}
  <2> TAKE x \in intact'
  <2>1. CASE x = d
    BY <1>1, <1>3, <1>4, <2>1
  <2>2. CASE x # d
    BY IntactIsReadable, <1>3, <1>4, <2>2
  <2> QED
    BY <2>1, <2>2
<1> QED
  BY <1>2, <1>4, <1>5, <1>6, InvAgain DEF Inv, TypeOK, ContentIsKept

\* A copy or a move: what s holds goes into the empty base of d, and rest is what
\* s keeps.
LEMMA TransferPreserves ==
  ASSUME Inv, NEW s \in living, NEW d \in Results, s # d, NEW base, Empty(base),
         NEW rest \in Slots, SlotSound(rest, TRUE),
         slot' = [slot EXCEPT ![d] = Into(slot[s], base), ![s] = rest],
         living' = living \cup {d},
         given' \in [Results -> Objects], intact' \subseteq intact \cup {d},
         s \in intact' => rest = slot[s],
         d \in intact' => s \in intact /\ given'[d] = given[s],
         \A x \in intact' \ {d} : x \in intact /\ given'[x] = given[x],
         UNCHANGED <<void_value, value_, held, terminated>>
  PROVE  Inv'
<1> DEFINE a == Into(slot[s], base)
<1>1. s \in Results /\ slot[s] \in Slots /\ SlotSound(slot[s], TRUE)
  BY SlotIsReadable DEF Inv, TypeOK, SlotSound
<1>2. a \in Slots /\ SlotSound(a, TRUE) /\ Read(a) = Read(slot[s])
  BY <1>1, CopyKeeps DEF Inv, TypeOK
<1> HIDE DEF a
<1>3. slot' = [slot EXCEPT ![d] = a, ![s] = rest]
  BY DEF a
<1>4. TypeOK'
  BY <1>2, <1>3 DEF Inv, TypeOK
<1>5. slot'[d] = a /\ slot'[s] = rest /\ \A x \in Results \ {s, d} : slot'[x] = slot[x]
  BY <1>1, <1>3 DEF Inv, TypeOK
<1>6. \A x \in Results : SlotSound(slot'[x], x \in living')
  <2> TAKE x \in Results
  <2>1. CASE x \in {s, d}
    BY <1>2, <1>5, <2>1 DEF SlotSound
  <2>2. CASE x \notin {s, d}
    BY <1>5, <2>2 DEF Inv, StorageIsSound, SlotSound
  <2> QED
    BY <2>1, <2>2
<1>7. \A x \in intact' : Read(slot'[x]) = given'[x] /\ given'[x].val \in Values \cup {"void"}
  <2> TAKE x \in intact'
  <2>1. CASE x = d
    <3>1. s \in intact /\ given'[x] = given[s] /\ slot'[x] = a
      BY <1>5, <2>1
    <3> QED
      BY <1>2, <3>1, IntactIsReadable
  <2>2. CASE x # d
    <3>1. x \in intact /\ x \in Results /\ given'[x] = given[x] /\ slot'[x] = slot[x]
      BY <1>5, <2>2 DEF Inv, TypeOK
    <3> QED
      BY <3>1, IntactIsReadable
  <2> QED
    BY <2>1, <2>2
<1> QED
  BY <1>4, <1>6, <1>7, InvAgain DEF Inv, TypeOK, ContentIsKept

\* A step that leaves what may be read alone, and every slot sound.
LEMMA LessIntactPreserves ==
  ASSUME Inv, TypeOK', void_value' = void_value, value_' = held', intact' \subseteq intact,
         \A x \in Results : SlotSound(slot'[x], x \in living'),
         \A x \in intact' : slot'[x] = slot[x] /\ given'[x] = given[x]
  PROVE  Inv'
<1>1. \A x \in intact' : Read(slot'[x]) = given'[x] /\ given'[x].val \in Values \cup {"void"}
  BY IntactIsReadable
<1> QED
  BY <1>1, InvAgain DEF Inv, TypeOK

LEMMA DestroyPreserves ==
  ASSUME Inv, NEW r \in Results, Destroy(r)
  PROVE  Inv'
<1>1. Empty(destroy(slot[r], Tag(slot[r])))
  BY SlotIsReadable, DestroyEmpties DEF Inv, TypeOK
<1>2. /\ given' \in [Results -> Objects] /\ intact' \subseteq intact
      /\ \A x \in intact' : x # r /\ given'[x] = given[x]
  BY SpoilsSays DEF Destroy
<1>3. TypeOK' /\ value_' = held'
  BY <1>1, <1>2 DEF Destroy, Inv, TypeOK, Empty, ContentIsKept
<1>4. \A x \in Results : SlotSound(slot'[x], x \in living')
  BY <1>1, EmptyIsSound DEF Destroy, Inv, TypeOK, StorageIsSound
<1>5. \A x \in intact' : slot'[x] = slot[x] /\ given'[x] = given[x]
  BY <1>2 DEF Destroy, Inv, TypeOK
<1> QED
  BY <1>2, <1>3, <1>4, <1>5, LessIntactPreserves DEF Destroy

\* What an assignment from another Result does to the slots (result.hpp:774).
LEMMA AssignedIsInto ==
  ASSUME Inv, NEW s \in Results, NEW d \in Results, s # d
  PROVE  /\ Empty(Emptied(slot[s], slot[d]))
         /\ Assigned(s, d) = [slot EXCEPT ![d] = Into(slot[s], Emptied(slot[s], slot[d]))]
<1>1. slot \in [Results -> Slots] /\ slot[s] \in Slots
  BY DEF Inv, TypeOK
<1>2. Empty(destroy(slot[d], Tag(slot[d])))
  BY SlotIsReadable, DestroyEmpties DEF Inv, TypeOK
<1>3. Empty(Emptied(slot[s], slot[d]))
  BY <1>1, <1>2 DEF Emptied, Empty, Slots
<1> QED
  BY <1>1, <1>3 DEF Assigned, IsOther

\* A step that leaves every Result as it was.
LEMMA SameResultsPreserve ==
  ASSUME Inv, UNCHANGED <<void_value, slot, living, given, intact>>,
         value_' \in [Options -> Held], held' = value_', terminated' \in BOOLEAN
  PROVE  Inv'
  BY DEF Inv, TypeOK, StorageIsSound, SlotSound, ContentIsKept, Read, Equal, NoObject, Tag

LEMMA AssignPreserves ==
  ASSUME Inv, NEW s \in Results, NEW d \in Results, Assign(s, d) \/ MoveAssign(s, d)
  PROVE  Inv'
<1>0. void_value \in BOOLEAN /\ value_ \in [Options -> Held] /\ held = value_
      /\ terminated \in BOOLEAN /\ intact \subseteq living /\ living \subseteq Results
      /\ slot \in [Results -> Slots] /\ given \in [Results -> Objects]
  BY DEF Inv, TypeOK, ContentIsKept
<1>1. CASE s = d
  <2>1. CASE Assign(s, d)
    <3>1. slot' = slot /\ UNCHANGED <<void_value, living, value_, held, terminated>>
          /\ Gives(d, s \in intact, given[s])
      BY <1>1, <2>1 DEF Assign, Assigned, IsOther
    <3>2. /\ given' \in [Results -> Objects] /\ intact' \subseteq intact \cup {d}
          /\ d \in intact' => s \in intact /\ given'[d] = given[s]
          /\ \A x \in intact' \ {d} : x \in intact /\ given'[x] = given[x]
      BY <1>0, <3>1, GivesSays
    <3>3. TypeOK' /\ intact' \subseteq intact
      BY <1>0, <1>1, <3>1, <3>2 DEF TypeOK
    <3>4. \A x \in Results : SlotSound(slot'[x], x \in living')
      BY <3>1, SlotIsReadable
    <3>5. \A x \in intact' : slot'[x] = slot[x] /\ given'[x] = given[x]
      BY <1>1, <3>1, <3>2
    <3> QED
      BY <1>0, <3>1, <3>3, <3>4, <3>5, LessIntactPreserves
  <2>2. CASE MoveAssign(s, d)
    BY <1>0, <1>1, <2>2, SameResultsPreserve DEF MoveAssign, IsOther
  <2> QED
    BY <2>1, <2>2
<1>2. CASE s # d
  <2> DEFINE base == Emptied(slot[s], slot[d])
  <2>1. Empty(base) /\ Assigned(s, d) = [slot EXCEPT ![d] = Into(slot[s], base)]
    BY <1>2, AssignedIsInto
  <2>2. s \in living /\ slot[s] \in Slots /\ SlotSound(slot[s], TRUE)
        /\ living' = living \cup {d} /\ UNCHANGED <<void_value, value_, held, terminated>>
    BY SlotIsReadable DEF Assign, MoveAssign, SlotSound
  <2> HIDE DEF base
  <2>3. CASE Assign(s, d)
    <3>1. slot' = [slot EXCEPT ![d] = Into(slot[s], base), ![s] = slot[s]]
          /\ Gives(d, s \in intact, given[s])
      BY <1>0, <1>2, <2>1, <2>3 DEF Assign
    <3>2. /\ given' \in [Results -> Objects] /\ intact' \subseteq intact \cup {d}
          /\ d \in intact' => s \in intact /\ given'[d] = given[s]
          /\ \A x \in intact' \ {d} : x \in intact /\ given'[x] = given[x]
      BY <1>0, <3>1, GivesSays
    <3> QED
      BY <1>2, <2>1, <2>2, <3>1, <3>2, TransferPreserves
  <2>4. CASE MoveAssign(s, d)
    <3> DEFINE rest == leave(slot[s], Tag(slot[s]))
    <3>1. rest \in Slots /\ SlotSound(rest, TRUE)
      BY <1>0, <2>2, LeaveIsSound
    <3>2. Assigned(s, d)[s] = slot[s] /\ Moves(s, d)
          /\ slot' = [Assigned(s, d) EXCEPT ![s] = leave(@, Tag(@))]
      BY <1>0, <1>2, <2>1, <2>4 DEF MoveAssign, IsOther
    <3>3. slot' = [slot EXCEPT ![d] = Into(slot[s], base), ![s] = rest]
      BY <1>0, <1>2, <2>1, <3>2
    <3>4. /\ given' \in [Results -> Objects] /\ intact' \subseteq intact \cup {d}
          /\ s \notin intact'
          /\ d \in intact' => s \in intact /\ given'[d] = given[s]
          /\ \A x \in intact' \ {d} : x \in intact /\ given'[x] = given[x]
      BY <1>2, <3>2, MovesSays
    <3> HIDE DEF rest
    <3> QED
      BY <1>2, <2>1, <2>2, <3>1, <3>3, <3>4, TransferPreserves
  <2> QED
    BY <2>3, <2>4
<1> QED
  BY <1>1, <1>2

\* The copy and the move constructor (result.hpp:754, 764).
LEMMA ConstructorPreserves ==
  ASSUME Inv, NEW s \in Results, NEW d \in Results, CopyNew(s, d) \/ MoveNew(s, d)
  PROVE  Inv'
<1>1. s \in living /\ s # d /\ slot[s] \in Slots /\ SlotSound(slot[s], TRUE)
      /\ living' = living \cup {d} /\ UNCHANGED <<void_value, value_, held, terminated>>
  BY SlotIsReadable DEF CopyNew, MoveNew, SlotSound
<1>2. Empty(Fresh) /\ slot \in [Results -> Slots] /\ given \in [Results -> Objects]
      /\ void_value \in BOOLEAN
  BY DEF Empty, Fresh, Slots, Objects, Nothing, Object, Held, Inv, TypeOK
<1>3. CASE CopyNew(s, d)
  <2>1. slot' = [slot EXCEPT ![d] = Into(slot[s], Fresh), ![s] = slot[s]]
        /\ Gives(d, s \in intact, given[s])
    BY <1>1, <1>2, <1>3 DEF CopyNew
  <2>2. /\ given' \in [Results -> Objects] /\ intact' \subseteq intact \cup {d}
        /\ d \in intact' => s \in intact /\ given'[d] = given[s]
        /\ \A x \in intact' \ {d} : x \in intact /\ given'[x] = given[x]
    BY <1>2, <2>1, GivesSays
  <2> QED
    BY <1>1, <1>2, <2>1, <2>2, TransferPreserves
<1>4. CASE MoveNew(s, d)
  <2> DEFINE rest == leave(slot[s], Tag(slot[s]))
  <2>1. rest \in Slots /\ SlotSound(rest, TRUE)
    BY <1>1, <1>2, LeaveIsSound
  <2>2. slot' = [slot EXCEPT ![d] = Into(slot[s], Fresh), ![s] = rest] /\ Moves(s, d)
    BY <1>4 DEF MoveNew
  <2>3. /\ given' \in [Results -> Objects] /\ intact' \subseteq intact \cup {d}
        /\ s \notin intact'
        /\ d \in intact' => s \in intact /\ given'[d] = given[s]
        /\ \A x \in intact' \ {d} : x \in intact /\ given'[x] = given[x]
    BY <1>1, <2>2, MovesSays
  <2> HIDE DEF rest
  <2> QED
    BY <1>1, <1>2, <2>1, <2>2, <2>3, TransferPreserves
<1> QED
  BY <1>3, <1>4

\* TRY of an error: it moves into the Result that is returned (result.hpp:1074).
LEMMA TryPreserves ==
  ASSUME Inv, NEW r \in Results, NEW d \in Results, Try(r, d)
  PROVE  Inv'
<1>1. CASE slot[r].ok_
  BY <1>1, DestroyPreserves DEF Try
<1>2. CASE ~slot[r].ok_
  <2> DEFINE a == Made(Read(slot[r]))  b == destroy(slot[r], "err")
  <2>1. r \in living /\ r # d /\ d \notin living /\ Tag(slot[r]) = "err"
    BY <1>2 DEF Try, Tag
  <2>2. slot[r] \in Slots /\ SlotSound(slot[r], TRUE) /\ IsContent(Read(slot[r]))
        /\ void_value \in BOOLEAN /\ slot \in [Results -> Slots]
    BY <2>1, SlotIsReadable DEF Readable, Inv, TypeOK, SlotSound
  <2>3. a \in Slots /\ SlotSound(a, TRUE) /\ Read(a) = Read(slot[r])
    BY <2>2, ConstructKeeps
  <2>4. Empty(b)
    BY <2>1, <2>2, DestroyEmpties
  <2>5. slot' = [slot EXCEPT ![d] = a, ![r] = b] /\ living' = (living \ {r}) \cup {d}
        /\ Moves(r, d) /\ UNCHANGED <<void_value, value_, held, terminated>>
    BY <1>2 DEF Try
  <2>6. /\ given' \in [Results -> Objects] /\ intact' \subseteq intact \cup {d}
        /\ r \notin intact'
        /\ d \in intact' => r \in intact /\ given'[d] = given[r]
        /\ \A x \in intact' \ {d} : x \in intact /\ given'[x] = given[x]
    BY <2>1, <2>5, MovesSays
  <2> HIDE DEF a, b
  <2>7. TypeOK' /\ value_' = held'
    BY <2>1, <2>3, <2>4, <2>5, <2>6 DEF Inv, TypeOK, Empty, ContentIsKept
  <2>8. slot'[d] = a /\ slot'[r] = b /\ \A x \in Results \ {r, d} : slot'[x] = slot[x]
    BY <2>1, <2>2, <2>5
  <2>9. \A x \in Results : SlotSound(slot'[x], x \in living')
    <3> TAKE x \in Results
    <3>1. CASE x = d
      BY <2>3, <2>5, <2>8, <3>1 DEF SlotSound
    <3>2. CASE x = r
      BY <2>2, <2>4, <2>8, <3>2, EmptyIsSound
    <3>3. CASE x \notin {r, d}
      BY <2>5, <2>8, <3>3 DEF Inv, StorageIsSound, SlotSound
    <3> QED
      BY <3>1, <3>2, <3>3
  <2>10. \A x \in intact' : Read(slot'[x]) = given'[x] /\ given'[x].val \in Values \cup {"void"}
    <3> TAKE x \in intact'
    <3>1. CASE x = d
      BY <2>3, <2>6, <2>8, <3>1, IntactIsReadable
    <3>2. CASE x # d
      BY <2>6, <2>8, <3>2, IntactIsReadable
    <3> QED
      BY <3>1, <3>2
  <2> QED
    BY <2>2, <2>5, <2>7, <2>9, <2>10, InvAgain
<1> QED
  BY <1>1, <1>2, SlotIsReadable DEF Slots

\* The steps of one Result, or of two.
LEMMA ResultStepPreserves ==
  ASSUME Inv, NEW r \in Results, NEW d \in Results, ResultStep(r, d)
  PROVE  Inv'
<1>1. CASE CopyNew(r, d) \/ MoveNew(r, d)
  BY <1>1, ConstructorPreserves
<1>2. CASE Assign(r, d) \/ MoveAssign(r, d)
  BY <1>2, AssignPreserves
<1>3. ASSUME NEW moving \in BOOLEAN, AssignThrows(r, d, moving) PROVE Inv'
  <2> DEFINE rs == IF moving THEN {r, d} ELSE {d}
             base == Emptied(slot[r], slot[d])
  <2>1. r # d /\ slot' = [slot EXCEPT ![d] = base] /\ Spoils(rs) /\ d \in living
        /\ UNCHANGED <<void_value, living, value_, held, terminated>>
    BY <1>3 DEF AssignThrows, IsOther
  <2>2. Empty(base)
    BY <2>1, AssignedIsInto
  <2>3. /\ given' \in [Results -> Objects] /\ intact' \subseteq intact
        /\ \A x \in intact' : x \notin rs /\ given'[x] = given[x]
    BY <2>1, SpoilsSays
  <2> HIDE DEF base
  <2>4. TypeOK' /\ value_' = held'
    BY <2>1, <2>2, <2>3 DEF Inv, TypeOK, Empty, ContentIsKept
  <2>5. \A x \in Results : SlotSound(slot'[x], x \in living')
    BY <2>1, <2>2, EmptyIsSound DEF Inv, TypeOK, StorageIsSound
  <2>6. \A x \in intact' : slot'[x] = slot[x] /\ given'[x] = given[x]
    BY <2>1, <2>3 DEF Inv, TypeOK
  <2> QED
    BY <2>1, <2>3, <2>4, <2>5, <2>6, LessIntactPreserves
<1>4. CASE Try(r, d)
  BY <1>4, TryPreserves
<1>5. Readable(slot[r]) /\ (slot[r].ok_ <=> Tag(slot[r]) = "ok")
  BY SlotIsReadable DEF Tag
<1>6. r \in intact => /\ Read(slot[r]) = given[r] /\ given[r].val \in Values \cup {"void"}
                      /\ (slot[r].ok_ <=> given[r].tag = "ok")
  BY <1>5, IntactIsReadable DEF Readable
<1>7. \A v \in Values : /\ IsContent(Ok(v)) /\ Ok(v).val \in Values \cup {"void"}
                        /\ IsContent(Err(v)) /\ Err(v).val \in Values \cup {"void"}
  BY DEF IsContent, Ok, Err, Object, Objects, Held, Tags, NoObject
<1>8. \A o \in Contents : IsContent(o) /\ o.val \in Values \cup {"void"}
  BY <1>7 DEF Contents
<1>9. IsContent(Read(slot[r])) /\ (r \in intact) \in BOOLEAN
  BY <1>5 DEF Readable
<1>10. ASSUME NEW v \in Values, Map(r, d, v) \/ MapError(r, d, v) PROVE Inv'
  <2>1. CASE Map(r, d, v)
    BY <1>6, <1>7, <1>9, <2>1, BuildPreserves DEF Map
  <2>2. CASE MapError(r, d, v)
    BY <1>6, <1>7, <1>9, <2>2, BuildPreserves DEF MapError
  <2> QED
    BY <1>10, <2>1, <2>2
<1>11. ASSUME NEW o \in Contents, AndThen(r, d, o) \/ OrElse(r, d, o) PROVE Inv'
  <2>1. CASE AndThen(r, d, o)
    BY <1>6, <1>8, <1>9, <2>1, BuildPreserves DEF AndThen
  <2>2. CASE OrElse(r, d, o)
    BY <1>6, <1>8, <1>9, <2>2, BuildPreserves DEF OrElse
  <2> QED
    BY <1>11, <2>1, <2>2
<1> QED
  BY <1>1, <1>2, <1>3, <1>4, <1>10, <1>11 DEF ResultStep, Then, Otherwise

LEMMA OptionStepPreserves ==
  ASSUME Inv, NEW p \in Options, NEW q \in Options, OptionStep(p, q)
  PROVE  Inv'
<1>1. value_ \in [Options -> Held] /\ held = value_ /\ terminated \in BOOLEAN
  BY DEF Inv, TypeOK, ContentIsKept
<1>2. CASE take(p, q) \/ swap(p, q)
  BY <1>1, <1>2, SameResultsPreserve DEF take, swap, Held
<1>3. CASE OptionUnwrap(p)
  BY <1>1, <1>3, SameResultsPreserve DEF OptionUnwrap, OptionBecomes, Held
<1>4. ASSUME NEW v \in Values \cup {"none"},
             OptionSet(p, v) \/ OptionMap(p, q, v) \/ OptionOrElse(p, q, v)
      PROVE  Inv'
  BY <1>1, <1>4, SameResultsPreserve DEF OptionSet, OptionMap, OptionOrElse, OptionBecomes, Held
<1> QED
  BY <1>2, <1>3, <1>4 DEF OptionStep

\* Whatever a program does with Results and Options - exceptions out of the
\* assignments, assignments to itself and any operation on a Result that was moved
\* from included - every object is destroyed once and as what it is, and what may be
\* read is what was given (result.hpp, option.hpp).
THEOREM ResultsAreSound == Spec => [](StorageIsSound /\ ContentIsKept)
<1>1. Init => Inv
  <2> SUFFICES ASSUME Init PROVE Inv
    OBVIOUS
  <2>1. Empty(Fresh) /\ Nothing \in Objects
    BY DEF Empty, Fresh, Slots, Objects, Nothing, Object, Held
  <2>2. TypeOK
    BY <2>1 DEF Init, TypeOK, Empty, Held
  <2>3. \A alive : SlotSound(Fresh, alive)
    BY <2>1, <2>2, EmptyIsSound DEF TypeOK
  <2>4. StorageIsSound
    BY <2>3 DEF Init, StorageIsSound
  <2> QED
    BY <2>2, <2>4 DEF Init, Inv, ContentIsKept
<1>2. Inv /\ [Next]_vars => Inv'
  <2> SUFFICES ASSUME Inv, [Next]_vars PROVE Inv'
    OBVIOUS
  <2>1. CASE UNCHANGED vars
    BY <2>1, SameResultsPreserve DEF vars, Inv, TypeOK, ContentIsKept
  <2>2. ASSUME NEW r \in Results, Destroy(r) PROVE Inv'
    BY <2>2, DestroyPreserves
  <2>3. ASSUME NEW r \in Results, NEW o \in Contents, New(r, o) PROVE Inv'
    <3>1. IsContent(o) /\ o.val \in Values \cup {"void"}
      BY DEF Contents, IsContent, Ok, Err, Object, Objects, Held, Tags, NoObject
    <3> QED
      BY <2>3, <3>1, BuildPreserves DEF New
  <2>4. ASSUME NEW r \in Results, NEW tag \in Tags, NEW moving \in BOOLEAN, Unwrap(r, tag, moving)
        PROVE  Inv'
    <3>1. CASE Tag(slot[r]) # tag
      BY <2>4, <3>1, SameResultsPreserve DEF Unwrap, Inv, TypeOK, ContentIsKept
    <3>2. CASE Tag(slot[r]) = tag
      <4> DEFINE a == MovedOut(slot[r])
      <4>1. slot' = [slot EXCEPT ![r] = a] /\ Spoils({r}) /\ UNCHANGED <<void_value, living, value_, held, terminated>>
        BY <2>4, <3>2 DEF Unwrap
      <4>2. slot[r] \in Slots /\ SlotSound(slot[r], r \in living)
        BY SlotIsReadable
      <4>3. a \in Slots /\ a.ok_ = slot[r].ok_ /\ a.initialized_ = slot[r].initialized_
            /\ a.bad = slot[r].bad /\ a.storage_.tag = slot[r].storage_.tag
            /\ (a.storage_ = Nothing <=> slot[r].storage_ = Nothing)
        BY <4>2 DEF MovedOut, Slots, Objects, Held, Nothing, Object
      <4>4. SlotSound(a, r \in living)
        BY <4>2, <4>3 DEF SlotSound, Tag
      <4> HIDE DEF a
      <4>5. /\ given' \in [Results -> Objects] /\ intact' \subseteq intact
            /\ \A x \in intact' : x # r /\ given'[x] = given[x]
        BY <4>1, SpoilsSays
      <4>6. TypeOK' /\ value_' = held'
        BY <4>1, <4>3, <4>5 DEF Inv, TypeOK, ContentIsKept
      <4>7. \A x \in Results : SlotSound(slot'[x], x \in living')
        BY <4>1, <4>4 DEF Inv, TypeOK, StorageIsSound
      <4>8. \A x \in intact' : slot'[x] = slot[x] /\ given'[x] = given[x]
        BY <4>1, <4>5 DEF Inv, TypeOK
      <4> QED
        BY <4>1, <4>5, <4>6, <4>7, <4>8, LessIntactPreserves
    <3> QED
      BY <3>1, <3>2
  <2>5. ASSUME NEW r \in Results, NEW p \in Options, NEW tag \in Tags, ToOption(r, tag, p)
        PROVE  Inv'
    <3>1. Readable(slot[r]) /\ (r \in intact => Read(slot[r]) = given[r])
      BY SlotIsReadable, IntactIsReadable
    <3>2. value_ \in [Options -> Held] /\ held = value_ /\ terminated \in BOOLEAN
      BY DEF Inv, TypeOK, ContentIsKept
    <3>3. PICK u \in Held : OptionBecomes(p, u, u)
      <4> DEFINE u == IF Tag(slot[r]) = tag THEN Read(slot[r]).val ELSE "none"
      <4>1. u \in Held
        BY <3>1 DEF Readable, IsContent, Objects, Held
      <4>2. r \in intact => u = IF given[r].tag = tag THEN given[r].val ELSE "none"
        BY <3>1 DEF Readable
      <4>3. OptionBecomes(p, u, IF r \notin intact THEN u
                               ELSE IF given[r].tag = tag THEN given[r].val ELSE "none")
        BY <2>5 DEF ToOption
      <4> HIDE DEF u
      <4>4. OptionBecomes(p, u, u)
        BY <4>2, <4>3
      <4> QED
        BY <4>1, <4>4
    <3> QED
      BY <3>2, <3>3, SameResultsPreserve DEF OptionBecomes
  <2>6. ASSUME NEW r \in Results, NEW p \in Options, NEW v \in Values, ok_or(p, r, v)
        PROVE  Inv'
    <3> DEFINE o == IF value_[p] = "none" THEN Err(v) ELSE Object("ok", value_[p])
    <3>1. IsContent(o)
      BY <2>6 DEF ok_or, IsContent, Err, Object, Objects, Held, Tags, NoObject, Inv, TypeOK
    <3>2. Build(r, o, o, value_[p] \notin {"moved", "garbage"})
      BY <2>6 DEF ok_or, Inv, ContentIsKept
    <3>3. value_[p] \notin {"moved", "garbage"} => o.val \in Values \cup {"void"}
      BY DEF Err, Object, Held, Inv, TypeOK
    <3> QED
      BY <3>1, <3>2, <3>3, BuildPreserves
  <2> QED
    BY <2>1, <2>2, <2>3, <2>4, <2>5, <2>6, ResultStepPreserves, OptionStepPreserves DEF Next
<1> QED
  BY <1>1, <1>2, PTL DEF Spec, Inv
=============================================================================
