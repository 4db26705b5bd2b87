------------------------------- MODULE Files -------------------------------
(***************************************************************************)
(* FileUtil (file_util.cpp): the operations that change a directory tree,  *)
(* called by two processes, and glob.  Paths are one or two names deep. An *)
(* operation that looks before it acts (create_file, create_temp_file,     *)
(* move_ex) takes two steps, copy_dir one for each entry, and the other    *)
(* process may come between them.                                          *)
(***************************************************************************)
EXTENDS Naturals, Sequences, FiniteSets, SequencesExt

CONSTANTS
  FileNames, FileProcs,         \* names of entries, processes
  MaxFileOps,                   \* bound: operations called
  MaxPattern, MaxSubject        \* bound: symbols of a glob pattern and of a path

Top == {<<n>> : n \in FileNames}
Inner == {<<n, m>> : n, m \in FileNames}
Paths == Top \cup Inner

VARIABLES
  tree,                 \* path -> its node
  fpc,                  \* process -> the operation between its steps
  file_ops,             \* operations called so far
  others,               \* process -> somebody else changed the tree since its look
  destroyed,            \* history: operations that destroyed what they had promised to keep
  copied,               \* history: the copy_dir that has just returned
  pattern, subject      \* glob

treeVars == <<tree, fpc, file_ops, others, destroyed, copied>>
vars == <<tree, fpc, file_ops, others, destroyed, copied, pattern, subject>>

None == [kind |-> "none", data |-> 0, to |-> <<>>]
Dir == [None EXCEPT !.kind = "dir"]
File(v) == [None EXCEPT !.kind = "file", !.data = v]
Link(t) == [None EXCEPT !.kind = "link", !.to = t]
Empty == [p \in Paths |-> None]
\* `before` is history: the tree when the operation was called.
NoOp == [op |-> "idle", src |-> <<>>, dst |-> <<>>, overwrite |-> FALSE, todo |-> {}, before |-> Empty]

\* The tree is empty, or a directory holds a file, and a link to it or out of the
\* directory; another one, if there is any, holds a file or a link.
Init ==
  /\ \/ tree = Empty
     \/ LET n == CHOOSE n \in FileNames : TRUE
            m == CHOOSE m \in FileNames : m # n
        IN \E link \in {None, Link(<<n, m>>), Link(<<m, n>>)}, other \in {None, File(4), Link(<<m, n>>)} :
             tree = [Empty EXCEPT ![<<n>>] = Dir, ![<<n, m>>] = File(3), ![<<n, n>>] = link,
                                  ![<<m>>] = IF other = None THEN None ELSE Dir, ![<<m, m>>] = other]
  /\ fpc = [x \in FileProcs |-> NoOp]
  /\ file_ops = 0 /\ others = [x \in FileProcs |-> FALSE] /\ destroyed = {}
  /\ copied = <<>> /\ pattern = <<>> /\ subject = <<>>
-----------------------------------------------------------------------------
(* The file system, external.  Links are found inside directories, name no *)
(* other link and are not moved.                                           *)

Above(p) == {SubSeq(p, 1, n) : n \in 1..(Len(p) - 1)}
Under(t, p) == {q \in Paths : IsStrictPrefix(p, q) /\ t[q].kind # "none"}
Resolved(t, p) == IF t[p].kind = "link" THEN t[p].to ELSE p
Target(t, p) == t[Resolved(t, p)]
Exists(p) == Target(tree, p).kind # "none"
Put(t, p, node) == [t EXCEPT ![p] = node]
Erase(t, p) == [q \in Paths |-> IF IsPrefix(p, q) THEN None ELSE t[q]]

\* create_directories of a parent: it exists, or it can be made.
ParentOk(t, p) == \A q \in Above(p) : t[q].kind \in {"dir", "none"}
WithParent(t, p) == [q \in Paths |-> IF q \in Above(p) THEN Dir ELSE t[q]]

\* Opening for writing follows a link and truncates what it finds.
MayOpen(t, p) ==
  /\ ParentOk(t, p) /\ Target(t, p).kind \in {"none", "file"}
  /\ t[p].kind = "link" => \A q \in Above(t[p].to) : t[q].kind = "dir"
Opened(t, p, v) == Put(WithParent(t, p), Resolved(t, p), File(v))

\* rename: a file or a link replaces one, a directory replaces an empty one.
MayRename(t, s, d) ==
  /\ t[s].kind # "none" /\ ~IsPrefix(s, d) /\ ParentOk(t, d)
  /\ t[s].kind # "link"
  /\ IF t[s].kind = "dir" THEN /\ t[d].kind = "none" \/ (t[d].kind = "dir" /\ Under(t, d) = {})
                               /\ Len(d) = 1
     ELSE t[d].kind # "dir"
Moved(t, s, d) ==
  LET Renamed(q) == IF IsPrefix(d, q) THEN s \o SubSeq(q, Len(d) + 1, Len(q)) ELSE q
  IN [q \in Paths |-> IF IsPrefix(d, q) /\ Renamed(q) \in Paths THEN t[Renamed(q)]
                      ELSE IF IsPrefix(s, q) THEN None ELSE t[q]]

Does(x, t) ==
  /\ tree' = t
  /\ others' = [y \in FileProcs |-> others[y] \/ (y # x /\ t # tree)]
Called ==
  /\ pattern = <<>> /\ subject = <<>>
  /\ file_ops < MaxFileOps /\ file_ops' = file_ops + 1
Idle(x) == fpc[x].op = "idle"
Looks(x, op, s, d) ==
  /\ fpc' = [fpc EXCEPT ![x] = [NoOp EXCEPT !.op = op, !.src = s, !.dst = d]]
  /\ others' = [others EXCEPT ![x] = FALSE] /\ UNCHANGED tree
Done(x) == fpc' = [fpc EXCEPT ![x] = NoOp]

\* Data that were at p before the step and that no path holds after it.
Destroys(x, p) ==
  destroyed' = IF Target(tree, p).kind = "file" /\ Target(tree', p) # Target(tree, p)
               THEN destroyed \cup {<<fpc[x].op, IF others[x] THEN "raced" ELSE "alone">>}
               ELSE destroyed
-----------------------------------------------------------------------------
(* Operations of one step *)

Plain(x) == Idle(x) /\ Called /\ copied' = <<>> /\ UNCHANGED <<fpc, destroyed, pattern, subject>>

\* write_bytes that truncates; atomic_write_bytes has the same result.
write_bytes(x, p, v) ==
  /\ Plain(x) /\ MayOpen(tree, p) /\ Does(x, Opened(tree, p, v))

\* CREATE_NEW: the kernel looks and creates in one step.
write_exclusive_create(x, p, v) ==
  /\ Plain(x) /\ ParentOk(tree, p) /\ tree[p].kind = "none"
  /\ Does(x, Put(WithParent(tree, p), p, File(v)))

create_directories(x, p) ==
  /\ Plain(x) /\ ParentOk(tree, p) /\ tree[p].kind = "none"
  /\ Does(x, Put(WithParent(tree, p), p, Dir))

\* Somebody makes a link.
MakesLink(x, p, t) ==
  /\ Plain(x) /\ (\A q \in Above(p) : tree[q].kind = "dir") /\ tree[p].kind = "none"
  /\ tree[t].kind # "link" /\ t # p /\ (\A q \in Paths : tree[q].to # p)
  /\ Does(x, Put(tree, p, Link(t)))

\* remove_ex: a file, the link itself, an empty directory.
remove_ex(x, p) ==
  /\ Plain(x) /\ tree[p].kind # "none" /\ Under(tree, p) = {}
  /\ Does(x, Put(tree, p, None))

\* remove_all_ex does not see a link whose target is gone.
remove_all_ex(x, p) == Plain(x) /\ Exists(p) /\ Does(x, Erase(tree, p))

\* copy: a file goes to the target, or into it when that is a directory.
CopyTarget(t, s, d) == IF Target(t, d).kind = "dir" THEN Resolved(t, d) \o <<Last(s)>> ELSE d

\* copy_file opens with O_TRUNC or with O_EXCL, which takes a dangling link for a file.
MayCopy(t, s, d, overwrite) ==
  /\ Target(t, s).kind = "file" /\ MayOpen(t, d) /\ Resolved(t, s) # Resolved(t, d)
  /\ overwrite \/ t[d].kind = "none"

\* copy_ex of a file: create_directories, then copy.
copy_ex(x, s, d, overwrite) ==
  LET q == CopyTarget(tree, s, d) IN
  /\ Plain(x) /\ q \in Paths /\ MayCopy(tree, s, q, overwrite)
  /\ Does(x, Opened(tree, q, Target(tree, s).data))
-----------------------------------------------------------------------------
(* Operations of several steps *)

Second(x) == UNCHANGED <<file_ops, pattern, subject>> /\ copied' = <<>>
First(x) == Idle(x) /\ Called /\ copied' = <<>> /\ UNCHANGED <<destroyed, pattern, subject>>

\* copy_dir: the directory is made, or replaces a file, and the source is listed.
copy_dir(x, s, d, overwrite) ==
  /\ First(x) /\ tree[s].kind = "dir" /\ s # d
  /\ tree[d].kind \in {"none", "dir"} \/ overwrite
  /\ tree' = Put(tree, d, Dir)
  /\ others' = [y \in FileProcs |-> y # x /\ (others[y] \/ tree' # tree)]
  /\ fpc' = [fpc EXCEPT ![x] =
       [op |-> "copy_dir", src |-> s, dst |-> d, overwrite |-> overwrite, before |-> tree,
        todo |-> {[path |-> p, kind |-> tree[p].kind] : p \in Under(tree, s)}]]

At(s, d, p) == d \o SubSeq(p, Len(s) + 1, Len(p))

\* dst / relative(entry, src): relative looks through a link that leads somewhere.
Place(t, s, d, p) ==
  LET real == IF Target(t, p).kind = "none" THEN p ELSE Resolved(t, p)
  IN IF IsPrefix(s, real) THEN At(s, d, real) ELSE real

Ok(t) == [ok |-> TRUE, tree |-> t]
Err(t) == [ok |-> FALSE, tree |-> t]

CopyDirectory(t, q) ==
  IF Target(t, q).kind = "dir" THEN Ok(t)
  ELSE IF t[q].kind = "none" /\ ParentOk(t, q) THEN Ok(Put(WithParent(t, q), q, Dir)) ELSE Err(t)

CopyFile(t, p, q, overwrite) ==
  IF MayCopy(t, p, q, overwrite) THEN Ok(Opened(t, q, Target(t, p).data)) ELSE Err(t)

\* A link that leads nowhere is copied as a link; what is in its place is removed first.
CopyLink(t, p, q, overwrite) ==
  LET u == IF overwrite /\ Under(t, q) = {} THEN Put(t, q, None) ELSE t
  IN IF t[p].kind = "link" /\ u[q].kind = "none" /\ ParentOk(u, q)
     THEN Ok(Put(WithParent(u, q), q, t[p])) ELSE Err(u)

\* The kind of an entry was listed with it, that of a link is the one of its target now.
CopyEntry(t, e, q, overwrite) ==
  LET kind == IF e.kind = "link" THEN Target(t, e.path).kind ELSE e.kind IN
  CASE kind = "dir"  -> CopyDirectory(t, q)
    [] kind = "file" -> CopyFile(t, e.path, q, overwrite)
    [] OTHER         -> CopyLink(t, e.path, q, overwrite)

Returns(x, ok) ==
  /\ Done(x)
  /\ copied' = <<[from |-> fpc[x].src, into |-> fpc[x].dst, before |-> fpc[x].before, ok |-> ok,
                  alone |-> ~others[x]]>>

\* The entries are copied in no certain order; the first error ends the copy.
CopyDirStep(x) ==
  /\ fpc[x].op = "copy_dir" /\ UNCHANGED <<file_ops, pattern, subject>>
  /\ \E e \in fpc[x].todo :
       LET q == Place(tree, fpc[x].src, fpc[x].dst, e.path)
           c == CopyEntry(tree, e, q, fpc[x].overwrite)
       IN  /\ Does(x, c.tree)
           /\ IF fpc[x].overwrite THEN UNCHANGED destroyed ELSE Destroys(x, q)
           /\ IF c.ok THEN fpc' = [fpc EXCEPT ![x].todo = @ \ {e}] /\ copied' = <<>>
              ELSE Returns(x, FALSE)

CopyDirReturns(x) ==
  /\ fpc[x].op = "copy_dir" /\ fpc[x].todo = {} /\ Returns(x, TRUE)
  /\ UNCHANGED <<tree, others, destroyed, file_ops, pattern, subject>>

create_file(x, p) == First(x) /\ ~Exists(p) /\ Looks(x, "create", p, p)

\* The look of create_file and create_temp_file is over: the file is opened, and truncated.
CreateOpens(x) ==
  /\ fpc[x].op = "create" /\ Done(x) /\ Second(x)
  /\ IF MayOpen(tree, fpc[x].src) THEN Does(x, Opened(tree, fpc[x].src, 0))
     ELSE UNCHANGED <<tree, others>>
  /\ Destroys(x, fpc[x].src)

\* move_ex: both ends are looked at.
move_ex(x, s, d, overwrite) ==
  /\ First(x) /\ Exists(s) /\ s # d /\ (overwrite \/ ~Exists(d))
  /\ Looks(x, IF overwrite THEN "replace" ELSE "move", s, d)

\* Mutant: the target is removed before the rename.
RemovedFirst(t, d) == Erase(t, d)

\* The target is left to rename, which replaces it or fails.
TargetKept(t, d) == t

\* The rename may also fail for reasons of its own.
MoveRenames(x, fails) ==
  /\ fpc[x].op \in {"move", "replace"} /\ Done(x) /\ Second(x)
  /\ LET s == fpc[x].src d == fpc[x].dst t == TargetKept(tree, d)
         renamed == ~fails /\ MayRename(t, s, d)
     IN /\ Does(x, IF renamed THEN Moved(WithParent(t, d), s, d) ELSE t)
        /\ IF fpc[x].op = "replace" /\ renamed THEN UNCHANGED destroyed ELSE Destroys(x, d)
-----------------------------------------------------------------------------
(* glob *)

RECURSIVE glob_match(_, _)
glob_match(p, t) ==
  CASE p = <<>> -> t = <<>>
    [] Head(p) = "**/" ->
         \/ glob_match(Tail(p), t)
         \/ \E k \in DOMAIN t : t[k] = "/" /\ glob_match(Tail(p), SubSeq(t, k + 1, Len(t)))
    [] Head(p) = "**" -> \E k \in 0..Len(t) : glob_match(Tail(p), SubSeq(t, k + 1, Len(t)))
    [] Head(p) = "*" ->
         \E k \in 0..Len(t) : /\ "/" \notin ToSet(SubSeq(t, 1, k))
                              /\ glob_match(Tail(p), SubSeq(t, k + 1, Len(t)))
    [] OTHER -> t # <<>> /\ (IF Head(p) = "?" THEN Head(t) # "/" ELSE Head(t) = Head(p))
                /\ glob_match(Tail(p), Tail(t))

Wild(c) == c \in {"*", "?", "**", "**/"}
EndsDir(c) == c \in {"/", "**/"}
\* Mutant: only ** asks for the whole tree.
OnlyDoubleStar(p) == \E i \in DOMAIN p : p[i] \in {"**", "**/"}

glob_needs_recursive_walk(p) ==
  \/ \E i \in DOMAIN p : p[i] \in {"**", "**/"}
  \/ \E i, j \in DOMAIN p : Wild(p[i]) /\ EndsDir(p[j]) /\ i < j

\* The directory the walk starts in: the pattern up to the last slash before a wildcard.
glob_root(p) ==
  LET w == SelectInSeq(p, Wild)
      slash == SelectLastInSeq(SubSeq(p, 1, w - 1), LAMBDA c : c = "/")
  IN SubSeq(p, 1, slash)

\* A path is a candidate when the walk reaches it.
Reached(p, t) ==
  /\ IsPrefix(glob_root(p), t) /\ t # glob_root(p)
  /\ glob_needs_recursive_walk(p) \/ "/" \notin ToSet(SubSeq(t, Len(glob_root(p)) + 1, Len(t)))

\* Symbols are appended to the pattern, then to the path.
Grows ==
  /\ file_ops = 0 /\ (\A x \in FileProcs : Idle(x)) /\ UNCHANGED treeVars
  /\ \/ /\ Len(pattern) < MaxPattern /\ subject = <<>>
        /\ \E c \in {"a", "/", "*", "?", "**", "**/"} :
             /\ pattern # <<>> /\ Last(pattern) \in {"*", "**"} => ~Wild(c)
             /\ pattern # <<>> /\ Last(pattern) = "**" => c # "/"
             /\ pattern' = Append(pattern, c)
        /\ UNCHANGED subject
     \/ /\ Len(subject) < MaxSubject /\ \E c \in {"a", "b", "/"} :
             /\ c = "/" => subject # <<>> /\ Last(subject) # "/"
             /\ subject' = Append(subject, c)
        /\ UNCHANGED pattern
-----------------------------------------------------------------------------
Operates(x) ==
  \/ \E p \in Paths : create_directories(x, p) \/ remove_ex(x, p) \/ remove_all_ex(x, p)
                      \/ create_file(x, p) \/ write_bytes(x, p, 1) \/ write_exclusive_create(x, p, 2)
  \/ \E p \in Inner, t \in Paths : MakesLink(x, p, t)
  \/ \E s, d \in Paths, b \in BOOLEAN : copy_ex(x, s, d, b) \/ move_ex(x, s, d, b)
  \/ \E s, d \in Top, b \in BOOLEAN : copy_dir(x, s, d, b)
  \/ CopyDirStep(x) \/ CopyDirReturns(x) \/ CreateOpens(x) \/ \E b \in BOOLEAN : MoveRenames(x, b)

Next == Grows \/ \E x \in FileProcs : Operates(x)

Spec == Init /\ [][Next]_vars
-----------------------------------------------------------------------------
\* Every entry is in a directory.  Of the operations that must not replace a file
\* (create_file, move_ex and copy_dir without overwrite) or that failed (move_ex),
\* only create_file and move_ex ever destroy the data of one, and only when
\* another process came between their look and their act.
NothingLostAlone ==
  /\ \A p \in Inner : tree[p].kind # "none" => \A q \in Above(p) : tree[q].kind = "dir"
  /\ destroyed \subseteq {<<"create", "raced">>, <<"move", "raced">>}

LinkFree(c) ==
  \A p \in Paths : IsPrefix(c.from, p) \/ IsPrefix(c.into, p) => c.before[p].kind # "link"

\* A copy_dir of directories without links that no other process disturbed: when
\* it returns Ok, the destination has the source's entries and keeps its own others;
\* when it returns an error, each place has the old entry or the new one.  The
\* rest of the tree, with the source, is as it was.
CopyIsFaithful ==
  \A i \in DOMAIN copied : LET c == copied[i] IN
    c.alone /\ LinkFree(c) =>
      /\ tree[c.into] = Dir
      /\ \A q \in Paths \ {c.into} :
           LET new == {c.before[p] : p \in {p \in Under(c.before, c.from) : At(c.from, c.into, p) = q}} IN
           tree[q] \in IF new = {} THEN {c.before[q]} ELSE IF c.ok THEN new ELSE new \cup {c.before[q]}

\* The walk of glob leaves out no path that the pattern matches, and a pattern
\* without wildcards matches itself alone.
GlobIsComplete ==
  /\ (SelectInSeq(pattern, Wild) # 0 /\ subject # <<>> /\ Last(subject) # "/"
        /\ glob_match(pattern, subject)) => Reached(pattern, subject)
  /\ (SelectInSeq(pattern, Wild) = 0 /\ glob_match(pattern, subject)) => pattern = subject

\* Together.
FilesSound == NothingLostAlone /\ CopyIsFaithful /\ GlobIsComplete

\* Not so: create_file, "an existing file is not truncated".  No operation that may
\* not replace a file destroys one.
ExistingFileIsKept == destroyed = {}

\* Not so: file_util.hpp:236, copy_dir copies a symbolic link "as the link itself,
\* its content is not followed"; is_directory, is_regular_file and relative follow it.
LinksAreCopied ==
  \A i \in DOMAIN copied : LET c == copied[i] IN
    \A p \in Under(c.before, c.from) :
      c.alone /\ c.ok /\ c.before[p].kind = "link" => tree[At(c.from, c.into, p)] = c.before[p]
-----------------------------------------------------------------------------
(***************************************************************************)
(* KvStore (kv_store.cpp): a flat JSON object kept in one file, saved      *)
(* through FileUtil::atomic_write_text (file_util.cpp): a temporary file   *)
(* created exclusively, written, closed and renamed over the target.       *)
(* Several processes keep a store on the same path; one may die between    *)
(* any two steps.  A file is an inode: a rename moves the name, not the    *)
(* bytes.  The random temporary names are taken to be all different; the   *)
(* kernel keeps what it was given when a process dies (no power loss).     *)
(***************************************************************************)
CONSTANTS Stores,       \* processes, each with one KvStore on the path
          KvKeys,
          KvValues,     \* scalars that JSON can express
          BadValues,    \* a NaN or infinite double
          MaxSaves,     \* bound: calls of save
          MaxSets       \* bound: calls of set and remove

VARIABLES
  values,               \* State::values of each store
  spc,                  \* where save() stands (mutex held throughout)
  temp,                 \* the temporary file: <<>>, or <<bytes, all written>>
  target,               \* the file at path_: <<>>, or <<bytes, all written>>
  held_at_save,         \* history: what the store held when save took the lock
  committed,            \* history: what the last successful save held
  nsaves, nsets

kvVars == <<values, spc, temp, target, held_at_save, committed, nsaves, nsets>>

Absent == "absent"
NoValues == [k \in KvKeys |-> Absent]

KvInit ==
  /\ values = [s \in Stores |-> NoValues] /\ spc = [s \in Stores |-> "idle"]
  /\ temp = [s \in Stores |-> <<>>] /\ target = <<>>
  /\ held_at_save = [s \in Stores |-> NoValues] /\ committed = NoValues
  /\ nsaves = 0 /\ nsets = 0

\* JsonWriter: a NaN and an infinity are written as null.
Written(v) == IF v \in BadValues THEN "null" ELSE v
Serialized(vals) == [k \in KvKeys |-> Written(vals[k])]

\* load: the scalars come back, null is refused with the whole file.
Loadable(bytes) == \A k \in KvKeys : bytes[k] # "null"
-----------------------------------------------------------------------------
\* set_string, set_int, set_bool, set_double
set(s, k, v) ==
  /\ spc[s] = "idle" /\ nsets < MaxSets /\ nsets' = nsets + 1
  /\ values' = [values EXCEPT ![s][k] = v]
  /\ UNCHANGED <<spc, temp, target, held_at_save, committed, nsaves>>

remove(s, k) ==
  /\ spc[s] = "idle" /\ nsets < MaxSets /\ nsets' = nsets + 1
  /\ values[s][k] # Absent
  /\ values' = [values EXCEPT ![s][k] = Absent]
  /\ UNCHANGED <<spc, temp, target, held_at_save, committed, nsaves>>

\* save: the document is built under the lock and a temporary name chosen.
save(s) ==
  /\ spc[s] = "idle" /\ nsaves < MaxSaves /\ nsaves' = nsaves + 1
  /\ held_at_save' = [held_at_save EXCEPT ![s] = values[s]]
  /\ spc' = [spc EXCEPT ![s] = "create"]
  /\ UNCHANGED <<values, temp, target, committed, nsets>>

\* write_exclusive_create: O_CREAT | O_EXCL; it may fail (no permission, ...).
create(s) ==
  /\ spc[s] = "create"
  /\ \/ temp' = [temp EXCEPT ![s] = <<Serialized(held_at_save[s]), FALSE>>]
        /\ spc' = [spc EXCEPT ![s] = "write"]
     \/ UNCHANGED temp /\ spc' = [spc EXCEPT ![s] = "failed"]
  /\ UNCHANGED <<values, target, held_at_save, committed, nsaves, nsets>>

\* The rest of write_exclusive_create: every byte written and the file closed,
\* or an error part of the way.
write(s) ==
  /\ spc[s] = "write"
  /\ \/ temp' = [temp EXCEPT ![s][2] = TRUE] /\ spc' = [spc EXCEPT ![s] = "rename"]
     \/ UNCHANGED temp /\ spc' = [spc EXCEPT ![s] = "failed"]
  /\ UNCHANGED <<values, target, held_at_save, committed, nsaves, nsets>>

\* Mutant: the file is renamed whatever write_bytes returned.
RenamesAlways(s) == spc[s] \in {"rename", "failed"} /\ temp[s] # <<>>
MayReplace(s) == spc[s] = "rename"

rename(s) ==
  /\ MayReplace(s)
  /\ \/ /\ target' = temp[s] /\ temp' = [temp EXCEPT ![s] = <<>>]
        /\ committed' = held_at_save[s] /\ spc' = [spc EXCEPT ![s] = "idle"]
     \/ UNCHANGED <<target, temp, committed>> /\ spc' = [spc EXCEPT ![s] = "failed"]
  /\ UNCHANGED <<values, held_at_save, nsaves, nsets>>

\* remove_if_exists on each error path of atomic_write_bytes
clean_up(s) ==
  /\ spc[s] = "failed" /\ spc' = [spc EXCEPT ![s] = "idle"]
  /\ temp' = [temp EXCEPT ![s] = <<>>]
  /\ UNCHANGED <<values, target, held_at_save, committed, nsaves, nsets>>

\* Fault: the process dies; its temporary file stays.
crash(s) ==
  /\ spc[s] # "dead" /\ spc' = [spc EXCEPT ![s] = "dead"]
  /\ temp' = [temp EXCEPT ![s] = <<>>]
  /\ values' = [values EXCEPT ![s] = NoValues]
  /\ UNCHANGED <<target, held_at_save, committed, nsaves, nsets>>

\* load: by a process that starts, or to read again.  No file is an empty
\* store; a file that does not parse is an error and there is no store.
load(s) ==
  /\ spc[s] \in {"idle", "dead"}
  /\ IF target = <<>>
     THEN values' = [values EXCEPT ![s] = NoValues] /\ spc' = [spc EXCEPT ![s] = "idle"]
     ELSE /\ target[2] /\ Loadable(target[1])
          /\ values' = [values EXCEPT ![s] = target[1]]
          /\ spc' = [spc EXCEPT ![s] = "idle"]
  /\ UNCHANGED <<temp, target, held_at_save, committed, nsaves, nsets>>

KvNext ==
  \E s \in Stores :
    \/ \E k \in KvKeys :
         remove(s, k) \/ \E v \in KvValues \cup BadValues : set(s, k, v)
    \/ save(s) \/ create(s) \/ write(s) \/ rename(s) \/ clean_up(s)
    \/ crash(s) \/ load(s)

-----------------------------------------------------------------------------
\* The file is whole at every moment, whoever died or failed and when, and it
\* holds what the last successful save held: a failed save changes nothing.
FileIsLastSave ==
  target # <<>> => target[2] /\ target[1] = Serialized(committed)

\* A store that returned from save, well or not, has no temporary file left.
NoLitter == \A s \in Stores : spc[s] = "idle" => temp[s] = <<>>

\* Together.
KvStoreSound == FileIsLastSave /\ NoLitter

\* kv_store.hpp: what save() wrote, load() reads back.
SavedIsLoadable == target # <<>> => Loadable(target[1]) /\ target[1] = committed
=============================================================================
