----------------------------- MODULE Subprocess -----------------------------
(***************************************************************************)
(* Command::spawn and Child (subprocess.cpp), the POSIX build: threads     *)
(* that each start one child with a piped stdout, wait for it, kill it and *)
(* collect its output.  stderr is handled like stdout, stdin is not piped. *)
(*                                                                         *)
(* A pipe is a number of bytes and the set of those that hold its write    *)
(* end.  fork copies every descriptor of the parent, so a child also holds *)
(* the write ends that other threads have just created.                    *)
(***************************************************************************)
EXTENDS Naturals, FiniteSets, Functions

CONSTANTS
  Kids,                 \* the children; each has a thread that owns it
  PipeSize,             \* bytes a pipe holds
  MaxBytes              \* bound: bytes that all children and their offspring write

VARIABLES
  spawning,             \* child -> "none", "pipes", "forked", "started", "failed"
  process,              \* child -> "none", "running", "zombie", "reaped"
  writers,              \* child -> who holds the write end of its stdout
  buffered,             \* child -> bytes in its pipe
  stdout_,              \* child -> the read end: "open", "closed", "taken"
  exit_status_,         \* child -> the handle knows the exit status
  collected_stdout_,    \* child -> bytes collected and not handed over
  gathered,             \* child -> bytes in the string that read_to_end is filling
  wpc,                  \* child -> where its owner is in wait_with_output
  timed,                \* child -> that call has a timeout
  written, handed,      \* history: child -> bytes written, bytes in the Output
  forgone,              \* history: child -> bytes that went with a failed read_to_end
  stray                 \* history: a signal was sent to a pid that was reaped

vars == <<spawning, process, writers, buffered, stdout_, exit_status_, collected_stdout_, gathered,
          wpc, timed, written, handed, forgone, stray>>
pipes == <<writers, buffered, written>>
rest == <<gathered, forgone>>
handle == <<stdout_, exit_status_, collected_stdout_, wpc, timed, handed, rest>>

Parent == <<"parent", 0>>
Child(k) == <<"child", k>>
Grandchild(k) == <<"grandchild", k>>

Init ==
  /\ spawning = [k \in Kids |-> "none"] /\ process = [k \in Kids |-> "none"]
  /\ writers = [k \in Kids |-> {}] /\ buffered = [k \in Kids |-> 0]
  /\ stdout_ = [k \in Kids |-> "closed"] /\ exit_status_ = [k \in Kids |-> FALSE]
  /\ collected_stdout_ = [k \in Kids |-> 0] /\ gathered = [k \in Kids |-> 0]
  /\ wpc = [k \in Kids |-> "idle"] /\ timed = [k \in Kids |-> FALSE]
  /\ written = [k \in Kids |-> 0] /\ handed = [k \in Kids |-> 0]
  /\ forgone = [k \in Kids |-> 0] /\ stray = FALSE
-----------------------------------------------------------------------------
(* spawn *)

CreatePipes(k) ==
  /\ spawning[k] = "none" /\ spawning' = [spawning EXCEPT ![k] = "pipes"]
  /\ writers' = [writers EXCEPT ![k] = {Parent}] /\ stdout_' = [stdout_ EXCEPT ![k] = "open"]
  /\ UNCHANGED <<process, buffered, exit_status_, collected_stdout_, rest, wpc, timed, written, handed, stray>>

Fork(k) ==
  /\ spawning[k] = "pipes" /\ spawning' = [spawning EXCEPT ![k] = "forked"]
  /\ process' = [process EXCEPT ![k] = "running"]
  /\ writers' = [j \in Kids |-> IF Parent \in writers[j] THEN writers[j] \cup {Child(k)} ELSE writers[j]]
  /\ UNCHANGED <<buffered, handle, written, stray>>

ForkFails(k) ==
  /\ spawning[k] = "pipes" /\ spawning' = [spawning EXCEPT ![k] = "failed"]
  /\ writers' = [writers EXCEPT ![k] = {}] /\ stdout_' = [stdout_ EXCEPT ![k] = "closed"]
  /\ UNCHANGED <<process, buffered, exit_status_, collected_stdout_, rest, wpc, timed, written, handed, stray>>

\* The parent closes its ends and reads the status of exec.
Started(k) ==
  /\ spawning[k] = "forked" /\ spawning' = [spawning EXCEPT ![k] = "started"]
  /\ writers' = [writers EXCEPT ![k] = @ \ {Parent}]
  /\ UNCHANGED <<process, buffered, handle, written, stray>>

WithoutProcess(k) == [j \in Kids |-> writers[j] \ {Child(k)}]

\* Mutant: the child that could not exec is not waited for.
NotReaped(k) == process' = [process EXCEPT ![k] = "zombie"]

Reaped(k) == process' = [process EXCEPT ![k] = "reaped"]

\* exec failed: the child reported errno and left; it is reaped here.
ExecFails(k) ==
  /\ spawning[k] = "forked" /\ process[k] = "running" /\ written[k] = 0
  /\ spawning' = [spawning EXCEPT ![k] = "failed"] /\ Reaped(k)
  /\ writers' = [j \in Kids |-> IF j = k THEN writers[j] \ {Parent, Child(k)} ELSE writers[j] \ {Child(k)}]
  /\ stdout_' = [stdout_ EXCEPT ![k] = "closed"]
  /\ UNCHANGED <<buffered, exit_status_, collected_stdout_, rest, wpc, timed, written, handed, stray>>
-----------------------------------------------------------------------------
(* the child and its offspring; external *)

Writes(k) ==
  /\ spawning[k] = "started" /\ {Child(k), Grandchild(k)} \cap writers[k] # {}
  /\ stdout_[k] = "open" /\ buffered[k] < PipeSize /\ SumFunction(written) < MaxBytes
  /\ buffered' = [buffered EXCEPT ![k] = @ + 1] /\ written' = [written EXCEPT ![k] = @ + 1]
  /\ UNCHANGED <<spawning, process, writers, handle, stray>>

\* The offspring inherits every write end that the child holds.
Forks(k) ==
  /\ spawning[k] = "started" /\ process[k] = "running"
  /\ writers' = [j \in Kids |-> IF Child(k) \in writers[j] THEN writers[j] \cup {Grandchild(k)}
                                                          ELSE writers[j]]
  /\ UNCHANGED <<spawning, process, buffered, handle, written, stray>>

Exits(k) ==
  /\ process[k] = "running" /\ spawning[k] = "started"
  /\ process' = [process EXCEPT ![k] = "zombie"] /\ writers' = WithoutProcess(k)
  /\ UNCHANGED <<spawning, buffered, handle, written, stray>>

GrandchildExits(k) ==
  /\ Grandchild(k) \in writers[k] /\ writers' = [j \in Kids |-> writers[j] \ {Grandchild(k)}]
  /\ UNCHANGED <<spawning, process, buffered, handle, written, stray>>
-----------------------------------------------------------------------------
(* Child *)

Owned(k) == spawning[k] = "started"
At(k, here) == Owned(k) /\ wpc[k] = here

\* waitpid in try_wait, wait and wait_for.
WaitEnds(k) ==
  /\ At(k, "idle") /\ ~exit_status_[k] /\ process[k] = "zombie"
  /\ Reaped(k) /\ exit_status_' = [exit_status_ EXCEPT ![k] = TRUE]
  /\ UNCHANGED <<spawning, pipes, stdout_, collected_stdout_, rest, wpc, timed, handed, stray>>

\* Mutant: the exit status is not looked at.
KillAnyway(k) == TRUE

MayKill(k) == ~exit_status_[k]

\* kill signals the process group.
Kill(k) ==
  /\ At(k, "idle") /\ MayKill(k)
  /\ process' = [process EXCEPT ![k] = IF @ = "running" THEN "zombie" ELSE @]
  /\ writers' = [j \in Kids |-> writers[j] \ {Child(k), Grandchild(k)}]
  /\ stray' = (stray \/ process[k] = "reaped")
  /\ UNCHANGED <<spawning, buffered, handle, written>>

TakeStdout(k) ==
  /\ At(k, "idle") /\ stdout_[k] = "open" /\ stdout_' = [stdout_ EXCEPT ![k] = "taken"]
  /\ UNCHANGED <<spawning, process, pipes, exit_status_, collected_stdout_, rest, wpc, timed, handed, stray>>

\* wait_with_output, wait_with_output_for.
WaitWithOutput(k, limited) ==
  /\ At(k, "idle") /\ handed[k] = 0 /\ wpc' = [wpc EXCEPT ![k] = "drain"]
  /\ timed' = [timed EXCEPT ![k] = limited]
  /\ UNCHANGED <<spawning, process, pipes, stdout_, exit_status_, collected_stdout_, rest, handed, stray>>

\* A call of wait_with_output is over, and its deadline with it.
Returns(k) == wpc' = [wpc EXCEPT ![k] = "idle"] /\ timed' = [timed EXCEPT ![k] = FALSE]

\* drain_available: what is there; at the end of the file the stream is closed.
Drain(k) ==
  /\ At(k, "drain") /\ wpc' = [wpc EXCEPT ![k] = "poll"]
  /\ IF stdout_[k] = "open"
       THEN /\ collected_stdout_' = [collected_stdout_ EXCEPT ![k] = @ + buffered[k]]
            /\ buffered' = [buffered EXCEPT ![k] = 0]
            /\ stdout_' = [stdout_ EXCEPT ![k] = IF writers[k] = {} THEN "closed" ELSE @]
       ELSE UNCHANGED <<collected_stdout_, buffered, stdout_>>
  /\ UNCHANGED <<spawning, process, writers, written, exit_status_, rest, timed, handed, stray>>

\* poll or read fails: what this call has already read stays collected.
DrainFails(k) ==
  /\ At(k, "drain") /\ stdout_[k] = "open" /\ Returns(k)
  /\ \E n \in 0..buffered[k] :
       /\ collected_stdout_' = [collected_stdout_ EXCEPT ![k] = @ + n]
       /\ buffered' = [buffered EXCEPT ![k] = @ - n]
  /\ UNCHANGED <<spawning, process, writers, written, stdout_, exit_status_, rest, handed, stray>>

\* Mutant: what was collected is thrown away with the error.
ForgetsCollected(k) == [collected_stdout_ EXCEPT ![k] = 0]

\* At the deadline the streams and the bytes collected stay with the Child.
AtTimeout(k) == collected_stdout_

\* try_wait, then the deadline.
Poll(k) ==
  /\ At(k, "poll")
  /\ \/ /\ process[k] = "zombie" \/ exit_status_[k]
        /\ Reaped(k) /\ exit_status_' = [exit_status_ EXCEPT ![k] = TRUE]
        /\ wpc' = [wpc EXCEPT ![k] = "rest"] /\ UNCHANGED <<collected_stdout_, timed>>
     \/ /\ process[k] = "running" /\ wpc' = [wpc EXCEPT ![k] = "drain"]
        /\ UNCHANGED <<process, exit_status_, collected_stdout_, timed>>
     \/ /\ process[k] = "running" /\ timed[k] /\ Returns(k)
        /\ collected_stdout_' = AtTimeout(k) /\ UNCHANGED <<process, exit_status_>>
  /\ UNCHANGED <<spawning, pipes, stdout_, rest, handed, stray>>

\* stderr's drain or waitpid fails after stdout was drained, or stderr's
\* read_to_end after stdout's ended.
OtherFails(k) ==
  /\ Owned(k) /\ wpc[k] \in {"poll", "output"} /\ Returns(k)
  /\ UNCHANGED <<spawning, process, pipes, stdout_, exit_status_, collected_stdout_, rest, handed, stray>>

\* drain_to_end: read_to_end reads until nobody holds the write end, whatever
\* the timeout, into a string of its own.
RestRead(k) ==
  /\ At(k, "rest") /\ stdout_[k] = "open" /\ buffered[k] > 0
  /\ gathered' = [gathered EXCEPT ![k] = @ + buffered[k]]
  /\ buffered' = [buffered EXCEPT ![k] = 0]
  /\ UNCHANGED <<spawning, process, writers, written, stdout_, exit_status_, collected_stdout_,
                 forgone, wpc, timed, handed, stray>>

\* read fails, or is interrupted by a signal: that string is gone.
RestFails(k) ==
  /\ At(k, "rest") /\ stdout_[k] = "open" /\ Returns(k)
  /\ forgone' = [forgone EXCEPT ![k] = @ + gathered[k]]
  /\ gathered' = [gathered EXCEPT ![k] = 0]
  /\ UNCHANGED <<spawning, process, pipes, stdout_, exit_status_, collected_stdout_, handed, stray>>

\* The end of the file: the string is appended to what was collected.
RestEnds(k) ==
  /\ At(k, "rest") /\ (stdout_[k] = "open" => buffered[k] = 0 /\ writers[k] = {})
  /\ wpc' = [wpc EXCEPT ![k] = "output"]
  /\ stdout_' = [stdout_ EXCEPT ![k] = IF @ = "open" THEN "closed" ELSE @]
  /\ collected_stdout_' = [collected_stdout_ EXCEPT ![k] = @ + gathered[k]]
  /\ gathered' = [gathered EXCEPT ![k] = 0]
  /\ UNCHANGED <<spawning, process, pipes, exit_status_, forgone, timed, handed, stray>>

\* The Output takes what was collected.
HandsOver(k) ==
  /\ At(k, "output") /\ Returns(k)
  /\ handed' = [handed EXCEPT ![k] = @ + collected_stdout_[k]]
  /\ collected_stdout_' = [collected_stdout_ EXCEPT ![k] = 0]
  /\ UNCHANGED <<spawning, process, pipes, stdout_, exit_status_, rest, stray>>

Waiting(k) ==
  \/ Drain(k) \/ DrainFails(k) \/ Poll(k) \/ OtherFails(k)
  \/ RestRead(k) \/ RestFails(k) \/ RestEnds(k) \/ HandsOver(k)

Next == \E k \in Kids :
  \/ CreatePipes(k) \/ Fork(k) \/ ForkFails(k) \/ Started(k) \/ ExecFails(k)
  \/ Writes(k) \/ Forks(k) \/ Exits(k) \/ GrandchildExits(k)
  \/ WaitEnds(k) \/ Kill(k) \/ TakeStdout(k) \/ Waiting(k)
  \/ \E limited \in BOOLEAN : WaitWithOutput(k, limited)

Spec == Init /\ [][Next]_vars

\* The thread that waits goes on, and a deadline passes: poll does not find
\* the child running for ever.
FairSpec == Spec /\ \A k \in Kids : WF_vars(Waiting(k)) /\ SF_vars(Poll(k) /\ wpc'[k] # "drain")
-----------------------------------------------------------------------------
\* The values of the variables.
TypeOK ==
  /\ spawning \in [Kids -> {"none", "pipes", "forked", "started", "failed"}]
  /\ process \in [Kids -> {"none", "running", "zombie", "reaped"}]
  /\ wpc \in [Kids -> {"idle", "drain", "poll", "rest", "output"}] /\ buffered \in [Kids -> 0..PipeSize]

\* Every byte is in the pipe, with the Child or in the Output, across
\* time-outs, kills and errors of every call, but for those that an error of
\* read_to_end takes with it.  No call leaves bytes in its own string, and the
\* stream is closed only when nobody can write any more
\* (wait_with_output_until).
NothingLost == \A k \in Kids :
  /\ buffered[k] + collected_stdout_[k] + gathered[k] + handed[k] + forgone[k] = written[k]
  /\ wpc[k] # "rest" => gathered[k] = 0
  /\ stdout_[k] = "closed" /\ spawning[k] = "started" => buffered[k] = 0 /\ writers[k] = {}

\* Not so: a read that fails in read_to_end drops what it had gathered, and
\* the Output of a later call is short without an error (read_to_end).
OutputIsWhole == \A k \in Kids : forgone[k] = 0

\* A pid is reaped once, by the call that learns the status, and never
\* signalled afterwards; a spawn that failed leaves no process and no
\* descriptor behind (kill, spawn).
ReapedOnce ==
  /\ ~stray
  /\ \A k \in Kids :
       /\ exit_status_[k] => process[k] = "reaped"
       /\ spawning[k] = "failed" => process[k] \in {"none", "reaped"}
                                    /\ \A j \in Kids : Child(k) \notin writers[j]
       /\ spawning[k] = "started" /\ process[k] = "reaped" => exit_status_[k]

\* Together.
SubprocessSound == NothingLost /\ ReapedOnce

\* What the header says: wait_with_output_for waits at most for its timeout.
TimedWaitEnds == \A k \in Kids : (wpc[k] # "idle" /\ timed[k]) ~> wpc[k] = "idle"
=============================================================================
