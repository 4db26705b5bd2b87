---------------------------- MODULE PoolService -----------------------------
(***************************************************************************)
(* What a thread pool promises the code that submits to it, without        *)
(* threads, mutexes, condition variables or a capacity: the accepted tasks *)
(* start in the order of acceptance, each runs once, and a cancellation    *)
(* withdraws, at one point, exactly the tasks that have not started, after *)
(* which nothing is accepted or started any more.                          *)
(***************************************************************************)
EXTENDS Naturals, Sequences

CONSTANT Tasks

VARIABLES
  open,                 \* tasks are accepted
  order,                \* accepted and not started, oldest first
  status                \* what is known of each task

vars == <<open, order, status>>

Init ==
  /\ open = TRUE
  /\ order = <<>>
  /\ status = [x \in Tasks |-> "none"]

Accept(x) ==
  /\ open
  /\ status[x] = "none"
  /\ status' = [status EXCEPT ![x] = "waiting"]
  /\ order' = Append(order, x)
  /\ UNCHANGED open

Start ==
  /\ order # <<>>
  /\ status' = [status EXCEPT ![Head(order)] = "started"]
  /\ order' = Tail(order)
  /\ UNCHANGED open

Finish(x) ==
  /\ status[x] = "started"
  /\ \E r \in {"value", "exception"} : status' = [status EXCEPT ![x] = r]
  /\ UNCHANGED <<open, order>>

Close ==
  /\ open' = FALSE
  /\ UNCHANGED <<order, status>>

Withdraw ==
  /\ open' = FALSE
  /\ order' = <<>>
  /\ status' = [x \in Tasks |->
                  IF \E i \in 1..Len(order) : order[i] = x
                    THEN "withdrawn" ELSE status[x]]

Cancel(x) ==
  /\ status[x] = "withdrawn"
  /\ status' = [status EXCEPT ![x] = "cancelled"]
  /\ UNCHANGED <<open, order>>

Next ==
  \/ \E x \in Tasks : Accept(x) \/ Finish(x) \/ Cancel(x)
  \/ Start \/ Close \/ Withdraw

Spec == Init /\ [][Next]_vars
=============================================================================
