------------------------------ MODULE JobPool ------------------------------
(***************************************************************************)
(* What a job queue promises: jobs are accepted into a bounded queue, taken *)
(* from it in the order they were accepted, run at most once, and end with  *)
(* one result that never changes. There is no lock and nobody waits here.   *)
(***************************************************************************)
EXTENDS Naturals, Sequences

CONSTANTS Job, Capacity

VARIABLES
    queue,      \* the accepted jobs nobody has taken, the oldest first
    status      \* what has become of each job

vars == <<queue, status>>

Results == {"success", "error", "cancelled"}

Init ==
    /\ queue = << >>
    /\ status = [j \in Job |-> "new"]

Becomes(j, s) == status' = [status EXCEPT ![j] = s]

Accept(j) ==
    /\ status[j] = "new"
    /\ Len(queue) < Capacity
    /\ queue' = Append(queue, j)
    /\ Becomes(j, "pending")

(* A worker takes the oldest job...                                        *)
Take ==
    /\ queue # << >>
    /\ queue' = Tail(queue)
    /\ UNCHANGED status

(* ... and runs it, unless it has been cancelled.                          *)
Start(j) ==
    /\ status[j] = "pending"
    /\ \A i \in DOMAIN queue : queue[i] # j
    /\ Becomes(j, "running")
    /\ UNCHANGED queue

Complete(j) ==
    /\ status[j] = "running"
    /\ \E s \in {"success", "error"} : Becomes(j, s)
    /\ UNCHANGED queue

(* Cancelling gives a job its result; a cancelled job is not removed, and  *)
(* one that runs is not interrupted.                                       *)
Cancel(j) ==
    /\ status[j] \in {"pending", "running"}
    /\ Becomes(j, "cancelled")
    /\ UNCHANGED queue

Next == Take \/ \E j \in Job : Accept(j) \/ Start(j) \/ Complete(j) \/ Cancel(j)

Spec == Init /\ [][Next]_vars
=============================================================================
