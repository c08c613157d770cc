------------------------------ MODULE IpcWait ------------------------------
(***************************************************************************)
(* The wait contexts of m_sched_wait.c and the wait queues of              *)
(* ipc_scheduler_bridge.c, as operators on values: every IPC object parks  *)
(* its callers through them.                                               *)
(*                                                                         *)
(* A waiter is a variable on the stack of the task that blocks, so it is   *)
(* identified with that task: a queue is a sequence of tasks, its head     *)
(* first, and a waiter is a record                                         *)
(*   enqueued - the task is linked into a queue;                           *)
(*   armed    - a wake still has to hand over the semaphore;               *)
(*   given    - the binary semaphore has been given and not taken;         *)
(*   result   - the result field the last wake, or the timeout, wrote.     *)
(***************************************************************************)
EXTENDS Naturals, Sequences, SequencesExt

CONSTANTS
    Task,       \* the tasks that call into the IPC layer
    Prio        \* uxTaskPriorityGet: their priorities, which nobody changes

ASSUME PrioAssumption == Prio \in [Task -> Nat]

WaitResult == {"ok", "timeout", "destroyed"}

Waiter == [enqueued : BOOLEAN, armed : BOOLEAN, given : BOOLEAN,
           result : WaitResult]

(* A waiter no call is using: what a stack slot holds is of no interest.   *)
NoWaiter == [enqueued |-> FALSE, armed |-> FALSE, given |-> FALSE,
             result |-> "ok"]

(* ipc_waiter_prepare followed by ipc_waiter_enqueue.                      *)
PreparedWaiter == [enqueued |-> TRUE, armed |-> TRUE, given |-> FALSE,
                   result |-> "ok"]

(* Mutant: the wake disarms the waiter before it looks whether it is armed. *)
WokenUnarmed(w, r) == [enqueued |-> FALSE, armed |-> FALSE,
                       given |-> w.given, result |-> r]

(* ipc_waiter_remove and m_sched_wait_wake: the result is written whether  *)
(* or not the waiter is armed, the semaphore given only if it is.          *)
Woken(w, r) == [enqueued |-> FALSE, armed |-> FALSE,
                given |-> w.given \/ w.armed, result |-> r]

(* m_sched_wait_block when xSemaphoreTake gives up: the waiter is disarmed *)
(* but stays in its queue until its task holds the object's lock again.    *)
TimedOut(w) == [w EXCEPT !.armed = FALSE, !.result = "timeout"]

(* Mutant: the head of the queue is woken, whatever its priority.          *)
PicksHead(q) == IF q = << >> THEN {} ELSE {1}

(* ipc_wait_queue_pick keeps the first waiter of the highest priority: a   *)
(* later one replaces the candidate only if its priority is greater.       *)
Picks(q) ==
    {i \in DOMAIN q : \A j \in DOMAIN q :
        \/ Prio[q[j]] < Prio[q[i]]
        \/ Prio[q[j]] = Prio[q[i]] /\ i <= j}

(* Mutant: the waiter that timed out is left in its queue.                 *)
UnlinkedNot(q, t) == {q}

(* The queues ipc_waiter_remove can leave when t still counts itself as    *)
(* enqueued. If t is in no queue, the queue was re-initialised under it:   *)
(* t's null links then become the head and the tail. (That is exact while  *)
(* at most one such waiter exists.)                                        *)
Unlinked(q, t) ==
    IF Contains(q, t) THEN {RemoveAt(q, i) : i \in {k \in DOMAIN q : q[k] = t}}
                      ELSE {<< >>}

(* Mutant: the loop reads the next link after the removal cleared it.      *)
WokenFirst(w, q, r) ==
    [t \in Task |-> IF q # << >> /\ q[1] = t THEN Woken(w[t], r) ELSE w[t]]

(* ipc_wake_all on the waiters w of a queue q.                             *)
WokenAll(w, q, r) ==
    [t \in Task |-> IF Contains(q, t) THEN Woken(w[t], r) ELSE w[t]]
=============================================================================
