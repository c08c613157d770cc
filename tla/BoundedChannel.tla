--------------------------- MODULE BoundedChannel ---------------------------
(***************************************************************************)
(* What ipc_channel.h promises its callers: a bounded FIFO of messages     *)
(* that is created, used through the handle it was created with, and       *)
(* destroyed. Each call takes effect in one step between its start and its *)
(* return, and an error is returned only for its reason. There are no      *)
(* waiters, no counters, no ring and no lock here.                         *)
(***************************************************************************)
EXTENDS Naturals, Sequences

CONSTANTS
    Task, Capacity, MessageSize,
    Calls,      \* the calls, records with fields kind, h, mode and arg
    NoCall      \* a task that is in no call

VARIABLES
    opened,     \* how many channels were created; the last one's handle
    open,       \* that channel has not been destroyed
    queue,      \* its messages, the oldest first
    pending,    \* the call each task is in
    closing,    \* the task that destroyed the last channel, until it returns
    reply       \* what each task's last call returned, until the next one

vars == <<opened, open, queue, pending, closing, reply>>

Reply(e, n) == [error |-> e, length |-> n]
NoReply == Reply("none", 0)

Init ==
    /\ opened = 0
    /\ open = FALSE
    /\ queue = << >>
    /\ pending = [t \in Task |-> NoCall]
    /\ closing = {}
    /\ reply = [t \in Task |-> NoReply]

(* The handle of the call names the channel that is open now.              *)
Live(c) == open /\ c.h = opened

(* The reasons for which a call may fail with error e.                     *)
Excuse(t, c, e) ==
    \/ e \in {"invalid_handle", "destroyed"} /\ ~Live(c)
    \/ e = "invalid_argument"
       /\ \/ c.kind = "send" /\ c.arg \notin 1 .. MessageSize
          \/ c.kind = "recv" /\ c.arg = 0
          \/ c.kind = "recv" /\ queue # << >> /\ c.arg < Head(queue)
    \/ e = "no_space"
       /\ \/ c.kind = "send" /\ c.mode = "try" /\ Len(queue) = Capacity
          \/ /\ c.kind = "create"
             /\ \/ open
                \/ closing # {}
                \/ \E u \in Task \ {t} : pending[u].kind = "create"
    \/ e = "not_ready" /\ c.kind = "recv" /\ c.mode = "try" /\ queue = << >>
    \/ e = "timeout" /\ c.kind \in {"send", "recv"} /\ c.mode \in {"zero", "finite"}

Finish(t, r) ==
    /\ pending' = [pending EXCEPT ![t] = NoCall]
    /\ reply' = [reply EXCEPT ![t] = r]

Start(t) ==
    /\ pending[t] = NoCall
    /\ reply' = [reply EXCEPT ![t] = NoReply]
    /\ \E c \in Calls : pending' = [pending EXCEPT ![t] = c]
    /\ UNCHANGED <<opened, open, queue, closing>>

(* A call fails, at its start or later, and changes nothing.               *)
Fail(t) ==
    /\ \E e \in {"invalid_handle", "invalid_argument", "no_space",
                "not_ready", "timeout", "destroyed"} :
        /\ Finish(t, Reply(e, 0))
        /\ \E c \in IF pending[t] = NoCall THEN Calls ELSE {pending[t]} :
              Excuse(t, c, e)
    /\ UNCHANGED <<opened, open, queue, closing>>

Send(t) ==
    /\ pending[t].kind = "send" /\ Live(pending[t])
    /\ pending[t].arg \in 1 .. MessageSize
    /\ Len(queue) < Capacity
    /\ queue' = Append(queue, pending[t].arg)
    /\ Finish(t, Reply("ok", 0))
    /\ UNCHANGED <<opened, open, closing>>

Recv(t) ==
    /\ pending[t].kind = "recv" /\ Live(pending[t])
    /\ queue # << >>
    /\ pending[t].arg >= Head(queue)
    /\ queue' = Tail(queue)
    /\ Finish(t, Reply("ok", Head(queue)))
    /\ UNCHANGED <<opened, open, closing>>

(* The messages of a destroyed channel are gone at once; its slot is free  *)
(* for another one only when the destroying call returns.                  *)
Destroy(t) ==
    /\ pending[t].kind = "destroy" /\ Live(pending[t])
    /\ open' = FALSE
    /\ queue' = << >>
    /\ closing' = {t}
    /\ UNCHANGED <<opened, pending, reply>>

Destroyed(t) ==
    /\ t \in closing
    /\ closing' = {}
    /\ Finish(t, Reply("ok", 0))
    /\ UNCHANGED <<opened, open, queue>>

Create(t) ==
    /\ pending[t].kind = "create"
    /\ ~open /\ closing = {}
    /\ opened' = opened + 1
    /\ open' = TRUE
    /\ queue' = << >>
    /\ Finish(t, Reply("ok", 0))
    /\ UNCHANGED closing

Next ==
    \E t \in Task :
        \/ Start(t) \/ Fail(t) \/ Send(t) \/ Recv(t)
        \/ Destroy(t) \/ Destroyed(t) \/ Create(t)

Spec == Init /\ [][Next]_vars
=============================================================================
