----------------------------- MODULE IpcChannel -----------------------------
(***************************************************************************)
(* The bounded FIFO channel of ipc_channel.c, with the slot of the handle  *)
(* registry (ipc_core.c) it lives in.                                      *)
(*                                                                         *)
(* One slot of g_channels is modelled: slots share nothing but the         *)
(* registry lock. What runs between portENTER_CRITICAL and                 *)
(* portEXIT_CRITICAL is one step. What runs outside is a step of its own:  *)
(* the lookup of the handle (Call), the blocking (BlockTaken,              *)
(* BlockTimeout), the release of the handle (Release) and the              *)
(* initialisation of a new channel (ClearObject, SetupObject), which       *)
(* m_ipc_channel_create does without the channel's lock.                   *)
(*                                                                         *)
(* A message is its length: the bytes are copied in and out unchanged and  *)
(* no branch of the code reads them.                                       *)
(***************************************************************************)
EXTENDS IpcWait, FiniteSets

CONSTANTS
    NoTask,         \* nobody has left the channel's lock held
    Capacity,       \* the capacity channels are created with
    MessageSize,    \* the message_size channels are created with
    Lengths,        \* the lengths callers pass to the send functions
    BufferSizes,    \* the buffer sizes callers pass to the receive functions
    Modes,          \* the ways callers wait, see AllModes
    MaxGen,         \* bound: how many times the slot is allocated
    OrderlyReuse    \* callers create only when no other call is in flight

(* The try functions; a timed function with timeout 0; one with a finite   *)
(* timeout; and a function that waits forever (or a timed one with         *)
(* M_TIMER_TIMEOUT_FOREVER).                                               *)
AllModes == {"try", "zero", "finite", "forever"}

ASSUME ChannelAssumption ==
    /\ NoTask \notin Task
    /\ Capacity \in Nat \ {0}
    /\ MessageSize \in Nat \ {0}
    /\ Lengths \subseteq Nat
    /\ BufferSizes \subseteq Nat
    /\ Modes \subseteq AllModes
    /\ MaxGen \in Nat
    /\ OrderlyReuse \in BOOLEAN

VARIABLES
    \* ipc_handle_registry_t: the slot's generation and allocated flag, and
    \* the number of handles m_ipc_channel_create has handed out
    generation, allocated, issued,
    \* ipc_channel_t, the ring
    destroyed, capacity, messages, head, tail, depth,
    \* ipc_channel_t, the wait queues, their counters and the lock
    waiting_senders, waiting_receivers, waiting_tasks,
    send_waiters, recv_waiters, lock,
    \* each task's place in its call, the call, its waiter on the stack, what
    \* ipc_waiter_block returned, and what its last call returned
    pc, op, waiter, wait_result, ret

registryVars == <<generation, allocated, issued>>
ringVars     == <<destroyed, capacity, messages, head, tail, depth>>
queueVars    == <<waiting_senders, waiting_receivers, waiting_tasks,
                  send_waiters, recv_waiters>>
taskVars     == <<pc, op, waiter, wait_result, ret>>
vars         == <<registryVars, ringVars, queueVars, lock, taskVars>>

(* The calls a task can make: h is the handle's generation, arg the length *)
(* of the message or the size of the buffer.                               *)
SendOp    == [kind : {"send"}, h : 1 .. MaxGen, mode : Modes, arg : Lengths]
RecvOp    == [kind : {"recv"}, h : 1 .. MaxGen, mode : Modes, arg : BufferSizes]
DestroyOp == [kind : {"destroy"}, h : 1 .. MaxGen, mode : {"none"}, arg : {0}]
HandleOp  == SendOp \cup RecvOp \cup DestroyOp
CreateOp  == [kind |-> "create", h |-> 0, mode |-> "none", arg |-> 0]
NoOp      == [kind |-> "none", h |-> 0, mode |-> "none", arg |-> 0]

IpcError == {"none", "ok", "invalid_handle", "invalid_argument", "no_space",
             "not_ready", "timeout", "destroyed"}

(* What a call returns: the error code and, for a receive that succeeds,   *)
(* the message it copied out. There is none before a call has returned.    *)
Reply(e, n) == [error |-> e, length |-> n]
NoReply == Reply("none", 0)

Location == {"idle", "lock", "wait", "relock", "release", "clear", "setup"}


-----------------------------------------------------------------------------
(* Helpers.                                                                *)

(* The message_size field: 0 until m_ipc_channel_create fills it in.       *)
message_size == IF capacity = 0 THEN 0 ELSE MessageSize

(* Mutant: the index wraps around one slot too late.                       *)
FollowingLate(i) == IF i = capacity THEN 0 ELSE i + 1

(* The slot after slot i of the ring.                                      *)
Following(i) == (i + 1) % capacity

(* Mutant: the comparison with the capacity is off by one.                 *)
FullLate == depth > capacity

Full  == depth = capacity
Empty == depth = 0

(* Mutant: the waiter is taken out and not counted out.                    *)
DecrementedNot(n) == n

(* The decrements of _m_ipc_channel_record_dequeue stop at 0.              *)
Decremented(n) == IF n > 0 THEN n - 1 ELSE 0

Fits(o) == o.arg \in 1 .. message_size

(* Mutant: the lookup does not compare the generation.                     *)
EarlyErrorAnyHandle(o) ==
    IF \/ o.kind = "send" /\ o.mode # "try" /\ ~Fits(o)
       \/ o.kind = "recv" /\ o.arg = 0
    THEN "invalid_argument"
    ELSE "ok"

(* What a call returns before it takes the channel's lock. The try sends   *)
(* check their length later, under the lock.                               *)
EarlyError(o) ==
    IF o.h # generation THEN "invalid_handle"
    ELSE IF \/ o.kind = "send" /\ o.mode # "try" /\ ~Fits(o)
            \/ o.kind = "recv" /\ o.arg = 0
         THEN "invalid_argument"
         ELSE "ok"

(* A critical section can be entered unless another task left it held. A   *)
(* task that left it held nests and still holds it afterwards.             *)
LockFree(t) == lock \in {NoTask, t}

(* The call of task t returns r.                                           *)
Return(t, r) ==
    /\ pc' = [pc EXCEPT ![t] = "idle"]
    /\ op' = [op EXCEPT ![t] = NoOp]
    /\ wait_result' = [wait_result EXCEPT ![t] = "ok"]
    /\ ret' = [ret EXCEPT ![t] = r]

Goto(t, l) ==
    /\ pc' = [pc EXCEPT ![t] = l]
    /\ UNCHANGED <<op, ret>>

(* ipc_wake_one on the receivers, with _m_ipc_channel_record_dequeue.      *)
PopReceiver ==
    \E i \in Picks(recv_waiters) :
        /\ recv_waiters' = RemoveAt(recv_waiters, i)
        /\ waiter' = [waiter EXCEPT ![recv_waiters[i]] = Woken(@, "ok")]
        /\ waiting_receivers' = Decremented(waiting_receivers)
        /\ waiting_tasks' = Decremented(waiting_tasks)

LeaveReceivers ==
    UNCHANGED <<recv_waiters, waiter, waiting_receivers, waiting_tasks>>

(* Mutant: only the send that ends the emptiness of the ring wakes.        *)
WakeReceiverIfEmpty ==
    \/ depth = 0 /\ PopReceiver
    \/ (recv_waiters = << >> \/ depth > 0) /\ LeaveReceivers

WakeReceiver == PopReceiver \/ (recv_waiters = << >> /\ LeaveReceivers)

(* ipc_wake_one on the senders, with _m_ipc_channel_record_dequeue.        *)
PopSender ==
    \E i \in Picks(send_waiters) :
        /\ send_waiters' = RemoveAt(send_waiters, i)
        /\ waiter' = [waiter EXCEPT ![send_waiters[i]] = Woken(@, "ok")]
        /\ waiting_senders' = Decremented(waiting_senders)
        /\ waiting_tasks' = Decremented(waiting_tasks)

LeaveSenders ==
    UNCHANGED <<send_waiters, waiter, waiting_senders, waiting_tasks>>

(* Mutant: only the receive that ends the fullness of the ring wakes.      *)
WakeSenderIfFull ==
    \/ Full /\ PopSender
    \/ (send_waiters = << >> \/ ~Full) /\ LeaveSenders

WakeSender == PopSender \/ (send_waiters = << >> /\ LeaveSenders)

-----------------------------------------------------------------------------
(* Before the lock.                                                        *)

(* The lookup of the handle and the checks of the arguments fail.          *)
Reject(t) ==
    /\ pc[t] = "idle"
    /\ \E o \in HandleOp :
        /\ o.h <= issued
        /\ EarlyError(o) # "ok"
        /\ ret' = [ret EXCEPT ![t] = Reply(EarlyError(o), 0)]
    /\ UNCHANGED <<registryVars, ringVars, queueVars, lock,
                   pc, op, waiter, wait_result>>

(* They succeed: from here on the call holds a pointer to the slot, and    *)
(* nothing checks the handle again.                                        *)
Call(t) ==
    /\ pc[t] = "idle"
    /\ \E o \in HandleOp :
        /\ o.h <= issued
        /\ EarlyError(o) = "ok"
        /\ op' = [op EXCEPT ![t] = o]
    /\ pc' = [pc EXCEPT ![t] = "lock"]
    /\ ret' = [ret EXCEPT ![t] = NoReply]
    /\ UNCHANGED <<registryVars, ringVars, queueVars, lock,
                   waiter, wait_result>>

(* m_ipc_channel_create up to ipc_handle_allocate, which finds no slot...  *)
CreateNoSpace(t) ==
    /\ pc[t] = "idle"
    /\ allocated
    /\ ret' = [ret EXCEPT ![t] = Reply("no_space", 0)]
    /\ UNCHANGED <<registryVars, ringVars, queueVars, lock,
                   pc, op, waiter, wait_result>>

(* ... or takes this one and moves on to its next generation.              *)
Allocate(t) ==
    /\ pc[t] = "idle"
    /\ ~allocated
    /\ generation < MaxGen
    /\ OrderlyReuse => \A u \in Task \ {t} : pc[u] = "idle"
    /\ allocated' = TRUE
    /\ generation' = generation + 1
    /\ op' = [op EXCEPT ![t] = CreateOp]
    /\ pc' = [pc EXCEPT ![t] = "clear"]
    /\ ret' = [ret EXCEPT ![t] = NoReply]
    /\ UNCHANGED <<issued, ringVars, queueVars, lock, waiter, wait_result>>

(* The memset of m_ipc_channel_create and the new lock.                    *)
ClearObject(t) ==
    /\ pc[t] = "clear"
    /\ destroyed' = FALSE
    /\ capacity' = 0
    /\ messages' = [i \in 0 .. Capacity - 1 |-> 0]
    /\ head' = 0 /\ tail' = 0 /\ depth' = 0
    /\ waiting_senders' = 0 /\ waiting_receivers' = 0 /\ waiting_tasks' = 0
    /\ send_waiters' = << >> /\ recv_waiters' = << >>
    /\ lock' = NoTask
    /\ Goto(t, "setup")
    /\ UNCHANGED <<registryVars, waiter, wait_result>>

(* The rest of m_ipc_channel_create; the handle reaches the callers.       *)
SetupObject(t) ==
    /\ pc[t] = "setup"
    /\ capacity' = Capacity
    /\ send_waiters' = << >> /\ recv_waiters' = << >>
    /\ issued' = generation
    /\ Return(t, Reply("ok", 0))
    /\ UNCHANGED <<generation, allocated, destroyed, messages, head, tail, depth,
                   waiting_senders, waiting_receivers, waiting_tasks,
                   lock, waiter>>

-----------------------------------------------------------------------------
(* Under the lock.                                                         *)

(* The call finds the channel destroyed.                                   *)
FindDestroyed(t) ==
    /\ pc[t] = "lock"
    /\ LockFree(t)
    /\ destroyed
    /\ Return(t, Reply("destroyed", 0))
    /\ UNCHANGED <<registryVars, ringVars, queueVars, lock, waiter>>

(* The body of a send or a receive runs: the call has just taken the lock, *)
(* or its wait ended with IPC_WAIT_RESULT_OK and the loop tests again. (A  *)
(* waiter that was woken is in no queue: there is nothing to remove.)      *)
InSection(t, kind) ==
    /\ op[t].kind = kind
    /\ \/ pc[t] = "lock"
       \/ pc[t] = "relock" /\ wait_result[t] = "ok"
    /\ LockFree(t)
    /\ ~destroyed

(* A try send whose length the channel does not take.                      *)
TrySendInvalid(t) ==
    /\ InSection(t, "send")
    /\ op[t].mode = "try" /\ ~Fits(op[t])
    /\ Return(t, Reply("invalid_argument", 0))
    /\ UNCHANGED <<registryVars, ringVars, queueVars, lock, waiter>>

(* _m_ipc_channel_enqueue_message and the wake of one receiver.            *)
Send(t) ==
    /\ InSection(t, "send")
    /\ op[t].mode = "try" => Fits(op[t])
    /\ ~Full
    /\ messages' = [messages EXCEPT ![tail] = op[t].arg]
    /\ tail' = Following(tail)
    /\ depth' = depth + 1
    /\ WakeReceiver
    /\ Return(t, Reply("ok", 0))
    /\ UNCHANGED <<registryVars, destroyed, capacity, head,
                   waiting_senders, send_waiters, lock>>

(* _m_ipc_channel_dequeue_message and the wake of one sender.              *)
Recv(t) ==
    /\ InSection(t, "recv")
    /\ ~Empty
    /\ op[t].arg >= messages[head]
    /\ head' = Following(head)
    /\ depth' = depth - 1
    /\ WakeSender
    /\ Return(t, Reply("ok", messages[head]))
    /\ UNCHANGED <<registryVars, destroyed, capacity, messages, tail,
                   waiting_receivers, recv_waiters, lock>>

(* The next message is longer than the caller's buffer: it stays.          *)
RecvTooSmall(t) ==
    /\ InSection(t, "recv")
    /\ ~Empty
    /\ op[t].arg < messages[head]
    /\ Return(t, Reply("invalid_argument", 0))
    /\ UNCHANGED <<registryVars, ringVars, queueVars, lock, waiter>>

(* The body of a send finds no space, that of a receive no message.        *)
Blocked(t) ==
    \/ InSection(t, "send") /\ (op[t].mode = "try" => Fits(op[t])) /\ Full
    \/ InSection(t, "recv") /\ Empty

(* A try function does not wait.                                           *)
Refuse(t) ==
    /\ Blocked(t)
    /\ op[t].mode = "try"
    /\ Return(t, Reply(IF op[t].kind = "send" THEN "no_space" ELSE "not_ready", 0))
    /\ UNCHANGED <<registryVars, ringVars, queueVars, lock, waiter>>

(* A timeout of 0: _m_ipc_channel_wait_for_space and _for_message return   *)
(* at once, and neither they nor their callers leave the critical section. *)
ZeroTimeout(t) ==
    /\ Blocked(t)
    /\ op[t].mode = "zero"
    /\ lock' = t
    /\ Return(t, Reply("timeout", 0))
    /\ UNCHANGED <<registryVars, ringVars, queueVars, waiter>>

(* The others prepare a waiter, enqueue it, count it and leave the lock.   *)
Park(t) ==
    /\ Blocked(t)
    /\ op[t].mode \in {"finite", "forever"}
    /\ waiter' = [waiter EXCEPT ![t] = PreparedWaiter]
    /\ waiting_tasks' = waiting_tasks + 1
    /\ IF op[t].kind = "send"
       THEN /\ send_waiters' = Append(send_waiters, t)
            /\ waiting_senders' = waiting_senders + 1
            /\ UNCHANGED <<recv_waiters, waiting_receivers>>
       ELSE /\ recv_waiters' = Append(recv_waiters, t)
            /\ waiting_receivers' = waiting_receivers + 1
            /\ UNCHANGED <<send_waiters, waiting_senders>>
    /\ Goto(t, "wait")
    /\ wait_result' = [wait_result EXCEPT ![t] = "ok"]
    /\ UNCHANGED <<registryVars, ringVars, lock>>

(* ipc_waiter_block: the semaphore was given and the task takes it. Nobody *)
(* refers to the waiter any more.                                          *)
BlockTaken(t) ==
    /\ pc[t] = "wait"
    /\ waiter[t].given
    /\ wait_result' = [wait_result EXCEPT ![t] = waiter[t].result]
    /\ waiter' = [waiter EXCEPT ![t] = NoWaiter]
    /\ Goto(t, "relock")
    /\ UNCHANGED <<registryVars, ringVars, queueVars, lock>>

(* ipc_waiter_timed_block: the deadline passes. It was computed when this  *)
(* wait began: every wait of a call gets the call's whole timeout.         *)
BlockTimeout(t) ==
    /\ pc[t] = "wait"
    /\ op[t].mode = "finite"
    /\ ~waiter[t].given
    /\ wait_result' = [wait_result EXCEPT ![t] = "timeout"]
    /\ waiter' = [waiter EXCEPT ![t] = TimedOut(@)]
    /\ Goto(t, "relock")
    /\ UNCHANGED <<registryVars, ringVars, queueVars, lock>>

(* After an unsuccessful wait, or one of a channel that is now destroyed,  *)
(* the call removes its waiter if nobody woke it, and fails.               *)
GiveUp(t) ==
    /\ pc[t] = "relock"
    /\ LockFree(t)
    /\ destroyed \/ wait_result[t] # "ok"
    /\ IF ~waiter[t].enqueued THEN UNCHANGED queueVars
       ELSE /\ waiting_tasks' = Decremented(waiting_tasks)
            /\ IF op[t].kind = "send"
               THEN /\ send_waiters' \in Unlinked(send_waiters, t)
                    /\ waiting_senders' = Decremented(waiting_senders)
                    /\ UNCHANGED <<recv_waiters, waiting_receivers>>
               ELSE /\ recv_waiters' \in Unlinked(recv_waiters, t)
                    /\ waiting_receivers' = Decremented(waiting_receivers)
                    /\ UNCHANGED <<send_waiters, waiting_senders>>
    /\ waiter' = [waiter EXCEPT ![t] = NoWaiter]
    /\ Return(t, Reply(IF destroyed THEN "destroyed" ELSE wait_result[t], 0))
    /\ UNCHANGED <<registryVars, ringVars, lock>>

(* m_ipc_channel_destroy under the lock: both queues are woken.            *)
Destroy(t) ==
    /\ pc[t] = "lock"
    /\ op[t].kind = "destroy"
    /\ LockFree(t)
    /\ ~destroyed
    /\ destroyed' = TRUE
    /\ depth' = 0 /\ head' = 0 /\ tail' = 0
    /\ waiter' = WokenAll(WokenAll(waiter, send_waiters, "destroyed"),
                          recv_waiters, "destroyed")
    /\ waiting_senders' = 0 /\ waiting_receivers' = 0 /\ waiting_tasks' = 0
    /\ send_waiters' = << >> /\ recv_waiters' = << >>
    /\ Goto(t, "release")
    /\ UNCHANGED <<registryVars, capacity, messages, lock, wait_result>>

(* ... and outside it: ipc_handle_release.                                 *)
Release(t) ==
    /\ pc[t] = "release"
    /\ allocated' = FALSE
    /\ Return(t, Reply("ok", 0))
    /\ UNCHANGED <<generation, issued, ringVars, queueVars, lock, waiter>>

-----------------------------------------------------------------------------
Init ==
    /\ generation = 0 /\ allocated = FALSE /\ issued = 0
    /\ destroyed = FALSE /\ capacity = 0
    /\ messages = [i \in 0 .. Capacity - 1 |-> 0]
    /\ head = 0 /\ tail = 0 /\ depth = 0
    /\ waiting_senders = 0 /\ waiting_receivers = 0 /\ waiting_tasks = 0
    /\ send_waiters = << >> /\ recv_waiters = << >>
    /\ lock = NoTask
    /\ pc = [t \in Task |-> "idle"]
    /\ op = [t \in Task |-> NoOp]
    /\ waiter = [t \in Task |-> NoWaiter]
    /\ wait_result = [t \in Task |-> "ok"]
    /\ ret = [t \in Task |-> NoReply]

(* A task may call...                                                      *)
Begin(t) == Reject(t) \/ Call(t) \/ CreateNoSpace(t) \/ Allocate(t)

(* ... and, once in a call, goes on with it.                               *)
Step(t) ==
    \/ ClearObject(t) \/ SetupObject(t)
    \/ FindDestroyed(t) \/ TrySendInvalid(t) \/ Send(t) \/ Recv(t)
    \/ RecvTooSmall(t) \/ Refuse(t) \/ ZeroTimeout(t) \/ Park(t)
    \/ BlockTaken(t) \/ BlockTimeout(t) \/ GiveUp(t)
    \/ Destroy(t) \/ Release(t)

Next == \E t \in Task : Begin(t) \/ Step(t)

Spec == Init /\ [][Next]_vars

(* The scheduler runs every ready task, and time passes for those that     *)
(* wait with a deadline; nobody has to make another call.                  *)
FairSpec == Spec /\ \A t \in Task : WF_vars(Step(t))

-----------------------------------------------------------------------------
(* Properties.                                                             *)

(* Every variable has its type.                                            *)
RegistryTypeOK ==
    /\ generation \in 0 .. MaxGen
    /\ issued \in 0 .. generation
    /\ allocated \in BOOLEAN

RingTypeOK ==
    /\ destroyed \in BOOLEAN
    /\ capacity \in {0, Capacity}
    /\ messages \in [0 .. Capacity - 1 -> Lengths \cup {0}]
    /\ head \in 0 .. Capacity - 1
    /\ tail \in 0 .. Capacity - 1
    /\ depth \in 0 .. Capacity

QueueTypeOK ==
    /\ waiting_senders \in Nat
    /\ waiting_receivers \in Nat
    /\ waiting_tasks \in Nat
    /\ send_waiters \in Seq(Task)
    /\ recv_waiters \in Seq(Task)
    /\ lock \in Task \cup {NoTask}

TaskTypeOK ==
    /\ pc \in [Task -> Location]
    /\ op \in [Task -> HandleOp \cup {CreateOp, NoOp}]
    /\ waiter \in [Task -> Waiter]
    /\ wait_result \in [Task -> WaitResult]
    /\ ret \in [Task -> [error : IpcError, length : Lengths \cup {0}]]

TypeOK == RegistryTypeOK /\ RingTypeOK /\ QueueTypeOK /\ TaskTypeOK

(* The ring is never over-full, and head, tail and depth agree on where    *)
(* the messages are, across wrap-around, destroy and reuse.                *)
RingConsistent ==
    /\ depth <= capacity
    /\ capacity > 0 => tail = (head + depth) % capacity
    /\ capacity = 0 => head = 0 /\ tail = 0

(* The waiters of the calls of a kind.                                     *)
Waiters(kind) == IF kind = "send" THEN send_waiters ELSE recv_waiters

(* The waiters of a queue are stack variables of tasks that are still      *)
(* blocked there in a call of that kind: a task that has left its wait, or *)
(* given up, is not reachable from a queue, and none is in it twice.       *)
QueuedAreParked ==
    /\ IsInjective(send_waiters) /\ IsInjective(recv_waiters)
    /\ \A t \in Task, k \in {"send", "recv"} : Contains(Waiters(k), t) =>
          /\ pc[t] \in {"wait", "relock"}
          /\ op[t].kind = k
          /\ waiter[t].enqueued

(* A task that waits with nobody having woken it can be found by a wake,   *)
(* and a task that timed out and is not found there was taken out by one:  *)
(* the flag ipc_waiter_remove trusts says which of the two it is.          *)
ParkedAreQueued ==
    \A t \in Task :
        /\ pc[t] = "wait" => waiter[t].enqueued \/ waiter[t].given
        /\ waiter[t].enqueued => Contains(Waiters(op[t].kind), t)

(* The counters the diagnostics report are those of the queues, whoever    *)
(* took a waiter out: a waker, its own timeout or a destroy.               *)
WaitersCounted ==
    /\ waiting_senders = Len(send_waiters)
    /\ waiting_receivers = Len(recv_waiters)
    /\ waiting_tasks = waiting_senders + waiting_receivers

(* What makes the three inductive: where in its call a task's waiter is in *)
(* which state. A waiter that waits is either enqueued, and armed, or has  *)
(* been given its semaphore; one that is still enqueued when its task      *)
(* comes back from the wait has timed out, and was not given it.           *)
WaiterState ==
    \A t \in Task :
        /\ pc[t] \in {"wait", "relock"} => op[t].kind \in {"send", "recv"}
        /\ waiter[t].enqueued => pc[t] \in {"wait", "relock"}
        /\ pc[t] = "wait" => (waiter[t].enqueued <=> ~waiter[t].given)
        /\ pc[t] = "wait" /\ waiter[t].enqueued => waiter[t].armed
        /\ pc[t] = "relock" /\ waiter[t].enqueued
              => wait_result[t] = "timeout" /\ ~waiter[t].given

(* And, when the slot is reused in an orderly way: nobody else is in a     *)
(* call while it is set up, nor has a handle that leads to it.             *)
Creating ==
    \A t \in Task : pc[t] \in {"clear", "setup"} =>
        /\ allocated
        /\ issued < generation
        /\ \A u \in Task \ {t} : pc[u] = "idle"

(* The tasks of a kind of call that have been woken and have not yet       *)
(* looked at the ring again.                                               *)
WokenTasks(kind) ==
    {t \in Task :
        /\ op[t].kind = kind
        /\ \/ pc[t] = "wait" /\ waiter[t].given /\ waiter[t].result = "ok"
           \/ pc[t] = "relock" /\ wait_result[t] = "ok"}

(* No wakeup is lost: while receivers wait, every message in the ring has  *)
(* a woken receiver on its way to it; while senders wait, every free slot  *)
(* has a woken sender. (Where callers wait forever or not at all, and      *)
(* their buffers are large enough.)                                        *)
NoLostWakeup ==
    /\ recv_waiters # << >> => depth <= Cardinality(WokenTasks("recv"))
    /\ send_waiters # << >> =>
          capacity - depth <= Cardinality(WokenTasks("send"))

(* A wake takes the waiter of the highest priority, and among equals the   *)
(* one that has waited longest: no waiter of that queue that stays behind  *)
(* comes before it.                                                        *)
WakesInOrder(q, qn) ==
    \A i \in DOMAIN q, j \in DOMAIN q :
        /\ waiter'[q[i]].result = "ok" /\ waiter'[q[i]].given
        /\ Contains(qn, q[j])
        => \/ Prio[q[j]] < Prio[q[i]]
           \/ Prio[q[j]] = Prio[q[i]] /\ i < j

WakeOrder == [][/\ WakesInOrder(send_waiters, send_waiters')
                /\ WakesInOrder(recv_waiters, recv_waiters')]_vars

(* A try function returns: ipc_channel.h says of m_ipc_channel_try_send    *)
(* that "The call fails immediately when the queue is full".               *)
TryReturns ==
    \A t \in Task : (op[t].mode = "try") ~> (op[t].mode # "try")

(* A call acts on the channel its handle names, or fails because that one  *)
(* is gone: the abstract channel, with the ring read from head to tail.    *)
Opened   == capacity > 0 /\ ~destroyed
Contents == [i \in 1 .. depth |-> messages[(head + i - 1) % Capacity]]
Closing  == {t \in Task : pc[t] = "release"}

Abstract == INSTANCE BoundedChannel WITH
    Calls   <- HandleOp \cup {CreateOp},
    NoCall  <- NoOp,
    opened  <- issued,
    open    <- Opened,
    queue   <- Contents,
    pending <- op,
    closing <- Closing,
    reply   <- ret

ImplementsBoundedChannel == Abstract!Spec
=============================================================================
