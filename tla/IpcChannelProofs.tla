-------------------------- MODULE IpcChannelProofs --------------------------
(***************************************************************************)
(* Proofs about IpcChannel, for every number of tasks, capacity, set of    *)
(* lengths and number of generations of the slot.                          *)
(*                                                                         *)
(* TypeOK and RingConsistent are inductive together, and hold however the  *)
(* callers reuse the slot. The invariants of the wait queues hold if the   *)
(* callers reuse it in an orderly way; what makes them inductive is        *)
(* WaiterState, which says where in its call a task's waiter can be in     *)
(* which state, and Creating, which says that a slot that is being set up  *)
(* is out of everybody's reach. With them, a wake never passes over a      *)
(* waiter that comes first.                                                *)
(*                                                                         *)
(* The second part is about the calls: that they implement BoundedChannel, *)
(* and that no wakeup is lost.                                             *)
(***************************************************************************)
EXTENDS IpcChannel, SequenceLemmas, FiniteSetTheorems

-----------------------------------------------------------------------------
(* The index arithmetic of the ring.                                        *)
LEMMA ModOnce ==
    ASSUME NEW n \in Nat \ {0}, NEW x \in 0 .. 2 * n - 1
    PROVE  x % n = IF x < n THEN x ELSE x - n
<1>1. CASE x < n
  BY <1>1
<1>2. CASE ~(x < n)
  BY <1>2
<1> QED BY <1>1, <1>2

LEMMA ModCapacity ==
    \A x \in 0 .. 2 * Capacity - 1 :
        x % Capacity = IF x < Capacity THEN x ELSE x - Capacity
BY ModOnce, ChannelAssumption

LEMMA ModSum ==
    ASSUME NEW a \in Nat, NEW b \in Nat, a + b \in 0 .. 2 * Capacity - 1
    PROVE  (a + b) % Capacity = IF a + b < Capacity THEN a + b
                                ELSE a + b - Capacity
BY ModCapacity, ChannelAssumption

-----------------------------------------------------------------------------
(* Types and the ring.                                                     *)

Replies == [error : IpcError, length : Lengths \cup {0}]

RingInv == TypeOK /\ RingConsistent

LEMMA ReplyType ==
    ASSUME NEW e \in IpcError, NEW n \in Lengths \cup {0}
    PROVE  Reply(e, n) \in Replies
BY DEF Reply, Replies

(* What is known of a call from its kind.                                  *)
LEMMA CallType ==
    ASSUME TaskTypeOK, NEW t \in Task
    PROVE  /\ op[t].kind = "send" => op[t].arg \in Lengths
           /\ op[t].kind \in {"none", "send", "recv", "destroy", "create"}
           /\ op[t].mode \in AllModes \cup {"none"}
           /\ op[t].arg \in Nat
<1>1. op[t] \in HandleOp \cup {CreateOp, NoOp}
  BY DEF TaskTypeOK
<1>2. CASE op[t] \in SendOp
  BY <1>2, ChannelAssumption DEF SendOp
<1>3. CASE op[t] \in RecvOp
  BY <1>3, ChannelAssumption DEF RecvOp
<1>4. CASE op[t] \in DestroyOp
  BY <1>4 DEF DestroyOp
<1>5. CASE op[t] \in {CreateOp, NoOp}
  BY <1>5 DEF CreateOp, NoOp
<1> QED BY <1>1, <1>2, <1>3, <1>4, <1>5 DEF HandleOp

(* A step that ends a call keeps the tasks' types.                         *)
LEMMA ReturnType ==
    ASSUME TaskTypeOK, NEW t \in Task, NEW r \in Replies, Return(t, r),
           waiter' \in [Task -> Waiter]
    PROVE  TaskTypeOK'
BY DEF TaskTypeOK, Return, Replies, Location, WaitResult

LEMMA RingInvInit == Init => RingInv
<1> SUFFICES ASSUME Init PROVE RingInv
  OBVIOUS
<1>0. allocated \in BOOLEAN /\ destroyed \in BOOLEAN
  BY Zenon DEF Init
<1>1. RegistryTypeOK
  BY <1>0, ChannelAssumption DEF Init, RegistryTypeOK
<1>2. RingTypeOK /\ RingConsistent
  BY <1>0, ChannelAssumption DEF Init, RingTypeOK, RingConsistent
<1>3. QueueTypeOK
  BY DEF Init, QueueTypeOK
<1>4. TaskTypeOK
  BY DEF Init, TaskTypeOK, Location, NoWaiter, Waiter, WaitResult, NoReply,
         Reply, IpcError
<1> QED BY <1>1, <1>2, <1>3, <1>4 DEF RingInv, TypeOK

(* The waiter a wake changes has the type of a waiter.                     *)
LEMMA WokenType ==
    ASSUME NEW w \in Waiter, NEW r \in WaitResult
    PROVE  Woken(w, r) \in Waiter
BY DEF Woken, Waiter, WaitResult

LEMMA WokenAllType ==
    ASSUME NEW w \in [Task -> Waiter], NEW q, NEW r \in WaitResult
    PROVE  WokenAll(w, q, r) \in [Task -> Waiter]
BY WokenType DEF WokenAll

LEMMA WakeReceiverType ==
    ASSUME QueueTypeOK, TaskTypeOK, WakeReceiver
    PROVE  /\ recv_waiters' \in Seq(Task)
           /\ waiter' \in [Task -> Waiter]
           /\ waiting_receivers' \in Nat /\ waiting_tasks' \in Nat
<1>1. CASE LeaveReceivers
  BY <1>1 DEF LeaveReceivers, QueueTypeOK, TaskTypeOK
<1>2. CASE PopReceiver
  <2>1. PICK i \in Picks(recv_waiters) :
            /\ recv_waiters' = RemoveAt(recv_waiters, i)
            /\ waiter' = [waiter EXCEPT ![recv_waiters[i]] = Woken(@, "ok")]
            /\ waiting_receivers' = Decremented(waiting_receivers)
            /\ waiting_tasks' = Decremented(waiting_tasks)
    BY <1>2 DEF PopReceiver
  <2>2. i \in 1 .. Len(recv_waiters) /\ recv_waiters[i] \in Task
    BY DEF Picks, QueueTypeOK
  <2>3. recv_waiters' \in Seq(Task)
    BY <2>1, <2>2, RemoveAtIndexed DEF QueueTypeOK
  <2>4. waiter' \in [Task -> Waiter]
    BY <2>1, <2>2, WokenType DEF TaskTypeOK, WaitResult
  <2> QED BY <2>1, <2>3, <2>4 DEF QueueTypeOK, Decremented
<1> QED BY <1>1, <1>2 DEF WakeReceiver

LEMMA WakeSenderType ==
    ASSUME QueueTypeOK, TaskTypeOK, WakeSender
    PROVE  /\ send_waiters' \in Seq(Task)
           /\ waiter' \in [Task -> Waiter]
           /\ waiting_senders' \in Nat /\ waiting_tasks' \in Nat
<1>1. CASE LeaveSenders
  BY <1>1 DEF LeaveSenders, QueueTypeOK, TaskTypeOK
<1>2. CASE PopSender
  <2>1. PICK i \in Picks(send_waiters) :
            /\ send_waiters' = RemoveAt(send_waiters, i)
            /\ waiter' = [waiter EXCEPT ![send_waiters[i]] = Woken(@, "ok")]
            /\ waiting_senders' = Decremented(waiting_senders)
            /\ waiting_tasks' = Decremented(waiting_tasks)
    BY <1>2 DEF PopSender
  <2>2. i \in 1 .. Len(send_waiters) /\ send_waiters[i] \in Task
    BY DEF Picks, QueueTypeOK
  <2>3. send_waiters' \in Seq(Task)
    BY <2>1, <2>2, RemoveAtIndexed DEF QueueTypeOK
  <2>4. waiter' \in [Task -> Waiter]
    BY <2>1, <2>2, WokenType DEF TaskTypeOK, WaitResult
  <2> QED BY <2>1, <2>3, <2>4 DEF QueueTypeOK, Decremented
<1> QED BY <1>1, <1>2 DEF WakeSender

(* The queue that is left when a waiter gives up is a queue.               *)
LEMMA UnlinkedType ==
    ASSUME NEW q \in Seq(Task), NEW t, NEW r \in Unlinked(q, t)
    PROVE  r \in Seq(Task)
<1>1. CASE Contains(q, t)
  <2>1. PICK i \in 1 .. Len(q) : r = RemoveAt(q, i)
    BY <1>1 DEF Unlinked
  <2> QED BY <2>1, RemoveAtIndexed
<1>2. CASE ~Contains(q, t)
  BY <1>2 DEF Unlinked
<1> QED BY <1>1, <1>2

(* A message goes in at the tail...                                        *)
LEMMA RingSend ==
    ASSUME RingInv, NEW t \in Task, Send(t)
    PROVE  RingTypeOK' /\ RingConsistent'
<1>1. /\ capacity = Capacity /\ Capacity \in Nat \ {0}
      /\ depth \in 0 .. Capacity - 1 /\ head \in 0 .. Capacity - 1
      /\ tail = (head + depth) % Capacity /\ tail \in 0 .. Capacity - 1
  BY ChannelAssumption
     DEF RingInv, TypeOK, RingTypeOK, RingConsistent, Send, Full
<1>2. /\ tail' = (tail + 1) % Capacity /\ depth' = depth + 1 /\ head' = head
      /\ capacity' = capacity /\ destroyed' = destroyed
      /\ messages' = [messages EXCEPT ![tail] = op[t].arg]
  BY <1>1 DEF Send, Following
<1>3. op[t].arg \in Lengths
  BY CallType DEF RingInv, TypeOK, Send, InSection
<1>3a. tail \in Nat /\ head \in Nat /\ depth \in Nat /\ 1 \in Nat
  BY <1>1
<1>4. (tail + 1) % Capacity
        = IF tail + 1 < Capacity THEN tail + 1 ELSE tail + 1 - Capacity
  <2>1. tail + 1 \in 0 .. 2 * Capacity - 1
    BY <1>1
  <2> QED BY <2>1, <1>3a, ModSum, Zenon
<1>4a. (head + depth) % Capacity
         = IF head + depth < Capacity THEN head + depth
           ELSE head + depth - Capacity
  <2>1. head + depth \in 0 .. 2 * Capacity - 1
    BY <1>1
  <2> QED BY <2>1, <1>3a, ModSum, Zenon
<1>4b. (head + depth + 1) % Capacity
         = IF head + depth + 1 < Capacity THEN head + depth + 1
           ELSE head + depth + 1 - Capacity
  <2>1. head + depth + 1 \in 0 .. 2 * Capacity - 1
    BY <1>1
  <2>2. head + depth \in Nat /\ 1 \in Nat
    BY <1>1
  <2> QED BY <2>1, <2>2, ModSum, Zenon
<1>5. tail' = (head' + depth') % capacity'
  BY <1>1, <1>2, <1>4, <1>4a, <1>4b
<1>6. tail' \in 0 .. Capacity - 1 /\ depth' \in 0 .. Capacity
  BY <1>1, <1>2, <1>4
<1>7. messages' \in [0 .. Capacity - 1 -> Lengths \cup {0}]
  BY <1>2, <1>3 DEF RingInv, TypeOK, RingTypeOK
<1>8. destroyed' \in BOOLEAN
  BY <1>2 DEF RingInv, TypeOK, RingTypeOK
<1> QED
  BY <1>1, <1>2, <1>5, <1>6, <1>7, <1>8 DEF RingTypeOK, RingConsistent

(* ... and out at the head.                                                *)
LEMMA RingRecv ==
    ASSUME RingInv, NEW t \in Task, Recv(t)
    PROVE  RingTypeOK' /\ RingConsistent'
<1>1. /\ capacity = Capacity /\ Capacity \in Nat \ {0}
      /\ depth \in 1 .. Capacity /\ head \in 0 .. Capacity - 1
      /\ tail = (head + depth) % Capacity /\ tail \in 0 .. Capacity - 1
  BY ChannelAssumption
     DEF RingInv, TypeOK, RingTypeOK, RingConsistent, Recv, Empty
<1>2. /\ head' = (head + 1) % Capacity /\ depth' = depth - 1 /\ tail' = tail
      /\ capacity' = capacity /\ destroyed' = destroyed /\ messages' = messages
  BY <1>1 DEF Recv, Following
<1>2a. head \in Nat /\ depth \in Nat /\ depth' \in Nat /\ 1 \in Nat
  BY <1>1, <1>2
<1>3. (head + 1) % Capacity
        = IF head + 1 < Capacity THEN head + 1 ELSE head + 1 - Capacity
  <2>1. head + 1 \in 0 .. 2 * Capacity - 1
    BY <1>1
  <2> QED BY <2>1, <1>2a, ModSum, Zenon
<1>4. (head + depth) % Capacity
        = IF head + depth < Capacity THEN head + depth
          ELSE head + depth - Capacity
  <2>1. head + depth \in 0 .. 2 * Capacity - 1
    BY <1>1
  <2> QED BY <2>1, <1>2a, ModSum, Zenon
<1>4a. (head' + depth') % Capacity
         = IF head' + depth' < Capacity THEN head' + depth'
           ELSE head' + depth' - Capacity
  <2>1. head' \in Nat
    BY <1>1, <1>2, <1>3
  <2>2. head' + depth' \in 0 .. 2 * Capacity - 1
    BY <1>1, <1>2, <1>3
  <2> QED BY <2>1, <2>2, <1>2a, ModSum, Zenon
<1>5. tail' = (head' + depth') % capacity'
  BY <1>1, <1>2, <1>3, <1>4, <1>4a
<1>6. head' \in 0 .. Capacity - 1 /\ depth' \in 0 .. Capacity
  BY <1>1, <1>2, <1>3
<1>7. /\ messages' \in [0 .. Capacity - 1 -> Lengths \cup {0}]
      /\ destroyed' \in BOOLEAN
  BY <1>2 DEF RingInv, TypeOK, RingTypeOK
<1> QED
  BY <1>1, <1>2, <1>5, <1>6, <1>7 DEF RingTypeOK, RingConsistent

LEMMA SameRegistry ==
    RegistryTypeOK /\ UNCHANGED registryVars => RegistryTypeOK'
BY DEF RegistryTypeOK, registryVars

LEMMA SameRing ==
    RingTypeOK /\ RingConsistent /\ UNCHANGED ringVars
        => RingTypeOK' /\ RingConsistent'
BY DEF RingTypeOK, RingConsistent, ringVars

LEMMA SameQueues ==
    QueueTypeOK /\ UNCHANGED <<queueVars, lock>> => QueueTypeOK'
BY DEF QueueTypeOK, queueVars

(* A step that goes on with a call keeps the tasks' types.                 *)
LEMMA GotoType ==
    ASSUME TaskTypeOK, NEW t \in Task, NEW l \in Location, Goto(t, l),
           waiter' \in [Task -> Waiter], wait_result' \in [Task -> WaitResult]
    PROVE  TaskTypeOK'
BY DEF TaskTypeOK, Goto

(* The steps outside the lock.                                             *)
LEMMA RingInvBegin ==
    ASSUME RingInv, NEW t \in Task, Begin(t)
    PROVE  RingInv'
<1>0. /\ RegistryTypeOK /\ RingTypeOK /\ QueueTypeOK /\ TaskTypeOK
      /\ RingConsistent
  BY DEF RingInv, TypeOK
<1>1. CASE Reject(t)
  <2>1. PICK o \in HandleOp :
            ret' = [ret EXCEPT ![t] = Reply(EarlyError(o), 0)]
    BY <1>1 DEF Reject
  <2>2. Reply(EarlyError(o), 0) \in Replies
    BY ReplyType DEF EarlyError, IpcError
  <2>3. TaskTypeOK'
    BY <1>0, <1>1, <2>1, <2>2 DEF Reject, TaskTypeOK, Replies
  <2> QED
    BY <1>0, <1>1, <2>3, SameRegistry, SameRing, SameQueues
       DEF Reject, RingInv, TypeOK
<1>2. CASE Call(t)
  <2>1. NoReply \in Replies
    BY ReplyType DEF NoReply, IpcError
  <2>2. TaskTypeOK'
    BY <1>0, <1>2, <2>1 DEF Call, TaskTypeOK, Replies, Location
  <2> QED
    BY <1>0, <1>2, <2>2, SameRegistry, SameRing, SameQueues
       DEF Call, RingInv, TypeOK
<1>3. CASE CreateNoSpace(t)
  <2>1. Reply("no_space", 0) \in Replies
    BY ReplyType DEF IpcError
  <2>2. TaskTypeOK'
    BY <1>0, <1>3, <2>1 DEF CreateNoSpace, TaskTypeOK, Replies
  <2> QED
    BY <1>0, <1>3, <2>2, SameRegistry, SameRing, SameQueues
       DEF CreateNoSpace, RingInv, TypeOK
<1>4. CASE Allocate(t)
  <2>1. NoReply \in Replies
    BY ReplyType DEF NoReply, IpcError
  <2>2. TaskTypeOK'
    BY <1>0, <1>4, <2>1 DEF Allocate, TaskTypeOK, Replies, Location
  <2>3. allocated' \in BOOLEAN
    BY <1>4, Zenon DEF Allocate
  <2>4. RegistryTypeOK'
    BY <1>0, <1>4, <2>3, ChannelAssumption DEF Allocate, RegistryTypeOK
  <2> QED
    BY <1>0, <1>4, <2>2, <2>4, SameRing, SameQueues
       DEF Allocate, RingInv, TypeOK
<1> QED BY <1>1, <1>2, <1>3, <1>4 DEF Begin

LEMMA RingInvStep ==
    ASSUME RingInv, NEW t \in Task, Step(t)
    PROVE  RingInv'
<1>0. /\ RegistryTypeOK /\ RingTypeOK /\ QueueTypeOK /\ TaskTypeOK
      /\ RingConsistent /\ waiter \in [Task -> Waiter]
  BY DEF RingInv, TypeOK, TaskTypeOK
<1>1. CASE ClearObject(t)
  <2>1. destroyed' \in BOOLEAN
    BY <1>1, Zenon DEF ClearObject
  <2>2. RingTypeOK' /\ RingConsistent'
    BY <2>1, <1>1, ChannelAssumption DEF ClearObject, RingTypeOK, RingConsistent
  <2>3. QueueTypeOK'
    BY <1>1 DEF ClearObject, QueueTypeOK
  <2>4. TaskTypeOK'
    BY <1>0, <1>1, GotoType DEF ClearObject, TaskTypeOK, Location
  <2> QED
    BY <1>0, <1>1, <2>2, <2>3, <2>4, SameRegistry
       DEF ClearObject, RingInv, TypeOK
<1>2. CASE SetupObject(t)
  <2>1. TaskTypeOK'
    BY <1>0, <1>2, ReplyType, ReturnType DEF SetupObject, IpcError
  <2>2. RegistryTypeOK'
    BY <1>0, <1>2 DEF SetupObject, RegistryTypeOK
  <2>3. QueueTypeOK'
    BY <1>0, <1>2 DEF SetupObject, QueueTypeOK
  <2>4. RingTypeOK' /\ RingConsistent'
    <3>1. /\ capacity' = Capacity /\ head' = head /\ tail' = tail
          /\ depth' = depth /\ messages' = messages /\ destroyed' = destroyed
      BY <1>2 DEF SetupObject
    <3>2. CASE capacity = 0
      <4>1. head = 0 /\ tail = 0 /\ depth = 0 /\ (0 + 0) % Capacity = 0
        BY <1>0, <3>2, ModCapacity, ChannelAssumption
           DEF RingTypeOK, RingConsistent
      <4> QED
        BY <1>0, <3>1, <4>1, ChannelAssumption DEF RingTypeOK, RingConsistent
    <3>3. CASE capacity = Capacity
      BY <1>0, <3>1, <3>3, ChannelAssumption DEF RingTypeOK, RingConsistent
    <3> QED BY <1>0, <3>2, <3>3 DEF RingTypeOK
  <2> QED BY <2>1, <2>2, <2>3, <2>4 DEF RingInv, TypeOK
<1>3. CASE FindDestroyed(t)
  <2>1. TaskTypeOK'
    BY <1>0, <1>3, ReplyType, ReturnType DEF FindDestroyed, IpcError
  <2> QED
    BY <1>0, <1>3, <2>1, SameRegistry, SameRing, SameQueues
       DEF FindDestroyed, RingInv, TypeOK
<1>4. CASE TrySendInvalid(t)
  <2>1. TaskTypeOK'
    BY <1>0, <1>4, ReplyType, ReturnType DEF TrySendInvalid, IpcError
  <2> QED
    BY <1>0, <1>4, <2>1, SameRegistry, SameRing, SameQueues
       DEF TrySendInvalid, RingInv, TypeOK
<1>5. CASE Send(t)
  <2>1. /\ recv_waiters' \in Seq(Task) /\ waiter' \in [Task -> Waiter]
        /\ waiting_receivers' \in Nat /\ waiting_tasks' \in Nat
    BY <1>0, <1>5, WakeReceiverType DEF Send
  <2>2. TaskTypeOK'
    BY <1>0, <1>5, <2>1, ReplyType, ReturnType DEF Send, IpcError
  <2>3. QueueTypeOK'
    BY <1>0, <1>5, <2>1 DEF Send, QueueTypeOK
  <2>4. RegistryTypeOK'
    BY <1>0, <1>5, SameRegistry DEF Send
  <2> QED BY <1>5, <2>2, <2>3, <2>4, RingSend DEF RingInv, TypeOK
<1>6. CASE Recv(t)
  <2>1. /\ send_waiters' \in Seq(Task) /\ waiter' \in [Task -> Waiter]
        /\ waiting_senders' \in Nat /\ waiting_tasks' \in Nat
    BY <1>0, <1>6, WakeSenderType DEF Recv
  <2>2. messages[head] \in Lengths \cup {0}
    BY <1>0 DEF RingTypeOK
  <2>3. TaskTypeOK'
    BY <1>0, <1>6, <2>1, <2>2, ReplyType, ReturnType DEF Recv, IpcError
  <2>4. QueueTypeOK'
    BY <1>0, <1>6, <2>1 DEF Recv, QueueTypeOK
  <2>5. RegistryTypeOK'
    BY <1>0, <1>6, SameRegistry DEF Recv
  <2> QED BY <1>6, <2>3, <2>4, <2>5, RingRecv DEF RingInv, TypeOK
<1>7. CASE RecvTooSmall(t)
  <2>1. TaskTypeOK'
    BY <1>0, <1>7, ReplyType, ReturnType DEF RecvTooSmall, IpcError
  <2> QED
    BY <1>0, <1>7, <2>1, SameRegistry, SameRing, SameQueues
       DEF RecvTooSmall, RingInv, TypeOK
<1>8. CASE Refuse(t)
  <2>1. Reply(IF op[t].kind = "send" THEN "no_space" ELSE "not_ready", 0)
            \in Replies
    BY ReplyType DEF IpcError
  <2>2. TaskTypeOK'
    BY <1>0, <1>8, <2>1, ReturnType DEF Refuse
  <2> QED
    BY <1>0, <1>8, <2>2, SameRegistry, SameRing, SameQueues
       DEF Refuse, RingInv, TypeOK
<1>9. CASE ZeroTimeout(t)
  <2>1. TaskTypeOK'
    BY <1>0, <1>9, ReplyType, ReturnType DEF ZeroTimeout, IpcError
  <2>2. QueueTypeOK'
    BY <1>0, <1>9 DEF ZeroTimeout, QueueTypeOK, queueVars
  <2> QED
    BY <1>0, <1>9, <2>1, <2>2, SameRegistry, SameRing
       DEF ZeroTimeout, RingInv, TypeOK
<1>10. CASE Park(t)
  <2>1. waiter' \in [Task -> Waiter]
    BY <1>0, <1>10 DEF Park, PreparedWaiter, Waiter, WaitResult
  <2>2. wait_result' \in [Task -> WaitResult]
    BY <1>0, <1>10 DEF Park, TaskTypeOK, WaitResult
  <2>3. TaskTypeOK'
    BY <1>0, <1>10, <2>1, <2>2, GotoType DEF Park, Location
  <2>4. QueueTypeOK'
    <3>0. /\ Append(send_waiters, t) \in Seq(Task)
          /\ Append(recv_waiters, t) \in Seq(Task)
      BY <1>0 DEF QueueTypeOK
    <3>1. /\ send_waiters' \in {send_waiters, Append(send_waiters, t)}
          /\ recv_waiters' \in {recv_waiters, Append(recv_waiters, t)}
          /\ waiting_senders' \in {waiting_senders, waiting_senders + 1}
          /\ waiting_receivers' \in {waiting_receivers, waiting_receivers + 1}
          /\ waiting_tasks' = waiting_tasks + 1 /\ lock' = lock
      BY <1>10 DEF Park
    <3>2. send_waiters' \in Seq(Task) /\ recv_waiters' \in Seq(Task)
      BY <1>0, <3>0, <3>1, Zenon DEF QueueTypeOK
    <3>3. /\ waiting_senders' \in Nat /\ waiting_receivers' \in Nat
          /\ waiting_tasks' \in Nat /\ lock' \in Task \cup {NoTask}
      BY <1>0, <3>1 DEF QueueTypeOK
    <3> QED BY <3>2, <3>3 DEF QueueTypeOK
  <2> QED
    BY <1>0, <1>10, <2>3, <2>4, SameRegistry, SameRing
       DEF Park, RingInv, TypeOK
<1>11. CASE BlockTaken(t)
  <2>1. waiter' \in [Task -> Waiter] /\ waiter[t].result \in WaitResult
    BY <1>0, <1>11 DEF BlockTaken, NoWaiter, Waiter, WaitResult
  <2>2. wait_result' \in [Task -> WaitResult]
    BY <1>0, <1>11, <2>1 DEF BlockTaken, TaskTypeOK
  <2>3. TaskTypeOK'
    BY <1>0, <1>11, <2>1, <2>2, GotoType DEF BlockTaken, Location
  <2> QED
    BY <1>0, <1>11, <2>3, SameRegistry, SameRing, SameQueues
       DEF BlockTaken, RingInv, TypeOK
<1>12. CASE BlockTimeout(t)
  <2>1. waiter' \in [Task -> Waiter]
    BY <1>0, <1>12 DEF BlockTimeout, TimedOut, Waiter, WaitResult
  <2>2. wait_result' \in [Task -> WaitResult]
    BY <1>0, <1>12 DEF BlockTimeout, TaskTypeOK, WaitResult
  <2>3. TaskTypeOK'
    BY <1>0, <1>12, <2>1, <2>2, GotoType DEF BlockTimeout, Location
  <2> QED
    BY <1>0, <1>12, <2>3, SameRegistry, SameRing, SameQueues
       DEF BlockTimeout, RingInv, TypeOK
<1>13. CASE GiveUp(t)
  <2>1. waiter' \in [Task -> Waiter]
    BY <1>0, <1>13 DEF GiveUp, NoWaiter, Waiter, WaitResult
  <2>2. Reply(IF destroyed THEN "destroyed" ELSE wait_result[t], 0) \in Replies
    <3>1. wait_result[t] \in IpcError /\ "destroyed" \in IpcError
      BY <1>0 DEF TaskTypeOK, WaitResult, IpcError
    <3> QED BY <3>1, ReplyType
  <2>3. TaskTypeOK'
    BY <1>0, <1>13, <2>1, <2>2, ReturnType DEF GiveUp
  <2>4. QueueTypeOK'
    <3>1. CASE ~waiter[t].enqueued
      BY <1>0, <1>13, <3>1 DEF GiveUp, QueueTypeOK, queueVars
    <3>2. CASE waiter[t].enqueued
      BY <1>0, <1>13, <3>2, UnlinkedType DEF GiveUp, QueueTypeOK, Decremented
    <3> QED BY <3>1, <3>2
  <2> QED
    BY <1>0, <1>13, <2>3, <2>4, SameRegistry, SameRing
       DEF GiveUp, RingInv, TypeOK
<1>14. CASE Destroy(t)
  <2>1. destroyed' \in BOOLEAN
    BY <1>14, Zenon DEF Destroy
  <2>2. RingTypeOK' /\ RingConsistent'
    BY <1>0, <2>1, <1>14, ChannelAssumption
       DEF Destroy, RingTypeOK, RingConsistent
  <2>3. waiter' \in [Task -> Waiter]
    BY <1>0, <1>14, WokenAllType DEF Destroy, WaitResult
  <2>4. TaskTypeOK'
    BY <1>0, <1>14, <2>3, GotoType DEF Destroy, TaskTypeOK, Location
  <2>5. QueueTypeOK'
    BY <1>0, <1>14 DEF Destroy, QueueTypeOK
  <2> QED
    BY <1>0, <1>14, <2>2, <2>4, <2>5, SameRegistry
       DEF Destroy, RingInv, TypeOK
<1>15. CASE Release(t)
  <2>1. TaskTypeOK'
    BY <1>0, <1>15, ReplyType, ReturnType DEF Release, IpcError
  <2>2. allocated' \in BOOLEAN
    BY <1>15, Zenon DEF Release
  <2>3. RegistryTypeOK'
    BY <1>0, <1>15, <2>2 DEF Release, RegistryTypeOK
  <2> QED
    BY <1>0, <1>15, <2>1, <2>3, SameRing, SameQueues
       DEF Release, RingInv, TypeOK
<1> QED
  BY <1>1, <1>2, <1>3, <1>4, <1>5, <1>6, <1>7, <1>8, <1>9, <1>10, <1>11,
     <1>12, <1>13, <1>14, <1>15 DEF Step

LEMMA RingInvNext == RingInv /\ [Next]_vars => RingInv'
<1> SUFFICES ASSUME RingInv, [Next]_vars PROVE RingInv'
  OBVIOUS
<1>1. CASE UNCHANGED vars
  BY <1>1, SameRegistry, SameRing, SameQueues
     DEF vars, taskVars, RingInv, TypeOK, TaskTypeOK
<1>2. CASE Next
  BY <1>2, RingInvBegin, RingInvStep DEF Next
<1> QED BY <1>1, <1>2

(* Whatever the callers do, every variable keeps its type...               *)
THEOREM TypeInvariance == Spec => []TypeOK
<1>1. Init => RingInv
  BY RingInvInit
<1>2. RingInv /\ [Next]_vars => RingInv'
  BY RingInvNext
<1>3. RingInv => TypeOK
  BY DEF RingInv
<1> QED BY <1>1, <1>2, <1>3, PTL DEF Spec

(* ... and the ring is consistent: head, tail and depth say where the      *)
(* messages are, however the slot is reused.                               *)
THEOREM RingInvariance == Spec => []RingConsistent
<1>1. Init => RingInv
  BY RingInvInit
<1>2. RingInv /\ [Next]_vars => RingInv'
  BY RingInvNext
<1>3. RingInv => RingConsistent
  BY DEF RingInv
<1> QED BY <1>1, <1>2, <1>3, PTL DEF Spec

-----------------------------------------------------------------------------
(* The wait queues.                                                        *)

(* A queue holds the enqueued waiters of the calls of its kind, each once. *)
Linked ==
    /\ IsInjective(send_waiters) /\ IsInjective(recv_waiters)
    /\ \A t \in Task :
        /\ Contains(send_waiters, t)
              <=> waiter[t].enqueued /\ op[t].kind = "send"
        /\ Contains(recv_waiters, t)
              <=> waiter[t].enqueued /\ op[t].kind = "recv"

QueueInv == Linked /\ WaitersCounted /\ WaiterState

(* A step of t leaves the other tasks where they are.                      *)
Alone(t) ==
    \A u \in Task : u # t =>
        pc'[u] = pc[u] /\ op'[u] = op[u] /\ wait_result'[u] = wait_result[u]

LEMMA ReturnAlone ==
    ASSUME TaskTypeOK, NEW t \in Task, NEW r, Return(t, r)
    PROVE  Alone(t) /\ pc'[t] = "idle"
BY DEF TaskTypeOK, Return, Alone

LEMMA GotoAlone ==
    ASSUME TaskTypeOK, NEW t \in Task, NEW l, Goto(t, l),
           \A u \in Task : u # t => wait_result'[u] = wait_result[u]
    PROVE  Alone(t) /\ pc'[t] = l /\ op'[t] = op[t]
BY DEF TaskTypeOK, Goto, Alone

LEMMA EmptyQueue ==
    /\ IsInjective(<< >>) /\ Len(<< >>) = 0
    /\ \A t : ~Contains(<< >>, t)
BY DEF IsInjective, Contains

(* A task whose waiter is in no queue moves, and does not park.            *)
LEMMA QueueInvMove ==
    ASSUME QueueInv, NEW t \in Task, Alone(t), UNCHANGED queueVars,
           ~waiter[t].enqueued, ~waiter'[t].enqueued,
           \A u \in Task : u # t => waiter'[u] = waiter[u],
           pc'[t] \notin {"wait", "relock"}
    PROVE  QueueInv'
<1>1. Linked'
  BY DEF QueueInv, Linked, Alone, queueVars
<1>2. WaitersCounted'
  BY DEF QueueInv, WaitersCounted, queueVars
<1>3. WaiterState'
  BY DEF QueueInv, WaiterState, Alone
<1> QED BY <1>1, <1>2, <1>3 DEF QueueInv

(* A waker takes the waiter of another task out of its queue.              *)
LEMMA QueueInvWakeReceiver ==
    ASSUME QueueTypeOK, TaskTypeOK, QueueInv, NEW t \in Task,
           ~waiter[t].enqueued, Alone(t), pc'[t] = "idle", WakeReceiver,
           UNCHANGED <<send_waiters, waiting_senders>>
    PROVE  QueueInv'
<1>1. CASE LeaveReceivers
  BY <1>1, QueueInvMove DEF LeaveReceivers, queueVars
<1>2. CASE PopReceiver
  <2>1. PICK i \in Picks(recv_waiters) :
            /\ recv_waiters' = RemoveAt(recv_waiters, i)
            /\ waiter' = [waiter EXCEPT ![recv_waiters[i]] = Woken(@, "ok")]
            /\ waiting_receivers' = Decremented(waiting_receivers)
            /\ waiting_tasks' = Decremented(waiting_tasks)
    BY <1>2 DEF PopReceiver
  <2> DEFINE w == recv_waiters[i]
  <2>2. /\ i \in 1 .. Len(recv_waiters) /\ w \in Task
        /\ Len(recv_waiters) \in Nat \ {0} /\ Len(send_waiters) \in Nat
    BY DEF Picks, QueueTypeOK
  <2>3. Contains(recv_waiters, w)
    BY <2>2 DEF Contains
  <2>4. waiter[w].enqueued /\ op[w].kind = "recv" /\ w # t
    BY <2>2, <2>3 DEF QueueInv, Linked
  <2>5. /\ Len(recv_waiters') = Len(recv_waiters) - 1
        /\ IsInjective(recv_waiters')
        /\ \A u : Contains(recv_waiters', u) <=> Contains(recv_waiters, u) /\ u # w
    BY <2>1, <2>2, RemoveAtIndexed, RemoveAtContains
       DEF QueueInv, Linked, QueueTypeOK
  <2>6. /\ waiter'[w] = Woken(waiter[w], "ok")
        /\ \A u \in Task : u # w => waiter'[u] = waiter[u]
    BY <2>1, <2>2 DEF TaskTypeOK
  <2>6a. ~waiter'[w].enqueued /\ waiter'[w].given = (waiter[w].given \/ waiter[w].armed)
    BY <2>6 DEF Woken
  <2> HIDE DEF w
  <2>7. Linked'
    <3>1. IsInjective(send_waiters') /\ IsInjective(recv_waiters')
      BY <2>5 DEF QueueInv, Linked
    <3>2. ASSUME NEW u \in Task
          PROVE  /\ Contains(send_waiters', u)
                       <=> waiter'[u].enqueued /\ op'[u].kind = "send"
                 /\ Contains(recv_waiters', u)
                       <=> waiter'[u].enqueued /\ op'[u].kind = "recv"
      <4>1. CASE u = w
        BY <4>1, <2>2, <2>4, <2>5, <2>6a DEF QueueInv, Linked
      <4>2. CASE u = t
        BY <4>2, <2>4, <2>5, <2>6 DEF QueueInv, Linked
      <4>3. CASE u # w /\ u # t
        BY <4>3, <2>5, <2>6 DEF QueueInv, Linked, Alone
      <4> QED BY <4>1, <4>2, <4>3
    <3> QED BY <3>1, <3>2 DEF Linked
  <2>8. WaitersCounted'
    BY <2>1, <2>2, <2>5 DEF QueueInv, WaitersCounted, Decremented
  <2>9. WaiterState'
    <3> SUFFICES ASSUME NEW u \in Task
                 PROVE  WaiterState!(u)'
      BY DEF WaiterState
    <3>1. CASE u = w
      BY <3>1, <2>2, <2>4, <2>6a DEF QueueInv, WaiterState, Alone
    <3>2. CASE u = t
      BY <3>2, <2>4, <2>6 DEF QueueInv, WaiterState
    <3>3. CASE u # w /\ u # t
      BY <3>3, <2>6 DEF QueueInv, WaiterState, Alone
    <3> QED BY <3>1, <3>2, <3>3
  <2> QED BY <2>7, <2>8, <2>9 DEF QueueInv
<1> QED BY <1>1, <1>2 DEF WakeReceiver

LEMMA QueueInvWakeSender ==
    ASSUME QueueTypeOK, TaskTypeOK, QueueInv, NEW t \in Task,
           ~waiter[t].enqueued, Alone(t), pc'[t] = "idle", WakeSender,
           UNCHANGED <<recv_waiters, waiting_receivers>>
    PROVE  QueueInv'
<1>1. CASE LeaveSenders
  BY <1>1, QueueInvMove DEF LeaveSenders, queueVars
<1>2. CASE PopSender
  <2>1. PICK i \in Picks(send_waiters) :
            /\ send_waiters' = RemoveAt(send_waiters, i)
            /\ waiter' = [waiter EXCEPT ![send_waiters[i]] = Woken(@, "ok")]
            /\ waiting_senders' = Decremented(waiting_senders)
            /\ waiting_tasks' = Decremented(waiting_tasks)
    BY <1>2 DEF PopSender
  <2> DEFINE w == send_waiters[i]
  <2>2. /\ i \in 1 .. Len(send_waiters) /\ w \in Task
        /\ Len(send_waiters) \in Nat \ {0} /\ Len(recv_waiters) \in Nat
    BY DEF Picks, QueueTypeOK
  <2>3. Contains(send_waiters, w)
    BY <2>2 DEF Contains
  <2>4. waiter[w].enqueued /\ op[w].kind = "send" /\ w # t
    BY <2>2, <2>3 DEF QueueInv, Linked
  <2>5. /\ Len(send_waiters') = Len(send_waiters) - 1
        /\ IsInjective(send_waiters')
        /\ \A u : Contains(send_waiters', u) <=> Contains(send_waiters, u) /\ u # w
    BY <2>1, <2>2, RemoveAtIndexed, RemoveAtContains
       DEF QueueInv, Linked, QueueTypeOK
  <2>6. /\ waiter'[w] = Woken(waiter[w], "ok")
        /\ \A u \in Task : u # w => waiter'[u] = waiter[u]
    BY <2>1, <2>2 DEF TaskTypeOK
  <2>6a. ~waiter'[w].enqueued /\ waiter'[w].given = (waiter[w].given \/ waiter[w].armed)
    BY <2>6 DEF Woken
  <2> HIDE DEF w
  <2>7. Linked'
    <3>1. IsInjective(recv_waiters') /\ IsInjective(send_waiters')
      BY <2>5 DEF QueueInv, Linked
    <3>2. ASSUME NEW u \in Task
          PROVE  /\ Contains(recv_waiters', u)
                       <=> waiter'[u].enqueued /\ op'[u].kind = "recv"
                 /\ Contains(send_waiters', u)
                       <=> waiter'[u].enqueued /\ op'[u].kind = "send"
      <4>1. CASE u = w
        BY <4>1, <2>2, <2>4, <2>5, <2>6a DEF QueueInv, Linked
      <4>2. CASE u = t
        BY <4>2, <2>4, <2>5, <2>6 DEF QueueInv, Linked
      <4>3. CASE u # w /\ u # t
        BY <4>3, <2>5, <2>6 DEF QueueInv, Linked, Alone
      <4> QED BY <4>1, <4>2, <4>3
    <3> QED BY <3>1, <3>2 DEF Linked
  <2>8. WaitersCounted'
    BY <2>1, <2>2, <2>5 DEF QueueInv, WaitersCounted, Decremented
  <2>9. WaiterState'
    <3> SUFFICES ASSUME NEW u \in Task
                 PROVE  WaiterState!(u)'
      BY DEF WaiterState
    <3>1. CASE u = w
      BY <3>1, <2>2, <2>4, <2>6a DEF QueueInv, WaiterState, Alone
    <3>2. CASE u = t
      BY <3>2, <2>4, <2>6 DEF QueueInv, WaiterState
    <3>3. CASE u # w /\ u # t
      BY <3>3, <2>6 DEF QueueInv, WaiterState, Alone
    <3> QED BY <3>1, <3>2, <3>3
  <2> QED BY <2>7, <2>8, <2>9 DEF QueueInv
<1> QED BY <1>1, <1>2 DEF WakeSender

(* A task that blocks becomes the last waiter of its queue.                *)
LEMMA QueueInvPark ==
    ASSUME QueueTypeOK, TaskTypeOK, QueueInv, NEW t \in Task, Park(t)
    PROVE  QueueInv'
<1>1. ~waiter[t].enqueued
  BY DEF Park, Blocked, InSection, QueueInv, WaiterState
<1>2. /\ Alone(t) /\ pc'[t] = "wait" /\ op'[t] = op[t]
      /\ waiter'[t] = PreparedWaiter
      /\ \A u \in Task : u # t => waiter'[u] = waiter[u]
  BY GotoAlone DEF Park, TaskTypeOK
<1>3. Len(send_waiters) \in Nat /\ Len(recv_waiters) \in Nat
  BY DEF QueueTypeOK
<1>4. WaiterState'
  <2> SUFFICES ASSUME NEW u \in Task PROVE WaiterState!(u)'
    BY DEF WaiterState
  <2>1. CASE u = t
    <3>1. op[t].kind \in {"send", "recv"}
      BY DEF Park, Blocked, InSection
    <3> QED BY <2>1, <3>1, <1>2 DEF PreparedWaiter
  <2>2. CASE u # t
    BY <2>2, <1>2 DEF QueueInv, WaiterState, Alone
  <2> QED BY <2>1, <2>2
<1>5. CASE op[t].kind = "send"
  <2>1. /\ send_waiters' = Append(send_waiters, t)
        /\ waiting_senders' = waiting_senders + 1
        /\ waiting_tasks' = waiting_tasks + 1
        /\ UNCHANGED <<recv_waiters, waiting_receivers>>
    BY <1>5 DEF Park
  <2>2. /\ Len(send_waiters') = Len(send_waiters) + 1
        /\ IsInjective(send_waiters')
        /\ \A u : Contains(send_waiters', u) <=> Contains(send_waiters, u) \/ u = t
    BY <1>1, <2>1, AppendContains DEF QueueInv, Linked, QueueTypeOK
  <2>3. WaitersCounted'
    BY <1>3, <2>1, <2>2 DEF QueueInv, WaitersCounted
  <2>4. Linked'
    BY <1>1, <1>2, <1>5, <2>1, <2>2
       DEF QueueInv, Linked, Alone, PreparedWaiter
  <2> QED BY <1>4, <2>3, <2>4 DEF QueueInv
<1>6. CASE op[t].kind = "recv"
  <2>1. /\ recv_waiters' = Append(recv_waiters, t)
        /\ waiting_receivers' = waiting_receivers + 1
        /\ waiting_tasks' = waiting_tasks + 1
        /\ UNCHANGED <<send_waiters, waiting_senders>>
    BY <1>6 DEF Park
  <2>2. /\ Len(recv_waiters') = Len(recv_waiters) + 1
        /\ IsInjective(recv_waiters')
        /\ \A u : Contains(recv_waiters', u) <=> Contains(recv_waiters, u) \/ u = t
    BY <1>1, <2>1, AppendContains DEF QueueInv, Linked, QueueTypeOK
  <2>3. WaitersCounted'
    BY <1>3, <2>1, <2>2 DEF QueueInv, WaitersCounted
  <2>4. Linked'
    BY <1>1, <1>2, <1>6, <2>1, <2>2
       DEF QueueInv, Linked, Alone, PreparedWaiter
  <2> QED BY <1>4, <2>3, <2>4 DEF QueueInv
<1> QED BY <1>5, <1>6 DEF Park, Blocked, InSection

(* The wait ends, and the task is on its way back to the lock.             *)
LEMMA QueueInvBlockEnds ==
    ASSUME TaskTypeOK, QueueInv, NEW t \in Task, BlockTaken(t) \/ BlockTimeout(t)
    PROVE  QueueInv'
<1>1. /\ Alone(t) /\ pc'[t] = "relock" /\ op'[t] = op[t] /\ pc[t] = "wait"
      /\ \A u \in Task : u # t => waiter'[u] = waiter[u]
      /\ UNCHANGED queueVars
  BY GotoAlone DEF BlockTaken, BlockTimeout, TaskTypeOK
<1>2. /\ waiter'[t].enqueued = waiter[t].enqueued
      /\ waiter'[t].enqueued => wait_result'[t] = "timeout" /\ ~waiter'[t].given
  <2>1. CASE BlockTaken(t)
    BY <2>1 DEF BlockTaken, TaskTypeOK, QueueInv, WaiterState, NoWaiter, Waiter
  <2>2. CASE BlockTimeout(t)
    BY <2>2 DEF BlockTimeout, TaskTypeOK, TimedOut, Waiter
  <2> QED BY <2>1, <2>2
<1>3. Linked'
  BY <1>1, <1>2 DEF QueueInv, Linked, Alone, queueVars
<1>4. WaitersCounted'
  BY <1>1 DEF QueueInv, WaitersCounted, queueVars
<1>5. WaiterState'
  <2> SUFFICES ASSUME NEW u \in Task PROVE WaiterState!(u)'
    BY DEF WaiterState
  <2>1. CASE u = t
    BY <2>1, <1>1, <1>2 DEF QueueInv, WaiterState
  <2>2. CASE u # t
    BY <2>2, <1>1 DEF QueueInv, WaiterState, Alone
  <2> QED BY <2>1, <2>2
<1> QED BY <1>3, <1>4, <1>5 DEF QueueInv

(* The wait failed: the waiter leaves its queue unless a waker has already *)
(* taken it out.                                                           *)
LEMMA QueueInvGiveUp ==
    ASSUME QueueTypeOK, TaskTypeOK, QueueInv, NEW t \in Task, GiveUp(t)
    PROVE  QueueInv'
<1>1. /\ Alone(t) /\ pc'[t] = "idle" /\ ~waiter'[t].enqueued
      /\ \A u \in Task : u # t => waiter'[u] = waiter[u]
  BY ReturnAlone DEF GiveUp, TaskTypeOK, NoWaiter
<1>2. CASE ~waiter[t].enqueued
  BY <1>1, <1>2, QueueInvMove DEF GiveUp
<1>3. CASE waiter[t].enqueued
  <2>1. WaiterState'
    BY <1>1 DEF QueueInv, WaiterState, Alone
  <2>2. CASE op[t].kind = "send"
    <3>1. /\ send_waiters' \in Unlinked(send_waiters, t)
          /\ waiting_senders' = Decremented(waiting_senders)
          /\ waiting_tasks' = Decremented(waiting_tasks)
          /\ UNCHANGED <<recv_waiters, waiting_receivers>>
      BY <1>3, <2>2 DEF GiveUp
    <3>2. PICK i \in 1 .. Len(send_waiters) :
              /\ send_waiters[i] = t
              /\ send_waiters' = RemoveAt(send_waiters, i)
      BY <1>3, <2>2, <3>1 DEF Unlinked, QueueInv, Linked, QueueTypeOK
    <3>3. /\ Len(send_waiters') = Len(send_waiters) - 1
          /\ IsInjective(send_waiters')
          /\ \A u : Contains(send_waiters', u)
                      <=> Contains(send_waiters, u) /\ u # t
      BY <3>2, RemoveAtIndexed, RemoveAtContains
         DEF QueueInv, Linked, QueueTypeOK
    <3>4. Linked'
      BY <1>1, <2>2, <3>1, <3>3 DEF QueueInv, Linked, Alone
    <3>5. Len(send_waiters) \in Nat \ {0} /\ Len(recv_waiters) \in Nat
      BY <3>2 DEF QueueTypeOK
    <3>6. WaitersCounted'
      BY <3>1, <3>3, <3>5 DEF QueueInv, WaitersCounted, Decremented
    <3> QED BY <2>1, <3>4, <3>6 DEF QueueInv
  <2>3. CASE op[t].kind = "recv"
    <3>1. /\ recv_waiters' \in Unlinked(recv_waiters, t)
          /\ waiting_receivers' = Decremented(waiting_receivers)
          /\ waiting_tasks' = Decremented(waiting_tasks)
          /\ UNCHANGED <<send_waiters, waiting_senders>>
      BY <1>3, <2>3 DEF GiveUp
    <3>2. PICK i \in 1 .. Len(recv_waiters) :
              /\ recv_waiters[i] = t
              /\ recv_waiters' = RemoveAt(recv_waiters, i)
      BY <1>3, <2>3, <3>1 DEF Unlinked, QueueInv, Linked, QueueTypeOK
    <3>3. /\ Len(recv_waiters') = Len(recv_waiters) - 1
          /\ IsInjective(recv_waiters')
          /\ \A u : Contains(recv_waiters', u)
                      <=> Contains(recv_waiters, u) /\ u # t
      BY <3>2, RemoveAtIndexed, RemoveAtContains
         DEF QueueInv, Linked, QueueTypeOK
    <3>4. Linked'
      BY <1>1, <2>3, <3>1, <3>3 DEF QueueInv, Linked, Alone
    <3>5. Len(recv_waiters) \in Nat \ {0} /\ Len(send_waiters) \in Nat
      BY <3>2 DEF QueueTypeOK
    <3>6. WaitersCounted'
      BY <3>1, <3>3, <3>5 DEF QueueInv, WaitersCounted, Decremented
    <3> QED BY <2>1, <3>4, <3>6 DEF QueueInv
  <2> QED BY <1>3, <2>2, <2>3 DEF QueueInv, WaiterState
<1> QED BY <1>2, <1>3

(* A destroy empties both queues and wakes whoever was in them.            *)
LEMMA QueueInvDestroy ==
    ASSUME TaskTypeOK, QueueInv, NEW t \in Task, Destroy(t)
    PROVE  QueueInv'
<1>1. /\ Alone(t) /\ pc'[t] = "release" /\ pc[t] = "lock" /\ op'[t] = op[t]
      /\ send_waiters' = << >> /\ recv_waiters' = << >>
  BY GotoAlone DEF Destroy
<1>2. ASSUME NEW u \in Task
      PROVE  /\ ~waiter'[u].enqueued
             /\ pc[u] = "wait" => waiter'[u].given
  <2>1. waiter'[u] = IF Contains(recv_waiters, u)
                     THEN Woken(WokenAll(waiter, send_waiters, "destroyed")[u],
                                "destroyed")
                     ELSE WokenAll(waiter, send_waiters, "destroyed")[u]
    BY DEF Destroy, WokenAll
  <2>2. WokenAll(waiter, send_waiters, "destroyed")[u]
            = IF Contains(send_waiters, u) THEN Woken(waiter[u], "destroyed")
                                           ELSE waiter[u]
    BY DEF WokenAll
  <2>3. CASE waiter[u].enqueued
    <3>1. waiter'[u] = Woken(waiter[u], "destroyed")
      BY <2>1, <2>2, <2>3 DEF QueueInv, Linked, WaiterState
    <3>2. /\ ~waiter'[u].enqueued
          /\ waiter'[u].given = (waiter[u].given \/ waiter[u].armed)
      BY <3>1 DEF Woken
    <3> QED BY <2>3, <3>2 DEF QueueInv, WaiterState
  <2>4. CASE ~waiter[u].enqueued
    BY <2>1, <2>2, <2>4 DEF QueueInv, Linked, WaiterState
  <2> QED BY <2>3, <2>4
<1>3. Linked'
  BY <1>1, <1>2, EmptyQueue DEF Linked
<1>4. WaitersCounted'
  BY <1>1, EmptyQueue DEF Destroy, WaitersCounted
<1>5. WaiterState'
  BY <1>1, <1>2 DEF QueueInv, WaiterState, Alone
<1> QED BY <1>3, <1>4, <1>5 DEF QueueInv

(* Nobody waits while a channel is set up.                                 *)
LEMMA QueueInvCreate ==
    ASSUME QueueTypeOK, TaskTypeOK, QueueInv, Creating, NEW t \in Task,
           ClearObject(t) \/ SetupObject(t)
    PROVE  QueueInv'
<1>1. \A u \in Task : ~waiter[u].enqueued
  BY DEF ClearObject, SetupObject, Creating, QueueInv, WaiterState
<1>2. /\ Alone(t) /\ pc'[t] \in {"setup", "idle"} /\ waiter' = waiter
      /\ send_waiters' = << >> /\ recv_waiters' = << >>
  <2>1. CASE ClearObject(t)
    BY <2>1, GotoAlone DEF ClearObject
  <2>2. CASE SetupObject(t)
    BY <2>2, ReturnAlone DEF SetupObject
  <2> QED BY <2>1, <2>2
<1>3. Linked'
  BY <1>1, <1>2, EmptyQueue DEF Linked
<1>4. WaiterState'
  BY <1>1, <1>2 DEF QueueInv, WaiterState, Alone
<1>5. WaitersCounted'
  <2>1. CASE ClearObject(t)
    BY <2>1, EmptyQueue DEF ClearObject, WaitersCounted
  <2>2. CASE SetupObject(t)
    <3>1. ASSUME NEW q \in Seq(Task), \A u \in Task : ~Contains(q, u)
          PROVE  Len(q) = 0
      BY <3>1 DEF Contains
    <3>2. Len(send_waiters) = 0 /\ Len(recv_waiters) = 0
      BY <1>1, <3>1 DEF QueueInv, Linked, QueueTypeOK
    <3> QED BY <2>2, <3>2, EmptyQueue DEF SetupObject, QueueInv, WaitersCounted
  <2> QED BY <2>1, <2>2
<1> QED BY <1>3, <1>4, <1>5 DEF QueueInv

-----------------------------------------------------------------------------
(* Orderly reuse.                                                          *)

(* The tasks that were in no part of a create are in none afterwards.      *)
LEMMA CreatingVacuous ==
    ASSUME Creating, NEW t \in Task, Alone(t),
           pc[t] \notin {"idle", "clear", "setup"},
           pc'[t] \notin {"clear", "setup"}
    PROVE  Creating'
BY DEF Creating, Alone

LEMMA CreatingNext ==
    ASSUME OrderlyReuse, RegistryTypeOK, TaskTypeOK, Creating, [Next]_vars
    PROVE  Creating'
<1>1. CASE UNCHANGED vars
  BY <1>1 DEF vars, registryVars, taskVars, Creating
<1>2. ASSUME NEW t \in Task, Begin(t)
      PROVE  Creating'
  <2>1. CASE Reject(t) \/ CreateNoSpace(t)
    BY <2>1 DEF Reject, CreateNoSpace, Creating, registryVars
  <2>2. CASE Call(t)
    <3>1. PICK o \in HandleOp : o.h <= issued /\ EarlyError(o) = "ok"
      BY <2>2 DEF Call
    <3>2. o.h = generation
      BY <3>1 DEF EarlyError
    <3>3. \A u \in Task : pc[u] \notin {"clear", "setup"}
      BY <3>1, <3>2 DEF Creating, RegistryTypeOK
    <3> QED BY <2>2, <3>3 DEF Call, TaskTypeOK, Creating
  <2>3. CASE Allocate(t)
    <3>1. /\ pc' = [pc EXCEPT ![t] = "clear"] /\ issued' = issued
          /\ generation' = generation + 1 /\ allocated'
          /\ \A u \in Task \ {t} : pc[u] = "idle"
      BY <2>3 DEF Allocate
    <3>2. \A u \in Task \ {t} : pc'[u] = "idle"
      BY <3>1 DEF TaskTypeOK
    <3>3. issued' < generation'
      BY <3>1, ChannelAssumption DEF RegistryTypeOK
    <3> QED BY <3>1, <3>2, <3>3 DEF Creating
  <2> QED BY <1>2, <2>1, <2>2, <2>3 DEF Begin
<1>3. ASSUME NEW t \in Task, Step(t)
      PROVE  Creating'
  <2>1. CASE ClearObject(t)
    BY <2>1 DEF ClearObject, Goto, Creating, TaskTypeOK, registryVars
  <2>2. CASE SetupObject(t)
    BY <2>2 DEF SetupObject, Return, Creating, TaskTypeOK
  <2>3. CASE ~(ClearObject(t) \/ SetupObject(t))
    <3>1. /\ pc[t] \in {"lock", "wait", "relock", "release"}
          /\ pc'[t] \in {"idle", "wait", "relock", "release"}
          /\ Alone(t)
      <4>1. CASE \/ FindDestroyed(t) \/ TrySendInvalid(t) \/ RecvTooSmall(t)
                 \/ Refuse(t) \/ ZeroTimeout(t) \/ GiveUp(t) \/ Release(t)
                 \/ Send(t) \/ Recv(t)
        <5>1. \E r : Return(t, r)
          BY <4>1 DEF FindDestroyed, TrySendInvalid, RecvTooSmall, Refuse,
                      ZeroTimeout, GiveUp, Release, Send, Recv
        <5>2. pc[t] \in {"lock", "relock", "release"}
          BY <4>1 DEF FindDestroyed, TrySendInvalid, RecvTooSmall, Refuse,
                      ZeroTimeout, GiveUp, Release, Send, Recv, Blocked,
                      InSection
        <5> QED BY <5>1, <5>2, ReturnAlone
      <4>2. CASE Park(t)
        <5>1. pc[t] \in {"lock", "relock"}
          BY <4>2 DEF Park, Blocked, InSection
        <5>2. \A u \in Task : u # t => wait_result'[u] = wait_result[u]
          BY <4>2 DEF Park, TaskTypeOK
        <5> QED BY <4>2, <5>1, <5>2, GotoAlone DEF Park
      <4>3. CASE BlockTaken(t) \/ BlockTimeout(t)
        <5>1. \A u \in Task : u # t => wait_result'[u] = wait_result[u]
          BY <4>3 DEF BlockTaken, BlockTimeout, TaskTypeOK
        <5> QED BY <4>3, <5>1, GotoAlone DEF BlockTaken, BlockTimeout
      <4>4. CASE Destroy(t)
        BY <4>4, GotoAlone DEF Destroy
      <4> QED BY <1>3, <2>3, <4>1, <4>2, <4>3, <4>4 DEF Step
    <3> QED BY <3>1, CreatingVacuous
  <2> QED BY <2>1, <2>2, <2>3
<1> QED BY <1>1, <1>2, <1>3 DEF Next

-----------------------------------------------------------------------------
ChannelInv == RingInv /\ QueueInv /\ Creating

LEMMA QueueInvInit == Init => QueueInv /\ Creating
<1> SUFFICES ASSUME Init PROVE QueueInv /\ Creating
  OBVIOUS
<1>1. Linked
  BY EmptyQueue DEF Init, Linked, NoWaiter
<1>2. WaitersCounted
  BY EmptyQueue DEF Init, WaitersCounted
<1>3. WaiterState /\ Creating
  BY DEF Init, WaiterState, Creating, NoWaiter
<1> QED BY <1>1, <1>2, <1>3 DEF QueueInv

LEMMA QueueInvNext ==
    ASSUME RingInv, QueueInv, Creating, [Next]_vars
    PROVE  QueueInv'
<1>0. QueueTypeOK /\ TaskTypeOK
  BY DEF RingInv, TypeOK
<1>1. CASE UNCHANGED vars
  BY <1>1 DEF vars, queueVars, taskVars, QueueInv, Linked, WaitersCounted,
              WaiterState
<1>2. ASSUME NEW t \in Task, Begin(t)
      PROVE  QueueInv'
  <2>1. pc[t] = "idle" /\ ~waiter[t].enqueued
    BY <1>2 DEF Begin, Reject, Call, CreateNoSpace, Allocate, QueueInv,
                WaiterState
  <2>2. /\ Alone(t) /\ pc'[t] \in {"idle", "lock", "clear"}
        /\ UNCHANGED <<queueVars, waiter>>
    BY <1>0, <1>2, <2>1 DEF Begin, Reject, Call, CreateNoSpace, Allocate,
                            TaskTypeOK, Alone
  <2> QED BY <2>1, <2>2, QueueInvMove
<1>3. ASSUME NEW t \in Task, Step(t)
      PROVE  QueueInv'
  <2>1. CASE \/ FindDestroyed(t) \/ TrySendInvalid(t) \/ RecvTooSmall(t)
             \/ Refuse(t) \/ ZeroTimeout(t) \/ Release(t)
    <3>1. (\E r : Return(t, r)) /\ UNCHANGED <<queueVars, waiter>>
      BY <2>1 DEF FindDestroyed, TrySendInvalid, RecvTooSmall, Refuse,
                  ZeroTimeout, Release
    <3>2. ~waiter[t].enqueued
      BY <2>1 DEF FindDestroyed, TrySendInvalid, RecvTooSmall, Refuse,
                  ZeroTimeout, Release, Blocked, InSection, QueueInv,
                  WaiterState
    <3> QED BY <1>0, <3>1, <3>2, ReturnAlone, QueueInvMove
  <2>2. CASE Send(t)
    <3>1. ~waiter[t].enqueued
      BY <2>2 DEF Send, InSection, QueueInv, WaiterState
    <3> QED
      BY <1>0, <2>2, <3>1, ReturnAlone, QueueInvWakeReceiver DEF Send
  <2>3. CASE Recv(t)
    <3>1. ~waiter[t].enqueued
      BY <2>3 DEF Recv, InSection, QueueInv, WaiterState
    <3> QED
      BY <1>0, <2>3, <3>1, ReturnAlone, QueueInvWakeSender DEF Recv
  <2>4. CASE Park(t)
    BY <1>0, <2>4, QueueInvPark
  <2>5. CASE BlockTaken(t) \/ BlockTimeout(t)
    BY <1>0, <2>5, QueueInvBlockEnds
  <2>6. CASE GiveUp(t)
    BY <1>0, <2>6, QueueInvGiveUp
  <2>7. CASE Destroy(t)
    BY <1>0, <2>7, QueueInvDestroy
  <2>8. CASE ClearObject(t) \/ SetupObject(t)
    BY <1>0, <2>8, QueueInvCreate
  <2> QED
    BY <1>3, <2>1, <2>2, <2>3, <2>4, <2>5, <2>6, <2>7, <2>8 DEF Step
<1> QED BY <1>1, <1>2, <1>3 DEF Next

(* When callers reuse a slot in an orderly way, the wait queues are always *)
(* sound: they hold tasks that are still blocked in a call of their kind,  *)
(* each once; every task that waits unwoken is in one; and the counters    *)
(* are the lengths of the queues, whichever of a wake, a timeout and a     *)
(* destroy takes a waiter out first.                                       *)
THEOREM QueueInvariance ==
    OrderlyReuse =>
        (Spec => [](QueuedAreParked /\ ParkedAreQueued /\ WaitersCounted))
<1> SUFFICES ASSUME OrderlyReuse
             PROVE  Spec => [](QueuedAreParked /\ ParkedAreQueued
                               /\ WaitersCounted)
  OBVIOUS
<1>1. Init => ChannelInv
  BY RingInvInit, QueueInvInit DEF ChannelInv
<1>2. ChannelInv /\ [Next]_vars => ChannelInv'
  BY RingInvNext, QueueInvNext, CreatingNext DEF ChannelInv, RingInv, TypeOK
<1>3. ChannelInv => QueuedAreParked /\ ParkedAreQueued /\ WaitersCounted
  <2> SUFFICES ASSUME ChannelInv
               PROVE  QueuedAreParked /\ ParkedAreQueued /\ WaitersCounted
    OBVIOUS
  <2>1. QueuedAreParked
    BY DEF ChannelInv, QueueInv, Linked, WaiterState, QueuedAreParked, Waiters
  <2>2. ParkedAreQueued
    BY DEF ChannelInv, QueueInv, Linked, WaiterState, ParkedAreQueued, Waiters
  <2> QED BY <2>1, <2>2 DEF ChannelInv, QueueInv
<1> QED BY <1>1, <1>2, <1>3, PTL DEF Spec

-----------------------------------------------------------------------------
(* Wakes in order.                                                         *)

(* A waiter that is in a queue has not been given its semaphore.           *)
LEMMA QueuedUngiven ==
    ASSUME QueueInv, NEW t \in Task,
           Contains(send_waiters, t) \/ Contains(recv_waiters, t)
    PROVE  ~waiter[t].given
<1>1. waiter[t].enqueued
  BY DEF QueueInv, Linked
<1> QED BY <1>1 DEF QueueInv, WaiterState

(* A step that gives no waiter of a queue its semaphore with a success     *)
(* passes nobody over.                                                     *)
LEMMA InOrderUntouched ==
    ASSUME NEW q \in Seq(Task), NEW qn,
           \A u \in Task : Contains(q, u) =>
                ~(waiter'[u].given /\ waiter'[u].result = "ok")
    PROVE  WakesInOrder(q, qn)
<1>1. \A i \in DOMAIN q : q[i] \in Task /\ Contains(q, q[i])
  BY DEF Contains
<1> QED BY <1>1 DEF WakesInOrder

(* One that takes out the waiter it picked, and wakes that one alone,      *)
(* leaves behind only waiters that come after it.                          *)
LEMMA InOrderPop ==
    ASSUME NEW q \in Seq(Task), IsInjective(q), NEW p \in Picks(q),
           \A u \in Task : Contains(q, u) => ~waiter[u].given,
           \A u \in Task : u # q[p] => waiter'[u] = waiter[u]
    PROVE  WakesInOrder(q, RemoveAt(q, p))
<1>1. /\ p \in DOMAIN q /\ DOMAIN q = 1 .. Len(q) /\ Len(q) \in Nat
      /\ \A j \in DOMAIN q :
            \/ Prio[q[j]] < Prio[q[p]]
            \/ Prio[q[j]] = Prio[q[p]] /\ p <= j
  BY DEF Picks
<1>2. \A i \in DOMAIN q : q[i] \in Task /\ Contains(q, q[i])
  BY DEF Contains
<1> SUFFICES ASSUME NEW i \in DOMAIN q, NEW j \in DOMAIN q,
                    waiter'[q[i]].result = "ok", waiter'[q[i]].given,
                    Contains(RemoveAt(q, p), q[j])
             PROVE  \/ Prio[q[j]] < Prio[q[i]]
                    \/ Prio[q[j]] = Prio[q[i]] /\ i < j
  BY DEF WakesInOrder
<1>3. q[i] = q[p]
  BY <1>2
<1>4. i = p
  BY <1>1, <1>3 DEF IsInjective
<1>5. q[j] # q[p]
  BY <1>1, RemoveAtContains
<1>6. j # p
  BY <1>5
<1> QED BY <1>1, <1>4, <1>6

LEMMA WakeOrderStep ==
    ASSUME ChannelInv, [Next]_vars
    PROVE  /\ WakesInOrder(send_waiters, send_waiters')
           /\ WakesInOrder(recv_waiters, recv_waiters')
<1>0. /\ QueueInv /\ Linked /\ TaskTypeOK /\ waiter \in [Task -> Waiter]
      /\ send_waiters \in Seq(Task) /\ recv_waiters \in Seq(Task)
  BY DEF ChannelInv, RingInv, TypeOK, QueueTypeOK, TaskTypeOK, QueueInv
<1>1. \A u \in Task : Contains(send_waiters, u) \/ Contains(recv_waiters, u)
                        => ~waiter[u].given
  BY <1>0, QueuedUngiven
<1>2. ASSUME \A u \in Task : waiter'[u].given =>
                 waiter[u].given \/ waiter'[u].result # "ok"
      PROVE  /\ WakesInOrder(send_waiters, send_waiters')
             /\ WakesInOrder(recv_waiters, recv_waiters')
  BY <1>0, <1>1, <1>2, InOrderUntouched
<1>3. CASE waiter' = waiter
  BY <1>2, <1>3
<1>4. ASSUME NEW t \in Task, Send(t)
      PROVE  /\ WakesInOrder(send_waiters, send_waiters')
             /\ WakesInOrder(recv_waiters, recv_waiters')
  <2>1. CASE LeaveReceivers
    BY <1>3, <2>1 DEF LeaveReceivers
  <2>2. CASE PopReceiver
    <3>1. PICK i \in Picks(recv_waiters) :
              /\ recv_waiters' = RemoveAt(recv_waiters, i)
              /\ waiter' = [waiter EXCEPT ![recv_waiters[i]] = Woken(@, "ok")]
      BY <2>2 DEF PopReceiver
    <3>2. /\ recv_waiters[i] \in Task /\ Contains(recv_waiters, recv_waiters[i])
          /\ \A u \in Task : u # recv_waiters[i] => waiter'[u] = waiter[u]
      BY <1>0, <3>1 DEF Picks, Contains
    <3>3. ~Contains(send_waiters, recv_waiters[i])
      BY <1>0, <3>2 DEF Linked
    <3>4. WakesInOrder(send_waiters, send_waiters')
      BY <1>0, <1>1, <3>2, <3>3, InOrderUntouched
    <3>5. WakesInOrder(recv_waiters, RemoveAt(recv_waiters, i))
      BY <1>0, <1>1, <3>2, InOrderPop DEF Linked
    <3> QED BY <3>1, <3>4, <3>5
  <2> QED BY <1>4, <2>1, <2>2 DEF Send, WakeReceiver
<1>5. ASSUME NEW t \in Task, Recv(t)
      PROVE  /\ WakesInOrder(send_waiters, send_waiters')
             /\ WakesInOrder(recv_waiters, recv_waiters')
  <2>1. CASE LeaveSenders
    BY <1>3, <2>1 DEF LeaveSenders
  <2>2. CASE PopSender
    <3>1. PICK i \in Picks(send_waiters) :
              /\ send_waiters' = RemoveAt(send_waiters, i)
              /\ waiter' = [waiter EXCEPT ![send_waiters[i]] = Woken(@, "ok")]
      BY <2>2 DEF PopSender
    <3>2. /\ send_waiters[i] \in Task /\ Contains(send_waiters, send_waiters[i])
          /\ \A u \in Task : u # send_waiters[i] => waiter'[u] = waiter[u]
      BY <1>0, <3>1 DEF Picks, Contains
    <3>3. ~Contains(recv_waiters, send_waiters[i])
      BY <1>0, <3>2 DEF Linked
    <3>4. WakesInOrder(recv_waiters, recv_waiters')
      BY <1>0, <1>1, <3>2, <3>3, InOrderUntouched
    <3>5. WakesInOrder(send_waiters, RemoveAt(send_waiters, i))
      BY <1>0, <1>1, <3>2, InOrderPop DEF Linked
    <3> QED BY <3>1, <3>4, <3>5
  <2> QED BY <1>5, <2>1, <2>2 DEF Recv, WakeSender
<1>6. ASSUME NEW t \in Task, Park(t) \/ BlockTaken(t) \/ BlockTimeout(t) \/ GiveUp(t)
      PROVE  /\ WakesInOrder(send_waiters, send_waiters')
             /\ WakesInOrder(recv_waiters, recv_waiters')
  <2>1. \A u \in Task : u # t => waiter'[u] = waiter[u]
    BY <1>0, <1>6 DEF Park, BlockTaken, BlockTimeout, GiveUp
  <2>2. waiter'[t].given => waiter[t].given
    <3>1. waiter'[t] \in {PreparedWaiter, NoWaiter, TimedOut(waiter[t])}
      BY <1>0, <1>6 DEF Park, BlockTaken, BlockTimeout, GiveUp
    <3>2. waiter[t] \in Waiter
      BY <1>0
    <3>3. TimedOut(waiter[t]).given = waiter[t].given
      BY <3>2 DEF TimedOut, Waiter
    <3>4. ~PreparedWaiter.given /\ ~NoWaiter.given
      BY DEF PreparedWaiter, NoWaiter
    <3> QED BY <3>1, <3>3, <3>4, Zenon
  <2> QED BY <1>2, <2>1, <2>2
<1>7. ASSUME NEW t \in Task, Destroy(t)
      PROVE  /\ WakesInOrder(send_waiters, send_waiters')
             /\ WakesInOrder(recv_waiters, recv_waiters')
  <2>1. \A u \in Task : Contains(send_waiters, u) \/ Contains(recv_waiters, u)
                          => waiter'[u].result = "destroyed"
    BY <1>0, <1>7 DEF Destroy, WokenAll, Woken
  <2> QED BY <1>0, <2>1, InOrderUntouched
<1>8. CASE UNCHANGED vars
  BY <1>3, <1>8 DEF vars, taskVars
<1>9. ASSUME NEW t \in Task, Begin(t)
      PROVE  waiter' = waiter
  BY <1>9 DEF Begin, Reject, Call, CreateNoSpace, Allocate
<1>10. ASSUME NEW t \in Task,
              \/ ClearObject(t) \/ SetupObject(t) \/ FindDestroyed(t)
              \/ TrySendInvalid(t) \/ RecvTooSmall(t) \/ Refuse(t)
              \/ ZeroTimeout(t) \/ Release(t)
       PROVE  waiter' = waiter
  BY <1>10 DEF ClearObject, SetupObject, FindDestroyed, TrySendInvalid,
               RecvTooSmall, Refuse, ZeroTimeout, Release
<1> QED
  BY <1>3, <1>4, <1>5, <1>6, <1>7, <1>8, <1>9, <1>10 DEF Next, Step

LEMMA ChannelInvariance == OrderlyReuse => (Spec => []ChannelInv)
<1> SUFFICES ASSUME OrderlyReuse PROVE Spec => []ChannelInv
  OBVIOUS
<1>1. Init => ChannelInv
  BY RingInvInit, QueueInvInit DEF ChannelInv
<1>2. ChannelInv /\ [Next]_vars => ChannelInv'
  BY RingInvNext, QueueInvNext, CreatingNext DEF ChannelInv, RingInv, TypeOK
<1> QED BY <1>1, <1>2, PTL DEF Spec

(* When callers reuse a slot in an orderly way, a wake takes the waiter of *)
(* the highest priority, and among equals the one that has waited longest, *)
(* in every interleaving with timeouts, and a destroy of the channel       *)
(* passes for no wake.                                                     *)
THEOREM WakesAreInOrder == OrderlyReuse => (Spec => WakeOrder)
<1> SUFFICES ASSUME OrderlyReuse PROVE Spec => WakeOrder
  OBVIOUS
<1>1. Spec => []ChannelInv
  BY ChannelInvariance
<1>2. ChannelInv /\ [Next]_vars =>
          [/\ WakesInOrder(send_waiters, send_waiters')
           /\ WakesInOrder(recv_waiters, recv_waiters')]_vars
  BY WakeOrderStep
<1> QED BY <1>1, <1>2, PTL DEF Spec, WakeOrder

-----------------------------------------------------------------------------
(***************************************************************************)
(* What the calls promise, when callers reuse a slot in an orderly way:    *)
(* that they implement BoundedChannel, and that no wakeup is lost.         *)
(*                                                                         *)
(* Besides the invariants above this needs three more, which say what a    *)
(* call may still rely on after it has looked up its handle and left every *)
(* lock: CallInv, that the handle still names the slot's generation and    *)
(* that its arguments were checked; WaitInv, that a wait failed for a      *)
(* reason that still holds; and SlotInv, which relates the registry's flag *)
(* and generation to the object in the slot.                               *)
(***************************************************************************)

CallOK(t) ==
    /\ pc[t] = "idle" => op[t] = NoOp
    /\ pc[t] \in {"clear", "setup"} => op[t] = CreateOp
    /\ pc[t] \in {"lock", "wait", "relock", "release"} =>
          op[t] \in HandleOp /\ op[t].h = generation /\ issued = generation
    /\ /\ pc[t] \in {"lock", "wait", "relock"}
       /\ op[t].kind = "send" /\ op[t].mode # "try"
       => op[t].arg \in 1 .. MessageSize
    /\ pc[t] \in {"wait", "relock"} => op[t].mode \in {"finite", "forever"}

CallInv == \A t \in Task : CallOK(t)

WaitOK(t) ==
    /\ pc[t] = "wait" => waiter[t].result # "timeout"
    /\ pc[t] = "wait" /\ waiter[t].result = "destroyed" => destroyed
    /\ pc[t] = "relock" /\ wait_result[t] = "timeout" => op[t].mode = "finite"
    /\ pc[t] = "relock" /\ wait_result[t] = "destroyed" => destroyed

WaitInv == \A t \in Task : WaitOK(t)

(* The task that owns the slot: it is making the object, or unmaking it.   *)
Owner(t) == pc[t] \in {"clear", "setup", "release"}

OwnerOK(t) ==
    /\ pc[t] \in {"clear", "setup"} => generation = issued + 1
    /\ pc[t] = "setup" => capacity = 0 /\ ~destroyed
    /\ pc[t] = "release" => /\ allocated /\ destroyed
                            /\ \A u \in Task \ {t} : pc[u] # "release"

SlotOK ==
    /\ Opened => allocated /\ issued = generation
    /\ issued = generation /\ generation > 0 => capacity = Capacity
    /\ ~allocated => issued = generation
    /\ destroyed => depth = 0
    /\ allocated => Opened \/ \E t \in Task : Owner(t)

SlotInv == SlotOK /\ \A t \in Task : OwnerOK(t)

RefInv == ChannelInv /\ CallInv /\ WaitInv /\ SlotInv

-----------------------------------------------------------------------------
(* What a step has to show of its own task.                                *)

LEMMA CallFrame ==
    ASSUME CallInv, NEW t \in Task, Alone(t), CallOK(t)',
           generation' = generation, issued' = issued
    PROVE  CallInv'
BY DEF CallInv, CallOK, Alone

LEMMA WaitFrame ==
    ASSUME WaitInv, NEW t \in Task, Alone(t), WaitOK(t)',
           destroyed => destroyed',
           \A u \in Task : u # t =>
               \/ waiter'[u] = waiter[u]
               \/ waiter'[u].result = "ok"
               \/ waiter'[u].result = "destroyed" /\ destroyed'
    PROVE  WaitInv'
BY DEF WaitInv, WaitOK, Alone

LEMMA SlotFrame ==
    ASSUME SlotInv, NEW t \in Task, Alone(t), ~Owner(t), ~Owner(t)',
           UNCHANGED registryVars,
           destroyed' = destroyed, capacity' = capacity,
           destroyed' => depth' = 0
    PROVE  SlotInv'
<1>1. \A u \in Task : /\ Owner(u)' <=> Owner(u)
                      /\ OwnerOK(u)'
  BY DEF SlotInv, OwnerOK, Owner, Alone, registryVars
<1>2. Opened' <=> Opened
  BY DEF Opened
<1>3. SlotOK'
  BY <1>1, <1>2 DEF SlotInv, SlotOK, registryVars
<1> QED BY <1>1, <1>3 DEF SlotInv

(* A call that returns is over.                                            *)
LEMMA ReturnOK ==
    ASSUME TaskTypeOK, NEW t \in Task, NEW r, Return(t, r)
    PROVE  /\ Alone(t) /\ CallOK(t)' /\ WaitOK(t)' /\ ~Owner(t)'
           /\ pc'[t] = "idle" /\ op'[t] = NoOp
BY ReturnAlone DEF TaskTypeOK, Return, CallOK, WaitOK, Owner, NoOp

(* Steps that end a call and leave the object as it is.                    *)
LEMMA RefInvReturn ==
    ASSUME TaskTypeOK, CallInv, WaitInv, SlotInv, NEW t \in Task, ~Owner(t),
           NEW r, Return(t, r), UNCHANGED <<registryVars, ringVars>>,
           \A u \in Task : u # t => waiter'[u] = waiter[u]
    PROVE  CallInv' /\ WaitInv' /\ SlotInv'
<1>1. /\ Alone(t) /\ CallOK(t)' /\ WaitOK(t)' /\ ~Owner(t)'
  BY ReturnOK
<1>2. CallInv'
  BY <1>1, CallFrame DEF registryVars
<1>3. WaitInv'
  BY <1>1, WaitFrame DEF ringVars
<1>4. SlotInv'
  BY <1>1, SlotFrame DEF ringVars, SlotInv, SlotOK
<1> QED BY <1>2, <1>3, <1>4

(* A send or a receive goes through: it may wake somebody.                 *)
LEMMA RefInvTransfer ==
    ASSUME TaskTypeOK, CallInv, WaitInv, SlotInv, NEW t \in Task,
           Send(t) \/ Recv(t), QueueTypeOK
    PROVE  CallInv' /\ WaitInv' /\ SlotInv'
<1>1. /\ (\E r : Return(t, r)) /\ UNCHANGED <<registryVars, destroyed, capacity>>
      /\ ~destroyed /\ ~Owner(t)
  BY DEF Send, Recv, InSection, Owner
<1>2. /\ Alone(t) /\ CallOK(t)' /\ WaitOK(t)' /\ ~Owner(t)'
  BY <1>1, ReturnOK
<1>3. \A u \in Task : waiter'[u] = waiter[u] \/ waiter'[u].result = "ok"
  <2>1. CASE waiter' = waiter
    BY <2>1
  <2>2. CASE PopSender
    BY <2>2 DEF PopSender, TaskTypeOK, Woken
  <2>3. CASE PopReceiver
    BY <2>3 DEF PopReceiver, TaskTypeOK, Woken
  <2> QED
    BY <2>1, <2>2, <2>3 DEF Send, Recv, WakeReceiver, WakeSender,
                            LeaveReceivers, LeaveSenders
<1>4. CallInv'
  BY <1>1, <1>2, CallFrame DEF registryVars
<1>5. WaitInv'
  BY <1>1, <1>2, <1>3, WaitFrame
<1>6. SlotInv'
  BY <1>1, <1>2, SlotFrame
<1> QED BY <1>4, <1>5, <1>6

(* A task parks, or its wait ends.                                         *)
LEMMA RefInvWait ==
    ASSUME TaskTypeOK, QueueInv, CallInv, WaitInv, SlotInv, NEW t \in Task,
           Park(t) \/ BlockTaken(t) \/ BlockTimeout(t)
    PROVE  CallInv' /\ WaitInv' /\ SlotInv'
<1>1. /\ UNCHANGED <<registryVars, ringVars>>
      /\ pc[t] \in {"lock", "wait", "relock"} /\ ~Owner(t)
      /\ \A u \in Task : u # t => wait_result'[u] = wait_result[u]
      /\ \A u \in Task : u # t => waiter'[u] = waiter[u]
  BY DEF Park, BlockTaken, BlockTimeout, Blocked, InSection, Owner, TaskTypeOK
<1>2. /\ Alone(t) /\ op'[t] = op[t] /\ pc'[t] \in {"wait", "relock"}
  BY <1>1, GotoAlone DEF Park, BlockTaken, BlockTimeout
<1>3. ~Owner(t)'
  BY <1>2 DEF Owner
<1>4. op[t].mode \in {"finite", "forever"}
  BY DEF Park, BlockTaken, BlockTimeout, CallInv, CallOK
<1>5. CallOK(t)'
  BY <1>1, <1>2, <1>4 DEF CallInv, CallOK, registryVars
<1>6. WaitOK(t)'
  <2>1. CASE Park(t)
    <3>1. pc'[t] = "wait" /\ waiter'[t] = PreparedWaiter
      BY <2>1 DEF Park, Goto, TaskTypeOK
    <3> QED BY <3>1 DEF WaitOK, PreparedWaiter
  <2>2. CASE BlockTaken(t)
    <3>1. /\ pc'[t] = "relock" /\ pc[t] = "wait"
          /\ wait_result'[t] = waiter[t].result /\ destroyed' = destroyed
      BY <2>2 DEF BlockTaken, Goto, TaskTypeOK, ringVars
    <3> QED BY <3>1 DEF WaitInv, WaitOK
  <2>3. CASE BlockTimeout(t)
    <3>1. /\ pc'[t] = "relock" /\ wait_result'[t] = "timeout"
          /\ op[t].mode = "finite"
      BY <2>3 DEF BlockTimeout, Goto, TaskTypeOK
    <3> QED BY <1>2, <3>1 DEF WaitOK
  <2> QED BY <2>1, <2>2, <2>3
<1>7. CallInv'
  BY <1>1, <1>2, <1>5, CallFrame DEF registryVars
<1>8. WaitInv'
  BY <1>1, <1>2, <1>6, WaitFrame DEF ringVars
<1>9. SlotInv'
  BY <1>1, <1>2, <1>3, SlotFrame DEF ringVars, SlotInv, SlotOK
<1> QED BY <1>7, <1>8, <1>9

(* The lookup of a handle says where the slot is in its life.              *)
LEMMA Looked ==
    ASSUME RegistryTypeOK, RingTypeOK, NEW o \in HandleOp, o.h <= issued,
           o.h = generation
    PROVE  issued = generation /\ generation > 0
<1>1. o.h \in 1 .. MaxGen
  BY DEF HandleOp, SendOp, RecvOp, DestroyOp
<1> QED BY <1>1, ChannelAssumption DEF RegistryTypeOK

LEMMA RefInvBegin ==
    ASSUME OrderlyReuse, ChannelInv, CallInv, WaitInv, SlotInv,
           NEW t \in Task, Begin(t)
    PROVE  CallInv' /\ WaitInv' /\ SlotInv'
<1>0. /\ RegistryTypeOK /\ RingTypeOK /\ TaskTypeOK
      /\ generation \in Nat /\ issued \in Nat
  BY ChannelAssumption DEF ChannelInv, RingInv, TypeOK, RegistryTypeOK
<1>1. CASE Reject(t) \/ CreateNoSpace(t)
  <2>1. UNCHANGED <<registryVars, ringVars, pc, op, waiter, wait_result>>
    BY <1>1 DEF Reject, CreateNoSpace
  <2>2. CallInv'
    BY <2>1 DEF CallInv, CallOK, registryVars
  <2>3. WaitInv'
    BY <2>1 DEF WaitInv, WaitOK, ringVars
  <2>4. SlotInv'
    BY <2>1 DEF SlotInv, SlotOK, OwnerOK, Owner, Opened, registryVars, ringVars
  <2> QED BY <2>2, <2>3, <2>4
<1>2. CASE Call(t)
  <2>1. PICK o \in HandleOp : /\ o.h <= issued /\ EarlyError(o) = "ok"
                              /\ op' = [op EXCEPT ![t] = o]
    BY <1>2 DEF Call
  <2>2. /\ UNCHANGED <<registryVars, ringVars, waiter, wait_result>>
        /\ pc[t] = "idle" /\ pc'[t] = "lock" /\ op'[t] = o
        /\ Alone(t)
    BY <1>0, <1>2, <2>1 DEF Call, TaskTypeOK, Alone
  <2>3. /\ o.h = generation
        /\ o.kind = "send" /\ o.mode # "try" => Fits(o)
    BY <2>1 DEF EarlyError
  <2>4. issued = generation /\ generation > 0
    BY <1>0, <2>1, <2>3, Looked
  <2>5. message_size = MessageSize
    BY <2>4, ChannelAssumption DEF SlotInv, SlotOK, message_size
  <2>6. CallOK(t)'
    BY <2>2, <2>3, <2>4, <2>5 DEF CallOK, Fits, registryVars
  <2>7. WaitOK(t)' /\ ~Owner(t)' /\ ~Owner(t)
    BY <2>2 DEF WaitOK, Owner
  <2>8. CallInv'
    BY <2>2, <2>6, CallFrame DEF registryVars
  <2>9. WaitInv'
    BY <2>2, <2>7, WaitFrame DEF ringVars
  <2>10. SlotInv'
    BY <2>2, <2>7, SlotFrame DEF ringVars, SlotInv, SlotOK
  <2> QED BY <2>8, <2>9, <2>10
<1>3. CASE Allocate(t)
  <2>1. /\ pc[t] = "idle" /\ ~allocated /\ allocated'
        /\ generation' = generation + 1 /\ issued' = issued
        /\ UNCHANGED <<ringVars, waiter, wait_result>>
        /\ \A u \in Task : u # t => pc[u] = "idle"
    BY <1>3 DEF Allocate
  <2>2. pc'[t] = "clear" /\ op'[t] = CreateOp /\ Alone(t)
    BY <1>0, <1>3 DEF Allocate, TaskTypeOK, Alone
  <2>3. \A u \in Task : u # t => pc'[u] = "idle" /\ op'[u] = NoOp
    BY <2>1, <2>2 DEF Alone, CallInv, CallOK
  <2>4. CallInv'
    BY <2>2, <2>3 DEF CallInv, CallOK, NoOp
  <2>5. WaitInv'
    BY <2>2, <2>3 DEF WaitInv, WaitOK
  <2>6. issued = generation /\ ~Opened
    BY <2>1 DEF SlotInv, SlotOK
  <2>7. SlotOK'
    <3>1. ~Opened'
      BY <2>1, <2>6 DEF Opened, ringVars
    <3>2. Owner(t)'
      BY <2>2 DEF Owner
    <3>3. issued' # generation'
      BY <1>0, <2>1, <2>6
    <3> QED BY <2>1, <3>1, <3>2, <3>3 DEF SlotInv, SlotOK, ringVars
  <2>8. \A u \in Task : OwnerOK(u)'
    BY <2>1, <2>2, <2>3, <2>6 DEF OwnerOK
  <2> QED BY <2>4, <2>5, <2>7, <2>8 DEF SlotInv
<1> QED BY <1>1, <1>2, <1>3 DEF Begin

(* The object is made...                                                   *)
LEMMA RefInvCreate ==
    ASSUME ChannelInv, CallInv, WaitInv, SlotInv, NEW t \in Task,
           ClearObject(t) \/ SetupObject(t)
    PROVE  CallInv' /\ WaitInv' /\ SlotInv'
<1>0. /\ RegistryTypeOK /\ RingTypeOK /\ TaskTypeOK /\ RingConsistent
      /\ generation \in Nat /\ issued \in Nat
  BY ChannelAssumption DEF ChannelInv, RingInv, TypeOK, RegistryTypeOK
<1>1. pc[t] \in {"clear", "setup"}
  BY DEF ClearObject, SetupObject
<1>2. /\ allocated /\ generation = issued + 1 /\ op[t] = CreateOp
      /\ \A u \in Task : u # t => pc[u] = "idle"
  BY <1>1 DEF ChannelInv, Creating, SlotInv, OwnerOK, CallInv, CallOK
<1>3. CASE ClearObject(t)
  <2>1. /\ Alone(t) /\ pc'[t] = "setup" /\ op'[t] = op[t]
    BY <1>0, <1>3, GotoAlone DEF ClearObject
  <2>2. \A u \in Task : u # t => pc'[u] = "idle"
    BY <1>2, <2>1 DEF Alone
  <2>3. CallInv'
    BY <1>2, <2>1, <2>2 DEF CallInv, CallOK, Alone, CreateOp
  <2>4. WaitInv'
    BY <2>1, <2>2 DEF WaitInv, WaitOK
  <2>5. /\ UNCHANGED registryVars /\ ~destroyed' /\ capacity' = 0
    BY <1>3 DEF ClearObject
  <2>6. SlotOK'
    <3>1. Owner(t)'
      BY <2>1 DEF Owner
    <3> QED
      BY <1>0, <1>2, <2>5, <3>1 DEF SlotOK, Opened, registryVars
  <2>7. \A u \in Task : OwnerOK(u)'
    BY <1>2, <2>1, <2>2, <2>5 DEF OwnerOK, registryVars
  <2> QED BY <2>3, <2>4, <2>6, <2>7 DEF SlotInv
<1>4. CASE SetupObject(t)
  <2>1. /\ Alone(t) /\ pc'[t] = "idle" /\ op'[t] = NoOp
    BY <1>0, <1>4, ReturnOK DEF SetupObject
  <2>2. \A u \in Task : pc'[u] = "idle" /\ op'[u] = NoOp
    BY <1>2, <2>1 DEF Alone, CallInv, CallOK
  <2>3. CallInv'
    BY <2>2 DEF CallInv, CallOK
  <2>4. WaitInv'
    BY <2>2 DEF WaitInv, WaitOK
  <2>5. /\ issued' = generation /\ generation' = generation
        /\ allocated' = allocated /\ destroyed' = destroyed
        /\ depth' = depth /\ capacity' = Capacity /\ pc[t] = "setup"
    BY <1>4 DEF SetupObject
  <2>6. ~destroyed
    BY <2>5 DEF SlotInv, OwnerOK
  <2>7. SlotOK'
    BY <1>0, <1>2, <2>5, <2>6, ChannelAssumption DEF SlotOK, Opened
  <2>8. \A u \in Task : OwnerOK(u)'
    BY <2>2 DEF OwnerOK
  <2> QED BY <2>3, <2>4, <2>7, <2>8 DEF SlotInv
<1> QED BY <1>3, <1>4

(* ... and unmade.                                                         *)
LEMMA RefInvUnmake ==
    ASSUME ChannelInv, CallInv, WaitInv, SlotInv, NEW t \in Task,
           Destroy(t) \/ Release(t)
    PROVE  CallInv' /\ WaitInv' /\ SlotInv'
<1>0. /\ RegistryTypeOK /\ RingTypeOK /\ TaskTypeOK
      /\ waiter \in [Task -> Waiter]
  BY DEF ChannelInv, RingInv, TypeOK, TaskTypeOK
<1>1. CASE Destroy(t)
  <2>1. /\ pc[t] = "lock" /\ ~destroyed /\ destroyed' /\ depth' = 0
        /\ capacity' = capacity /\ UNCHANGED registryVars
        /\ op[t].kind = "destroy"
    BY <1>1 DEF Destroy
  <2>2. Alone(t) /\ pc'[t] = "release" /\ op'[t] = op[t]
    BY <1>0, <1>1, GotoAlone DEF Destroy
  <2>3. CallOK(t)' /\ WaitOK(t)' /\ Owner(t)'
    BY <2>1, <2>2 DEF CallInv, CallOK, WaitOK, Owner, registryVars
  <2>4. \A u \in Task :
            waiter'[u] = waiter[u] \/ waiter'[u].result = "destroyed"
    BY <1>1 DEF Destroy, WokenAll, Woken
  <2>5. CallInv'
    BY <2>1, <2>2, <2>3, CallFrame DEF registryVars
  <2>6. WaitInv'
    BY <2>1, <2>2, <2>3, <2>4, WaitFrame
  <2>7. /\ issued = generation /\ generation > 0 /\ allocated
    <3>1. /\ op[t] \in HandleOp /\ op[t].h = generation /\ issued = generation
      BY <2>1 DEF CallInv, CallOK
    <3>2. op[t].h <= issued
      BY <1>0, <3>1, ChannelAssumption DEF RegistryTypeOK
    <3>3. generation > 0
      BY <1>0, <3>1, <3>2, Looked
    <3>4. Opened
      BY <2>1, <3>1, <3>3, ChannelAssumption DEF SlotInv, SlotOK, Opened
    <3> QED BY <3>1, <3>3, <3>4 DEF SlotInv, SlotOK
  <2>8. SlotOK'
    BY <2>1, <2>3, <2>7 DEF SlotInv, SlotOK, Opened, registryVars
  <2>9. ASSUME NEW u \in Task PROVE OwnerOK(u)'
    <3>1. \A v \in Task : pc[v] # "release" /\ pc[v] \notin {"clear", "setup"}
      BY <1>0, <2>1, <2>7, ChannelAssumption
         DEF SlotInv, OwnerOK, RegistryTypeOK
    <3>2. \A v \in Task : v # t => pc'[v] \notin {"release", "clear", "setup"}
      BY <2>2, <3>1 DEF Alone
    <3> QED BY <2>1, <2>2, <2>7, <3>2 DEF OwnerOK, registryVars
  <2> QED BY <2>5, <2>6, <2>8, <2>9 DEF SlotInv
<1>2. CASE Release(t)
  <2>1. /\ pc[t] = "release" /\ ~allocated' /\ generation' = generation
        /\ issued' = issued /\ UNCHANGED <<ringVars, waiter>>
    BY <1>2 DEF Release
  <2>2. Alone(t) /\ CallOK(t)' /\ WaitOK(t)' /\ ~Owner(t)' /\ pc'[t] = "idle"
    BY <1>0, <1>2, ReturnOK DEF Release
  <2>3. /\ allocated /\ destroyed /\ issued = generation
        /\ \A u \in Task : u # t => pc[u] # "release"
    BY <2>1 DEF SlotInv, OwnerOK, CallInv, CallOK
  <2>4. CallInv'
    BY <2>1, <2>2, CallFrame
  <2>5. WaitInv'
    BY <2>1, <2>2, WaitFrame DEF ringVars
  <2>6. SlotOK'
    BY <2>1, <2>3 DEF SlotInv, SlotOK, Opened, ringVars
  <2>7. \A u \in Task : OwnerOK(u)'
    BY <2>1, <2>2, <2>3 DEF SlotInv, OwnerOK, Alone, ringVars
  <2> QED BY <2>4, <2>5, <2>6, <2>7 DEF SlotInv
<1> QED BY <1>1, <1>2

LEMMA RefInvInit == Init => CallInv /\ WaitInv /\ SlotInv
<1> SUFFICES ASSUME Init PROVE CallInv /\ WaitInv /\ SlotInv
  OBVIOUS
<1>1. CallInv /\ WaitInv
  BY DEF Init, CallInv, CallOK, WaitInv, WaitOK
<1>2. SlotInv
  BY DEF Init, SlotInv, SlotOK, OwnerOK, Owner, Opened
<1> QED BY <1>1, <1>2

LEMMA RefInvNext == OrderlyReuse /\ RefInv /\ [Next]_vars => RefInv'
<1> SUFFICES ASSUME OrderlyReuse, RefInv, [Next]_vars PROVE RefInv'
  OBVIOUS
<1>0. /\ ChannelInv /\ CallInv /\ WaitInv /\ SlotInv
      /\ TaskTypeOK /\ QueueTypeOK /\ QueueInv
  BY DEF RefInv, ChannelInv, RingInv, TypeOK
<1>1. ChannelInv'
  BY <1>0, RingInvNext, QueueInvNext, CreatingNext DEF ChannelInv, RingInv, TypeOK
<1>2. CASE UNCHANGED vars
  <2>1. CallInv' /\ WaitInv'
    BY <1>0, <1>2 DEF vars, registryVars, ringVars, taskVars, CallInv, CallOK,
                      WaitInv, WaitOK
  <2>2. SlotInv'
    BY <1>0, <1>2 DEF vars, registryVars, ringVars, taskVars, SlotInv, SlotOK,
                      OwnerOK, Owner, Opened
  <2> QED BY <1>1, <2>1, <2>2 DEF RefInv
<1>3. ASSUME NEW t \in Task, Begin(t)
      PROVE  CallInv' /\ WaitInv' /\ SlotInv'
  BY <1>0, <1>3, RefInvBegin
<1>4. ASSUME NEW t \in Task, Step(t)
      PROVE  CallInv' /\ WaitInv' /\ SlotInv'
  <2>1. CASE ClearObject(t) \/ SetupObject(t)
    BY <1>0, <2>1, RefInvCreate
  <2>2. CASE Send(t) \/ Recv(t)
    BY <1>0, <2>2, RefInvTransfer
  <2>3. CASE Park(t) \/ BlockTaken(t) \/ BlockTimeout(t)
    BY <1>0, <2>3, RefInvWait
  <2>4. CASE Destroy(t) \/ Release(t)
    BY <1>0, <2>4, RefInvUnmake
  <2>5. CASE \/ FindDestroyed(t) \/ TrySendInvalid(t) \/ RecvTooSmall(t)
             \/ Refuse(t) \/ ZeroTimeout(t) \/ GiveUp(t)
    <3>1. /\ \E r : Return(t, r)
          /\ UNCHANGED <<registryVars, ringVars>>
          /\ pc[t] \in {"lock", "relock"}
      BY <2>5 DEF FindDestroyed, TrySendInvalid, RecvTooSmall, Refuse,
                  ZeroTimeout, GiveUp, Blocked, InSection
    <3>2. \A u \in Task : u # t => waiter'[u] = waiter[u]
      BY <1>0, <2>5 DEF FindDestroyed, TrySendInvalid, RecvTooSmall, Refuse,
                        ZeroTimeout, GiveUp, TaskTypeOK
    <3>3. ~Owner(t)
      BY <3>1 DEF Owner
    <3> QED BY <1>0, <3>1, <3>2, <3>3, RefInvReturn
  <2> QED BY <1>4, <2>1, <2>2, <2>3, <2>4, <2>5 DEF Step
<1> QED BY <1>0, <1>1, <1>2, <1>3, <1>4 DEF Next, RefInv

-----------------------------------------------------------------------------
(* The contents of the ring.                                               *)

LEMMA ContentsRing ==
    ASSUME NEW m, NEW h \in Nat, NEW n \in Nat
    PROVE  [i \in 1 .. n |-> m[(h + i - 1) % Capacity]]
               = RingContents(m, h, n, Capacity)
<1>1. ASSUME NEW i \in 1 .. n
      PROVE  m[(h + i - 1) % Capacity] = m[Slot(h, i - 1, Capacity)]
  <2>1. h + i - 1 = h + (i - 1)
    OBVIOUS
  <2> QED BY <2>1 DEF Slot
<1> QED BY <1>1 DEF RingContents

LEMMA ContentsLength ==
    ASSUME RingTypeOK
    PROVE  /\ Len(Contents) = depth
           /\ Contents = << >> <=> depth = 0
<1>1. depth \in Nat /\ depth \in 0 .. Capacity /\ Capacity \in Nat \ {0}
  BY ChannelAssumption DEF RingTypeOK
<1> QED BY <1>1 DEF Contents

LEMMA ContentsHead ==
    ASSUME RingTypeOK, depth # 0
    PROVE  Contents # << >> /\ Head(Contents) = messages[head]
<1>1. /\ depth \in 1 .. Capacity /\ head \in 0 .. Capacity - 1
      /\ Capacity \in Nat \ {0}
      /\ messages \in [0 .. Capacity - 1 -> Lengths \cup {0}]
  BY ChannelAssumption DEF RingTypeOK
<1>2. messages = [i \in 0 .. Capacity - 1 |-> messages[i]]
  BY <1>1
<1>3. Contents = RingContents(messages, head, depth, Capacity)
  <2>1. head \in Nat /\ depth \in Nat
    BY <1>1
  <2> QED BY <2>1, ContentsRing DEF Contents
<1> QED BY <1>1, <1>2, <1>3, RingContentsTail

LEMMA SameContents ==
    ASSUME messages' = messages, head' = head, depth' = depth
    PROVE  Contents' = Contents
BY DEF Contents

LEMMA ContentsSend ==
    ASSUME RingInv, RingTypeOK', NEW t \in Task, Send(t)
    PROVE  Contents' = Append(Contents, op[t].arg)
<1>1. /\ capacity = Capacity /\ Capacity \in Nat \ {0}
      /\ depth \in 0 .. Capacity - 1 /\ head \in 0 .. Capacity - 1
      /\ tail = (head + depth) % Capacity
      /\ messages \in [0 .. Capacity - 1 -> Lengths \cup {0}]
      /\ RingTypeOK
  BY ChannelAssumption
     DEF RingInv, TypeOK, RingTypeOK, RingConsistent, Send, Full
<1>2. /\ depth' = depth + 1 /\ head' = head
      /\ messages' = [messages EXCEPT ![Slot(head, depth, Capacity)] = op[t].arg]
  BY <1>1 DEF Send, Slot
<1>3. messages = [i \in 0 .. Capacity - 1 |-> messages[i]]
  BY <1>1
<1>4. RingContents(messages', head, depth + 1, Capacity)
          = Append(RingContents(messages, head, depth, Capacity), op[t].arg)
  <2>1. /\ Capacity \in Nat \ {0} /\ head \in 0 .. Capacity - 1
        /\ depth \in 0 .. Capacity - 1
    BY <1>1
  <2>2. RingContents([messages EXCEPT ![Slot(head, depth, Capacity)] = op[t].arg],
                     head, depth + 1, Capacity)
          = Append(RingContents(messages, head, depth, Capacity), op[t].arg)
    BY ONLY <1>3, <2>1, RingContentsAppend, Z3
  <2> QED BY ONLY <1>2, <2>2
<1>5. Contents = RingContents(messages, head, depth, Capacity)
  <2>1. head \in Nat /\ depth \in Nat
    BY <1>1
  <2> QED BY <2>1, ContentsRing DEF Contents
<1>6. Contents' = RingContents(messages', head', depth', Capacity)
  <2>1. head' \in Nat /\ depth' \in Nat
    BY <1>1 DEF RingTypeOK
  <2> QED BY <2>1, ContentsRing DEF Contents
<1> QED BY <1>2, <1>4, <1>5, <1>6

LEMMA ContentsRecv ==
    ASSUME RingInv, RingTypeOK', NEW t \in Task, Recv(t)
    PROVE  /\ Contents # << >> /\ Head(Contents) = messages[head]
           /\ Contents' = Tail(Contents)
<1>1. /\ capacity = Capacity /\ Capacity \in Nat \ {0}
      /\ depth \in 1 .. Capacity /\ head \in 0 .. Capacity - 1
      /\ messages \in [0 .. Capacity - 1 -> Lengths \cup {0}]
      /\ RingTypeOK
  BY ChannelAssumption
     DEF RingInv, TypeOK, RingTypeOK, RingConsistent, Recv, Empty
<1>2. /\ depth' = depth - 1 /\ head' = Slot(head, 1, Capacity)
      /\ messages' = messages
  BY <1>1 DEF Recv, Following, Slot
<1>3. messages = [i \in 0 .. Capacity - 1 |-> messages[i]]
  BY <1>1
<1>4. /\ RingContents(messages, head, depth, Capacity) # << >>
      /\ Head(RingContents(messages, head, depth, Capacity)) = messages[head]
      /\ RingContents(messages, Slot(head, 1, Capacity), depth - 1, Capacity)
            = Tail(RingContents(messages, head, depth, Capacity))
  BY <1>1, <1>3, RingContentsTail
<1>5. Contents = RingContents(messages, head, depth, Capacity)
  <2>1. head \in Nat /\ depth \in Nat
    BY <1>1
  <2> QED BY <2>1, ContentsRing DEF Contents
<1>6. Contents' = RingContents(messages', head', depth', Capacity)
  <2>1. head' \in Nat /\ depth' \in Nat
    BY <1>1 DEF RingTypeOK
  <2> QED BY <2>1, ContentsRing DEF Contents
<1> QED BY <1>2, <1>4, <1>5, <1>6

-----------------------------------------------------------------------------
(* The steps of the implementation, as steps of the promise.               *)

(* What a call under the channel's lock, or before it, knows of the slot.  *)
LEMMA LiveCall ==
    ASSUME RefInv, NEW t \in Task, pc[t] \in {"lock", "wait", "relock", "release"}
    PROVE  /\ op[t] \in HandleOp /\ op[t] # NoOp /\ op[t].h = issued
           /\ capacity = Capacity /\ message_size = MessageSize
           /\ Opened <=> ~destroyed
<1>1. op[t] \in HandleOp /\ op[t].h = generation /\ issued = generation
  BY DEF RefInv, CallInv, CallOK
<1>2. generation > 0
  <2>1. RegistryTypeOK /\ RingTypeOK /\ generation \in Nat
    BY ChannelAssumption DEF RefInv, ChannelInv, RingInv, TypeOK, RegistryTypeOK
  <2> QED BY <1>1, <2>1, Looked
<1>3. capacity = Capacity
  BY <1>1, <1>2 DEF RefInv, SlotInv, SlotOK
<1>4. op[t].h # 0
  BY <1>1 DEF HandleOp, SendOp, RecvOp, DestroyOp
<1> QED
  BY <1>1, <1>3, <1>4, ChannelAssumption DEF NoOp, Opened, message_size

(* A call that fails, and changes nothing the callers can see.             *)
LEMMA FailStep ==
    ASSUME NEW t \in Task,
           NEW e \in {"invalid_handle", "invalid_argument", "no_space",
                      "not_ready", "timeout", "destroyed"},
           op' = [op EXCEPT ![t] = NoOp],
           ret' = [ret EXCEPT ![t] = Reply(e, 0)],
           NEW c \in HandleOp \cup {CreateOp}, op[t] # NoOp => c = op[t],
           Abstract!Excuse(t, c, e),
           issued' = issued, Opened' = Opened, Contents' = Contents,
           Closing' = Closing
    PROVE  Abstract!Fail(t)
<1>1. c \in IF op[t] = NoOp THEN HandleOp \cup {CreateOp} ELSE {op[t]}
  OBVIOUS
<1>2. Reply(e, 0) = Abstract!Reply(e, 0)
  BY DEF Reply, Abstract!Reply
<1>3. Abstract!Finish(t, Abstract!Reply(e, 0))
  BY <1>2 DEF Abstract!Finish
<1> QED BY <1>1, <1>3 DEF Abstract!Fail

(* The tasks that are on their way out of a destroy, when t is not.        *)
LEMMA SameClosing ==
    ASSUME NEW t \in Task, Alone(t), pc[t] # "release", pc'[t] # "release"
    PROVE  Closing' = Closing
BY DEF Closing, Alone

LEMMA SameObject ==
    ASSUME UNCHANGED ringVars
    PROVE  Opened' = Opened /\ Contents' = Contents
<1>1. Opened' = Opened
  BY DEF ringVars, Opened
<1>2. Contents' = Contents
  BY SameContents DEF ringVars
<1> QED BY <1>1, <1>2

(* A call fails before it has taken the lock.                              *)
LEMMA RejectStep ==
    ASSUME RefInv, NEW t \in Task, Reject(t) \/ CreateNoSpace(t)
    PROVE  Abstract!Fail(t)
<1>0. RegistryTypeOK /\ RingTypeOK /\ TaskTypeOK
  BY DEF RefInv, ChannelInv, RingInv, TypeOK
<1>1. /\ pc[t] = "idle" /\ pc' = pc /\ op' = op
      /\ UNCHANGED <<registryVars, ringVars>>
  BY DEF Reject, CreateNoSpace
<1>2. op[t] = NoOp /\ op' = [op EXCEPT ![t] = NoOp]
  BY <1>0, <1>1 DEF RefInv, CallInv, CallOK, TaskTypeOK
<1>3. /\ issued' = issued /\ Opened' = Opened /\ Contents' = Contents
      /\ Closing' = Closing
  BY <1>1, SameObject DEF registryVars, Closing
<1>4. CASE Reject(t)
  <2>1. PICK o \in HandleOp :
            /\ o.h <= issued /\ EarlyError(o) # "ok"
            /\ ret' = [ret EXCEPT ![t] = Reply(EarlyError(o), 0)]
    BY <1>4 DEF Reject
  <2>2. CASE o.h # generation
    <3>1. EarlyError(o) = "invalid_handle"
      BY <2>2 DEF EarlyError
    <3>2. ~Abstract!Live(o)
      BY <2>2 DEF Abstract!Live, RefInv, SlotInv, SlotOK
    <3>3. Abstract!Excuse(t, o, "invalid_handle")
      BY <3>2 DEF Abstract!Excuse
    <3> QED BY <1>2, <1>3, <2>1, <3>1, <3>3, FailStep
  <2>3. CASE o.h = generation
    <3>1. EarlyError(o) = "invalid_argument"
      BY <2>1, <2>3 DEF EarlyError
    <3>2. message_size = MessageSize
      <4>1. issued = generation /\ generation > 0
        BY <1>0, <2>1, <2>3, Looked
      <4> QED
        BY <4>1, ChannelAssumption DEF RefInv, SlotInv, SlotOK, message_size
    <3>3. \/ o.kind = "send" /\ o.arg \notin 1 .. MessageSize
          \/ o.kind = "recv" /\ o.arg = 0
      BY <2>1, <2>3, <3>2 DEF EarlyError, Fits
    <3>4. Abstract!Excuse(t, o, "invalid_argument")
      BY <3>3 DEF Abstract!Excuse
    <3> QED BY <1>2, <1>3, <2>1, <3>1, <3>4, FailStep
  <2> QED BY <2>2, <2>3
<1>5. CASE CreateNoSpace(t)
  <2>1. allocated /\ ret' = [ret EXCEPT ![t] = Reply("no_space", 0)]
    BY <1>5 DEF CreateNoSpace
  <2>2. Opened \/ \E u \in Task : Owner(u)
    BY <2>1 DEF RefInv, SlotInv, SlotOK
  <2>3. ASSUME NEW u \in Task, Owner(u)
        PROVE  \/ Closing # {}
               \/ \E v \in Task \ {t} : op[v].kind = "create"
    <3>1. CASE pc[u] = "release"
      BY <3>1 DEF Closing
    <3>2. CASE pc[u] \in {"clear", "setup"}
      <4>1. u # t /\ op[u] = CreateOp
        BY <1>1, <3>2 DEF RefInv, CallInv, CallOK
      <4> QED BY <4>1 DEF CreateOp
    <3> QED BY <2>3, <3>1, <3>2 DEF Owner
  <2>4. CreateOp.kind = "create"
    BY DEF CreateOp
  <2>5. Abstract!Excuse(t, CreateOp, "no_space")
    BY <2>2, <2>3, <2>4 DEF Abstract!Excuse
  <2> QED BY <1>2, <1>3, <2>1, <2>5, FailStep
<1> QED BY <1>4, <1>5

(* A call begins.                                                          *)
LEMMA StartStep ==
    ASSUME RefInv, NEW t \in Task, Call(t) \/ Allocate(t)
    PROVE  Abstract!Start(t)
<1>0. TaskTypeOK
  BY DEF RefInv, ChannelInv, RingInv, TypeOK
<1>1. /\ pc[t] = "idle" /\ ret' = [ret EXCEPT ![t] = NoReply]
      /\ issued' = issued /\ UNCHANGED ringVars
  BY DEF Call, Allocate, registryVars
<1>2. op[t] = NoOp
  BY <1>1 DEF RefInv, CallInv, CallOK
<1>3. \E c \in HandleOp \cup {CreateOp} : op' = [op EXCEPT ![t] = c]
  BY DEF Call, Allocate
<1>4. Alone(t) /\ pc'[t] # "release"
  BY <1>0 DEF Call, Allocate, TaskTypeOK, Alone
<1>5. Opened' = Opened /\ Contents' = Contents /\ Closing' = Closing
  BY <1>1, <1>4, SameObject, SameClosing
<1>6. NoReply = Abstract!NoReply
  BY DEF NoReply, Reply, Abstract!NoReply, Abstract!Reply
<1> QED BY <1>1, <1>2, <1>3, <1>5, <1>6 DEF Abstract!Start

(* A call fails under the lock.                                            *)
LEMMA FailUnderLock ==
    ASSUME RefInv, NEW t \in Task,
           \/ FindDestroyed(t) \/ TrySendInvalid(t) \/ RecvTooSmall(t)
           \/ Refuse(t) \/ ZeroTimeout(t) \/ GiveUp(t)
    PROVE  Abstract!Fail(t)
<1>0. /\ RingTypeOK /\ TaskTypeOK /\ RingInv /\ QueueInv
      /\ Capacity \in Nat /\ depth \in Nat
  BY ChannelAssumption
     DEF RefInv, ChannelInv, RingInv, TypeOK, RingTypeOK
<1>1. /\ pc[t] \in {"lock", "relock"} /\ \E r : Return(t, r)
      /\ UNCHANGED <<registryVars, ringVars>>
  BY DEF FindDestroyed, TrySendInvalid, RecvTooSmall, Refuse, ZeroTimeout,
         GiveUp, Blocked, InSection
<1>2. /\ op[t] \in HandleOp /\ op[t] # NoOp /\ op[t].h = issued
      /\ capacity = Capacity /\ message_size = MessageSize
      /\ Opened <=> ~destroyed
  BY <1>1, LiveCall
<1>3. Alone(t) /\ pc'[t] = "idle"
  BY <1>0, <1>1, ReturnAlone
<1>4. /\ issued' = issued /\ Opened' = Opened /\ Contents' = Contents
      /\ Closing' = Closing
  BY <1>1, <1>3, SameObject, SameClosing DEF registryVars
<1>5. ASSUME NEW e \in {"invalid_handle", "invalid_argument", "no_space",
                        "not_ready", "timeout", "destroyed"},
             Return(t, Reply(e, 0)), Abstract!Excuse(t, op[t], e)
      PROVE  Abstract!Fail(t)
  BY <1>2, <1>4, <1>5, FailStep DEF Return
<1>6. CASE FindDestroyed(t)
  <2>1. ~Abstract!Live(op[t])
    BY <1>2, <1>6 DEF FindDestroyed, Abstract!Live
  <2>2. Abstract!Excuse(t, op[t], "destroyed")
    BY <2>1 DEF Abstract!Excuse
  <2> QED BY <1>5, <1>6, <2>2 DEF FindDestroyed
<1>7. CASE TrySendInvalid(t)
  <2>1. op[t].kind = "send" /\ op[t].arg \notin 1 .. MessageSize
    BY <1>2, <1>7 DEF TrySendInvalid, InSection, Fits
  <2>2. Abstract!Excuse(t, op[t], "invalid_argument")
    BY <2>1 DEF Abstract!Excuse
  <2> QED BY <1>5, <1>7, <2>2 DEF TrySendInvalid
<1>8. CASE RecvTooSmall(t)
  <2>1. /\ op[t].kind = "recv" /\ depth # 0 /\ op[t].arg < messages[head]
    BY <1>8 DEF RecvTooSmall, InSection, Empty
  <2>2. Contents # << >> /\ Head(Contents) = messages[head]
    BY <1>0, <2>1, ContentsHead
  <2>3. Abstract!Excuse(t, op[t], "invalid_argument")
    BY <2>1, <2>2 DEF Abstract!Excuse
  <2> QED BY <1>5, <1>8, <2>3 DEF RecvTooSmall
<1>9. CASE Refuse(t)
  <2>1. /\ op[t].mode = "try"
        /\ \/ op[t].kind = "send" /\ depth = Capacity
           \/ op[t].kind = "recv" /\ depth = 0
    BY <1>2, <1>9 DEF Refuse, Blocked, InSection, Full, Empty
  <2>2. Len(Contents) = depth /\ (depth = 0 => Contents = << >>)
    BY <1>0, ContentsLength
  <2>3. CASE op[t].kind = "send"
    <3>1. Return(t, Reply("no_space", 0))
      BY <1>9, <2>3 DEF Refuse
    <3>2. Abstract!Excuse(t, op[t], "no_space")
      BY <2>1, <2>2, <2>3 DEF Abstract!Excuse
    <3> QED BY <1>5, <3>1, <3>2
  <2>4. CASE op[t].kind = "recv"
    <3>1. Return(t, Reply("not_ready", 0))
      BY <1>9, <2>4 DEF Refuse
    <3>2. Abstract!Excuse(t, op[t], "not_ready")
      BY <2>1, <2>2, <2>4 DEF Abstract!Excuse
    <3> QED BY <1>5, <3>1, <3>2
  <2> QED BY <2>1, <2>3, <2>4
<1>10. CASE ZeroTimeout(t)
  <2>1. op[t].mode = "zero" /\ op[t].kind \in {"send", "recv"}
    BY <1>10 DEF ZeroTimeout, Blocked, InSection
  <2>2. Abstract!Excuse(t, op[t], "timeout")
    BY <2>1 DEF Abstract!Excuse
  <2> QED BY <1>5, <1>10, <2>2 DEF ZeroTimeout
<1>11. CASE GiveUp(t)
  <2>1. /\ pc[t] = "relock"
        /\ destroyed \/ wait_result[t] # "ok"
        /\ op[t].kind \in {"send", "recv"}
    BY <1>0, <1>11 DEF GiveUp, QueueInv, WaiterState
  <2>2. CASE destroyed
    <3>1. Return(t, Reply("destroyed", 0))
      BY <1>11, <2>2 DEF GiveUp
    <3>2. Abstract!Excuse(t, op[t], "destroyed")
      BY <1>2, <2>2 DEF Abstract!Excuse, Abstract!Live
    <3> QED BY <1>5, <3>1, <3>2
  <2>3. CASE ~destroyed
    <3>1. wait_result[t] = "timeout" /\ op[t].mode = "finite"
      BY <1>0, <2>1, <2>3 DEF RefInv, WaitInv, WaitOK, TaskTypeOK, WaitResult
    <3>2. Return(t, Reply("timeout", 0))
      BY <1>11, <2>3, <3>1 DEF GiveUp
    <3>3. Abstract!Excuse(t, op[t], "timeout")
      BY <2>1, <3>1 DEF Abstract!Excuse
    <3> QED BY <1>5, <3>2, <3>3
  <2> QED BY <2>2, <2>3
<1> QED BY <1>6, <1>7, <1>8, <1>9, <1>10, <1>11

(* No message is longer than the channel takes.                            *)
LEMMA SentFits ==
    ASSUME RefInv, NEW t \in Task, Send(t)
    PROVE  op[t].arg \in 1 .. MessageSize
<1>1. op[t].kind = "send" /\ pc[t] \in {"lock", "relock"}
  BY DEF Send, InSection
<1>2. CASE op[t].mode = "try"
  BY <1>1, <1>2, LiveCall DEF Send, Fits
<1>3. CASE op[t].mode # "try"
  BY <1>1, <1>3 DEF RefInv, CallInv, CallOK
<1> QED BY <1>2, <1>3

(* A message goes in, or out.                                              *)
LEMMA TransferStep ==
    ASSUME RefInv, RefInv', NEW t \in Task
    PROVE  /\ Send(t) => Abstract!Send(t)
           /\ Recv(t) => Abstract!Recv(t)
<1>0. /\ RingInv /\ RingTypeOK /\ RingTypeOK' /\ TaskTypeOK
      /\ Len(Contents) = depth
  BY ContentsLength DEF RefInv, ChannelInv, RingInv, TypeOK
<1>1. ASSUME Send(t) \/ Recv(t)
      PROVE  /\ Abstract!Live(op[t])
             /\ capacity = Capacity /\ message_size = MessageSize
             /\ issued' = issued /\ Opened' = Opened /\ Closing' = Closing
  <2>1. /\ pc[t] \in {"lock", "relock"} /\ ~destroyed
        /\ UNCHANGED <<registryVars, destroyed, capacity>>
        /\ \E r : Return(t, r)
    BY <1>1 DEF Send, Recv, InSection
  <2>2. Alone(t) /\ pc'[t] = "idle"
    BY <1>0, <2>1, ReturnAlone
  <2>3. Closing' = Closing
    BY <2>1, <2>2, SameClosing
  <2>4. /\ op[t].h = issued /\ capacity = Capacity
        /\ message_size = MessageSize /\ Opened
    BY <2>1, LiveCall
  <2>5. Opened' = Opened
    BY <2>1 DEF Opened
  <2> QED BY <2>1, <2>3, <2>4, <2>5 DEF Abstract!Live, registryVars
<1>2. ASSUME Send(t)
      PROVE  Abstract!Send(t)
  <2>1. op[t].kind = "send" /\ pc[t] \in {"lock", "relock"} /\ depth # capacity
    BY <1>2 DEF Send, InSection, Full
  <2>2. op[t].arg \in 1 .. MessageSize
    BY <1>2, SentFits
  <2>3. Len(Contents) < Capacity
    BY <1>0, <1>1, <1>2, <2>1, ChannelAssumption DEF RingTypeOK
  <2>4. Contents' = Append(Contents, op[t].arg)
    BY <1>0, <1>2, ContentsSend
  <2>5. Abstract!Finish(t, Abstract!Reply("ok", 0))
    BY <1>2 DEF Send, Return, Reply, Abstract!Finish, Abstract!Reply
  <2> QED
    BY <1>1, <1>2, <2>1, <2>2, <2>3, <2>4, <2>5 DEF Abstract!Send
<1>3. ASSUME Recv(t)
      PROVE  Abstract!Recv(t)
  <2>1. op[t].kind = "recv" /\ op[t].arg >= messages[head]
    BY <1>3 DEF Recv, InSection
  <2>2. /\ Contents # << >> /\ Head(Contents) = messages[head]
        /\ Contents' = Tail(Contents)
    BY <1>0, <1>3, ContentsRecv
  <2>3. Return(t, Reply("ok", Head(Contents)))
    BY <1>3, <2>2 DEF Recv
  <2>4. Abstract!Finish(t, Abstract!Reply("ok", Head(Contents)))
    BY <2>3 DEF Return, Reply, Abstract!Finish, Abstract!Reply
  <2> QED BY <1>1, <1>3, <2>1, <2>2, <2>4 DEF Abstract!Recv
<1> QED BY <1>2, <1>3

(* A channel is destroyed, and its slot is given back.                     *)
LEMMA DestroyStep ==
    ASSUME RefInv, NEW t \in Task
    PROVE  /\ Destroy(t) => Abstract!Destroy(t)
           /\ Release(t) => Abstract!Destroyed(t)
<1>0. RegistryTypeOK /\ RingTypeOK /\ TaskTypeOK
  BY DEF RefInv, ChannelInv, RingInv, TypeOK
<1>1. ASSUME Destroy(t)
      PROVE  Abstract!Destroy(t)
  <2>1. /\ pc[t] = "lock" /\ op[t].kind = "destroy" /\ ~destroyed /\ destroyed'
        /\ depth' = 0 /\ issued' = issued /\ op' = op /\ ret' = ret
    BY <1>1 DEF Destroy, Goto, registryVars
  <2>2. Alone(t) /\ pc'[t] = "release"
    BY <1>0, <1>1, GotoAlone DEF Destroy
  <2>3. Abstract!Live(op[t])
    BY <2>1, LiveCall DEF Abstract!Live
  <2>4. Opened' = FALSE
    BY <2>1 DEF Opened
  <2>5. Contents' = << >>
    BY <2>1 DEF Contents
  <2>6. Closing' = {t}
    <3>1. \A u \in Task : pc[u] # "release"
      BY <2>1 DEF RefInv, SlotInv, OwnerOK
    <3> QED BY <2>2, <3>1 DEF Closing, Alone
  <2> QED BY <2>1, <2>3, <2>4, <2>5, <2>6 DEF Abstract!Destroy
<1>2. ASSUME Release(t)
      PROVE  Abstract!Destroyed(t)
  <2>1. /\ pc[t] = "release" /\ issued' = issued /\ UNCHANGED ringVars
        /\ Return(t, Reply("ok", 0))
    BY <1>2 DEF Release
  <2>2. Alone(t) /\ pc'[t] = "idle"
    BY <1>0, <2>1, ReturnAlone
  <2>3. t \in Closing
    BY <2>1 DEF Closing
  <2>4. Closing' = {}
    <3>1. \A u \in Task : u # t => pc[u] # "release"
      BY <2>1 DEF RefInv, SlotInv, OwnerOK
    <3> QED BY <2>2, <3>1 DEF Closing, Alone
  <2>5. Abstract!Finish(t, Abstract!Reply("ok", 0))
    BY <2>1 DEF Return, Reply, Abstract!Finish, Abstract!Reply
  <2>6. Opened' = Opened /\ Contents' = Contents
    BY <2>1, SameObject
  <2> QED BY <2>1, <2>3, <2>4, <2>5, <2>6 DEF Abstract!Destroyed
<1> QED BY <1>1, <1>2

(* A channel is created, when its handle reaches the callers.              *)
LEMMA CreateStep ==
    ASSUME RefInv, NEW t \in Task, SetupObject(t)
    PROVE  Abstract!Create(t)
<1>0. /\ RegistryTypeOK /\ RingTypeOK /\ TaskTypeOK /\ RingConsistent
      /\ issued \in Nat /\ generation \in Nat
  BY ChannelAssumption DEF RefInv, ChannelInv, RingInv, TypeOK, RegistryTypeOK
<1>1. /\ pc[t] = "setup" /\ issued' = generation /\ capacity' = Capacity
      /\ destroyed' = destroyed /\ depth' = depth
      /\ Return(t, Reply("ok", 0))
  BY DEF SetupObject
<1>2. /\ generation = issued + 1 /\ capacity = 0 /\ ~destroyed
      /\ op[t] = CreateOp
      /\ \A u \in Task : u # t => pc[u] = "idle"
  BY <1>1 DEF RefInv, ChannelInv, Creating, SlotInv, OwnerOK, CallInv, CallOK
<1>3. op[t].kind = "create"
  BY <1>2 DEF CreateOp
<1>4. ~Opened /\ Opened' = TRUE
  BY <1>1, <1>2, ChannelAssumption DEF Opened
<1>5. Closing = {} /\ Closing' = {}
  <2>1. Alone(t) /\ pc'[t] = "idle"
    BY <1>0, <1>1, ReturnAlone
  <2> QED BY <1>1, <1>2, <2>1 DEF Closing, Alone
<1>6. Contents' = << >>
  <2>1. depth = 0
    BY <1>0, <1>2 DEF RingTypeOK, RingConsistent
  <2> QED BY <1>1, <2>1 DEF Contents
<1>7. Abstract!Finish(t, Abstract!Reply("ok", 0))
  BY <1>1 DEF Return, Reply, Abstract!Finish, Abstract!Reply
<1> QED BY <1>1, <1>2, <1>3, <1>4, <1>5, <1>6, <1>7 DEF Abstract!Create

(* Everything else is out of the callers' sight.                           *)
LEMMA HiddenStep ==
    ASSUME RefInv, NEW t \in Task,
           \/ ClearObject(t) \/ Park(t) \/ BlockTaken(t) \/ BlockTimeout(t)
    PROVE  UNCHANGED Abstract!vars
<1>0. RegistryTypeOK /\ RingTypeOK /\ TaskTypeOK /\ RingConsistent
  BY DEF RefInv, ChannelInv, RingInv, TypeOK
<1>1. /\ issued' = issued /\ op' = op /\ ret' = ret
  BY DEF ClearObject, Park, BlockTaken, BlockTimeout, Goto, registryVars
<1>2. /\ Alone(t) /\ pc[t] # "release" /\ pc'[t] # "release"
  <2>1. \A u \in Task : u # t => wait_result'[u] = wait_result[u]
    BY <1>0 DEF ClearObject, Park, BlockTaken, BlockTimeout, TaskTypeOK
  <2> QED
    BY <1>0, <2>1, GotoAlone DEF ClearObject, Park, BlockTaken, BlockTimeout,
                                 Blocked, InSection
<1>3. Closing' = Closing
  BY <1>2, SameClosing
<1>4. Opened' = Opened /\ Contents' = Contents
  <2>1. CASE ClearObject(t)
    <3>1. pc[t] = "clear" /\ capacity' = 0 /\ depth' = 0
      BY <2>1 DEF ClearObject
    <3>2. issued < generation
      BY <3>1 DEF RefInv, ChannelInv, Creating
    <3>3. issued # generation
      BY <1>0, <3>2, ChannelAssumption DEF RegistryTypeOK
    <3>4. ~Opened
      BY <3>3 DEF RefInv, SlotInv, SlotOK
    <3>5. depth = 0
      BY <1>0, <3>4, ChannelAssumption
         DEF RefInv, SlotInv, SlotOK, Opened, RingTypeOK, RingConsistent
    <3>6. ~Opened'
      BY <3>1 DEF Opened
    <3>7. Contents = << >> /\ Contents' = << >>
      BY <3>1, <3>5 DEF Contents
    <3> QED BY <3>4, <3>6, <3>7 DEF Opened
  <2>2. CASE Park(t) \/ BlockTaken(t) \/ BlockTimeout(t)
    BY <2>2, SameObject DEF Park, BlockTaken, BlockTimeout
  <2> QED BY <2>1, <2>2
<1> QED BY <1>1, <1>3, <1>4 DEF Abstract!vars

LEMMA RefinementStep ==
    ASSUME RefInv, RefInv', [Next]_vars
    PROVE  [Abstract!Next]_Abstract!vars
<1>1. CASE UNCHANGED vars
  <2>1. UNCHANGED ringVars /\ UNCHANGED <<issued, pc, op, ret>>
    BY <1>1 DEF vars, registryVars, taskVars
  <2> QED BY <2>1, SameObject DEF Closing, Abstract!vars
<1>2. ASSUME NEW t \in Task, Begin(t)
      PROVE  Abstract!Next
  BY <1>2, RejectStep, StartStep DEF Begin, Abstract!Next
<1>3. ASSUME NEW t \in Task, Step(t)
      PROVE  [Abstract!Next]_Abstract!vars
  <2>1. CASE \/ FindDestroyed(t) \/ TrySendInvalid(t) \/ RecvTooSmall(t)
             \/ Refuse(t) \/ ZeroTimeout(t) \/ GiveUp(t)
    BY <2>1, FailUnderLock DEF Abstract!Next
  <2>2. CASE Send(t) \/ Recv(t)
    BY <2>2, TransferStep DEF Abstract!Next
  <2>3. CASE Destroy(t) \/ Release(t)
    BY <2>3, DestroyStep DEF Abstract!Next
  <2>4. CASE SetupObject(t)
    BY <2>4, CreateStep DEF Abstract!Next
  <2>5. CASE \/ ClearObject(t) \/ Park(t) \/ BlockTaken(t) \/ BlockTimeout(t)
    BY <2>5, HiddenStep
  <2> QED BY <1>3, <2>1, <2>2, <2>3, <2>4, <2>5 DEF Step
<1> QED BY <1>1, <1>2, <1>3 DEF Next

LEMMA RefinementInit == Init => Abstract!Init
<1> SUFFICES ASSUME Init PROVE Abstract!Init
  OBVIOUS
<1>1. Opened = FALSE /\ Contents = << >> /\ Closing = {}
  BY DEF Init, Opened, Contents, Closing
<1> QED BY <1>1 DEF Init, NoReply, Reply, Abstract!Init, Abstract!NoReply, Abstract!Reply

(* The invariants of the calls, their waits and the slot hold throughout.  *)
LEMMA RefInvariance == OrderlyReuse => (Spec => []RefInv)
<1> SUFFICES ASSUME OrderlyReuse PROVE Spec => []RefInv
  OBVIOUS
<1>1. Init => RefInv
  BY RingInvInit, QueueInvInit, RefInvInit DEF RefInv, ChannelInv
<1>2. RefInv /\ [Next]_vars => RefInv'
  BY RefInvNext
<1> QED BY <1>1, <1>2, PTL DEF Spec

(* When callers reuse a slot in an orderly way, the channel is a bounded   *)
(* FIFO: every call that has looked up its handle takes effect in one step *)
(* on the channel that handle names, and fails only for the reason it      *)
(* reports, whatever wakes, timeouts, destroys and creates come between.   *)
THEOREM ChannelRefinement == OrderlyReuse => (Spec => ImplementsBoundedChannel)
<1> SUFFICES ASSUME OrderlyReuse PROVE Spec => ImplementsBoundedChannel
  OBVIOUS
<1>1. Spec => []RefInv
  BY RefInvariance
<1>2. Init => Abstract!Init
  BY RefinementInit
<1>3. RefInv /\ RefInv' /\ [Next]_vars => [Abstract!Next]_Abstract!vars
  BY RefinementStep
<1> QED
  BY <1>1, <1>2, <1>3, PTL DEF Spec, ImplementsBoundedChannel, Abstract!Spec

-----------------------------------------------------------------------------
(* Wakeups. Nobody gives up a wait, and every buffer takes every message,  *)
(* so whoever is woken for a message or for a free slot goes for it.       *)

Patient ==
    /\ OrderlyReuse
    /\ "finite" \notin Modes
    /\ \A b \in BufferSizes : b >= MessageSize
    /\ IsFiniteSet(Task)

MessagesFit == \A i \in 0 .. Capacity - 1 : messages[i] \in 0 .. MessageSize

DestroyedEmpty == destroyed => send_waiters = << >> /\ recv_waiters = << >>

WakeInv == RefInv /\ MessagesFit /\ DestroyedEmpty /\ NoLostWakeup

LEMMA WokenFinite ==
    ASSUME IsFiniteSet(Task), NEW k
    PROVE  /\ IsFiniteSet(WokenTasks(k)) /\ Cardinality(WokenTasks(k)) \in Nat
           /\ IsFiniteSet(WokenTasks(k)')
           /\ Cardinality(WokenTasks(k)') \in Nat
<1>1. WokenTasks(k) \subseteq Task /\ WokenTasks(k)' \subseteq Task
  BY DEF WokenTasks
<1> QED BY <1>1, FS_Subset, FS_CardinalityType

(* A step of t leaves those alone whose waiters it does not touch.         *)
LEMMA WokenOthers ==
    ASSUME NEW t \in Task, Alone(t), NEW k, NEW u \in Task, u # t,
           waiter'[u] = waiter[u]
    PROVE  u \in WokenTasks(k)' <=> u \in WokenTasks(k)
BY DEF WokenTasks, Alone

(* The task of a waiter that is still enqueued has not been woken.         *)
LEMMA EnqueuedUnwoken ==
    ASSUME QueueInv, NEW u \in Task, waiter[u].enqueued, NEW k
    PROVE  u \notin WokenTasks(k)
<1>1. pc[u] \in {"wait", "relock"} /\ (pc[u] = "wait" => ~waiter[u].given)
      /\ (pc[u] = "relock" => wait_result[u] = "timeout")
  BY DEF QueueInv, WaiterState
<1> QED BY <1>1 DEF WokenTasks

(* Nobody waits with a deadline.                                           *)
LEMMA NobodyTimesOut ==
    ASSUME Patient, RefInv, NEW u \in Task, pc[u] \in {"wait", "relock"}
    PROVE  /\ op[u].mode = "forever"
           /\ pc[u] = "relock" => wait_result[u] # "timeout"
<1>1. op[u] \in HandleOp /\ op[u].mode \in {"finite", "forever"}
  BY DEF RefInv, CallInv, CallOK
<1>2. op[u].mode \in Modes \cup {"none"}
  BY <1>1 DEF HandleOp, SendOp, RecvOp, DestroyOp
<1>3. op[u].mode = "forever"
  BY <1>1, <1>2 DEF Patient
<1>4. pc[u] = "relock" => wait_result[u] # "timeout"
  BY <1>3 DEF RefInv, WaitInv, WaitOK
<1> QED BY <1>3, <1>4

(* So the waiter a wake takes out of its queue is armed, and its task is   *)
(* woken.                                                                  *)
LEMMA WakeWakes ==
    ASSUME Patient, RefInv, NEW t \in Task, Alone(t), NEW w \in Task, w # t,
           waiter[w].enqueued, waiter'[w] = Woken(waiter[w], "ok"),
           NEW k, op[w].kind = k
    PROVE  w \in WokenTasks(k)' /\ w \notin WokenTasks(k)
<1>0. QueueInv
  BY DEF RefInv, ChannelInv
<1>1. pc[w] \in {"wait", "relock"}
  BY <1>0 DEF QueueInv, WaiterState
<1>2. pc[w] = "wait"
  BY <1>0, <1>1, NobodyTimesOut DEF QueueInv, WaiterState
<1>3. waiter[w].armed
  BY <1>0, <1>2 DEF QueueInv, WaiterState
<1>4. waiter'[w].given /\ waiter'[w].result = "ok"
  <2>1. /\ waiter'[w].given = (waiter[w].given \/ waiter[w].armed)
        /\ waiter'[w].result = "ok"
    BY DEF Woken
  <2> QED BY <1>3, <2>1
<1>5. pc'[w] = "wait" /\ op'[w] = op[w]
  BY <1>2 DEF Alone
<1> QED BY <1>0, <1>4, <1>5, EnqueuedUnwoken DEF WokenTasks

LEMMA MessagesFitNext ==
    ASSUME RefInv, MessagesFit, [Next]_vars
    PROVE  MessagesFit'
<1>0. RingTypeOK
  BY DEF RefInv, ChannelInv, RingInv, TypeOK
<1>1. CASE messages' = messages
  BY <1>1 DEF MessagesFit
<1>2. ASSUME NEW t \in Task, ClearObject(t)
      PROVE  MessagesFit'
  BY <1>2, ChannelAssumption DEF ClearObject, MessagesFit
<1>3. ASSUME NEW t \in Task, Send(t)
      PROVE  MessagesFit'
  <2>1. op[t].arg \in 0 .. MessageSize
    BY <1>3, SentFits, ChannelAssumption
  <2>2. messages' = [messages EXCEPT ![tail] = op[t].arg]
    BY <1>3 DEF Send
  <2> QED BY <1>0, <2>1, <2>2 DEF MessagesFit, RingTypeOK
<1>4. ASSUME NEW t \in Task, ~ClearObject(t), ~Send(t), Begin(t) \/ Step(t)
      PROVE  messages' = messages
  BY <1>4 DEF Begin, Reject, Call, CreateNoSpace, Allocate, Step, SetupObject,
              FindDestroyed, TrySendInvalid, Recv, RecvTooSmall, Refuse,
              ZeroTimeout, Park, BlockTaken, BlockTimeout, GiveUp, Destroy,
              Release, ringVars
<1>5. CASE UNCHANGED vars
  BY <1>1, <1>5 DEF vars, ringVars
<1> QED BY <1>1, <1>2, <1>3, <1>4, <1>5 DEF Next, Step

(* A task gives up only when the channel is gone.                          *)
LEMMA GivenUp ==
    ASSUME Patient, RefInv, DestroyedEmpty, NEW t \in Task, GiveUp(t)
    PROVE  UNCHANGED queueVars /\ destroyed
<1>0. TaskTypeOK /\ QueueInv
  BY DEF RefInv, ChannelInv, RingInv, TypeOK
<1>1. /\ pc[t] = "relock"
      /\ destroyed \/ wait_result[t] # "ok"
  BY DEF GiveUp
<1>2. destroyed
  <2>1. wait_result[t] \in {"ok", "destroyed"}
    BY <1>0, <1>1, NobodyTimesOut DEF TaskTypeOK, WaitResult
  <2> QED BY <1>1, <2>1 DEF RefInv, WaitInv, WaitOK
<1>3. ~waiter[t].enqueued
  <2>1. ~Contains(send_waiters, t) /\ ~Contains(recv_waiters, t)
    BY <1>2, EmptyQueue DEF DestroyedEmpty
  <2> QED BY <1>0, <1>1, <2>1 DEF QueueInv, Linked, WaiterState
<1> QED BY <1>2, <1>3 DEF GiveUp

LEMMA DestroyedEmptyNext ==
    ASSUME Patient, RefInv, DestroyedEmpty, [Next]_vars
    PROVE  DestroyedEmpty'
<1>1. CASE destroyed' = destroyed /\ UNCHANGED <<send_waiters, recv_waiters>>
  BY <1>1 DEF DestroyedEmpty
<1>2. ASSUME NEW t \in Task, Send(t) \/ Recv(t) \/ Park(t) \/ ClearObject(t)
      PROVE  ~destroyed'
  BY <1>2 DEF Send, Recv, Park, ClearObject, Blocked, InSection, ringVars
<1>3. ASSUME NEW t \in Task, SetupObject(t) \/ Destroy(t)
      PROVE  send_waiters' = << >> /\ recv_waiters' = << >>
  BY <1>3 DEF SetupObject, Destroy
<1>4. ASSUME NEW t \in Task, Begin(t)
      PROVE  destroyed' = destroyed /\ UNCHANGED <<send_waiters, recv_waiters>>
  BY <1>4 DEF Begin, Reject, Call, CreateNoSpace, Allocate, ringVars, queueVars
<1>5. ASSUME NEW t \in Task,
             \/ FindDestroyed(t) \/ TrySendInvalid(t) \/ RecvTooSmall(t)
             \/ Refuse(t) \/ ZeroTimeout(t) \/ BlockTaken(t) \/ BlockTimeout(t)
             \/ GiveUp(t) \/ Release(t)
      PROVE  destroyed' = destroyed /\ UNCHANGED <<send_waiters, recv_waiters>>
  <2>1. CASE GiveUp(t)
    BY <2>1, GivenUp DEF GiveUp, ringVars, queueVars
  <2>2. CASE ~GiveUp(t)
    BY <1>5, <2>2 DEF FindDestroyed, TrySendInvalid, RecvTooSmall, Refuse,
                      ZeroTimeout, BlockTaken, BlockTimeout, Release, ringVars,
                      queueVars
  <2> QED BY <2>1, <2>2
<1>6. CASE UNCHANGED vars
  BY <1>1, <1>6 DEF vars, ringVars, queueVars
<1> QED
  BY <1>1, <1>2, <1>3, <1>4, <1>5, <1>6 DEF Next, Step, DestroyedEmpty

(* Steps that move no waiter and no message, and un-wake nobody.           *)
LEMMA NothingLost ==
    ASSUME Patient, RefInv, NoLostWakeup,
           UNCHANGED <<send_waiters, recv_waiters, depth, capacity>>,
           \A k \in {"send", "recv"}, u \in Task :
               u \in WokenTasks(k) => u \in WokenTasks(k)'
    PROVE  NoLostWakeup'
<1>1. ASSUME NEW k \in {"send", "recv"}
      PROVE  /\ Cardinality(WokenTasks(k)) <= Cardinality(WokenTasks(k)')
             /\ Cardinality(WokenTasks(k)) \in Nat
             /\ Cardinality(WokenTasks(k)') \in Nat
  <2>1. WokenTasks(k) \subseteq WokenTasks(k)'
    BY DEF WokenTasks
  <2> QED BY <2>1, WokenFinite, CountKeeps DEF Patient
<1>2. depth \in Nat /\ capacity \in Nat
  BY ChannelAssumption DEF RefInv, ChannelInv, RingInv, TypeOK, RingTypeOK
<1>3. /\ Cardinality(WokenTasks("send")) <= Cardinality(WokenTasks("send")')
      /\ Cardinality(WokenTasks("send")) \in Nat
      /\ Cardinality(WokenTasks("send")') \in Nat
      /\ Cardinality(WokenTasks("recv")) <= Cardinality(WokenTasks("recv")')
      /\ Cardinality(WokenTasks("recv")) \in Nat
      /\ Cardinality(WokenTasks("recv")') \in Nat
  BY <1>1
<1> QED BY <1>2, <1>3 DEF NoLostWakeup

LEMMA NothingLostSend ==
    ASSUME Patient, RefInv, NoLostWakeup, NEW t \in Task, Send(t)
    PROVE  NoLostWakeup'
<1>0. /\ TaskTypeOK /\ QueueInv /\ depth \in Nat /\ capacity \in Nat
      /\ recv_waiters \in Seq(Task) /\ send_waiters \in Seq(Task)
      /\ waiter \in [Task -> Waiter]
  BY ChannelAssumption
     DEF RefInv, ChannelInv, RingInv, TypeOK, RingTypeOK, QueueTypeOK, TaskTypeOK
<1>1. /\ depth' = depth + 1 /\ capacity' = capacity
      /\ send_waiters' = send_waiters /\ op[t].kind = "send"
      /\ pc[t] \in {"lock", "relock"} /\ (pc[t] = "relock" => wait_result[t] = "ok")
      /\ WakeReceiver /\ \E r : Return(t, r)
  BY DEF Send, InSection
<1>2. Alone(t) /\ ~waiter[t].enqueued /\ t \notin WokenTasks("recv")
  BY <1>0, <1>1, ReturnAlone DEF QueueInv, WaiterState, WokenTasks
<1>3. /\ IsFiniteSet(Task)
      /\ IsFiniteSet(WokenTasks("recv")') /\ IsFiniteSet(WokenTasks("send"))
      /\ IsFiniteSet(WokenTasks("send")')
      /\ Cardinality(WokenTasks("recv")) \in Nat
      /\ Cardinality(WokenTasks("recv")') \in Nat
      /\ Cardinality(WokenTasks("send")) \in Nat
      /\ Cardinality(WokenTasks("send")') \in Nat
  BY WokenFinite DEF Patient
<1>4. CASE LeaveReceivers /\ recv_waiters = << >>
  <2>1. waiter' = waiter /\ recv_waiters' = << >>
    BY <1>4 DEF LeaveReceivers
  <2>2. WokenTasks("send") \ {t} \subseteq WokenTasks("send")'
    BY <1>2, <2>1, WokenOthers DEF WokenTasks
  <2>3. Cardinality(WokenTasks("send")) - 1 <= Cardinality(WokenTasks("send")')
    BY <1>3, <2>2, CountLoses
  <2> QED BY <1>0, <1>1, <1>3, <2>1, <2>3 DEF NoLostWakeup
<1>5. CASE PopReceiver
  <2>1. PICK i \in Picks(recv_waiters) :
            waiter' = [waiter EXCEPT ![recv_waiters[i]] = Woken(@, "ok")]
    BY <1>5 DEF PopReceiver
  <2>2. PICK w \in Task : w = recv_waiters[i]
    BY <1>0 DEF Picks
  <2>3. /\ Contains(recv_waiters, w) /\ waiter'[w] = Woken(waiter[w], "ok")
        /\ \A u \in Task : u # w => waiter'[u] = waiter[u]
        /\ recv_waiters # << >>
    BY <1>0, <2>1, <2>2 DEF Picks, Contains
  <2>4. waiter[w].enqueued /\ op[w].kind = "recv" /\ w # t
    BY <1>0, <1>2, <2>3 DEF QueueInv, Linked
  <2>5. w \in WokenTasks("recv")' /\ w \notin WokenTasks("recv")
    BY <1>2, <2>3, <2>4, WakeWakes
  <2>6. w \notin WokenTasks("send")
    BY <1>0, <2>4, EnqueuedUnwoken
  <2>7. WokenTasks("recv") \subseteq WokenTasks("recv")'
    BY <1>2, <2>3, <2>5, WokenOthers DEF WokenTasks
  <2>8. WokenTasks("send") \ {t} \subseteq WokenTasks("send")'
    BY <1>2, <2>3, <2>6, WokenOthers DEF WokenTasks
  <2>9. Cardinality(WokenTasks("recv")) + 1 <= Cardinality(WokenTasks("recv")')
    BY <1>3, <2>5, <2>7, CountGains
  <2>10. Cardinality(WokenTasks("send")) - 1 <= Cardinality(WokenTasks("send")')
    BY <1>3, <2>8, CountLoses
  <2> QED BY <1>0, <1>1, <1>3, <2>3, <2>9, <2>10 DEF NoLostWakeup
<1> QED BY <1>1, <1>4, <1>5 DEF WakeReceiver

LEMMA NothingLostRecv ==
    ASSUME Patient, RefInv, NoLostWakeup, NEW t \in Task, Recv(t)
    PROVE  NoLostWakeup'
<1>0. /\ TaskTypeOK /\ QueueInv /\ depth \in Nat /\ capacity \in Nat
      /\ recv_waiters \in Seq(Task) /\ send_waiters \in Seq(Task)
      /\ waiter \in [Task -> Waiter]
  BY ChannelAssumption
     DEF RefInv, ChannelInv, RingInv, TypeOK, RingTypeOK, QueueTypeOK, TaskTypeOK
<1>1. /\ depth' = depth - 1 /\ capacity' = capacity
      /\ recv_waiters' = recv_waiters /\ op[t].kind = "recv"
      /\ pc[t] \in {"lock", "relock"} /\ (pc[t] = "relock" => wait_result[t] = "ok")
      /\ WakeSender /\ \E r : Return(t, r)
  BY DEF Recv, InSection
<1>2. Alone(t) /\ ~waiter[t].enqueued /\ t \notin WokenTasks("send")
  BY <1>0, <1>1, ReturnAlone DEF QueueInv, WaiterState, WokenTasks
<1>3. /\ IsFiniteSet(Task)
      /\ IsFiniteSet(WokenTasks("recv")') /\ IsFiniteSet(WokenTasks("recv"))
      /\ IsFiniteSet(WokenTasks("send")')
      /\ Cardinality(WokenTasks("recv")) \in Nat
      /\ Cardinality(WokenTasks("recv")') \in Nat
      /\ Cardinality(WokenTasks("send")) \in Nat
      /\ Cardinality(WokenTasks("send")') \in Nat
  BY WokenFinite DEF Patient
<1>4. CASE LeaveSenders /\ send_waiters = << >>
  <2>1. waiter' = waiter /\ send_waiters' = << >>
    BY <1>4 DEF LeaveSenders
  <2>2. WokenTasks("recv") \ {t} \subseteq WokenTasks("recv")'
    BY <1>2, <2>1, WokenOthers DEF WokenTasks
  <2>3. Cardinality(WokenTasks("recv")) - 1 <= Cardinality(WokenTasks("recv")')
    BY <1>3, <2>2, CountLoses
  <2> QED BY <1>0, <1>1, <1>3, <2>1, <2>3 DEF NoLostWakeup
<1>5. CASE PopSender
  <2>1. PICK i \in Picks(send_waiters) :
            waiter' = [waiter EXCEPT ![send_waiters[i]] = Woken(@, "ok")]
    BY <1>5 DEF PopSender
  <2>2. PICK w \in Task : w = send_waiters[i]
    BY <1>0 DEF Picks
  <2>3. /\ Contains(send_waiters, w) /\ waiter'[w] = Woken(waiter[w], "ok")
        /\ \A u \in Task : u # w => waiter'[u] = waiter[u]
        /\ send_waiters # << >>
    BY <1>0, <2>1, <2>2 DEF Picks, Contains
  <2>4. waiter[w].enqueued /\ op[w].kind = "send" /\ w # t
    BY <1>0, <1>2, <2>3 DEF QueueInv, Linked
  <2>5. w \in WokenTasks("send")' /\ w \notin WokenTasks("send")
    BY <1>2, <2>3, <2>4, WakeWakes
  <2>6. w \notin WokenTasks("recv")
    BY <1>0, <2>4, EnqueuedUnwoken
  <2>7. WokenTasks("send") \subseteq WokenTasks("send")'
    BY <1>2, <2>3, <2>5, WokenOthers DEF WokenTasks
  <2>8. WokenTasks("recv") \ {t} \subseteq WokenTasks("recv")'
    BY <1>2, <2>3, <2>6, WokenOthers DEF WokenTasks
  <2>9. Cardinality(WokenTasks("send")) + 1 <= Cardinality(WokenTasks("send")')
    BY <1>3, <2>5, <2>7, CountGains
  <2>10. Cardinality(WokenTasks("recv")) - 1 <= Cardinality(WokenTasks("recv")')
    BY <1>3, <2>8, CountLoses
  <2> QED BY <1>0, <1>1, <1>3, <2>3, <2>9, <2>10 DEF NoLostWakeup
<1> QED BY <1>1, <1>4, <1>5 DEF WakeSender

(* A task parks because there is nothing for it, nor for another one.      *)
LEMMA NothingLostPark ==
    ASSUME Patient, RefInv, NoLostWakeup, NEW t \in Task, Park(t)
    PROVE  NoLostWakeup'
<1>0. TaskTypeOK /\ depth \in Nat /\ capacity \in Nat
  BY ChannelAssumption
     DEF RefInv, ChannelInv, RingInv, TypeOK, RingTypeOK
<1>1. /\ depth' = depth /\ capacity' = capacity
      /\ \/ op[t].kind = "send" /\ depth = capacity /\ recv_waiters' = recv_waiters
         \/ op[t].kind = "recv" /\ depth = 0 /\ send_waiters' = send_waiters
  BY DEF Park, Blocked, InSection, Full, Empty, ringVars
<1>2. /\ Alone(t) /\ op'[t] = op[t]
      /\ \A u \in Task : u # t => waiter'[u] = waiter[u]
  BY <1>0, GotoAlone DEF Park, TaskTypeOK
<1>3. ASSUME NEW k \in {"send", "recv"}, k # op[t].kind
      PROVE  WokenTasks(k)' = WokenTasks(k)
  BY <1>2, <1>3, WokenOthers DEF WokenTasks
<1>4. /\ Cardinality(WokenTasks("recv")') \in Nat
      /\ Cardinality(WokenTasks("send")') \in Nat
  BY WokenFinite DEF Patient
<1>5. CASE op[t].kind = "send"
  <2>1. Cardinality(WokenTasks("recv")') = Cardinality(WokenTasks("recv"))
    BY <1>3, <1>5
  <2> QED BY <1>0, <1>1, <1>4, <1>5, <2>1 DEF NoLostWakeup
<1>6. CASE op[t].kind = "recv"
  <2>1. Cardinality(WokenTasks("send")') = Cardinality(WokenTasks("send"))
    BY <1>3, <1>6
  <2> QED BY <1>0, <1>1, <1>4, <1>6, <2>1 DEF NoLostWakeup
<1> QED BY <1>1, <1>5, <1>6

LEMMA NothingLostNext ==
    ASSUME Patient, WakeInv, [Next]_vars
    PROVE  NoLostWakeup'
<1>0. /\ RefInv /\ MessagesFit /\ DestroyedEmpty /\ NoLostWakeup
      /\ TaskTypeOK /\ RingTypeOK /\ QueueInv
  BY DEF WakeInv, RefInv, ChannelInv, RingInv, TypeOK
<1>1. CASE UNCHANGED vars
  BY <1>1 DEF WakeInv, vars, ringVars, queueVars, taskVars, NoLostWakeup, WokenTasks
<1>2. ASSUME NEW t \in Task,
             UNCHANGED <<send_waiters, recv_waiters, depth, capacity>>,
             Alone(t), \A u \in Task : u # t => waiter'[u] = waiter[u],
             pc[t] \notin {"wait", "relock"}
      PROVE  NoLostWakeup'
  <2>1. \A k \in {"send", "recv"}, u \in Task :
            u \in WokenTasks(k) => u \in WokenTasks(k)'
    BY <1>2, WokenOthers DEF WokenTasks
  <2> QED BY <1>0, <1>2, <2>1, NothingLost
<1>3. ASSUME NEW t \in Task, Begin(t)
      PROVE  NoLostWakeup'
  <2>1. /\ UNCHANGED <<send_waiters, recv_waiters, depth, capacity, waiter>>
        /\ Alone(t) /\ pc[t] = "idle"
    BY <1>0, <1>3 DEF Begin, Reject, Call, CreateNoSpace, Allocate, ringVars,
                      queueVars, Alone, TaskTypeOK
  <2> QED BY <1>2, <2>1
<1>4. ASSUME NEW t \in Task,
             \/ FindDestroyed(t) \/ TrySendInvalid(t) \/ RecvTooSmall(t)
             \/ Refuse(t) \/ ZeroTimeout(t) \/ Release(t)
      PROVE  NoLostWakeup'
  <2>1. /\ UNCHANGED <<send_waiters, recv_waiters, depth, capacity, waiter>>
        /\ \E r : Return(t, r)
    BY <1>4 DEF FindDestroyed, TrySendInvalid, RecvTooSmall, Refuse,
                ZeroTimeout, Release, ringVars, queueVars
  <2>2. Alone(t)
    BY <1>0, <2>1, ReturnAlone
  <2>3. ASSUME pc[t] = "relock" PROVE FALSE
    <3>1. op[t].mode = "forever"
      BY <1>0, <2>3, NobodyTimesOut
    <3>2. RecvTooSmall(t)
      BY <1>4, <2>3, <3>1 DEF FindDestroyed, TrySendInvalid, Refuse,
                              ZeroTimeout, Release
    <3>3. op[t].kind = "recv" /\ op[t] \in HandleOp /\ op[t].arg < messages[head]
      BY <1>0, <2>3, <3>2, LiveCall DEF RecvTooSmall, InSection
    <3>4. op[t].arg \in BufferSizes
      BY <3>3 DEF HandleOp, SendOp, RecvOp, DestroyOp
    <3>5. op[t].arg >= MessageSize /\ op[t].arg \in Nat
      BY <3>4, ChannelAssumption DEF Patient
    <3>6. messages[head] \in 0 .. MessageSize
      BY <1>0 DEF MessagesFit, RingTypeOK
    <3> QED BY <3>3, <3>5, <3>6, ChannelAssumption
  <2>4. pc[t] \notin {"wait", "relock"}
    BY <1>4, <2>3 DEF FindDestroyed, TrySendInvalid, RecvTooSmall, Refuse,
                      ZeroTimeout, Release, Blocked, InSection
  <2> QED BY <1>2, <2>1, <2>2, <2>4
<1>5. ASSUME NEW t \in Task, BlockTaken(t) \/ BlockTimeout(t)
      PROVE  NoLostWakeup'
  <2>1. BlockTaken(t)
    BY <1>0, <1>5, NobodyTimesOut DEF BlockTimeout
  <2>2. /\ UNCHANGED <<send_waiters, recv_waiters, depth, capacity>>
        /\ \A u \in Task : u # t => waiter'[u] = waiter[u]
        /\ \A u \in Task : u # t => wait_result'[u] = wait_result[u]
        /\ pc[t] = "wait" /\ wait_result'[t] = waiter[t].result
    BY <1>0, <2>1 DEF BlockTaken, ringVars, queueVars, TaskTypeOK
  <2>3. Alone(t) /\ pc'[t] = "relock" /\ op'[t] = op[t]
    BY <1>0, <2>1, <2>2, GotoAlone DEF BlockTaken
  <2>4. \A k \in {"send", "recv"} : t \in WokenTasks(k) => t \in WokenTasks(k)'
    BY <2>2, <2>3 DEF WokenTasks
  <2>5. \A k \in {"send", "recv"}, u \in Task :
            u \in WokenTasks(k) => u \in WokenTasks(k)'
    BY <2>2, <2>3, <2>4, WokenOthers
  <2> QED BY <1>0, <2>2, <2>5, NothingLost
<1>6. ASSUME NEW t \in Task, GiveUp(t)
      PROVE  NoLostWakeup'
  <2>1. send_waiters' = << >> /\ recv_waiters' = << >>
    BY <1>0, <1>6, GivenUp DEF DestroyedEmpty, queueVars
  <2> QED BY <2>1 DEF NoLostWakeup
<1>7. ASSUME NEW t \in Task, Destroy(t) \/ ClearObject(t) \/ SetupObject(t)
      PROVE  NoLostWakeup'
  BY <1>7 DEF Destroy, ClearObject, SetupObject, NoLostWakeup
<1>8. ASSUME NEW t \in Task, Send(t) \/ Recv(t) \/ Park(t)
      PROVE  NoLostWakeup'
  BY <1>0, <1>8, NothingLostSend, NothingLostRecv, NothingLostPark
<1> QED
  BY <1>1, <1>3, <1>4, <1>5, <1>6, <1>7, <1>8 DEF Next, Step

(* When callers reuse a slot in an orderly way, wait forever or not at     *)
(* all, and pass buffers that take every message, no wakeup is lost: while *)
(* receivers wait there is a woken receiver for every message in the ring, *)
(* and while senders wait a woken sender for every free slot.              *)
THEOREM WakeupInvariance == Patient => (Spec => []NoLostWakeup)
<1> SUFFICES ASSUME Patient PROVE Spec => []NoLostWakeup
  OBVIOUS
<1>1. Init => WakeInv
  <2> SUFFICES ASSUME Init PROVE WakeInv
    OBVIOUS
  <2>1. RefInv
    BY RingInvInit, QueueInvInit, RefInvInit DEF RefInv, ChannelInv
  <2>2. MessagesFit
    BY ChannelAssumption DEF Init, MessagesFit
  <2>3. DestroyedEmpty /\ NoLostWakeup
    BY DEF Init, DestroyedEmpty, NoLostWakeup
  <2> QED BY <2>1, <2>2, <2>3 DEF WakeInv
<1>2. WakeInv /\ [Next]_vars => WakeInv'
  <2> SUFFICES ASSUME WakeInv, [Next]_vars PROVE WakeInv'
    OBVIOUS
  <2>1. RefInv'
    BY RefInvNext DEF WakeInv, Patient
  <2>2. MessagesFit' /\ DestroyedEmpty'
    BY MessagesFitNext, DestroyedEmptyNext DEF WakeInv
  <2> QED BY <2>1, <2>2, NothingLostNext DEF WakeInv
<1>3. WakeInv => NoLostWakeup
  BY DEF WakeInv
<1> QED BY <1>1, <1>2, <1>3, PTL DEF Spec
=============================================================================
