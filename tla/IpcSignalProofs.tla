-------------------------- MODULE IpcSignalProofs --------------------------
(***************************************************************************)
(* Proofs about IpcSignal and IpcEventFlags, for every number of tasks,    *)
(* their priorities, listeners, modes, masks and timeouts.                 *)
(*                                                                         *)
(* SignalInv is about the queue of a signal: a task is in it as long as    *)
(* its waiter says so, and a task that waits can be woken or has been. The *)
(* lemmas about WakeOne and LeaveQueue say what the two ways out of the    *)
(* queue leave of it, and are the same for the wake that ends a set and    *)
(* the one that comes after its callbacks. FetchInv counts those who were  *)
(* woken, for callers that wait forever.                                   *)
(*                                                                         *)
(* FlagsInv is the same for event flags, and that nobody who is satisfied  *)
(* stays in the queue. PassOK is the invariant of the loop that serves the *)
(* waiters, over the turns of that loop; ServeEffect is what the rest of   *)
(* the proof needs of the loop.                                            *)
(***************************************************************************)
EXTENDS IpcSignal, SequenceLemmas, FiniteSetTheorems

-----------------------------------------------------------------------------
(* The parts of the invariant.                                             *)

SignalRecord ==
    [created : BOOLEAN, destroyed : BOOLEAN, mode : Modes,
     counter : 0 .. MaxCounter, pending : BOOLEAN, ready_state : BOOLEAN]

Operation ==
    [kind : {"none", "set", "clear", "wait", "subscribe", "destroy"},
     timeout : Timeouts \cup {"none"}]

SlotType == signal \in SignalRecord /\ signal.ready_state = IsReady(signal)

TaskType ==
    /\ listeners \in ListenerList(Listener)
    /\ told \in [Listener -> BOOLEAN]
    /\ pc \in [Task -> {"idle", "wait", "relock", "callback", "renotify"}]
    /\ op \in [Task -> Operation]
    /\ wait_result \in [Task -> WaitResult]
    /\ walk \in [Task -> Walk(Listener)]

(* The queue, its counter and the waiters' links are about the same tasks. *)
QueueInv ==
    /\ waiters \in Seq(Task) /\ waiting_tasks \in Nat /\ waiter \in [Task -> Waiter]
    /\ waiting_tasks = Len(waiters) /\ IsInjective(waiters)
    /\ \A t \in Task : waiter[t].enqueued <=> Contains(waiters, t)

(* Where a task is in its call, and what its waiter is there: a waiter in  *)
(* a queue has not been given its semaphore, and will be while its task    *)
(* has not given up.                                                       *)
CallOK(t) ==
    /\ pc[t] = "idle" => op[t].kind = "none"
    /\ pc[t] \in {"wait", "relock"} => op[t].kind = "wait"
    /\ pc[t] = "wait" => op[t].timeout \in Timeouts
    /\ pc[t] \notin {"wait", "relock"} => waiter[t] = NoWaiter
    /\ waiter[t].given => ~waiter[t].enqueued
    /\ pc[t] = "wait" =>
        /\ waiter[t].enqueued => waiter[t].armed
        /\ waiter[t].enqueued \/ waiter[t].given

(* What holds of a signal before it is created and after it is destroyed.  *)
LifeInv ==
    /\ ~signal.created => signal.counter = 0 /\ ~signal.pending
    /\ signal.destroyed => waiters = << >>
    /\ \A t \in Task : op[t].kind = "destroy" => signal.destroyed

SignalInv ==
    /\ SlotType /\ TaskType /\ QueueInv /\ LifeInv
    /\ \A t \in Task : CallOK(t)

LEMMA SignalInvImplies == SignalInv => TypeOK /\ WaitersCounted
  BY DEF SignalInv, SlotType, TaskType, QueueInv, CallOK, SignalRecord, Operation,
         TypeOK, WaitersCounted

-----------------------------------------------------------------------------
(* The record of a signal.                                                 *)

LEMMA UpdatedFields ==
    ASSUME NEW s \in SignalRecord
    PROVE  /\ Updated(s) \in SignalRecord
           /\ Updated(s).ready_state = IsReady(Updated(s))
           /\ Updated(s).created = s.created /\ Updated(s).destroyed = s.destroyed
           /\ Updated(s).mode = s.mode /\ Updated(s).counter = s.counter
           /\ Updated(s).pending = s.pending
<1>1. IsReady(s) \in BOOLEAN
  <2>1. s.pending \in BOOLEAN
    BY DEF SignalRecord
  <2>2. (s.counter > 0) \in BOOLEAN
    OBVIOUS
  <2>3. CASE s.mode = "counting"
    BY <2>2, <2>3 DEF IsReady
  <2>4. CASE s.mode # "counting"
    BY <2>1, <2>4 DEF IsReady
  <2> QED BY <2>3, <2>4
<1>2. /\ Updated(s).mode = s.mode /\ Updated(s).counter = s.counter
      /\ Updated(s).pending = s.pending
      /\ Updated(s).created = s.created /\ Updated(s).destroyed = s.destroyed
  BY DEF Updated, SignalRecord
<1>3. Updated(s).ready_state = IsReady(s)
  BY DEF Updated, SignalRecord
<1>4. IsReady(Updated(s)) = IsReady(s)
  BY <1>2 DEF IsReady
<1>5. Updated(s) \in SignalRecord
  BY <1>1 DEF Updated, SignalRecord
<1> QED BY <1>2, <1>3, <1>4, <1>5

LEMMA ConsumedFields ==
    ASSUME Configured, NEW s \in SignalRecord
    PROVE  /\ Consumed(s) \in SignalRecord
           /\ Consumed(s).created = s.created /\ Consumed(s).destroyed = s.destroyed
           /\ Consumed(s).mode = s.mode
           /\ s.mode = "counting" => /\ Consumed(s).counter = Decrement(s.counter)
                                     /\ Consumed(s).pending = s.pending
           /\ s.mode # "counting" => /\ Consumed(s).counter = s.counter
                                     /\ ~Consumed(s).pending
<1>1. Decrement(s.counter) \in 0 .. MaxCounter
  BY DEF Configured, Decrement, SignalRecord
<1> QED BY <1>1 DEF Consumed, SignalRecord

LEMMA RaisedFields ==
    ASSUME Configured, NEW s \in SignalRecord, s.mode = "counting" => s.counter < MaxCounter
    PROVE  /\ Raised(s) \in SignalRecord
           /\ Raised(s).created = s.created /\ Raised(s).destroyed = s.destroyed
           /\ Raised(s).mode = s.mode
           /\ s.mode = "counting" => /\ Raised(s).counter = s.counter + 1
                                     /\ Raised(s).pending = s.pending
           /\ s.mode # "counting" => /\ Raised(s).counter = s.counter
                                     /\ Raised(s).pending
<1>1. s.mode = "counting" => s.counter + 1 \in 0 .. MaxCounter
  BY DEF Configured, SignalRecord
<1> QED BY <1>1 DEF Raised, SignalRecord

LEMMA ClearedFields ==
    ASSUME Configured, NEW s \in SignalRecord
    PROVE  /\ Cleared(s) \in SignalRecord
           /\ Cleared(s).created = s.created /\ Cleared(s).destroyed = s.destroyed
           /\ Cleared(s).mode = s.mode
           /\ Cleared(s).counter = 0 /\ ~Cleared(s).pending
<1>1. 0 \in 0 .. MaxCounter
  BY DEF Configured
<1> DEFINE u == [s EXCEPT !.pending = FALSE]
<1>2. /\ u \in SignalRecord /\ ~u.pending /\ u.mode = s.mode
      /\ u.created = s.created /\ u.destroyed = s.destroyed
  BY DEF SignalRecord
<1>3. Cleared(s) = [u EXCEPT !.counter = 0]
  BY DEF Cleared
<1> HIDE DEF u
<1> QED BY <1>1, <1>2, <1>3 DEF SignalRecord

-----------------------------------------------------------------------------
(* The queue.                                                              *)

WakesTask(u) == waiter' = [waiter EXCEPT ![u] = Woken(@, "ok")]

(* A wake takes one task out of a queue that has any.                      *)
LEMMA WakeOneEffect ==
    ASSUME QueueInv, WakeOne
    PROVE  /\ QueueInv'
           /\ waiters = << >> => waiters' = << >>
           /\ \/ UNCHANGED queueVars /\ waiters = << >>
              \/ \E u \in Task : waiter[u].enqueued /\ WakesTask(u)
<1>1. CASE waiters = << >>
  BY <1>1 DEF WakeOne, queueVars, QueueInv
<1>2. CASE waiters # << >>
  <2>1. PICK i \in Picks(waiters) :
            /\ waiters' = RemoveAt(waiters, i)
            /\ waiter' = [waiter EXCEPT ![waiters[i]] = Woken(@, "ok")]
            /\ waiting_tasks' = Decrement(waiting_tasks)
    BY <1>2 DEF WakeOne
  <2>2. i \in 1 .. Len(waiters) /\ waiters[i] \in Task
    BY DEF Picks, QueueInv
  <2> DEFINE u == waiters[i]
  <2>3. /\ waiters' \in Seq(Task) /\ Len(waiters') = Len(waiters) - 1
        /\ IsInjective(waiters')
        /\ \A t : Contains(waiters', t) <=> Contains(waiters, t) /\ t # u
    BY <2>1, <2>2, RemoveAtIndexed, RemoveAtContains DEF QueueInv
  <2>4. Contains(waiters, u) /\ waiter[u].enqueued
    BY <2>2 DEF QueueInv, Contains
  <2>5. waiter' \in [Task -> Waiter] /\ ~waiter'[u].enqueued
    BY <2>1, <2>2 DEF QueueInv, Woken, Waiter, WaitResult
  <2>6. \A t \in Task : t # u => waiter'[t] = waiter[t]
    BY <2>1, <2>2 DEF QueueInv
  <2>7. waiting_tasks' = Len(waiters') /\ waiting_tasks' \in Nat
    BY <2>1, <2>2, <2>3 DEF QueueInv, Decrement
  <2>8. \A t \in Task : waiter'[t].enqueued <=> Contains(waiters', t)
    BY <2>3, <2>5, <2>6 DEF QueueInv
  <2> QED BY <1>2, <2>1, <2>2, <2>3, <2>4, <2>5, <2>7, <2>8 DEF QueueInv, WakesTask
<1> QED BY <1>1, <1>2

(* A task that leaves takes nobody else with it.                           *)
LEMMA LeaveQueueEffect ==
    ASSUME QueueInv, NEW t \in Task, LeaveQueue(t)
    PROVE  /\ QueueInv'
           /\ waiter' = [waiter EXCEPT ![t] = NoWaiter]
           /\ waiters = << >> => waiters' = << >>
           /\ ~waiter[t].enqueued => waiters' = waiters
<1>1. /\ waiter' = [waiter EXCEPT ![t] = NoWaiter] /\ waiter' \in [Task -> Waiter]
      /\ ~waiter'[t].enqueued
  BY DEF LeaveQueue, QueueInv, NoWaiter, Waiter, WaitResult
<1>2. \A u \in Task : u # t => waiter'[u] = waiter[u]
  BY <1>1 DEF QueueInv
<1>3. CASE ~waiter[t].enqueued
  BY <1>1, <1>2, <1>3 DEF LeaveQueue, QueueInv
<1>4. CASE waiter[t].enqueued
  <2>1. Contains(waiters, t) /\ waiters # << >>
    BY <1>4 DEF QueueInv, Contains
  <2>2. PICK i \in DOMAIN waiters : waiters[i] = t /\ waiters' = RemoveAt(waiters, i)
    BY <1>4, <2>1 DEF LeaveQueue, Unlinked
  <2>3. i \in 1 .. Len(waiters) /\ waiting_tasks' = Decrement(waiting_tasks)
    BY <1>4 DEF LeaveQueue, QueueInv
  <2>4. /\ waiters' \in Seq(Task) /\ Len(waiters') = Len(waiters) - 1
        /\ IsInjective(waiters')
        /\ \A u : Contains(waiters', u) <=> Contains(waiters, u) /\ u # t
    BY <2>2, <2>3, RemoveAtIndexed, RemoveAtContains DEF QueueInv
  <2>5. waiting_tasks' = Len(waiters') /\ waiting_tasks' \in Nat
    BY <2>3, <2>4 DEF QueueInv, Decrement
  <2>6. \A u \in Task : waiter'[u].enqueued <=> Contains(waiters', u)
    BY <1>1, <1>2, <2>4 DEF QueueInv
  <2> QED BY <1>1, <1>4, <2>1, <2>4, <2>5, <2>6 DEF QueueInv
<1> QED BY <1>3, <1>4

-----------------------------------------------------------------------------
(* How a task goes on.                                                     *)

(* t goes to l with the operation o; nobody else moves.                    *)
Goes(t, l, o) ==
    /\ pc' = [pc EXCEPT ![t] = l] /\ op' = [op EXCEPT ![t] = o]
    /\ wait_result' \in [Task -> WaitResult] /\ walk' \in [Task -> Walk(Listener)]
    /\ \A u \in Task \ {t} : wait_result'[u] = wait_result[u]

LEMMA ReturnGoes ==
    ASSUME TaskType, NEW t \in Task, Return(t)
    PROVE  Goes(t, "idle", NoOp)
  BY DEF TaskType, Return, Goto, Goes, WaitResult, NoWalk, Walk

LEMMA BeginWalkGoes ==
    ASSUME TaskType, NEW t \in Task, NEW o, NEW r \in BOOLEAN,
           listeners.head # NoListener, BeginWalk(t, o, r)
    PROVE  Goes(t, "callback", o)
<1>1. WalkTo(listeners, listeners.head, r) \in Walk(Listener)
  BY DEF TaskType, ListenerList, WalkTo, Walk
<1> QED BY <1>1 DEF TaskType, BeginWalk, Goto, Goes

(* The readiness is brought up to date, and the call goes to its callbacks *)
(* or ends.                                                                *)
LEMMA UpdateReadyGoes ==
    ASSUME TaskType, NEW t \in Task, NEW o, NEW s \in SignalRecord, UpdateReady(t, o, s)
    PROVE  /\ signal' = Updated(s) /\ SlotType'
           /\ Goes(t, "callback", o) \/ Goes(t, "idle", NoOp)
<1>1. signal' = Updated(s)
  BY DEF UpdateReady
<1>2. SlotType'
  <2>1. signal' \in SignalRecord /\ signal'.ready_state = IsReady(signal')
    BY <1>1, UpdatedFields
  <2> QED BY <2>1 DEF SlotType
<1>3. CASE Tells(s)
  <2>1. IsReady(s) \in BOOLEAN
    <3>1. CASE s.mode = "counting"
      BY <3>1 DEF IsReady
    <3>2. CASE s.mode # "counting"
      BY <3>2 DEF IsReady, SignalRecord
    <3> QED BY <3>1, <3>2
  <2>2. listeners.head # NoListener /\ BeginWalk(t, o, IsReady(s))
    BY <1>3 DEF UpdateReady, Tells
  <2> QED BY <1>1, <1>2, <2>1, <2>2, BeginWalkGoes
<1>4. CASE ~Tells(s)
  BY <1>1, <1>2, <1>4, ReturnGoes DEF UpdateReady
<1> QED BY <1>3, <1>4

(* A waiter nobody touches, or one that is woken.                          *)
Still(u) ==
    \/ waiter'[u] = waiter[u]
    \/ waiter[u].enqueued /\ \E r \in WaitResult : waiter'[u] = Woken(waiter[u], r)

LEMMA CallStill ==
    ASSUME TaskType, QueueInv, NEW u \in Task, CallOK(u), Still(u), pc'[u] = pc[u], op'[u] = op[u]
    PROVE  CallOK(u)'
<1>1. CASE waiter'[u] = waiter[u]
  BY <1>1 DEF CallOK
<1>2. CASE waiter'[u] # waiter[u]
  <2>1. waiter[u].enqueued
    BY <1>2 DEF Still
  <2>2. PICK r \in WaitResult : waiter'[u] = Woken(waiter[u], r)
    BY <1>2 DEF Still
  <2>3. waiter'[u].enqueued = FALSE /\ waiter'[u].given = (waiter[u].given \/ waiter[u].armed)
    BY <2>2 DEF Woken
  <2>4. pc[u] \in {"wait", "relock"}
    BY <2>1 DEF CallOK, NoWaiter
  <2> QED BY <2>1, <2>3, <2>4 DEF CallOK
<1> QED BY <1>1, <1>2

(* A task that leaves its wait, or never was in one, at the end of its     *)
(* critical section.                                                       *)
LEMMA CallsKept ==
    ASSUME TaskType, QueueInv, \A u \in Task : CallOK(u),
           NEW t \in Task, NEW l \in {"idle", "callback", "renotify"}, NEW o \in Operation,
           Goes(t, l, o), l = "idle" => o.kind = "none",
           waiter'[t] = NoWaiter, \A u \in Task \ {t} : Still(u)
    PROVE  (\A u \in Task : CallOK(u))' /\ op' \in [Task -> Operation]
           /\ pc' \in [Task -> {"idle", "wait", "relock", "callback", "renotify"}]
<1>1. /\ pc'[t] = l /\ op'[t] = o
      /\ \A u \in Task \ {t} : pc'[u] = pc[u] /\ op'[u] = op[u]
      /\ op' \in [Task -> Operation]
      /\ pc' \in [Task -> {"idle", "wait", "relock", "callback", "renotify"}]
  BY DEF Goes, TaskType
<1>2. CallOK(t)'
  BY <1>1 DEF CallOK, NoWaiter
<1>3. ASSUME NEW u \in Task \ {t} PROVE CallOK(u)'
  BY <1>1, <1>3, CallStill
<1> QED BY <1>1, <1>2, <1>3

LEMMA CallsKeptReady ==
    ASSUME TaskType, QueueInv, \A u \in Task : CallOK(u),
           NEW t \in Task, NEW o \in Operation,
           Goes(t, "callback", o) \/ Goes(t, "idle", NoOp),
           UNCHANGED <<listeners, told>>,
           waiter'[t] = NoWaiter, \A u \in Task \ {t} : Still(u)
    PROVE  (\A u \in Task : CallOK(u))' /\ TaskType'
<1>1. NoOp \in Operation /\ NoOp.kind = "none"
  BY DEF NoOp, Operation
<1>2. (\A u \in Task : CallOK(u))' /\ op' \in [Task -> Operation]
           /\ pc' \in [Task -> {"idle", "wait", "relock", "callback", "renotify"}]
  BY <1>1, CallsKept
<1>3. wait_result' \in [Task -> WaitResult] /\ walk' \in [Task -> Walk(Listener)]
  BY DEF Goes
<1> QED BY <1>2, <1>3 DEF TaskType

-----------------------------------------------------------------------------
(* The steps.                                                              *)


(* The steps that write the signal and leave the waiters alone.            *)
LEMMA QuietUpdate ==
    ASSUME Configured, SignalInv, NEW t \in Task, NEW o \in Operation, NEW s \in SignalRecord,
           UpdateReady(t, o, s), UNCHANGED <<queueVars, listeners, told>>, pc[t] = "idle",
           o.kind # "destroy", s.destroyed = signal.destroyed, s.created
    PROVE  SignalInv'
<1>0. SlotType /\ TaskType /\ QueueInv /\ LifeInv /\ \A u \in Task : CallOK(u)
  BY DEF SignalInv
<1>1. /\ signal' = Updated(s) /\ SlotType'
      /\ Goes(t, "callback", o) \/ Goes(t, "idle", NoOp)
  BY <1>0, UpdateReadyGoes
<1>2. waiter' = waiter /\ waiters' = waiters /\ waiter[t] = NoWaiter
  BY <1>0 DEF queueVars, CallOK
<1>3. (\A u \in Task : CallOK(u))' /\ TaskType'
  BY <1>0, <1>1, <1>2, CallsKeptReady DEF Still
<1>4. QueueInv'
  BY <1>0 DEF QueueInv, queueVars
<1>5. LifeInv'
  <2>1. signal'.created = s.created /\ signal'.destroyed = signal.destroyed
    BY <1>1, UpdatedFields
  <2>2. \A u \in Task : op'[u].kind = "destroy" => op[u].kind = "destroy"
    BY <1>0, <1>1 DEF Goes, TaskType, NoOp
  <2> QED BY <1>0, <1>2, <2>1, <2>2 DEF LifeInv
<1> QED BY <1>1, <1>3, <1>4, <1>5 DEF SignalInv

LEMMA CallKinds ==
    ASSUME NEW k \in {"none", "set", "clear", "wait", "subscribe", "destroy"}
    PROVE  Call(k) \in Operation /\ Call(k).kind = k
  BY DEF Call, NoOp, Operation

LEMMA StepClear == ASSUME Configured, SignalInv, NEW t \in Task, Clear(t) PROVE SignalInv'
<1>1. signal \in SignalRecord
  BY DEF SignalInv, SlotType
<1>2. /\ UpdateReady(t, Call("clear"), Cleared(signal)) /\ pc[t] = "idle" /\ signal.created
      /\ UNCHANGED <<queueVars, listeners, told>>
  BY DEF Clear, Starts
<1> QED BY <1>1, <1>2, ClearedFields, CallKinds, QuietUpdate

LEMMA StepTake == ASSUME Configured, SignalInv, NEW t \in Task, Take(t) PROVE SignalInv'
<1>1. signal \in SignalRecord
  BY DEF SignalInv, SlotType
<1>2. /\ UpdateReady(t, Call("wait"), Consumed(signal)) /\ pc[t] = "idle" /\ signal.created
      /\ UNCHANGED <<queueVars, listeners, told>>
  BY DEF Take, Starts
<1> QED BY <1>1, <1>2, ConsumedFields, CallKinds, QuietUpdate

LEMMA StepCreate == ASSUME Configured, SignalInv, NEW t \in Task, Create(t) PROVE SignalInv'
<1>0. SlotType /\ TaskType /\ QueueInv /\ LifeInv /\ \A u \in Task : CallOK(u)
  BY DEF SignalInv
<1>1. PICK m \in Modes : signal' = [signal EXCEPT !.created = TRUE, !.mode = m]
  BY DEF Create
<1>2. ~signal.created /\ signal.counter = 0 /\ ~signal.pending
  BY <1>0 DEF Create, LifeInv
<1>3. /\ signal'.created /\ signal'.mode = m /\ signal'.counter = 0 /\ ~signal'.pending
      /\ signal'.destroyed = signal.destroyed /\ signal' \in SignalRecord
      /\ signal'.ready_state = signal.ready_state
  <2> DEFINE u == [signal EXCEPT !.created = TRUE]
  <2>1. /\ u \in SignalRecord /\ u.created /\ u.counter = 0 /\ ~u.pending
        /\ u.destroyed = signal.destroyed /\ u.ready_state = signal.ready_state
    BY <1>0, <1>2 DEF SlotType, SignalRecord
  <2>2. signal' = [u EXCEPT !.mode = m]
    BY <1>1
  <2> HIDE DEF u
  <2> QED BY <2>1, <2>2 DEF SignalRecord
<1>4. ~IsReady(signal) /\ ~IsReady(signal')
  BY <1>2, <1>3 DEF IsReady
<1>5. SlotType'
  <2>1. signal.ready_state = FALSE
    BY <1>0, <1>4 DEF SlotType, SignalRecord
  <2>2. IsReady(signal') = FALSE
    <3>1. signal'.pending \in BOOLEAN
      BY <1>3 DEF SignalRecord
    <3> QED BY <3>1, <1>3 DEF IsReady
  <2> QED BY <2>1, <2>2, <1>3 DEF SlotType
<1>6. UNCHANGED <<waiters, waiting_tasks, waiter, listeners, told, pc, op, wait_result, walk>>
  BY DEF Create, queueVars, taskVars
<1> QED BY <1>0, <1>3, <1>5, <1>6 DEF SignalInv, TaskType, QueueInv, LifeInv, CallOK

LEMMA StepSet == ASSUME Configured, SignalInv, NEW t \in Task, Set(t) PROVE SignalInv'
<1>0. SlotType /\ TaskType /\ QueueInv /\ LifeInv /\ \A u \in Task : CallOK(u)
  BY DEF SignalInv
<1>1. PICK s : s = Raised(signal)
  OBVIOUS
<1>2. /\ signal' = Updated(s) /\ pc[t] = "idle" /\ signal.created /\ ~signal.destroyed
      /\ signal.mode = "counting" => signal.counter < MaxCounter
      /\ IF Tells(s) THEN BeginWalk(t, Call("set"), IsReady(s)) /\ UNCHANGED queueVars
                     ELSE WakeOne /\ Return(t)
      /\ UNCHANGED <<listeners, told>>
  BY <1>1 DEF Set, Starts
<1>3. s \in SignalRecord /\ s.created /\ ~s.destroyed
  BY <1>0, <1>1, <1>2, RaisedFields DEF SlotType
<1>4. SlotType' /\ signal'.created /\ ~signal'.destroyed
  BY <1>2, <1>3, UpdatedFields DEF SlotType
<1>5. /\ Goes(t, "callback", Call("set")) \/ Goes(t, "idle", NoOp)
      /\ QueueInv' /\ waiter'[t] = NoWaiter /\ \A u \in Task \ {t} : Still(u)
  <2>1. waiter[t] = NoWaiter /\ ~waiter[t].enqueued
    BY <1>0, <1>2 DEF CallOK, NoWaiter
  <2>2. CASE Tells(s)
    <3>1. IsReady(s) \in BOOLEAN
      <4>1. CASE s.mode = "counting"
        BY <4>1 DEF IsReady
      <4>2. CASE s.mode # "counting"
        BY <4>2, <1>3 DEF IsReady, SignalRecord
      <4> QED BY <4>1, <4>2
    <3>2. Goes(t, "callback", Call("set"))
      BY <1>0, <1>2, <2>2, <3>1, BeginWalkGoes DEF Tells
    <3>3. UNCHANGED <<waiters, waiting_tasks, waiter>>
      BY <1>2, <2>2 DEF queueVars
    <3>4. QueueInv'
      BY <1>0, <3>3 DEF QueueInv
    <3> QED BY <2>1, <3>2, <3>3, <3>4 DEF Still
  <2>3. CASE ~Tells(s)
    <3>1. Goes(t, "idle", NoOp)
      BY <1>0, <1>2, <2>3, ReturnGoes
    <3>2. /\ QueueInv'
          /\ \/ UNCHANGED queueVars
             \/ \E u \in Task : waiter[u].enqueued /\ WakesTask(u)
      BY <1>0, <1>2, <2>3, WakeOneEffect
    <3>3. CASE UNCHANGED queueVars
      BY <2>1, <3>1, <3>2, <3>3 DEF queueVars, Still
    <3>4. CASE \E u \in Task : waiter[u].enqueued /\ WakesTask(u)
      <4>1. PICK u \in Task : waiter[u].enqueued /\ WakesTask(u)
        BY <3>4
      <4>2. /\ u # t /\ waiter'[t] = NoWaiter /\ waiter'[u] = Woken(waiter[u], "ok")
            /\ \A v \in Task : v # u => waiter'[v] = waiter[v]
        BY <1>0, <2>1, <4>1 DEF WakesTask, QueueInv
      <4> QED BY <3>1, <3>2, <4>1, <4>2 DEF Still, WaitResult
    <3> QED BY <3>2, <3>3, <3>4
  <2> QED BY <2>2, <2>3
<1>6. (\A u \in Task : CallOK(u))' /\ TaskType'
  BY <1>0, <1>2, <1>5, CallKinds, CallsKeptReady
<1>7. LifeInv'
  <2>1. \A u \in Task : op'[u].kind = "destroy" => op[u].kind = "destroy"
    BY <1>0, <1>5, CallKinds DEF Goes, TaskType, NoOp
  <2> QED BY <1>0, <1>2, <1>4, <2>1 DEF LifeInv
<1> QED BY <1>4, <1>5, <1>6, <1>7 DEF SignalInv

LEMMA StepPark == ASSUME Configured, SignalInv, NEW t \in Task, Park(t) PROVE SignalInv'
<1>0. SlotType /\ TaskType /\ QueueInv /\ LifeInv /\ \A u \in Task : CallOK(u)
  BY DEF SignalInv
<1>1. PICK m \in Timeouts : op' = [op EXCEPT ![t] = [NoOp EXCEPT !.kind = "wait", !.timeout = m]]
  BY DEF Park
<1>2. /\ waiters' = Append(waiters, t) /\ waiter' = [waiter EXCEPT ![t] = PreparedWaiter]
      /\ waiting_tasks' = waiting_tasks + 1 /\ pc' = [pc EXCEPT ![t] = "wait"]
      /\ UNCHANGED <<signal, listeners, told, wait_result, walk>>
      /\ pc[t] = "idle" /\ signal.created /\ ~signal.destroyed
  BY DEF Park, Starts, Goto
<1>3. /\ op'[t].kind = "wait" /\ op'[t].timeout = m /\ op' \in [Task -> Operation]
      /\ \A u \in Task \ {t} : op'[u] = op[u] /\ pc'[u] = pc[u] /\ waiter'[u] = waiter[u]
      /\ pc'[t] = "wait" /\ waiter'[t] = PreparedWaiter
  BY <1>0, <1>1, <1>2 DEF TaskType, QueueInv, NoOp, Operation
<1>4. SlotType' /\ TaskType'
  BY <1>0, <1>2, <1>3 DEF SlotType, TaskType
<1>5. QueueInv'
  <2>1. ~Contains(waiters, t)
    BY <1>0, <1>2 DEF QueueInv, CallOK, NoWaiter
  <2>2. /\ waiters' \in Seq(Task) /\ Len(waiters') = Len(waiters) + 1 /\ IsInjective(waiters')
        /\ \A u : Contains(waiters', u) <=> Contains(waiters, u) \/ u = t
    BY <1>0, <1>2, <2>1, AppendContains DEF QueueInv
  <2>3. waiter' \in [Task -> Waiter] /\ waiter'[t].enqueued
    BY <1>0, <1>2 DEF QueueInv, PreparedWaiter, Waiter, WaitResult
  <2> QED BY <1>0, <1>2, <1>3, <2>2, <2>3 DEF QueueInv
<1>6. (\A u \in Task : CallOK(u))'
  <2>1. CallOK(t)'
    BY <1>3 DEF CallOK, PreparedWaiter
  <2>2. ASSUME NEW u \in Task \ {t} PROVE CallOK(u)'
    BY <1>0, <1>3, <2>2 DEF CallOK
  <2> QED BY <2>1, <2>2
<1>7. LifeInv'
  BY <1>0, <1>2, <1>3 DEF LifeInv
<1> QED BY <1>4, <1>5, <1>6, <1>7 DEF SignalInv

LEMMA StepBlockTaken ==
    ASSUME Configured, SignalInv, NEW t \in Task, BlockTaken(t) PROVE SignalInv'
<1>0. SlotType /\ TaskType /\ QueueInv /\ LifeInv /\ \A u \in Task : CallOK(u)
  BY DEF SignalInv
<1>1. /\ pc[t] = "wait" /\ waiter[t].given /\ pc' = [pc EXCEPT ![t] = "relock"]
      /\ wait_result' = [wait_result EXCEPT ![t] = waiter[t].result]
      /\ waiter' = [waiter EXCEPT ![t] = NoWaiter]
      /\ UNCHANGED <<signal, waiters, waiting_tasks, listeners, told, op, walk>>
  BY DEF BlockTaken, Goto
<1>2. waiter[t].result \in WaitResult /\ ~waiter[t].enqueued
  BY <1>0, <1>1 DEF QueueInv, CallOK, Waiter
<1>3. SlotType' /\ TaskType' /\ LifeInv'
  BY <1>0, <1>1, <1>2 DEF SlotType, TaskType, LifeInv
<1>4. /\ waiter'[t] = NoWaiter /\ pc'[t] = "relock" /\ ~waiter'[t].enqueued
      /\ \A u \in Task \ {t} : waiter'[u] = waiter[u] /\ pc'[u] = pc[u]
      /\ waiter' \in [Task -> Waiter]
  BY <1>0, <1>1 DEF QueueInv, TaskType, NoWaiter, Waiter, WaitResult
<1>5. QueueInv'
  BY <1>0, <1>1, <1>2, <1>4 DEF QueueInv
<1>6. CallOK(t)'
  BY <1>0, <1>1, <1>4 DEF CallOK, NoWaiter
<1>7. ASSUME NEW u \in Task \ {t} PROVE CallOK(u)'
  BY <1>0, <1>1, <1>4, <1>7 DEF CallOK
<1> QED BY <1>3, <1>5, <1>6, <1>7 DEF SignalInv

LEMMA StepBlockTimeout ==
    ASSUME Configured, SignalInv, NEW t \in Task, BlockTimeout(t) PROVE SignalInv'
<1>0. SlotType /\ TaskType /\ QueueInv /\ LifeInv /\ \A u \in Task : CallOK(u)
  BY DEF SignalInv
<1>1. /\ pc[t] = "wait" /\ pc' = [pc EXCEPT ![t] = "relock"]
      /\ op[t].timeout = "finite" => ~waiter[t].given
      /\ wait_result' = [wait_result EXCEPT ![t] = "timeout"]
      /\ waiter' = [waiter EXCEPT ![t] = IF op[t].timeout = "zero" THEN @ ELSE TimedOut(@)]
      /\ UNCHANGED <<signal, waiters, waiting_tasks, listeners, told, op, walk>>
  BY DEF BlockTimeout, Goto
<1>2. SlotType' /\ TaskType' /\ LifeInv'
  BY <1>0, <1>1 DEF SlotType, TaskType, LifeInv, WaitResult
<1>3. /\ pc'[t] = "relock"
      /\ \A u \in Task \ {t} : waiter'[u] = waiter[u] /\ pc'[u] = pc[u]
      /\ waiter'[t] \in {waiter[t], TimedOut(waiter[t])}
  BY <1>0, <1>1 DEF QueueInv, TaskType
<1>4. /\ TimedOut(waiter[t]) \in Waiter
      /\ TimedOut(waiter[t]).enqueued = waiter[t].enqueued
      /\ TimedOut(waiter[t]).given = waiter[t].given
  <2> DEFINE w == [waiter[t] EXCEPT !.armed = FALSE]
  <2>1. w \in Waiter /\ w.enqueued = waiter[t].enqueued /\ w.given = waiter[t].given
    BY <1>0 DEF QueueInv, Waiter
  <2>2. TimedOut(waiter[t]) = [w EXCEPT !.result = "timeout"]
    BY DEF TimedOut
  <2> HIDE DEF w
  <2> QED BY <2>1, <2>2 DEF Waiter, WaitResult
<1>5. /\ waiter'[t].enqueued = waiter[t].enqueued /\ waiter'[t].given = waiter[t].given
      /\ waiter'[t] \in Waiter
  BY <1>0, <1>3, <1>4 DEF QueueInv
<1>6. waiter' \in [Task -> Waiter]
  BY <1>0, <1>1, <1>4 DEF QueueInv
<1>7. QueueInv'
  BY <1>0, <1>1, <1>3, <1>5, <1>6 DEF QueueInv
<1>8. CallOK(t)'
  BY <1>0, <1>1, <1>3, <1>5 DEF CallOK
<1>9. ASSUME NEW u \in Task \ {t} PROVE CallOK(u)'
  BY <1>0, <1>1, <1>3, <1>9 DEF CallOK
<1> QED BY <1>2, <1>7, <1>8, <1>9 DEF SignalInv

(* The end of a wait, back under the lock.                                 *)
LEMMA StepLeave ==
    ASSUME Configured, SignalInv, NEW t \in Task, pc[t] = "relock", LeaveQueue(t),
           UNCHANGED <<listeners, told>>,
           \/ Return(t) /\ UNCHANGED signal
           \/ \E s \in SignalRecord :
                /\ UpdateReady(t, Call("wait"), s)
                /\ s.created = signal.created /\ s.destroyed = signal.destroyed
                /\ ~s.created => s.counter = 0 /\ ~s.pending
    PROVE  SignalInv'
<1>0. SlotType /\ TaskType /\ QueueInv /\ LifeInv /\ \A u \in Task : CallOK(u)
  BY DEF SignalInv
<1>1. /\ QueueInv' /\ waiter' = [waiter EXCEPT ![t] = NoWaiter]
      /\ waiters = << >> => waiters' = << >>
  BY <1>0, LeaveQueueEffect
<1>2. waiter'[t] = NoWaiter /\ \A u \in Task \ {t} : Still(u)
  BY <1>0, <1>1 DEF QueueInv, Still
<1>3. /\ SlotType' /\ signal'.created = signal.created /\ signal'.destroyed = signal.destroyed
      /\ ~signal'.created => signal'.counter = 0 /\ ~signal'.pending
      /\ Goes(t, "callback", Call("wait")) \/ Goes(t, "idle", NoOp)
  <2>1. CASE Return(t) /\ UNCHANGED signal
    <3>1. Goes(t, "idle", NoOp)
      BY <1>0, <2>1, ReturnGoes
    <3> QED BY <1>0, <2>1, <3>1 DEF SlotType, LifeInv
  <2>2. CASE ~(Return(t) /\ UNCHANGED signal)
    <3>1. PICK s \in SignalRecord :
              /\ UpdateReady(t, Call("wait"), s)
              /\ s.created = signal.created /\ s.destroyed = signal.destroyed
              /\ ~s.created => s.counter = 0 /\ ~s.pending
      BY <2>2
    <3>2. /\ signal' = Updated(s) /\ SlotType'
          /\ Goes(t, "callback", Call("wait")) \/ Goes(t, "idle", NoOp)
      BY <1>0, <3>1, UpdateReadyGoes
    <3> QED BY <3>1, <3>2, UpdatedFields
  <2> QED BY <2>1, <2>2
<1>4. (\A u \in Task : CallOK(u))' /\ TaskType'
  BY <1>0, <1>2, <1>3, CallKinds, CallsKeptReady
<1>5. LifeInv'
  <2>1. \A u \in Task : op'[u].kind = "destroy" => op[u].kind = "destroy"
    BY <1>0, <1>3, CallKinds DEF Goes, TaskType, NoOp
  <2> QED BY <1>0, <1>1, <1>3, <2>1 DEF LifeInv
<1> QED BY <1>1, <1>3, <1>4, <1>5 DEF SignalInv

LEMMA StepWokenTakes ==
    ASSUME Configured, SignalInv, NEW t \in Task, WokenTakes(t) PROVE SignalInv'
<1>0. signal \in SignalRecord /\ LifeInv
  BY DEF SignalInv, SlotType
<1>1. PICK s : s = Consumed(signal)
  OBVIOUS
<1>2. /\ pc[t] = "relock" /\ LeaveQueue(t) /\ UpdateReady(t, Call("wait"), s)
      /\ IsReady(signal) /\ UNCHANGED <<listeners, told>>
  BY <1>1 DEF WokenTakes
<1>3. signal.created
  BY <1>0, <1>2 DEF LifeInv, IsReady
<1>4. s \in SignalRecord /\ s.created = signal.created /\ s.destroyed = signal.destroyed
  BY <1>0, <1>1, ConsumedFields
<1> QED BY <1>2, <1>3, <1>4, StepLeave

LEMMA StepWokenInVain ==
    ASSUME Configured, SignalInv, NEW t \in Task, WokenInVain(t) PROVE SignalInv'
  BY StepLeave DEF WokenInVain

LEMMA StepWaitEnds ==
    ASSUME Configured, SignalInv, NEW t \in Task, WaitEnds(t) PROVE SignalInv'
<1>1. signal \in SignalRecord /\ (~signal.created => signal.counter = 0 /\ ~signal.pending)
  BY DEF SignalInv, SlotType, LifeInv
<1>2. /\ pc[t] = "relock" /\ LeaveQueue(t) /\ UNCHANGED <<listeners, told>>
      /\ \/ Return(t) /\ UNCHANGED signal
         \/ UpdateReady(t, Call("wait"), signal)
  BY DEF WaitEnds
<1> QED BY <1>1, <1>2, StepLeave

LEMMA StepDestroy ==
    ASSUME Configured, SignalInv, NEW t \in Task, Destroy(t) PROVE SignalInv'
<1>0. SlotType /\ TaskType /\ QueueInv /\ LifeInv /\ \A u \in Task : CallOK(u)
  BY DEF SignalInv
<1>1. /\ pc[t] = "idle" /\ signal.created /\ waiters' = << >> /\ waiting_tasks' = 0
      /\ waiter' = WokenAll(waiter, waiters, "destroyed") /\ told' = told
      /\ signal' = [Cleared(signal) EXCEPT !.destroyed = TRUE, !.ready_state = FALSE]
  BY DEF Destroy, Starts
<1>2. \/ BeginWalk(t, Call("destroy"), FALSE) /\ UNCHANGED listeners /\ listeners.head # NoListener
      \/ Return(t) /\ listeners' = [listeners EXCEPT !.count = 0]
  BY DEF Destroy
<1>3. /\ signal' \in SignalRecord /\ signal'.destroyed /\ signal'.created
      /\ signal'.counter = 0 /\ ~signal'.pending /\ ~signal'.ready_state
  <2>1. PICK c : c = Cleared(signal)
    OBVIOUS
  <2>2. c \in SignalRecord /\ c.created /\ c.counter = 0 /\ ~c.pending
    BY <1>0, <1>1, <2>1, ClearedFields DEF SlotType
  <2> DEFINE d == [c EXCEPT !.destroyed = TRUE]
  <2>3. d \in SignalRecord /\ d.created /\ d.counter = 0 /\ ~d.pending /\ d.destroyed
    BY <2>2 DEF SignalRecord
  <2>4. signal' = [d EXCEPT !.ready_state = FALSE]
    BY <1>1, <2>1
  <2> HIDE DEF d
  <2> QED BY <2>3, <2>4 DEF SignalRecord
<1>4. SlotType'
  <2>1. IsReady(signal') = FALSE
    <3>1. signal'.pending \in BOOLEAN
      BY <1>3 DEF SignalRecord
    <3> QED BY <3>1, <1>3 DEF IsReady
  <2>2. signal'.ready_state = FALSE
    BY <1>3 DEF SignalRecord
  <2> QED BY <1>3, <2>1, <2>2 DEF SlotType
<1>5. /\ \A u \in Task : Still(u) /\ ~waiter'[u].enqueued
      /\ waiter' \in [Task -> Waiter] /\ waiter'[t] = NoWaiter
  <2>1. ASSUME NEW u \in Task
        PROVE  Still(u) /\ ~waiter'[u].enqueued /\ waiter'[u] \in Waiter
    <3>1. CASE Contains(waiters, u)
      <4>1. waiter[u].enqueued /\ waiter[u] \in Waiter
        BY <1>0, <3>1 DEF QueueInv
      <4>2. waiter'[u] = Woken(waiter[u], "destroyed")
        BY <1>1, <3>1 DEF WokenAll
      <4> QED BY <4>1, <4>2 DEF Still, Woken, Waiter, WaitResult
    <3>2. CASE ~Contains(waiters, u)
      BY <1>0, <1>1, <3>2 DEF WokenAll, Still, QueueInv
    <3> QED BY <3>1, <3>2
  <2>2. ~Contains(waiters, t) /\ waiter[t] = NoWaiter
    BY <1>0, <1>1 DEF CallOK, QueueInv, NoWaiter
  <2>3. waiter'[t] = NoWaiter /\ DOMAIN waiter' = Task /\ waiter' = [u \in Task |-> waiter'[u]]
    BY <1>1, <2>2 DEF WokenAll
  <2> QED BY <2>1, <2>3
<1>6. QueueInv'
  BY <1>1, <1>5 DEF QueueInv, Contains, IsInjective
<1>7. Goes(t, "callback", Call("destroy")) \/ Goes(t, "idle", NoOp)
  BY <1>0, <1>2, ReturnGoes, BeginWalkGoes
<1>8. listeners' \in ListenerList(Listener)
  <2>1. listeners \in ListenerList(Listener)
    BY <1>0 DEF TaskType
  <2>2. [listeners EXCEPT !.count = 0] \in ListenerList(Listener)
    BY <2>1 DEF ListenerList
  <2> QED BY <1>2, <2>1, <2>2
<1>9. (\A u \in Task : CallOK(u))' /\ TaskType'
  <2>1. NoOp \in Operation /\ NoOp.kind = "none"
    BY DEF NoOp, Operation
  <2>2. /\ (\A u \in Task : CallOK(u))' /\ op' \in [Task -> Operation]
        /\ pc' \in [Task -> {"idle", "wait", "relock", "callback", "renotify"}]
    BY <1>0, <1>5, <1>7, <2>1, CallKinds, CallsKept
  <2>3. wait_result' \in [Task -> WaitResult] /\ walk' \in [Task -> Walk(Listener)]
    BY <1>7 DEF Goes
  <2>4. told' \in [Listener -> BOOLEAN]
    BY <1>0, <1>1 DEF TaskType
  <2> QED BY <1>8, <2>2, <2>3, <2>4 DEF TaskType
<1>10. LifeInv'
  BY <1>1, <1>3 DEF LifeInv
<1> QED BY <1>4, <1>6, <1>9, <1>10 DEF SignalInv

LEMMA StepCallback ==
    ASSUME Configured, SignalInv, NEW t \in Task, Callback(t) \/ Renotify(t) PROVE SignalInv'
<1>0. SlotType /\ TaskType /\ QueueInv /\ LifeInv /\ \A u \in Task : CallOK(u)
  BY DEF SignalInv
<1>1. /\ UNCHANGED <<signal, waiters, waiting_tasks, waiter, listeners, op, wait_result>>
      /\ pc[t] \in {"callback", "renotify"}
      /\ \E l \in {"callback", "renotify"} : pc' = [pc EXCEPT ![t] = l]
  BY DEF Callback, Renotify, Goto, queueVars
<1>2. told' \in [Listener -> BOOLEAN] /\ walk' \in [Task -> Walk(Listener)]
  <2>1. CASE Callback(t)
    BY <1>0, <2>1 DEF Callback, TaskType, Walk
  <2>2. CASE Renotify(t)
    <3>1. WalkTo(listeners, walk[t].next, walk[t].ready) \in Walk(Listener)
      BY <1>0, <2>2 DEF Renotify, TaskType, ListenerList, WalkTo, Walk
    <3> QED BY <1>0, <2>2, <3>1 DEF Renotify, TaskType
  <2> QED BY <2>1, <2>2
<1>3. TaskType'
  BY <1>0, <1>1, <1>2 DEF TaskType
<1>4. CallOK(t)'
  BY <1>0, <1>1 DEF TaskType, CallOK
<1>5. ASSUME NEW u \in Task \ {t} PROVE CallOK(u)'
  BY <1>0, <1>1, <1>5 DEF TaskType, CallOK
<1> QED BY <1>0, <1>1, <1>3, <1>4, <1>5 DEF SignalInv, SlotType, QueueInv, LifeInv

LEMMA StepEndWalk ==
    ASSUME Configured, SignalInv, NEW t \in Task, EndWalk(t) PROVE SignalInv'
<1>0. SlotType /\ TaskType /\ QueueInv /\ LifeInv /\ \A u \in Task : CallOK(u)
  BY DEF SignalInv
<1>1. pc[t] = "renotify" /\ Return(t) /\ UNCHANGED <<signal, told>>
  BY DEF EndWalk
<1>2. waiter[t] = NoWaiter /\ ~waiter[t].enqueued
  BY <1>0, <1>1 DEF CallOK, NoWaiter
<1>3. Goes(t, "idle", NoOp)
  BY <1>0, <1>1, ReturnGoes
<1>4. /\ QueueInv' /\ waiter'[t] = NoWaiter /\ \A u \in Task \ {t} : Still(u)
      /\ waiters = << >> => waiters' = << >>
      /\ listeners' \in ListenerList(Listener)
  <2>1. CASE op[t].kind = "set"
    <3>1. WakeOne /\ UNCHANGED listeners
      BY <2>1 DEF EndWalk
    <3>2. /\ QueueInv' /\ (waiters = << >> => waiters' = << >>)
          /\ \/ UNCHANGED queueVars
             \/ \E u \in Task : waiter[u].enqueued /\ WakesTask(u)
      BY <1>0, <3>1, WakeOneEffect
    <3>3. CASE UNCHANGED queueVars
      BY <1>0, <1>2, <3>1, <3>2, <3>3 DEF queueVars, Still, TaskType
    <3>4. CASE \E u \in Task : waiter[u].enqueued /\ WakesTask(u)
      <4>1. PICK u \in Task : waiter[u].enqueued /\ WakesTask(u)
        BY <3>4
      <4>2. /\ u # t /\ waiter'[t] = NoWaiter /\ waiter'[u] = Woken(waiter[u], "ok")
            /\ \A v \in Task : v # u => waiter'[v] = waiter[v]
        BY <1>0, <1>2, <4>1 DEF WakesTask, QueueInv
      <4> QED BY <1>0, <3>1, <3>2, <4>1, <4>2 DEF Still, WaitResult, TaskType
    <3> QED BY <3>2, <3>3, <3>4
  <2>2. CASE op[t].kind = "destroy"
    <3>1. /\ waiters' = << >> /\ UNCHANGED <<waiting_tasks, waiter>>
          /\ listeners' = [listeners EXCEPT !.head = NoListener, !.count = 0]
      BY <2>2 DEF EndWalk
    <3>2. waiters = << >>
      BY <1>0, <2>2 DEF LifeInv
    <3>3. QueueInv'
      BY <1>0, <3>1, <3>2 DEF QueueInv
    <3>4. listeners' \in ListenerList(Listener)
      <4> DEFINE l == [listeners EXCEPT !.head = NoListener]
      <4>1. l \in ListenerList(Listener)
        BY <1>0 DEF TaskType, ListenerList
      <4>2. listeners' = [l EXCEPT !.count = 0]
        BY <3>1
      <4> HIDE DEF l
      <4> QED BY <4>1, <4>2 DEF ListenerList
    <3> QED BY <1>2, <3>1, <3>3, <3>4 DEF Still
  <2>3. CASE op[t].kind \notin {"set", "destroy"}
    <3>1. UNCHANGED <<waiters, waiting_tasks, waiter, listeners>>
      BY <2>3 DEF EndWalk, queueVars
    <3>2. QueueInv'
      BY <1>0, <3>1 DEF QueueInv
    <3> QED BY <1>0, <1>2, <3>1, <3>2 DEF Still, TaskType
  <2> QED BY <2>1, <2>2, <2>3
<1>5. (\A u \in Task : CallOK(u))' /\ TaskType'
  <2>1. NoOp \in Operation /\ NoOp.kind = "none"
    BY DEF NoOp, Operation
  <2>2. /\ (\A u \in Task : CallOK(u))' /\ op' \in [Task -> Operation]
        /\ pc' \in [Task -> {"idle", "wait", "relock", "callback", "renotify"}]
    BY <1>0, <1>3, <1>4, <2>1, CallsKept
  <2>3. wait_result' \in [Task -> WaitResult] /\ walk' \in [Task -> Walk(Listener)]
    BY <1>3 DEF Goes
  <2> QED BY <1>0, <1>1, <1>4, <2>2, <2>3 DEF TaskType
<1>6. LifeInv'
  <2>1. \A u \in Task : op'[u].kind = "destroy" => op[u].kind = "destroy"
    BY <1>0, <1>3 DEF Goes, TaskType, NoOp
  <2> QED BY <1>0, <1>1, <1>4, <2>1 DEF LifeInv
<1>7. SlotType'
  BY <1>0, <1>1 DEF SlotType
<1> QED BY <1>4, <1>5, <1>6, <1>7 DEF SignalInv

LEMMA StepSubscribe ==
    ASSUME Configured, SignalInv, NEW t \in Task, SubscribeListener(t) PROVE SignalInv'
<1>0. SlotType /\ TaskType /\ QueueInv /\ LifeInv /\ \A u \in Task : CallOK(u)
  BY DEF SignalInv
<1>1. PICK l \in Listener \ Subscribed(listeners) :
          /\ listeners' = Subscribe(listeners, l)
          /\ walk' = [walk EXCEPT ![t] =
                  [now |-> l, next |-> NoListener, ready |-> IsReady(signal)]]
  BY DEF SubscribeListener
<1>2. /\ UNCHANGED <<signal, waiters, waiting_tasks, waiter, told, wait_result>>
      /\ op' = [op EXCEPT ![t] = Call("subscribe")] /\ pc' = [pc EXCEPT ![t] = "callback"]
      /\ pc[t] = "idle"
  BY DEF SubscribeListener, Goto, queueVars
<1>3. IsReady(signal) \in BOOLEAN
  BY <1>0 DEF SlotType, SignalRecord
<1>4. listeners' \in ListenerList(Listener)
  BY <1>0, <1>1 DEF TaskType, ListenerList, Subscribe
<1>5. walk' \in [Task -> Walk(Listener)]
  BY <1>0, <1>1, <1>3 DEF TaskType, Walk
<1>6. Goes(t, "callback", Call("subscribe"))
  BY <1>0, <1>2, <1>5 DEF Goes, TaskType
<1>7. waiter'[t] = NoWaiter /\ \A u \in Task : Still(u)
  BY <1>0, <1>2 DEF CallOK, Still
<1>8. /\ (\A u \in Task : CallOK(u))' /\ op' \in [Task -> Operation]
      /\ pc' \in [Task -> {"idle", "wait", "relock", "callback", "renotify"}]
  BY <1>0, <1>6, <1>7, CallKinds, CallsKept
<1>9. TaskType'
  BY <1>0, <1>2, <1>4, <1>5, <1>8 DEF TaskType
<1>10. LifeInv'
  <2>1. \A u \in Task : op'[u].kind = "destroy" => op[u].kind = "destroy"
    BY <1>0, <1>2, CallKinds DEF TaskType
  <2> QED BY <1>0, <1>2, <2>1 DEF LifeInv
<1>11. SlotType' /\ QueueInv'
  BY <1>0, <1>2 DEF SlotType, QueueInv
<1> QED BY <1>8, <1>9, <1>10, <1>11 DEF SignalInv

LEMMA StepUnsubscribe ==
    ASSUME Configured, SignalInv, NEW t \in Task, UnsubscribeListener(t) PROVE SignalInv'
<1>0. SlotType /\ TaskType /\ QueueInv /\ LifeInv /\ \A u \in Task : CallOK(u)
  BY DEF SignalInv
<1>1. PICK l \in Subscribed(listeners) : listeners' = Unsubscribe(listeners, l)
  BY DEF UnsubscribeListener
<1>2. UNCHANGED <<signal, waiters, waiting_tasks, waiter, told, pc, op, wait_result, walk>>
  BY DEF UnsubscribeListener, queueVars, taskVars
<1>3. l # NoListener
  BY <1>1, Zenon DEF Subscribed
<1>4. listeners' \in ListenerList(Listener)
  <2>1. /\ listeners.head \in Listener \cup {NoListener} /\ listeners.count \in Nat
        /\ \A k \in Listener : listeners.next[k] \in Listener \cup {NoListener}
    BY <1>0 DEF TaskType, ListenerList
  <2>2. listeners.head = l => listeners.next[l] \in Listener \cup {NoListener}
    BY <1>3, <2>1
  <2>3. \A k \in Listener :
            listeners.next[k] = l => listeners.next[l] \in Listener \cup {NoListener}
    BY <1>3, <2>1
  <2>4. Decrement(listeners.count) \in Nat
    BY <2>1 DEF Decrement
  <2> QED BY <1>1, <2>1, <2>2, <2>3, <2>4 DEF ListenerList, Unsubscribe
<1>5. TaskType'
  BY <1>0, <1>2, <1>4 DEF TaskType
<1> QED BY <1>0, <1>2, <1>5 DEF SignalInv, SlotType, QueueInv, LifeInv, CallOK

LEMMA SignalInvInit == Configured /\ Init => SignalInv
<1> SUFFICES ASSUME Configured, Init PROVE SignalInv
  OBVIOUS
<1>1. PICK m \in Modes :
        signal = [created |-> FALSE, destroyed |-> FALSE, mode |-> m, counter |-> 0,
                  pending |-> FALSE, ready_state |-> FALSE]
  BY DEF Init
<1>2. /\ signal \in SignalRecord /\ signal.counter = 0 /\ signal.pending = FALSE
      /\ signal.ready_state = FALSE /\ ~signal.created
  <2>1. 0 \in 0 .. MaxCounter
    BY DEF Configured
  <2> QED BY <1>1, <2>1 DEF SignalRecord
<1>3. IsReady(signal) = FALSE
  BY <1>2 DEF IsReady
<1>4. SlotType
  BY <1>2, <1>3 DEF SlotType
<1>5. TaskType
  BY DEF Init, TaskType, NoListeners, ListenerList, NoOp, Operation, WaitResult, NoWalk, Walk
<1>6. QueueInv
  BY DEF Init, QueueInv, NoWaiter, Waiter, WaitResult, Contains, IsInjective
<1>7. LifeInv
  BY <1>2 DEF Init, LifeInv, NoOp
<1>8. \A t \in Task : CallOK(t)
  BY DEF Init, CallOK, NoOp, NoWaiter
<1> QED BY <1>4, <1>5, <1>6, <1>7, <1>8 DEF SignalInv

LEMMA SignalInvNext == Configured /\ SignalInv /\ [Next]_vars => SignalInv'
<1> SUFFICES ASSUME Configured, SignalInv, [Next]_vars PROVE SignalInv'
  OBVIOUS
<1>1. CASE UNCHANGED vars
  BY <1>1 DEF vars, queueVars, taskVars, SignalInv, SlotType, TaskType, QueueInv, LifeInv, CallOK
<1>2. ASSUME NEW t \in Task, Begin(t) PROVE SignalInv'
  BY <1>2, StepCreate, StepSet, StepClear, StepTake, StepPark, StepDestroy, StepSubscribe,
     StepUnsubscribe DEF Begin
<1>3. ASSUME NEW t \in Task, Step(t) PROVE SignalInv'
  BY <1>3, StepBlockTaken, StepBlockTimeout, StepWokenTakes, StepWokenInVain, StepWaitEnds,
     StepCallback, StepEndWalk DEF Step
<1> QED BY <1>1, <1>2, <1>3 DEF Next

(* A task that waits on a signal can be woken: it is in the queue, once,   *)
(* or has been given its semaphore; and waiting_tasks is the length of the *)
(* queue. A waiter leaves it woken by a set, at once or after the set's    *)
(* callbacks, past its deadline, or with everybody in a destroy that may   *)
(* be cut in two (ipc_signal_wait_internal, ipc_signal_set,                *)
(* ipc_signal_destroy).                                                    *)
THEOREM QueueInvariance == ASSUME Configured PROVE Spec => [](TypeOK /\ WaitersCounted)
<1>1. Init => SignalInv
  BY SignalInvInit
<1>2. SignalInv /\ [Next]_vars => SignalInv'
  BY SignalInvNext
<1>3. SignalInv => TypeOK /\ WaitersCounted
  BY SignalInvImplies
<1> QED BY <1>1, <1>2, <1>3, PTL DEF Spec

-----------------------------------------------------------------------------
(* No wake is lost.                                                        *)

(* Callers wait forever, and there are finitely many of them.              *)
Patient == Configured /\ Timeouts \subseteq {"forever"} /\ IsFiniteSet(Task)

(* How many waits the signal would satisfy.                                *)
Indications(s) ==
    IF s.mode = "counting" THEN s.counter ELSE IF s.pending THEN 1 ELSE 0

(* A task that is on its way to fetch an indication, or to pass it on.     *)
Fetches(t) ==
    \/ pc[t] = "wait" /\ waiter[t].given /\ waiter[t].result = "ok"
    \/ pc[t] = "relock" /\ wait_result[t] = "ok"
    \/ op[t].kind = "set"

Fetching == {t \in Task : Fetches(t)}

(* Nobody gives up, so nobody is in the queue who does not wait.           *)
PatientInv == \A t \in Task : waiter[t].enqueued => pc[t] = "wait"

FetchOK == waiters # << >> => Indications(signal) <= Cardinality(Fetching)

FetchInv == SignalInv /\ PatientInv /\ FetchOK

LEMMA FetchInvImplies == FetchInv => NoLostWakeup
<1>1. Fetching = Woke \cup Setting
  BY DEF Fetching, Fetches, Woke, Setting
<1> QED BY <1>1 DEF FetchInv, FetchOK, Indications, NoLostWakeup

LEMMA IndicationsNat ==
    ASSUME Configured, NEW s \in SignalRecord
    PROVE  Indications(s) \in Nat /\ (~IsReady(s) => Indications(s) = 0)
  BY DEF Configured, SignalRecord, Indications, IsReady

LEMMA FetchingFinite ==
    ASSUME Patient
    PROVE  /\ IsFiniteSet(Fetching) /\ Cardinality(Fetching) \in Nat
           /\ IsFiniteSet(Fetching') /\ Cardinality(Fetching') \in Nat
<1>1. Fetching \subseteq Task /\ Fetching' \subseteq Task
  BY DEF Fetching
<1>2. IsFiniteSet(Fetching) /\ IsFiniteSet(Fetching')
  BY <1>1, FS_Subset DEF Patient
<1> QED BY <1>2, FS_CardinalityType

(* Not fewer who fetch, and not more to fetch.                             *)
LEMMA FetchKept ==
    ASSUME Patient, FetchInv, SignalInv', Fetching \subseteq Fetching',
           Indications(signal') <= Indications(signal),
           waiters' # << >> => waiters # << >>
    PROVE  FetchOK'
<1>1. Cardinality(Fetching) <= Cardinality(Fetching')
  BY FetchingFinite, CountKeeps
<1>2. Indications(signal) \in Nat /\ Indications(signal') \in Nat
  BY IndicationsNat DEF Patient, FetchInv, SignalInv, SlotType
<1> QED BY <1>1, <1>2, FetchingFinite DEF FetchInv, FetchOK

(* Nothing to fetch.                                                       *)
LEMMA FetchNothing ==
    ASSUME Patient, Indications(signal') = 0
    PROVE  FetchOK'
  BY FetchingFinite DEF FetchOK

LEMMA WokenFields ==
    ASSUME NEW w, NEW r
    PROVE  /\ ~Woken(w, r).enqueued /\ Woken(w, r).result = r
           /\ w.armed => Woken(w, r).given
<1>1. /\ Woken(w, r).enqueued = FALSE /\ Woken(w, r).result = r
      /\ Woken(w, r).given = (w.given \/ w.armed)
  BY Zenon DEF Woken
<1> QED BY <1>1

(* A task that ends its critical section, or goes from one callback to the *)
(* next.                                                                   *)
LEMMA PatientKept ==
    ASSUME PatientInv, TaskType, NEW t \in Task, NEW l, NEW o, Goes(t, l, o),
           waiter'[t] = NoWaiter, \A u \in Task \ {t} : Still(u)
    PROVE  PatientInv'
<1>1. ASSUME NEW u \in Task \ {t}, waiter'[u].enqueued PROVE pc'[u] = "wait"
  <2>1. waiter'[u] = waiter[u]
    BY <1>1, WokenFields DEF Still
  <2> QED BY <1>1, <2>1 DEF PatientInv, Goes, TaskType
<1> QED BY <1>1 DEF PatientInv, NoWaiter

LEMMA FetchingSame ==
    ASSUME TaskType, NEW t \in Task, NEW l, NEW o, Goes(t, l, o),
           \A u \in Task \ {t} : waiter'[u] = waiter[u]
    PROVE  /\ Fetching \ {t} \subseteq Fetching'
           /\ o.kind = "set" => t \in Fetching'
           /\ pc[t] \notin {"wait", "relock"} /\ op[t].kind # "set" => t \notin Fetching
<1>1. ASSUME NEW u \in Fetching \ {t} PROVE u \in Fetching'
  <2>1. pc'[u] = pc[u] /\ op'[u] = op[u] /\ wait_result'[u] = wait_result[u]
    BY DEF Goes, TaskType, Fetching
  <2> QED BY <2>1 DEF Fetching, Fetches
<1>2. op'[t] = o
  BY DEF Goes, TaskType
<1> QED BY <1>1, <1>2 DEF Fetching, Fetches

(* A wake sends one more task for the indication.                          *)
LEMMA FetchingWoken ==
    ASSUME SignalInv, PatientInv, NEW t \in Task, NEW l, NEW o, Goes(t, l, o),
           NEW u \in Task \ {t}, waiter[u].enqueued, WakesTask(u)
    PROVE  u \in Fetching' \ Fetching /\ Fetching \ {t} \subseteq Fetching'
<1>0. TaskType /\ QueueInv /\ CallOK(u)
  BY DEF SignalInv
<1>1. /\ pc[u] = "wait" /\ ~waiter[u].given /\ waiter[u].armed /\ op[u].kind = "wait"
  BY <1>0 DEF PatientInv, CallOK
<1>2. \A v \in Task \ {t} : pc'[v] = pc[v] /\ op'[v] = op[v] /\ wait_result'[v] = wait_result[v]
  BY <1>0 DEF Goes, TaskType
<1>3. /\ waiter'[u] = Woken(waiter[u], "ok")
      /\ \A v \in Task \ {u} : waiter'[v] = waiter[v]
  BY <1>0 DEF WakesTask, QueueInv
<1>4. waiter'[u].given /\ waiter'[u].result = "ok"
  BY <1>1, <1>3, WokenFields
<1>5. u \in Fetching' /\ u \notin Fetching
  BY <1>1, <1>2, <1>4 DEF Fetching, Fetches
<1>6. ASSUME NEW v \in Fetching \ {t} PROVE v \in Fetching'
  BY <1>2, <1>3, <1>5 DEF Fetching, Fetches
<1> QED BY <1>5, <1>6

(* The steps that write the signal and leave the waiters alone: to clear   *)
(* it, or to take an indication without a wait.                            *)
LEMMA FetchTake ==
    ASSUME Patient, FetchInv, SignalInv', NEW t \in Task, Clear(t) \/ Take(t)
    PROVE  PatientInv' /\ FetchOK'
<1>0. /\ SlotType /\ TaskType /\ CallOK(t) /\ PatientInv /\ signal \in SignalRecord
      /\ Configured
  BY DEF FetchInv, SignalInv, SlotType, Patient
<1>1. PICK s : s = IF Clear(t) THEN Cleared(signal) ELSE Consumed(signal)
  OBVIOUS
<1>2. PICK o : o = IF Clear(t) THEN Call("clear") ELSE Call("wait")
  OBVIOUS
<1>3. /\ UpdateReady(t, o, s) /\ pc[t] = "idle"
      /\ UNCHANGED <<waiters, waiting_tasks, waiter>>
  BY <1>1, <1>2 DEF Clear, Take, Starts, queueVars
<1>4. s \in SignalRecord /\ Indications(s) <= Indications(signal)
  <2>1. CASE Clear(t)
    <3>1. s \in SignalRecord /\ s.counter = 0 /\ ~s.pending
      BY <1>0, <1>1, <2>1, ClearedFields
    <3>2. Indications(s) = 0
      BY <3>1 DEF Indications
    <3> QED BY <1>0, <3>1, <3>2, IndicationsNat
  <2>2. CASE ~Clear(t)
    <3>1. /\ s \in SignalRecord /\ s.mode = signal.mode
          /\ signal.mode = "counting" => s.counter = Decrement(signal.counter)
          /\ signal.mode # "counting" => ~s.pending
      BY <1>0, <1>1, <2>2, ConsumedFields
    <3>2. signal.counter \in Nat
      BY <1>0 DEF SignalRecord, Configured
    <3> QED BY <3>1, <3>2 DEF Indications, Decrement
  <2> QED BY <2>1, <2>2
<1>5. /\ Goes(t, "callback", o) \/ Goes(t, "idle", NoOp)
      /\ signal' = Updated(s)
  BY <1>0, <1>3, <1>4, UpdateReadyGoes
<1>6. Indications(signal') = Indications(s)
  <2>1. signal'.mode = s.mode /\ signal'.counter = s.counter /\ signal'.pending = s.pending
    BY <1>4, <1>5, UpdatedFields
  <2> QED BY <2>1 DEF Indications
<1>7. waiter'[t] = NoWaiter /\ \A u \in Task \ {t} : Still(u)
  BY <1>0, <1>3 DEF CallOK, Still
<1>8. PatientInv'
  BY <1>0, <1>5, <1>7, PatientKept
<1>9. t \notin Fetching /\ Fetching \ {t} \subseteq Fetching'
  <2>1. pc[t] \notin {"wait", "relock"} /\ op[t].kind # "set"
    BY <1>0, <1>3 DEF CallOK
  <2> QED BY <1>0, <1>3, <1>5, <2>1, FetchingSame
<1>10. FetchOK'
  BY <1>3, <1>4, <1>6, <1>9, FetchKept
<1> QED BY <1>8, <1>10

LEMMA FetchCreate ==
    ASSUME Patient, FetchInv, NEW t \in Task, Create(t)
    PROVE  PatientInv' /\ FetchOK'
<1>1. UNCHANGED <<waiter, pc>>
  BY DEF Create, queueVars, taskVars
<1>2. signal.counter = 0 /\ ~signal.pending /\ signal \in SignalRecord
  BY DEF Create, FetchInv, SignalInv, LifeInv, SlotType
<1>3. signal'.counter = 0 /\ ~signal'.pending
  BY <1>2 DEF Create, SignalRecord
<1>4. Indications(signal') = 0
  BY <1>3 DEF Indications
<1> QED BY <1>1, <1>4, FetchNothing DEF FetchInv, PatientInv

(* Who parks finds nothing to fetch.                                       *)
LEMMA FetchPark ==
    ASSUME Patient, FetchInv, NEW t \in Task, Park(t)
    PROVE  PatientInv' /\ FetchOK'
<1>0. TaskType /\ QueueInv /\ signal \in SignalRecord /\ PatientInv
  BY DEF FetchInv, SignalInv, SlotType
<1>1. /\ waiter' = [waiter EXCEPT ![t] = PreparedWaiter] /\ pc' = [pc EXCEPT ![t] = "wait"]
      /\ signal' = signal /\ ~IsReady(signal)
  BY DEF Park, Goto
<1>2. PatientInv'
  BY <1>0, <1>1 DEF PatientInv, TaskType, QueueInv
<1>3. Indications(signal') = 0
  BY <1>0, <1>1, IndicationsNat DEF Patient
<1> QED BY <1>2, <1>3, FetchNothing

LEMMA FetchSet ==
    ASSUME Patient, FetchInv, SignalInv', NEW t \in Task, Set(t)
    PROVE  PatientInv' /\ FetchOK'
<1>0. /\ SlotType /\ TaskType /\ QueueInv /\ CallOK(t) /\ PatientInv /\ FetchOK
      /\ signal \in SignalRecord /\ Configured /\ SignalInv
  BY DEF FetchInv, SignalInv, SlotType, Patient
<1>1. PICK s : s = Raised(signal)
  OBVIOUS
<1>2. /\ signal' = Updated(s) /\ pc[t] = "idle"
      /\ signal.mode = "counting" => signal.counter < MaxCounter
      /\ IF Tells(s) THEN BeginWalk(t, Call("set"), IsReady(s)) /\ UNCHANGED queueVars
                     ELSE WakeOne /\ Return(t)
  BY <1>1 DEF Set, Starts
<1>3. /\ s \in SignalRecord /\ s.mode = signal.mode
      /\ signal.mode = "counting" => s.counter = signal.counter + 1
  BY <1>0, <1>1, <1>2, RaisedFields
<1>4. /\ Indications(signal) \in Nat /\ Indications(signal') \in Nat
      /\ Indications(signal') <= Indications(signal) + 1
  <2>1. signal'.mode = s.mode /\ signal'.counter = s.counter /\ signal' \in SignalRecord
    BY <1>2, <1>3, UpdatedFields
  <2>2. Indications(signal) \in Nat /\ Indications(signal') \in Nat
    BY <1>0, <2>1, IndicationsNat
  <2> QED BY <1>3, <2>1, <2>2 DEF Indications
<1>5. waiter[t] = NoWaiter /\ ~waiter[t].enqueued /\ op[t].kind # "set"
  BY <1>0, <1>2 DEF CallOK, NoWaiter
<1>6. CASE Tells(s)
  <2>1. IsReady(s) \in BOOLEAN
    <3>1. CASE s.mode = "counting"
      BY <3>1 DEF IsReady
    <3>2. CASE s.mode # "counting"
      BY <3>2, <1>3 DEF IsReady, SignalRecord
    <3> QED BY <3>1, <3>2
  <2>2. Goes(t, "callback", Call("set"))
    BY <1>0, <1>2, <1>6, <2>1, BeginWalkGoes DEF Tells
  <2>3. UNCHANGED <<waiters, waiting_tasks, waiter>>
    BY <1>2, <1>6 DEF queueVars
  <2>4. PatientInv'
    BY <1>0, <1>5, <2>2, <2>3, PatientKept DEF Still
  <2>5. Fetching \subseteq Fetching' /\ t \in Fetching' \ Fetching
    BY <1>0, <1>2, <1>5, <2>2, <2>3, CallKinds, FetchingSame
  <2>6. Cardinality(Fetching) + 1 <= Cardinality(Fetching')
    BY <2>5, FetchingFinite, CountGains
  <2> QED BY <1>0, <1>4, <2>3, <2>4, <2>6, FetchingFinite DEF FetchOK
<1>7. CASE ~Tells(s)
  <2>1. Goes(t, "idle", NoOp)
    BY <1>0, <1>2, <1>7, ReturnGoes
  <2>2. /\ waiters = << >> => waiters' = << >>
        /\ \/ UNCHANGED queueVars /\ waiters = << >>
           \/ \E u \in Task : waiter[u].enqueued /\ WakesTask(u)
    BY <1>0, <1>2, <1>7, WakeOneEffect
  <2>3. CASE UNCHANGED queueVars /\ waiters = << >>
    <3>1. PatientInv'
      BY <1>0, <1>5, <2>1, <2>3, PatientKept DEF Still, queueVars
    <3> QED BY <2>2, <2>3, <3>1 DEF FetchOK
  <2>4. CASE \E u \in Task : waiter[u].enqueued /\ WakesTask(u)
    <3>1. PICK u \in Task : waiter[u].enqueued /\ WakesTask(u)
      BY <2>4
    <3>2. /\ u # t /\ waiter'[t] = NoWaiter /\ waiter'[u] = Woken(waiter[u], "ok")
          /\ \A v \in Task : v # u => waiter'[v] = waiter[v]
      BY <1>0, <1>5, <3>1 DEF WakesTask, QueueInv
    <3>3. PatientInv'
      BY <1>0, <2>1, <3>1, <3>2, PatientKept DEF Still, WaitResult
    <3>4. u \in Fetching' \ Fetching /\ Fetching \ {t} \subseteq Fetching' /\ t \notin Fetching
      <4>1. t \notin Fetching
        BY <1>2, <1>5 DEF Fetching, Fetches
      <4> QED BY <1>0, <2>1, <3>1, <3>2, <4>1, FetchingWoken
    <3>5. Cardinality(Fetching) + 1 <= Cardinality(Fetching')
      BY <3>4, FetchingFinite, CountGains
    <3> QED BY <1>0, <1>4, <2>2, <3>3, <3>5, FetchingFinite DEF FetchOK
  <2> QED BY <2>2, <2>3, <2>4
<1> QED BY <1>6, <1>7

LEMMA FetchDestroy ==
    ASSUME Patient, FetchInv, SignalInv', NEW t \in Task, Destroy(t)
    PROVE  PatientInv' /\ FetchOK'
<1>1. waiters' = << >>
  BY DEF Destroy
<1>2. \A u \in Task : ~waiter'[u].enqueued
  BY <1>1 DEF SignalInv, QueueInv, Contains
<1> QED BY <1>1, <1>2 DEF PatientInv, FetchOK

LEMMA FetchBlockTaken ==
    ASSUME Patient, FetchInv, SignalInv', NEW t \in Task, BlockTaken(t)
    PROVE  PatientInv' /\ FetchOK'
<1>0. TaskType /\ QueueInv /\ PatientInv /\ Indications(signal) \in Nat
  BY IndicationsNat DEF FetchInv, SignalInv, SlotType, Patient
<1>1. /\ pc[t] = "wait" /\ pc' = [pc EXCEPT ![t] = "relock"]
      /\ wait_result' = [wait_result EXCEPT ![t] = waiter[t].result]
      /\ waiter' = [waiter EXCEPT ![t] = NoWaiter]
      /\ UNCHANGED <<signal, waiters, op>>
  BY DEF BlockTaken, Goto
<1>2. /\ pc'[t] = "relock" /\ wait_result'[t] = waiter[t].result /\ ~waiter'[t].enqueued
      /\ \A u \in Task \ {t} : /\ waiter'[u] = waiter[u] /\ pc'[u] = pc[u]
                               /\ wait_result'[u] = wait_result[u]
  BY <1>0, <1>1 DEF TaskType, QueueInv, NoWaiter
<1>3. PatientInv'
  BY <1>0, <1>2 DEF PatientInv
<1>4. Fetching \subseteq Fetching'
  <2>1. ASSUME NEW u \in Fetching PROVE u \in Fetching'
    <3>1. CASE u = t
      BY <1>1, <1>2, <3>1 DEF Fetching, Fetches
    <3>2. CASE u # t
      BY <1>1, <1>2, <3>2 DEF Fetching, Fetches
    <3> QED BY <3>1, <3>2
  <2> QED BY <2>1
<1> QED BY <1>0, <1>1, <1>3, <1>4, FetchKept

LEMMA NoBlockTimeout ==
    ASSUME Patient, FetchInv, NEW t \in Task
    PROVE  ~BlockTimeout(t)
  BY DEF Patient, FetchInv, SignalInv, CallOK, BlockTimeout

(* Who was woken takes one away; whoever was woken in vain finds none.     *)
LEMMA FetchLeave ==
    ASSUME Patient, FetchInv, SignalInv', NEW t \in Task,
           WokenTakes(t) \/ WokenInVain(t) \/ WaitEnds(t)
    PROVE  PatientInv' /\ FetchOK'
<1>0. /\ SlotType /\ TaskType /\ QueueInv /\ LifeInv /\ PatientInv /\ FetchOK
      /\ signal \in SignalRecord /\ Configured /\ Indications(signal) \in Nat
      /\ CallOK(t)
  BY IndicationsNat DEF FetchInv, SignalInv, SlotType, Patient
<1>1. pc[t] = "relock" /\ LeaveQueue(t) /\ ~waiter[t].enqueued /\ op[t].kind = "wait"
  BY <1>0 DEF WokenTakes, WokenInVain, WaitEnds, PatientInv, CallOK
<1>2. waiters' = waiters /\ waiter' = [waiter EXCEPT ![t] = NoWaiter]
  BY <1>0, <1>1, LeaveQueueEffect
<1>3. waiter'[t] = NoWaiter /\ \A u \in Task \ {t} : waiter'[u] = waiter[u]
  BY <1>0, <1>2 DEF QueueInv
<1>4. CASE WokenTakes(t)
  <2>1. PICK s : s = Consumed(signal)
    OBVIOUS
  <2>2. UpdateReady(t, Call("wait"), s) /\ IsReady(signal)
    BY <1>4, <2>1 DEF WokenTakes
  <2>3. /\ s \in SignalRecord /\ s.mode = signal.mode
        /\ signal.mode = "counting" => s.counter = Decrement(signal.counter)
        /\ signal.mode # "counting" => ~s.pending
    BY <1>0, <2>1, ConsumedFields
  <2>4. /\ Goes(t, "callback", Call("wait")) \/ Goes(t, "idle", NoOp)
        /\ signal' = Updated(s)
    BY <1>0, <2>2, <2>3, UpdateReadyGoes
  <2>5. Indications(signal') = Indications(signal) - 1
    <3>1. signal'.mode = s.mode /\ signal'.counter = s.counter /\ signal'.pending = s.pending
      BY <2>3, <2>4, UpdatedFields
    <3>2. signal.counter \in Nat
      BY <1>0 DEF SignalRecord, Configured
    <3> QED BY <2>2, <2>3, <3>1, <3>2 DEF Indications, Decrement, IsReady
  <2>6. PatientInv'
    BY <1>0, <1>3, <2>4, PatientKept DEF Still
  <2>7. Fetching \ {t} \subseteq Fetching'
    BY <1>0, <1>3, <2>4, FetchingSame
  <2>8. Cardinality(Fetching) - 1 <= Cardinality(Fetching')
    BY <2>7, FetchingFinite, CountLoses
  <2> QED BY <1>0, <1>2, <2>5, <2>6, <2>8, FetchingFinite DEF FetchOK
<1>5. CASE WokenInVain(t)
  <2>1. Return(t) /\ signal' = signal /\ (signal.destroyed \/ ~IsReady(signal))
    BY <1>5 DEF WokenInVain
  <2>2. Goes(t, "idle", NoOp)
    BY <1>0, <2>1, ReturnGoes
  <2>3. PatientInv'
    BY <1>0, <1>3, <2>2, PatientKept DEF Still
  <2>4. CASE signal.destroyed
    BY <1>0, <1>2, <2>3, <2>4 DEF LifeInv, FetchOK
  <2>5. CASE ~IsReady(signal)
    <3>1. Indications(signal') = 0
      BY <1>0, <2>1, <2>5, IndicationsNat
    <3> QED BY <2>3, <3>1, FetchNothing
  <2> QED BY <2>1, <2>4, <2>5
<1>6. CASE WaitEnds(t)
  <2>1. /\ wait_result[t] # "ok"
        /\ \/ UpdateReady(t, Call("wait"), signal)
           \/ Return(t) /\ UNCHANGED signal
    BY <1>6 DEF WaitEnds
  <2>2. /\ Goes(t, "callback", Call("wait")) \/ Goes(t, "idle", NoOp)
        /\ signal' = Updated(signal) \/ signal' = signal
    BY <1>0, <2>1, UpdateReadyGoes, ReturnGoes
  <2>3. Indications(signal') = Indications(signal)
    BY <1>0, <2>2, UpdatedFields DEF Indications
  <2>4. PatientInv'
    BY <1>0, <1>3, <2>2, PatientKept DEF Still
  <2>5. t \notin Fetching
    BY <1>1, <2>1 DEF Fetching, Fetches
  <2>6. Fetching \ {t} \subseteq Fetching'
    BY <1>0, <1>3, <2>2, FetchingSame
  <2> QED BY <1>0, <1>2, <2>3, <2>4, <2>5, <2>6, FetchKept
<1> QED BY <1>4, <1>5, <1>6

(* The listeners: callbacks, subscriptions and their ends.                 *)
LEMMA FetchListeners ==
    ASSUME Patient, FetchInv, SignalInv', NEW t \in Task,
           Callback(t) \/ Renotify(t) \/ SubscribeListener(t) \/ UnsubscribeListener(t)
    PROVE  PatientInv' /\ FetchOK'
<1>0. /\ TaskType /\ PatientInv /\ CallOK(t) /\ Indications(signal) \in Nat
  BY IndicationsNat DEF FetchInv, SignalInv, SlotType, Patient
<1>1. UNCHANGED <<signal, waiters, waiter, wait_result>>
  BY DEF Callback, Renotify, SubscribeListener, UnsubscribeListener, queueVars, taskVars
<1>2. /\ pc[t] \in {"idle", "callback", "renotify"} /\ DOMAIN pc' = Task
      /\ \A u \in Task \ {t} : pc'[u] = pc[u] /\ op'[u] = op[u]
      /\ op'[t] = op[t] \/ pc[t] = "idle"
  BY <1>0 DEF Callback, Renotify, SubscribeListener, UnsubscribeListener, Goto, TaskType,
              taskVars
<1>3. ~waiter[t].enqueued /\ (pc[t] = "idle" => op[t].kind # "set")
  BY <1>0, <1>2 DEF CallOK, NoWaiter
<1>4. PatientInv'
  BY <1>0, <1>1, <1>2, <1>3 DEF PatientInv
<1>5. Fetching \subseteq Fetching'
  <2>1. ASSUME NEW u \in Fetching PROVE u \in Fetching'
    <3>1. CASE u = t
      BY <1>1, <1>2, <1>3, <3>1 DEF Fetching, Fetches
    <3>2. CASE u # t
      BY <1>1, <1>2, <3>2 DEF Fetching, Fetches
    <3> QED BY <3>1, <3>2
  <2> QED BY <2>1
<1> QED BY <1>0, <1>1, <1>4, <1>5, FetchKept

(* A set that has told the listeners hands its wake on.                    *)
LEMMA FetchEndWalk ==
    ASSUME Patient, FetchInv, SignalInv', NEW t \in Task, EndWalk(t)
    PROVE  PatientInv' /\ FetchOK'
<1>0. /\ TaskType /\ QueueInv /\ PatientInv /\ CallOK(t) /\ FetchOK /\ SignalInv
      /\ Indications(signal) \in Nat
  BY IndicationsNat DEF FetchInv, SignalInv, SlotType, Patient
<1>1. pc[t] = "renotify" /\ Return(t) /\ signal' = signal
  BY DEF EndWalk
<1>2. waiter[t] = NoWaiter /\ ~waiter[t].enqueued
  BY <1>0, <1>1 DEF CallOK, NoWaiter
<1>3. Goes(t, "idle", NoOp)
  BY <1>0, <1>1, ReturnGoes
<1>4. CASE op[t].kind = "set"
  <2>1. /\ waiters = << >> => waiters' = << >>
        /\ \/ UNCHANGED queueVars /\ waiters = << >>
           \/ \E u \in Task : waiter[u].enqueued /\ WakesTask(u)
    BY <1>0, <1>4, WakeOneEffect DEF EndWalk
  <2>2. CASE UNCHANGED queueVars /\ waiters = << >>
    <3>1. PatientInv'
      BY <1>0, <1>2, <1>3, <2>2, PatientKept DEF Still, queueVars
    <3> QED BY <2>1, <2>2, <3>1 DEF FetchOK
  <2>3. CASE \E u \in Task : waiter[u].enqueued /\ WakesTask(u)
    <3>1. PICK u \in Task : waiter[u].enqueued /\ WakesTask(u)
      BY <2>3
    <3>2. /\ u # t /\ waiter'[t] = NoWaiter /\ waiter'[u] = Woken(waiter[u], "ok")
          /\ \A v \in Task : v # u => waiter'[v] = waiter[v]
      BY <1>0, <1>2, <3>1 DEF WakesTask, QueueInv
    <3>3. PatientInv'
      BY <1>0, <1>3, <3>1, <3>2, PatientKept DEF Still, WaitResult
    <3>4. u \in Fetching' \ Fetching /\ Fetching \ {t} \subseteq Fetching'
      BY <1>0, <1>3, <3>1, <3>2, FetchingWoken
    <3>5. Cardinality(Fetching) <= Cardinality(Fetching')
      BY <3>4, FetchingFinite, CountSwaps
    <3> QED BY <1>0, <1>1, <2>1, <3>3, <3>5, FetchingFinite DEF FetchOK
  <2> QED BY <2>1, <2>2, <2>3
<1>5. CASE op[t].kind # "set"
  <2>1. waiter' = waiter /\ (waiters' # << >> => waiters' = waiters)
    BY <1>5 DEF EndWalk, queueVars
  <2>2. PatientInv'
    BY <1>0, <1>2, <1>3, <2>1, PatientKept DEF Still
  <2>3. Fetching \ {t} \subseteq Fetching' /\ t \notin Fetching
    BY <1>0, <1>1, <1>3, <1>5, <2>1, FetchingSame
  <2> QED BY <1>0, <1>1, <2>1, <2>2, <2>3, FetchKept
<1> QED BY <1>4, <1>5

LEMMA FetchInvNext == Patient /\ FetchInv /\ [Next]_vars => FetchInv'
<1> SUFFICES ASSUME Patient, FetchInv, [Next]_vars PROVE FetchInv'
  OBVIOUS
<1>1. SignalInv'
  BY SignalInvNext DEF FetchInv, Patient
<1>2. CASE UNCHANGED vars
  BY <1>1, <1>2 DEF vars, queueVars, taskVars, FetchInv, PatientInv, FetchOK, Fetching, Fetches
<1>3. ASSUME NEW t \in Task, Begin(t) PROVE FetchInv'
  BY <1>1, <1>3, FetchCreate, FetchSet, FetchTake, FetchPark, FetchDestroy, FetchListeners
     DEF Begin, FetchInv
<1>4. ASSUME NEW t \in Task, Step(t) PROVE FetchInv'
  BY <1>1, <1>4, FetchBlockTaken, NoBlockTimeout, FetchLeave, FetchListeners, FetchEndWalk
     DEF Step, FetchInv
<1> QED BY <1>2, <1>3, <1>4 DEF Next

(* When tasks wait without a deadline, no set is lost on them: while any   *)
(* of them is in the queue, there is for every indication a task that was  *)
(* woken to fetch it, or one that is setting and has not woken yet, though *)
(* ipc_signal_set leaves its critical section between the two for the      *)
(* callbacks and others may take, set and destroy meanwhile.               *)
THEOREM WakeupInvariance == ASSUME Patient PROVE Spec => []NoLostWakeup
<1>1. Init => FetchInv
  <2> SUFFICES ASSUME Init PROVE FetchInv
    OBVIOUS
  <2>1. SignalInv
    BY SignalInvInit DEF Patient
  <2>2. PatientInv /\ FetchOK
    BY DEF Init, PatientInv, NoWaiter, FetchOK
  <2> QED BY <2>1, <2>2 DEF FetchInv
<1>2. FetchInv /\ [Next]_vars => FetchInv'
  BY FetchInvNext
<1>3. FetchInv => NoLostWakeup
  BY FetchInvImplies
<1> QED BY <1>1, <1>2, <1>3, PTL DEF Spec

-----------------------------------------------------------------------------
(* Event flags. Their variables are a signal's, but for the flags; a set   *)
(* serves the waiters itself, in one walk through the queue.               *)

CONSTANTS Bits, MaskModes, Changes, Wanted, WaitTypes

VARIABLE flags

Flags == INSTANCE IpcEventFlags

-----------------------------------------------------------------------------
(* Masks and what they satisfy.                                            *)

FlagsRecord ==
    [created : BOOLEAN, destroyed : BOOLEAN, mode : Modes,
     mask_mode : MaskModes, mask : SUBSET Bits, ready_state : BOOLEAN]

Want == Flags!Predicate \cup {Flags!NoPredicate}

FlagsCall ==
    [kind : {"none", "set", "served", "clear", "wait", "subscribe", "destroy"},
     timeout : Timeouts \cup {"none"}, want : Want]

(* The same flags with fewer bits.                                         *)
Lessened(f, g) ==
    /\ g.created = f.created /\ g.destroyed = f.destroyed /\ g.mode = f.mode
    /\ g.mask_mode = f.mask_mode /\ g.mask \subseteq f.mask

(* An exact mask, which fewer bits can satisfy.                            *)
Exact(f, want) == want.type = "mask" /\ f.mask_mode = "exact"

LEMMA FewerBits ==
    ASSUME NEW f, NEW g, NEW want, Lessened(f, g), Flags!Satisfied(g, want), ~Exact(f, want)
    PROVE  Flags!Satisfied(f, want)
<1>1. ~Exact(g, want) /\ g.mask \subseteq f.mask
  BY DEF Lessened, Exact
<1>2. CASE want.type = "any"
  <2>1. g.mask \cap want.mask # {}
    BY <1>2 DEF Flags!Satisfied
  <2>2. f.mask \cap want.mask # {}
    BY <1>1, <2>1
  <2> QED BY <1>2, <2>2 DEF Flags!Satisfied
<1>3. CASE want.type # "any"
  <2>1. want.mask \subseteq g.mask
    BY <1>1, <1>3 DEF Flags!Satisfied, Exact
  <2>2. want.mask \subseteq f.mask
    BY <1>1, <2>1
  <2> QED BY <1>3, <2>2 DEF Flags!Satisfied, Exact
<1> QED BY <1>2, <1>3

LEMMA AutoClearedFields ==
    ASSUME NEW f \in FlagsRecord, NEW consumed
    PROVE  /\ Flags!AutoCleared(f, consumed) \in FlagsRecord
           /\ Lessened(f, Flags!AutoCleared(f, consumed))
           /\ f.mode = "auto_clear" => Flags!AutoCleared(f, consumed).mask = f.mask \ consumed
  BY DEF FlagsRecord, Flags!AutoCleared, Lessened

(* Who wants a whole mask and is satisfied finds all of it.                *)
Whole(want) == want.type # "any" \/ Cardinality(want.mask) = 1

LEMMA WholeTaken ==
    ASSUME Flags!Configured, NEW f, NEW want \in Want, Flags!Satisfied(f, want), Whole(want)
    PROVE  want.mask \subseteq f.mask /\ Flags!Matched(f, want) = want.mask
<1>1. CASE want.type = "any"
  <2>1. want \in Flags!Predicate
    BY <1>1 DEF Want, Flags!NoPredicate
  <2>2. IsFiniteSet(want.mask)
    <3>1. want.mask \subseteq Bits
      BY <2>1 DEF Flags!Predicate, Flags!Configured
    <3>2. IsFiniteSet(Bits)
      BY DEF Flags!Configured, Flags!IsFiniteSet, IsFiniteSet
    <3> QED BY <3>1, <3>2, FS_Subset
  <2>3. PICK b : want.mask = {b}
    BY <1>1, <2>2, FS_Singleton DEF Whole
  <2>4. f.mask \cap want.mask # {}
    BY <1>1 DEF Flags!Satisfied
  <2> QED BY <1>1, <2>3, <2>4 DEF Flags!Matched
<1>2. CASE want.type # "any"
  BY <1>2 DEF Flags!Satisfied, Flags!Matched
<1> QED BY <1>1, <1>2

-----------------------------------------------------------------------------
(* The walk through the waiters.                                           *)

QueueType == waiters \in Seq(Task) /\ IsInjective(waiters)
OpType    == op \in [Task -> FlagsCall]

Passing == [flags : FlagsRecord, served : SUBSET Task, left : Seq(Task)]

Begun(f) == [flags |-> f, served |-> {}, left |-> << >>]

(* p has what each of n turns of the loop made of the flags f.             *)
Passes(f, n, p) ==
    /\ p \in [0 .. n -> Passing]
    /\ p[0] = Begun(f)
    /\ \A k \in 1 .. n : p[k] = Flags!Serve(p[k - 1], waiters[k])

CanPass(f, n) == \E p : Passes(f, n, p)

LEMMA ServeTurn ==
    ASSUME OpType, NEW a \in Passing, NEW t \in Task
    PROVE  /\ Flags!Serve(a, t) \in Passing
           /\ Flags!Satisfied(a.flags, op[t].want) =>
                /\ Flags!Serve(a, t).flags = Flags!AutoCleared(a.flags, Flags!Matched(a.flags, op[t].want))
                /\ Flags!Serve(a, t).served = a.served \cup {t}
                /\ Flags!Serve(a, t).left = a.left
           /\ ~Flags!Satisfied(a.flags, op[t].want) =>
                /\ Flags!Serve(a, t).flags = a.flags /\ Flags!Serve(a, t).served = a.served
                /\ Flags!Serve(a, t).left = Append(a.left, t)
<1> DEFINE want == op[t].want
<1>1. CASE Flags!Satisfied(a.flags, want)
  <2>1. Flags!Serve(a, t) = [flags  |-> Flags!AutoCleared(a.flags, Flags!Matched(a.flags, want)),
                       served |-> a.served \cup {t}, left |-> a.left]
    BY <1>1 DEF Flags!Serve
  <2>2. Flags!AutoCleared(a.flags, Flags!Matched(a.flags, want)) \in FlagsRecord
    BY AutoClearedFields DEF Passing
  <2> HIDE DEF want
  <2>3. Flags!Serve(a, t) \in Passing
    BY <2>1, <2>2 DEF Passing
  <2> QED BY <1>1, <2>1, <2>3 DEF want
<1>2. CASE ~Flags!Satisfied(a.flags, want)
  <2>1. Flags!Serve(a, t) = [a EXCEPT !.left = Append(@, t)]
    BY <1>2 DEF Flags!Serve
  <2>2. Append(a.left, t) \in Seq(Task)
    BY DEF Passing
  <2> QED BY <1>2, <2>1, <2>2 DEF Passing
<1> QED BY <1>1, <1>2

(* The function Service defines exists.                                    *)
LEMMA PassesExist ==
    ASSUME QueueType, OpType, NEW f \in FlagsRecord
    PROVE  CanPass(f, Len(waiters))
<1> DEFINE n == Len(waiters)
           S == {k \in 0 .. n : CanPass(f, k)}
<1>1. n \in Nat /\ \A j \in 1 .. n : waiters[j] \in Task
  BY DEF QueueType
<1>2. CanPass(f, 0)
  <2> DEFINE p == [j \in 0 .. 0 |-> Begun(f)]
  <2>1. Begun(f) \in Passing
    BY DEF Begun, Passing
  <2>2. p \in [0 .. 0 -> Passing] /\ p[0] = Begun(f)
    BY <2>1
  <2> HIDE DEF p
  <2>3. Passes(f, 0, p)
    BY <2>2 DEF Passes
  <2> QED BY <2>3 DEF CanPass
<1>3. ASSUME NEW k \in 1 .. n, CanPass(f, k - 1) PROVE CanPass(f, k)
  <2>1. PICK p : Passes(f, k - 1, p)
    BY <1>3 DEF CanPass
  <2> DEFINE q == [j \in 0 .. k |-> IF j = k THEN Flags!Serve(p[k - 1], waiters[k]) ELSE p[j]]
  <2>2. \A j \in 0 .. k - 1 : p[j] \in Passing
    BY <2>1 DEF Passes
  <2>3. Flags!Serve(p[k - 1], waiters[k]) \in Passing
    BY <1>1, <2>2, ServeTurn
  <2>4. q \in [0 .. k -> Passing] /\ q[0] = Begun(f)
    BY <2>1, <2>2, <2>3 DEF Passes
  <2>5. ASSUME NEW j \in 1 .. k PROVE q[j] = Flags!Serve(q[j - 1], waiters[j])
    <3>1. CASE j = k
      BY <3>1
    <3>2. CASE j # k
      <4>1. j \in 1 .. k - 1 /\ j - 1 \in 0 .. k - 1
        BY <3>2
      <4>2. q[j] = p[j] /\ q[j - 1] = p[j - 1]
        BY <4>1
      <4> QED BY <2>1, <4>1, <4>2 DEF Passes
    <3> QED BY <3>1, <3>2
  <2> HIDE DEF q
  <2>6. Passes(f, k, q)
    BY <2>4, <2>5 DEF Passes
  <2> QED BY <2>6 DEF CanPass
<1>4. 0 \in S /\ \A k \in 1 .. n : k - 1 \in S => k \in S
  BY <1>1, <1>2, <1>3
<1> HIDE DEF n, S
<1>5. 0 .. n \subseteq S
  BY <1>1, <1>4, InductionUpTo
<1>6. n \in S
  BY <1>1, <1>5
<1> QED BY <1>6 DEF n, S

LEMMA ServicePasses ==
    ASSUME QueueType, OpType, NEW f \in FlagsRecord
    PROVE  \E p : Passes(f, Len(waiters), p) /\ Flags!Service(f) = p[Len(waiters)]
<1> DEFINE n == Len(waiters)
           Turn(g) == [k \in 0 .. n |-> IF k = 0 THEN Begun(f) ELSE Flags!Serve(g[k - 1], waiters[k])]
           passed == CHOOSE g : g = Turn(g)
<1>1. n \in Nat
  BY DEF QueueType
<1>2. PICK p : Passes(f, n, p)
  BY PassesExist DEF CanPass
<1>3. p = Turn(p)
  BY <1>1, <1>2 DEF Passes
<1>4. passed = Turn(passed)
  BY <1>3
<1>5. Flags!Service(f) = passed[n]
  BY DEF Flags!Service, Begun
<1> HIDE DEF passed
<1>6. /\ passed[0] = p[0]
      /\ \A k \in 1 .. n : passed[k - 1] = p[k - 1] => passed[k] = p[k]
  BY <1>1, <1>2, <1>4 DEF Passes
<1> DEFINE S == {k \in 0 .. n : passed[k] = p[k]}
<1>7. 0 \in S /\ \A k \in 1 .. n : k - 1 \in S => k \in S
  BY <1>1, <1>6
<1> HIDE DEF n, S
<1>8. 0 .. n \subseteq S
  BY <1>1, <1>7, InductionUpTo
<1>9. passed[n] = p[n]
  BY <1>1, <1>8 DEF S
<1> QED BY <1>2, <1>5, <1>9 DEF n

-----------------------------------------------------------------------------
(* What k turns of the loop have done, of the flags f: the waiters they    *)
(* passed are served or left, those left are not satisfied by what the     *)
(* flags are by now, and whoever took a whole mask found it untouched.     *)

PassedBy(k, u) == \E i \in 1 .. k : waiters[i] = u

Disjoint(u, v) == op[u].want.mask \cap op[v].want.mask = {}

SplitOK(a, k) ==
    /\ IsInjective(a.left)
    /\ \A u \in Task : Contains(a.left, u) <=> u \notin a.served /\ PassedBy(k, u)
    /\ \A u \in a.served : PassedBy(k, u)
    /\ IsFiniteSet(a.served) /\ Len(a.left) + Cardinality(a.served) = k

LeftOK(f, a) ==
    \A u \in Task : Contains(a.left, u) =>
        ~Flags!Satisfied(a.flags, op[u].want) \/ Exact(f, op[u].want)

TakenOK(f, a) ==
    f.mode = "auto_clear" =>
        \A u \in a.served : Whole(op[u].want) =>
            /\ op[u].want.mask \cap a.flags.mask = {}
            /\ \A v \in a.served \ {u} : Whole(op[v].want) => Disjoint(u, v)

PassOK(f, a, k) ==
    /\ a \in Passing /\ Lessened(f, a.flags)
    /\ SplitOK(a, k) /\ LeftOK(f, a) /\ TakenOK(f, a)

LEMMA WantType ==
    ASSUME OpType, NEW u \in Task
    PROVE  op[u].want \in Want
  BY DEF OpType, FlagsCall

LEMMA TurnServed ==
    ASSUME Flags!Configured, QueueType, OpType, NEW f \in FlagsRecord, NEW a \in Passing,
           NEW k \in 1 .. Len(waiters), PassOK(f, a, k - 1),
           Flags!Satisfied(a.flags, op[waiters[k]].want)
    PROVE  PassOK(f, Flags!Serve(a, waiters[k]), k)
<1> DEFINE t == waiters[k]
           b == Flags!Serve(a, t)
           m == Flags!Matched(a.flags, op[t].want)
<1>1. /\ t \in Task /\ k \in 1 .. Len(waiters) /\ k - 1 \in Nat
      /\ \A u : PassedBy(k, u) <=> PassedBy(k - 1, u) \/ u = t
  BY DEF QueueType, PassedBy
<1>2. ~PassedBy(k - 1, t)
  BY DEF PassedBy, QueueType, IsInjective
<1>3. /\ b \in Passing /\ b.flags = Flags!AutoCleared(a.flags, m)
      /\ b.served = a.served \cup {t} /\ b.left = a.left
  BY <1>1, ServeTurn
<1>4. a.flags \in FlagsRecord /\ a.served \subseteq Task /\ a.left \in Seq(Task)
  BY DEF Passing
<1>5. /\ Lessened(a.flags, b.flags) /\ Lessened(f, b.flags)
      /\ f.mode = "auto_clear" => b.flags.mask = a.flags.mask \ m
  <2>1. /\ Lessened(a.flags, b.flags)
        /\ a.flags.mode = "auto_clear" => b.flags.mask = a.flags.mask \ m
    BY <1>3, <1>4, AutoClearedFields
  <2>2. Lessened(f, a.flags)
    BY DEF PassOK
  <2> QED BY <2>1, <2>2 DEF Lessened
<1>6. SplitOK(b, k)
  <2>1. SplitOK(a, k - 1) /\ t \notin a.served
    BY <1>2 DEF PassOK, SplitOK
  <2>2. /\ IsFiniteSet(b.served) /\ Cardinality(b.served) = Cardinality(a.served) + 1
        /\ Cardinality(a.served) \in Nat
    BY <1>3, <2>1, FS_AddElement, FS_CardinalityType DEF SplitOK
  <2>3. Len(b.left) + Cardinality(b.served) = k
    <3>1. Len(a.left) \in Nat
      BY <1>4
    <3> QED BY <1>1, <1>3, <2>1, <2>2, <3>1 DEF SplitOK
  <2>4. ~Contains(a.left, t)
    BY <1>1, <1>2, <2>1 DEF SplitOK
  <2>5. \A u \in Task : Contains(b.left, u) <=> u \notin b.served /\ PassedBy(k, u)
    BY <1>1, <1>3, <2>1, <2>4 DEF SplitOK
  <2>6. \A u \in b.served : PassedBy(k, u)
    BY <1>1, <1>3, <2>1 DEF SplitOK
  <2> QED BY <1>3, <2>1, <2>2, <2>3, <2>5, <2>6 DEF SplitOK
<1>7. LeftOK(f, b)
  <2>1. ASSUME NEW u \in Task, Contains(a.left, u), Flags!Satisfied(b.flags, op[u].want),
               ~Exact(f, op[u].want)
        PROVE  FALSE
    <3>1. ~Flags!Satisfied(a.flags, op[u].want)
      BY <2>1 DEF PassOK, LeftOK
    <3>2. ~Exact(a.flags, op[u].want)
      BY <2>1 DEF PassOK, Lessened, Exact
    <3> QED BY <1>5, <2>1, <3>1, <3>2, FewerBits
  <2> QED BY <1>3, <2>1 DEF LeftOK
<1>8. TakenOK(f, b)
  <2> SUFFICES ASSUME f.mode = "auto_clear" PROVE TakenOK(f, b)
    BY DEF TakenOK
  <2>1. b.flags.mask = a.flags.mask \ m /\ t \in Task /\ b.served = a.served \cup {t}
    BY <1>1, <1>3, <1>5
  <2>2. \A u \in a.served : Whole(op[u].want) =>
            /\ op[u].want.mask \cap a.flags.mask = {}
            /\ \A v \in a.served \ {u} : Whole(op[v].want) => Disjoint(u, v)
    BY DEF PassOK, TakenOK
  <2>3. Whole(op[t].want) => op[t].want.mask \subseteq a.flags.mask /\ m = op[t].want.mask
    BY <1>1, WantType, WholeTaken
  <2> HIDE DEF t, m, b
  <2>4. \A u \in a.served : Whole(op[u].want) => op[u].want.mask \cap b.flags.mask = {}
    BY <2>1, <2>2
  <2>5. Whole(op[t].want) => op[t].want.mask \cap b.flags.mask = {}
    BY <2>1, <2>3
  <2>6. \A u \in a.served : Whole(op[u].want) /\ Whole(op[t].want) => Disjoint(u, t) /\ Disjoint(t, u)
    BY <2>2, <2>3 DEF Disjoint
  <2> QED BY <2>1, <2>2, <2>4, <2>5, <2>6 DEF TakenOK
<1> QED BY <1>3, <1>5, <1>6, <1>7, <1>8 DEF PassOK

LEMMA TurnLeft ==
    ASSUME Flags!Configured, QueueType, OpType, NEW f \in FlagsRecord, NEW a \in Passing,
           NEW k \in 1 .. Len(waiters), PassOK(f, a, k - 1),
           ~Flags!Satisfied(a.flags, op[waiters[k]].want)
    PROVE  PassOK(f, Flags!Serve(a, waiters[k]), k)
<1> DEFINE t == waiters[k]
           b == Flags!Serve(a, t)
<1>1. /\ t \in Task /\ k \in 1 .. Len(waiters) /\ k - 1 \in Nat
      /\ \A u : PassedBy(k, u) <=> PassedBy(k - 1, u) \/ u = t
  BY DEF QueueType, PassedBy
<1>2. ~PassedBy(k - 1, t)
  BY DEF PassedBy, QueueType, IsInjective
<1>3. /\ b \in Passing /\ b.flags = a.flags
      /\ b.served = a.served /\ b.left = Append(a.left, t)
  BY <1>1, ServeTurn
<1>4. a.left \in Seq(Task) /\ a.served \subseteq Task /\ SplitOK(a, k - 1)
  BY DEF Passing, PassOK
<1>5. ~Contains(a.left, t) /\ t \notin a.served
  BY <1>1, <1>2, <1>4 DEF SplitOK
<1>6. /\ Len(b.left) = Len(a.left) + 1 /\ IsInjective(b.left)
      /\ \A u : Contains(b.left, u) <=> Contains(a.left, u) \/ u = t
  BY <1>1, <1>3, <1>4, <1>5, AppendContains DEF SplitOK
<1>7. SplitOK(b, k)
  <2>1. Len(a.left) \in Nat /\ Cardinality(a.served) \in Nat
    BY <1>4, FS_CardinalityType DEF SplitOK
  <2>2. Len(b.left) + Cardinality(b.served) = k
    <3>1. Len(a.left) + Cardinality(a.served) = k - 1
      BY <1>4 DEF SplitOK
    <3>2. Len(b.left) = Len(a.left) + 1 /\ Cardinality(b.served) = Cardinality(a.served)
      BY <1>3, <1>6
    <3>3. k \in Int
      OBVIOUS
    <3> HIDE DEF b
    <3> QED BY <2>1, <3>1, <3>2, <3>3
  <2>3. \A u \in Task : Contains(b.left, u) <=> u \notin b.served /\ PassedBy(k, u)
    BY <1>1, <1>3, <1>4, <1>5, <1>6 DEF SplitOK
  <2>4. \A u \in b.served : PassedBy(k, u)
    BY <1>1, <1>3, <1>4 DEF SplitOK
  <2> QED BY <1>3, <1>4, <1>6, <2>2, <2>3, <2>4 DEF SplitOK
<1>8. LeftOK(f, b)
  BY <1>3, <1>6 DEF PassOK, LeftOK
<1>9. TakenOK(f, b)
  BY <1>3 DEF PassOK, TakenOK
<1> QED BY <1>3, <1>7, <1>8, <1>9 DEF PassOK

(* All of the loop.                                                        *)
LEMMA ServiceEffect ==
    ASSUME Flags!Configured, QueueType, OpType, NEW f \in FlagsRecord
    PROVE  PassOK(f, Flags!Service(f), Len(waiters))
<1> DEFINE n == Len(waiters)
<1>1. PICK p : Passes(f, n, p) /\ Flags!Service(f) = p[n]
  BY ServicePasses
<1>2. n \in Nat
  BY DEF QueueType
<1> DEFINE S == {k \in 0 .. n : PassOK(f, p[k], k)}
<1>3. PassOK(f, p[0], 0)
  <2>1. p[0] = Begun(f) /\ p[0] \in Passing
    BY <1>1, <1>2 DEF Passes
  <2>2. p[0].flags = f /\ p[0].served = {} /\ p[0].left = << >>
    BY <2>1 DEF Begun
  <2>3. Lessened(f, f)
    BY DEF Lessened
  <2>4. \A u : ~Contains(p[0].left, u)
    BY <2>2 DEF Contains
  <2>5. \A u : ~PassedBy(0, u)
    BY DEF PassedBy
  <2>6. IsFiniteSet({}) /\ Cardinality({}) = 0
    BY FS_EmptySet
  <2>7. SplitOK(p[0], 0)
    BY <2>2, <2>4, <2>5, <2>6 DEF SplitOK, IsInjective
  <2>8. LeftOK(f, p[0]) /\ TakenOK(f, p[0])
    BY <2>2, <2>4 DEF LeftOK, TakenOK
  <2> QED BY <2>1, <2>2, <2>3, <2>7, <2>8 DEF PassOK
<1>4. ASSUME NEW k \in 1 .. n, PassOK(f, p[k - 1], k - 1) PROVE PassOK(f, p[k], k)
  <2>1. p[k] = Flags!Serve(p[k - 1], waiters[k]) /\ p[k - 1] \in Passing
    BY <1>1 DEF Passes
  <2> QED BY <1>4, <2>1, TurnServed, TurnLeft
<1>5. 0 \in S /\ \A k \in 1 .. n : k - 1 \in S => k \in S
  BY <1>2, <1>3, <1>4
<1> HIDE DEF n, S
<1>6. 0 .. n \subseteq S
  BY <1>2, <1>5, InductionUpTo
<1>7. PassOK(f, p[n], n)
  BY <1>2, <1>6 DEF S
<1> QED BY <1>1, <1>7 DEF n

-----------------------------------------------------------------------------
(* The parts of the invariant.                                             *)

FlagsType == flags \in FlagsRecord /\ flags.ready_state = Flags!IsReady(flags)

WalkersType ==
    /\ listeners \in Flags!ListenerList(Listener)
    /\ told \in [Listener -> BOOLEAN]
    /\ pc \in [Task -> {"idle", "wait", "relock", "callback", "renotify"}]
    /\ OpType
    /\ wait_result \in [Task -> Flags!WaitResult]
    /\ walk \in [Task -> Flags!Walk(Listener)]

(* The queue, its counter and the waiters' links are about the same tasks. *)
QueuedInv ==
    /\ QueueType
    /\ waiting_tasks \in Nat /\ waiting_tasks = Len(waiters)
    /\ waiter \in [Task -> Flags!Waiter]
    /\ \A t \in Task : waiter[t].enqueued <=> Contains(waiters, t)

(* Where a task is in its call, and what its waiter is there.              *)
PlaceOK(t) ==
    /\ pc[t] = "idle" => op[t] = Flags!NoOp
    /\ pc[t] \in {"wait", "relock"} => op[t].kind = "wait"
    /\ pc[t] = "wait" => op[t].timeout \in Timeouts
    /\ pc[t] \notin {"wait", "relock"} => waiter[t] = Flags!NoWaiter
    /\ waiter[t].given => ~waiter[t].enqueued
    /\ pc[t] = "wait" =>
        /\ waiter[t].enqueued => waiter[t].armed
        /\ waiter[t].enqueued \/ waiter[t].given

PlacesOK == \A t \in Task : PlaceOK(t)

(* Before the flags are created and after they are destroyed nobody waits. *)
EndsInv ==
    /\ ~flags.created \/ flags.destroyed => waiters = << >>
    /\ \A t \in Task : op[t].kind = "destroy" => flags.destroyed

(* Who is in the queue is not satisfied, or a set still comes to him.      *)
ServedInv ==
    \A t \in Task : waiter[t].enqueued /\ Flags!Satisfied(flags, op[t].want) =>
        Flags!Serving \/ Exact(flags, op[t].want)

FlagsInv == FlagsType /\ WalkersType /\ QueuedInv /\ PlacesOK /\ EndsInv /\ ServedInv

LEMMA FlagsInvImplies ==
    FlagsInv => Flags!TypeOK /\ Flags!WaitersCounted /\ Flags!SatisfiedServed
<1> SUFFICES ASSUME FlagsInv PROVE Flags!TypeOK /\ Flags!WaitersCounted /\ Flags!SatisfiedServed
  OBVIOUS
<1>1. Flags!TypeOK
  BY DEF FlagsInv, FlagsType, WalkersType, QueuedInv, QueueType, OpType, FlagsRecord,
         FlagsCall, Want, Flags!TypeOK
<1>2. Flags!WaitersCounted
  BY DEF FlagsInv, QueuedInv, QueueType, PlacesOK, PlaceOK, Flags!WaitersCounted,
         Flags!Contains, Contains, Flags!IsInjective, IsInjective
<1>3. Flags!SatisfiedServed
  BY DEF FlagsInv, ServedInv, Exact, Flags!SatisfiedServed
<1> QED BY <1>1, <1>2, <1>3

-----------------------------------------------------------------------------
(* The record of the flags.                                                *)

LEMMA RefreshedFields ==
    ASSUME NEW f \in FlagsRecord
    PROVE  /\ Flags!Updated(f) \in FlagsRecord
           /\ Flags!Updated(f).ready_state = Flags!IsReady(Flags!Updated(f))
           /\ Flags!Updated(f).mask = f.mask /\ Flags!Updated(f).created = f.created
           /\ Lessened(f, Flags!Updated(f)) /\ Lessened(Flags!Updated(f), f)
  BY DEF Flags!Updated, FlagsRecord, Flags!IsReady, Lessened

LEMMA LessenedChain ==
    ASSUME NEW f, NEW g, NEW h, Lessened(f, g), Lessened(g, h)
    PROVE  Lessened(f, h)
  BY DEF Lessened

CallOf(k) == [Flags!NoOp EXCEPT !.kind = k]

LEMMA CallOfType ==
    ASSUME NEW k \in {"none", "set", "served", "clear", "wait", "subscribe", "destroy"}
    PROVE  CallOf(k) \in FlagsCall /\ CallOf(k).kind = k
  BY DEF CallOf, Flags!NoOp, FlagsCall, Want

LEMMA NoCallType == Flags!NoOp \in FlagsCall /\ Flags!NoOp.kind = "none"
  BY DEF Flags!NoOp, FlagsCall, Want

-----------------------------------------------------------------------------
(* How a task goes on.                                                     *)

(* t goes to l with the operation o; nobody else moves.                    *)
Moves(t, l, o) ==
    /\ pc' = [pc EXCEPT ![t] = l] /\ op' = [op EXCEPT ![t] = o]
    /\ wait_result' \in [Task -> Flags!WaitResult] /\ walk' \in [Task -> Flags!Walk(Listener)]

(* It ends its call, or goes to the first callback of one of the kind k.   *)
EndsOrTells(t, k) == Moves(t, "callback", CallOf(k)) \/ Moves(t, "idle", Flags!NoOp)

LEMMA ReturnMoves ==
    ASSUME WalkersType, NEW t \in Task, Flags!Return(t)
    PROVE  Moves(t, "idle", Flags!NoOp)
  BY DEF WalkersType, Flags!Return, Flags!Goto, Moves, Flags!WaitResult, Flags!NoWalk,
     Flags!Walk

LEMMA BeginWalkMoves ==
    ASSUME WalkersType, NEW t \in Task, NEW k, NEW r \in BOOLEAN,
           listeners.head # NoListener, Flags!BeginWalk(t, k, r)
    PROVE  Moves(t, "callback", CallOf(k))
<1>1. Flags!WalkTo(listeners, listeners.head, r) \in Flags!Walk(Listener)
  BY DEF WalkersType, Flags!ListenerList, Flags!WalkTo, Flags!Walk
<1> QED BY <1>1 DEF WalkersType, Flags!BeginWalk, Flags!Goto, Moves, CallOf

LEMMA RefreshMoves ==
    ASSUME WalkersType, NEW t \in Task, NEW k, NEW f \in FlagsRecord, Flags!UpdateReady(t, k, f)
    PROVE  flags' = Flags!Updated(f) /\ FlagsType' /\ EndsOrTells(t, k)
<1>1. flags' = Flags!Updated(f)
  BY DEF Flags!UpdateReady
<1>2. FlagsType'
  BY <1>1, RefreshedFields DEF FlagsType
<1>3. CASE Flags!Tells(f)
  <2>1. listeners.head # NoListener /\ Flags!BeginWalk(t, k, Flags!IsReady(f)) /\ Flags!IsReady(f) \in BOOLEAN
    BY <1>3 DEF Flags!UpdateReady, Flags!Tells, Flags!IsReady
  <2> QED BY <1>1, <1>2, <2>1, BeginWalkMoves DEF EndsOrTells
<1>4. CASE ~Flags!Tells(f)
  BY <1>1, <1>2, <1>4, ReturnMoves DEF Flags!UpdateReady, EndsOrTells
<1> QED BY <1>3, <1>4

(* A waiter nobody touches, or one that is woken.                          *)
Spared(u) ==
    \/ waiter'[u] = waiter[u]
    \/ waiter[u].enqueued /\ \E r \in Flags!WaitResult : waiter'[u] = Flags!Woken(waiter[u], r)

LEMMA WokenIs ==
    ASSUME NEW w \in Flags!Waiter, NEW r \in Flags!WaitResult
    PROVE  /\ Flags!Woken(w, r) \in Flags!Waiter /\ ~Flags!Woken(w, r).enqueued /\ Flags!Woken(w, r).result = r
           /\ Flags!Woken(w, r).given <=> w.given \/ w.armed
  BY DEF Flags!Woken, Flags!Waiter

LEMMA PlaceSpared ==
    ASSUME QueuedInv, NEW u \in Task, PlaceOK(u), Spared(u), pc'[u] = pc[u], op'[u] = op[u]
    PROVE  PlaceOK(u)'
<1>1. CASE waiter'[u] = waiter[u]
  BY <1>1 DEF PlaceOK
<1>2. CASE waiter'[u] # waiter[u]
  <2>1. PICK r \in Flags!WaitResult : waiter'[u] = Flags!Woken(waiter[u], r)
    BY <1>2 DEF Spared
  <2>2. waiter[u].enqueued /\ waiter[u] \in Flags!Waiter
    BY <1>2 DEF Spared, QueuedInv
  <2>3. ~waiter'[u].enqueued /\ (waiter'[u].given <=> waiter[u].given \/ waiter[u].armed)
    BY <2>1, <2>2, WokenIs
  <2>4. pc[u] \in {"wait", "relock"}
    BY <2>2 DEF PlaceOK, Flags!NoWaiter
  <2> QED BY <2>2, <2>3, <2>4 DEF PlaceOK
<1> QED BY <1>1, <1>2

(* A task that is in no wait at the end of its critical section.           *)
LEMMA PlacesKept ==
    ASSUME WalkersType, QueuedInv, PlacesOK, NEW t \in Task,
           NEW l \in {"idle", "callback", "renotify"}, NEW o \in FlagsCall,
           Moves(t, l, o), l = "idle" => o = Flags!NoOp,
           waiter'[t] = Flags!NoWaiter, \A u \in Task \ {t} : Spared(u)
    PROVE  /\ PlacesOK' /\ OpType'
           /\ pc' \in [Task -> {"idle", "wait", "relock", "callback", "renotify"}]
           /\ pc'[t] = l /\ op'[t] = o /\ \A u \in Task \ {t} : pc'[u] = pc[u] /\ op'[u] = op[u]
<1>1. /\ pc'[t] = l /\ op'[t] = o
      /\ \A u \in Task \ {t} : pc'[u] = pc[u] /\ op'[u] = op[u]
      /\ OpType'
      /\ pc' \in [Task -> {"idle", "wait", "relock", "callback", "renotify"}]
  BY DEF Moves, WalkersType, OpType
<1>2. PlaceOK(t)'
  BY <1>1 DEF PlaceOK, Flags!NoWaiter
<1>3. ASSUME NEW u \in Task \ {t} PROVE PlaceOK(u)'
  BY <1>1, <1>3, PlaceSpared DEF PlacesOK
<1> QED BY <1>1, <1>2, <1>3 DEF PlacesOK

LEMMA EndsOrTellsKept ==
    ASSUME WalkersType, QueuedInv, PlacesOK, NEW t \in Task,
           NEW k \in {"set", "served", "clear", "wait", "subscribe", "destroy"},
           EndsOrTells(t, k), waiter'[t] = Flags!NoWaiter, \A u \in Task \ {t} : Spared(u),
           listeners' \in Flags!ListenerList(Listener), told' = told
    PROVE  /\ PlacesOK' /\ WalkersType'
           /\ op'[t] \in {CallOf(k), Flags!NoOp} /\ \A u \in Task \ {t} : op'[u] = op[u]
<1>1. CallOf(k) \in FlagsCall /\ Flags!NoOp \in FlagsCall /\ Flags!NoOp.kind = "none"
  BY CallOfType, NoCallType
<1>2. PICK l \in {"idle", "callback"}, o \in {CallOf(k), Flags!NoOp} :
          Moves(t, l, o) /\ (l = "idle" => o = Flags!NoOp)
  BY DEF EndsOrTells
<1>3. /\ PlacesOK' /\ OpType'
      /\ pc' \in [Task -> {"idle", "wait", "relock", "callback", "renotify"}]
      /\ op'[t] = o /\ \A u \in Task \ {t} : op'[u] = op[u]
  BY <1>1, <1>2, PlacesKept
<1> QED BY <1>2, <1>3 DEF Moves, WalkersType

(* The flags lose bits, nobody joins the queue, and no set ends: who is    *)
(* satisfied was before.                                                   *)
LEMMA ServedKept ==
    ASSUME ServedInv, Lessened(flags, flags'), Flags!Serving => Flags!Serving',
           \A u \in Task : waiter'[u].enqueued => waiter[u].enqueued /\ op'[u] = op[u]
    PROVE  ServedInv'
<1>1. ASSUME NEW u \in Task, waiter'[u].enqueued, Flags!Satisfied(flags', op'[u].want),
             ~Exact(flags', op'[u].want)
      PROVE  Flags!Serving'
  <2>1. waiter[u].enqueued /\ op'[u].want = op[u].want
    BY <1>1
  <2>2. ~Exact(flags, op[u].want)
    BY <1>1, <2>1 DEF Exact, Lessened
  <2>3. Flags!Satisfied(flags, op[u].want)
    BY <1>1, <2>1, <2>2, FewerBits
  <2>4. Flags!Serving
    BY <2>1, <2>2, <2>3 DEF ServedInv
  <2> QED BY <2>4
<1>2. ServedInv' <=> \A u \in Task : waiter'[u].enqueued /\ Flags!Satisfied(flags', op'[u].want) =>
                        Flags!Serving' \/ Exact(flags', op'[u].want)
  BY DEF ServedInv, Flags!Satisfied, Exact
<1> QED BY <1>1, <1>2

LEMMA ServingKept ==
    ASSUME NEW t \in Task, op[t].kind # "set", \A u \in Task \ {t} : op'[u] = op[u],
           Flags!Serving
    PROVE  Flags!Serving'
  BY DEF Flags!Serving

LEMMA SparedQueue ==
    ASSUME QueuedInv, NEW t \in Task, waiter'[t] = Flags!NoWaiter,
           \A u \in Task \ {t} : Spared(u),
           \A u \in Task \ {t} : op'[u] = op[u]
    PROVE  \A u \in Task : waiter'[u].enqueued => waiter[u].enqueued /\ op'[u] = op[u]
<1>1. ASSUME NEW u \in Task \ {t}, waiter'[u].enqueued PROVE waiter[u].enqueued
  BY <1>1, WokenIs DEF Spared, QueuedInv
<1>2. ~waiter'[t].enqueued
  BY DEF Flags!NoWaiter
<1> QED BY <1>1, <1>2

(* The step of a task that was in no wait, and ends or begins its walk.    *)
LEMMA StepKept ==
    ASSUME Flags!Configured, FlagsInv, NEW t \in Task,
           NEW k \in {"set", "served", "clear", "wait", "subscribe", "destroy"},
           FlagsType', QueuedInv', EndsOrTells(t, k), waiter'[t] = Flags!NoWaiter,
           \A u \in Task \ {t} : Spared(u),
           listeners' \in Flags!ListenerList(Listener), told' = told,
           flags'.created = flags.created,
           k = "destroy" \/ flags.destroyed => flags'.destroyed,
           ~flags.created \/ flags'.destroyed => waiters' = << >>,
           \/ Lessened(flags, flags') /\ op[t].kind # "set"
           \/ op'[t].kind = "set"
           \/ \A u \in Task : waiter'[u].enqueued /\ Flags!Satisfied(flags', op[u].want) =>
                Exact(flags', op[u].want)
    PROVE  FlagsInv'
<1>0. FlagsType /\ WalkersType /\ QueuedInv /\ PlacesOK /\ EndsInv /\ ServedInv
  BY DEF FlagsInv
<1>1. /\ PlacesOK' /\ WalkersType'
      /\ op'[t] \in {CallOf(k), Flags!NoOp} /\ \A u \in Task \ {t} : op'[u] = op[u]
  BY <1>0, EndsOrTellsKept
<1>2. EndsInv'
  <2>1. op'[t].kind \in {k, "none"}
    BY <1>1, CallOfType, NoCallType
  <2>2. \A u \in Task : op'[u].kind = "destroy" => flags'.destroyed
    BY <1>0, <1>1, <2>1 DEF EndsInv
  <2> QED BY <2>2 DEF EndsInv
<1>3. \A u \in Task : waiter'[u].enqueued => waiter[u].enqueued /\ op'[u] = op[u]
  BY <1>0, <1>1, SparedQueue
<1>4. ServedInv'
  <2>1. CASE Lessened(flags, flags') /\ op[t].kind # "set"
    <3>1. Flags!Serving => Flags!Serving'
      BY <1>1, <2>1, ServingKept
    <3> QED BY <1>0, <1>3, <2>1, <3>1, ServedKept
  <2>2. CASE op'[t].kind = "set"
    <3>1. Flags!Serving'
      BY <2>2 DEF Flags!Serving
    <3> QED BY <3>1 DEF ServedInv
  <2>3. CASE \A u \in Task : waiter'[u].enqueued /\ Flags!Satisfied(flags', op[u].want) =>
                Exact(flags', op[u].want)
    <3>1. \A u \in Task : waiter'[u].enqueued /\ Flags!Satisfied(flags', op'[u].want) =>
                Exact(flags', op'[u].want)
      BY <1>3, <2>3
    <3>2. ServedInv' <=> \A u \in Task : waiter'[u].enqueued /\ Flags!Satisfied(flags', op'[u].want) =>
                        Flags!Serving' \/ Exact(flags', op'[u].want)
      BY DEF ServedInv, Flags!Satisfied, Exact
    <3> QED BY <3>1, <3>2
  <2> QED BY <2>1, <2>2, <2>3
<1> QED BY <1>1, <1>2, <1>4 DEF FlagsInv

-----------------------------------------------------------------------------
(* The waiters that are served.                                            *)

(* What ServeAndReturn does to the queue, of the flags f.                  *)
LEMMA ServeEffect ==
    ASSUME Flags!Configured, FlagsInv, NEW t \in Task, pc[t] \notin {"wait", "relock"},
           NEW f \in FlagsRecord, f.created = flags.created, f.destroyed = flags.destroyed,
           f.mode = flags.mode, Flags!ServeAndReturn(t, f)
    PROVE  /\ FlagsType' /\ QueuedInv' /\ EndsOrTells(t, "served")
           /\ waiter'[t] = Flags!NoWaiter /\ \A u \in Task \ {t} : Spared(u)
           /\ flags'.created = flags.created /\ flags'.destroyed = flags.destroyed
           /\ waiters = << >> => waiters' = << >>
           /\ \A u \in Task : waiter'[u].enqueued /\ Flags!Satisfied(flags', op[u].want) =>
                Exact(flags', op[u].want)
           /\ Flags!ServesOne
<1>0. /\ FlagsType /\ WalkersType /\ QueuedInv /\ PlacesOK
      /\ QueueType /\ OpType
  BY DEF FlagsInv, QueuedInv, WalkersType
<1> DEFINE n == Len(waiters)
<1>1. PICK s : s = Flags!Service(f)
  OBVIOUS
<1>2. /\ waiter' = [u \in Task |-> IF u \in s.served THEN Flags!Woken(waiter[u], "ok")
                                                   ELSE waiter[u]]
      /\ waiters' = s.left /\ waiting_tasks' = waiting_tasks - Cardinality(s.served)
      /\ Flags!UpdateReady(t, "served", s.flags)
  BY <1>1 DEF Flags!ServeAndReturn, Flags!Cardinality, Cardinality
<1>3. /\ s \in Passing /\ Lessened(f, s.flags)
      /\ SplitOK(s, n) /\ LeftOK(f, s) /\ TakenOK(f, s)
  BY <1>0, <1>1, ServiceEffect DEF PassOK
<1>4. s.flags \in FlagsRecord /\ s.served \subseteq Task /\ s.left \in Seq(Task)
  BY <1>3 DEF Passing
<1>5. flags' = Flags!Updated(s.flags) /\ FlagsType' /\ EndsOrTells(t, "served")
  BY <1>0, <1>2, <1>4, RefreshMoves
<1>6. \A u : PassedBy(n, u) <=> Contains(waiters, u)
  BY <1>0 DEF PassedBy, Contains, QueueType
<1>7. \A u \in Task : u \in s.served => waiter[u].enqueued
  BY <1>0, <1>3, <1>6 DEF SplitOK, QueuedInv
<1>8. \A u \in Task : Contains(waiters', u) <=> u \notin s.served /\ waiter[u].enqueued
  BY <1>0, <1>2, <1>3, <1>6 DEF SplitOK, QueuedInv
<1>9. ASSUME NEW u \in Task
      PROVE  /\ Spared(u) /\ waiter'[u] \in Flags!Waiter
             /\ waiter'[u].enqueued <=> Contains(waiters', u)
             /\ u \in s.served <=> waiter[u].enqueued /\ ~waiter'[u].enqueued
  <2>1. waiter[u] \in Flags!Waiter /\ "ok" \in Flags!WaitResult
    BY <1>0 DEF QueuedInv, Flags!WaitResult
  <2>2. CASE u \in s.served
    <3>1. waiter'[u] = Flags!Woken(waiter[u], "ok") /\ waiter[u].enqueued
      BY <1>2, <1>7, <2>2
    <3>2. waiter'[u] \in Flags!Waiter /\ ~waiter'[u].enqueued
      BY <2>1, <3>1, WokenIs
    <3> QED BY <1>8, <2>1, <2>2, <3>1, <3>2 DEF Spared
  <2>3. CASE u \notin s.served
    <3>1. waiter'[u] = waiter[u]
      BY <1>2, <2>3
    <3> QED BY <1>8, <2>1, <2>3, <3>1 DEF Spared
  <2> QED BY <2>2, <2>3
<1>10. waiter'[t] = Flags!NoWaiter
  <2>1. waiter[t] = Flags!NoWaiter /\ ~waiter[t].enqueued
    BY <1>0 DEF PlacesOK, PlaceOK, Flags!NoWaiter
  <2> QED BY <1>2, <1>7, <2>1
<1>11. QueuedInv'
  <2>1. /\ Cardinality(s.served) \in Nat /\ Len(s.left) \in Nat
        /\ Len(s.left) + Cardinality(s.served) = n /\ IsInjective(s.left)
    BY <1>3, <1>4, FS_CardinalityType DEF SplitOK
  <2>2. waiting_tasks' = Len(waiters')
    BY <1>0, <1>2, <2>1 DEF QueuedInv
  <2>3. waiter' \in [Task -> Flags!Waiter]
    BY <1>2, <1>9
  <2>4. QueueType'
    BY <1>2, <1>4, <2>1 DEF QueueType
  <2> QED BY <1>2, <1>9, <2>1, <2>2, <2>3, <2>4 DEF QueuedInv
<1>12. waiters = << >> => waiters' = << >>
  <2>1. ASSUME waiters = << >> PROVE \A u \in Task : ~Contains(waiters', u)
    BY <1>0, <1>8, <2>1 DEF QueuedInv, Contains
  <2>2. waiters' \in Seq(Task)
    BY <1>2, <1>4
  <2> QED BY <2>1, <2>2 DEF Contains
<1>13. /\ Lessened(s.flags, flags') /\ Lessened(flags', s.flags) /\ Lessened(f, flags')
  BY <1>3, <1>4, <1>5, RefreshedFields, LessenedChain
<1>14. ASSUME NEW u \in Task, waiter'[u].enqueued, Flags!Satisfied(flags', op[u].want)
       PROVE  Exact(flags', op[u].want)
  <2>1. Contains(s.left, u)
    BY <1>2, <1>9, <1>14
  <2>2. SUFFICES ASSUME ~Exact(flags', op[u].want) PROVE FALSE
    OBVIOUS
  <2>3. ~Exact(s.flags, op[u].want) /\ ~Exact(f, op[u].want)
    BY <1>3, <1>13, <2>2 DEF Exact, Lessened
  <2>4. Flags!Satisfied(s.flags, op[u].want)
    BY <1>13, <1>14, <2>3, FewerBits
  <2> QED BY <1>3, <2>1, <2>3, <2>4 DEF LeftOK
<1>15. Flags!ServesOne
  <2> DEFINE Freed == {v \in Task : waiter[v].enqueued /\ ~waiter'[v].enqueued
                                      /\ waiter'[v].result = "ok"}
  <2>1. SUFFICES ASSUME flags.mode = "auto_clear", NEW u \in Freed, NEW v \in Freed, u # v,
                        Flags!WantsWhole(u), Flags!WantsWhole(v)
                 PROVE  op[u].want.mask \cap op[v].want.mask = {}
    BY DEF Flags!ServesOne
  <2>2. u \in s.served /\ v \in s.served \ {u}
    BY <1>9, <2>1
  <2>3. Whole(op[u].want) /\ Whole(op[v].want)
    BY <2>1 DEF Whole, Flags!WantsWhole, Flags!Cardinality, Cardinality
  <2>4. Disjoint(u, v)
    BY <1>3, <2>1, <2>2, <2>3 DEF TakenOK
  <2> QED BY <2>4 DEF Disjoint
<1>16. flags'.created = flags.created /\ flags'.destroyed = flags.destroyed
  BY <1>13 DEF Lessened
<1> QED BY <1>5, <1>9, <1>10, <1>11, <1>12, <1>14, <1>15, <1>16

-----------------------------------------------------------------------------
(* The steps, one by one. Each takes at most one waiter out of the queue,  *)
(* but for a set and a destroy.                                            *)

(* Nobody but t leaves the queue.                                          *)
LEMMA OneLeaves ==
    ASSUME NEW t \in Task, \A u \in Task \ {t} : waiter'[u] = waiter[u]
    PROVE  Flags!ServesOne
  BY DEF Flags!ServesOne

LEMMA Layers ==
    ASSUME FlagsInv
    PROVE  /\ FlagsType /\ WalkersType /\ QueuedInv /\ PlacesOK /\ EndsInv /\ ServedInv
           /\ flags \in FlagsRecord
           /\ \A t \in Task : pc[t] \notin {"wait", "relock"} =>
                waiter[t] = Flags!NoWaiter /\ ~waiter[t].enqueued
  BY DEF FlagsInv, FlagsType, PlacesOK, PlaceOK, Flags!NoWaiter

(* The steps that write the flags and leave the waiters alone.             *)
LEMMA QuietStep ==
    ASSUME Flags!Configured, FlagsInv, NEW t \in Task, NEW k \in {"clear", "wait"},
           NEW f \in FlagsRecord, Lessened(flags, f), Flags!UpdateReady(t, k, f),
           UNCHANGED <<Flags!queueVars, listeners, told>>, pc[t] = "idle",
           flags.created, ~flags.destroyed
    PROVE  FlagsInv' /\ Flags!ServesOne
<1>0. /\ FlagsType /\ WalkersType /\ QueuedInv /\ PlacesOK /\ EndsInv /\ ServedInv
      /\ flags \in FlagsRecord /\ waiter[t] = Flags!NoWaiter
  BY Layers
<1>1. flags' = Flags!Updated(f) /\ FlagsType' /\ EndsOrTells(t, k)
  BY <1>0, RefreshMoves
<1>2. UNCHANGED <<waiters, waiting_tasks, waiter>>
  BY DEF Flags!queueVars
<1>3. QueuedInv'
  BY <1>0, <1>2 DEF QueuedInv, QueueType
<1>4. Lessened(flags, flags')
  BY <1>1, RefreshedFields, LessenedChain
<1>5. op[t].kind # "set" /\ flags'.created = flags.created /\ flags'.destroyed = flags.destroyed
  BY <1>0, <1>4, NoCallType DEF PlacesOK, PlaceOK, Lessened
<1>6. listeners' \in Flags!ListenerList(Listener)
  BY <1>0 DEF WalkersType
<1>7. FlagsInv'
  BY <1>0, <1>1, <1>2, <1>3, <1>4, <1>5, <1>6, StepKept DEF Spared
<1> QED BY <1>2, <1>7, OneLeaves

LEMMA FlagsClear ==
    ASSUME Flags!Configured, FlagsInv, NEW t \in Task, Flags!Clear(t)
    PROVE  FlagsInv' /\ Flags!ServesOne
<1>1. PICK bits \in Changes : Flags!UpdateReady(t, "clear", [flags EXCEPT !.mask = @ \ bits])
  BY DEF Flags!Clear
<1> DEFINE f == [flags EXCEPT !.mask = @ \ bits]
<1>2. flags \in FlagsRecord
  BY Layers
<1>3. f \in FlagsRecord /\ Lessened(flags, f)
  BY <1>2 DEF FlagsRecord, Lessened
<1>4. /\ pc[t] = "idle" /\ flags.created /\ ~flags.destroyed
      /\ UNCHANGED <<Flags!queueVars, listeners, told>>
  BY DEF Flags!Clear, Flags!Starts
<1> HIDE DEF f
<1>5. Flags!UpdateReady(t, "clear", f)
  BY <1>1 DEF f
<1> QED BY <1>3, <1>4, <1>5, QuietStep

LEMMA FlagsTake ==
    ASSUME Flags!Configured, FlagsInv, NEW t \in Task, Flags!Take(t)
    PROVE  FlagsInv' /\ Flags!ServesOne
<1>1. PICK want \in Flags!Predicate :
          Flags!UpdateReady(t, "wait", Flags!AutoCleared(flags, Flags!Matched(flags, want)))
  BY DEF Flags!Take
<1> DEFINE f == Flags!AutoCleared(flags, Flags!Matched(flags, want))
<1>2. flags \in FlagsRecord
  BY Layers
<1>3. f \in FlagsRecord /\ Lessened(flags, f)
  BY <1>2, AutoClearedFields
<1>4. /\ pc[t] = "idle" /\ flags.created /\ ~flags.destroyed
      /\ UNCHANGED <<Flags!queueVars, listeners, told>>
  BY DEF Flags!Take, Flags!Starts
<1>5. Flags!UpdateReady(t, "wait", f)
  BY <1>1
<1> HIDE DEF f
<1> QED BY <1>3, <1>4, <1>5, QuietStep

LEMMA FlagsCreate ==
    ASSUME Flags!Configured, FlagsInv, NEW t \in Task, Flags!Create(t)
    PROVE  FlagsInv' /\ Flags!ServesOne
<1>0. /\ FlagsType /\ WalkersType /\ QueuedInv /\ PlacesOK /\ EndsInv /\ ServedInv
      /\ flags \in FlagsRecord
  BY Layers
<1>1. PICK m \in Modes, mm \in MaskModes :
          flags' = [flags EXCEPT !.created = TRUE, !.mode = m, !.mask_mode = mm]
  BY DEF Flags!Create
<1>2. /\ UNCHANGED <<waiters, waiting_tasks, waiter, listeners, told, pc, op, wait_result, walk>>
      /\ ~flags.created
  BY DEF Flags!Create, Flags!queueVars, Flags!taskVars
<1>3. /\ flags' \in FlagsRecord /\ flags'.created /\ flags'.destroyed = flags.destroyed
      /\ flags'.mask = flags.mask /\ flags'.ready_state = flags.ready_state
  <2> DEFINE f == [flags EXCEPT !.created = TRUE]
             g == [f EXCEPT !.mode = m]
  <2>1. /\ f \in FlagsRecord /\ f.created /\ f.destroyed = flags.destroyed
        /\ f.mask = flags.mask /\ f.ready_state = flags.ready_state
    BY <1>0 DEF FlagsRecord
  <2> HIDE DEF f
  <2>2. /\ g \in FlagsRecord /\ g.created /\ g.destroyed = flags.destroyed
        /\ g.mask = flags.mask /\ g.ready_state = flags.ready_state
    BY <2>1 DEF FlagsRecord
  <2>3. flags' = [g EXCEPT !.mask_mode = mm]
    BY <1>1 DEF f
  <2> HIDE DEF g
  <2> QED BY <2>2, <2>3 DEF FlagsRecord
<1>4. FlagsType'
  BY <1>0, <1>3 DEF FlagsType, Flags!IsReady
<1>5. waiters = << >>
  BY <1>0, <1>2 DEF EndsInv
<1>6. \A u \in Task : ~waiter'[u].enqueued
  BY <1>0, <1>2, <1>5 DEF QueuedInv, Contains
<1>7. ServedInv' /\ Flags!ServesOne
  BY <1>2, <1>6 DEF ServedInv, Flags!ServesOne
<1>8. WalkersType' /\ QueuedInv' /\ PlacesOK'
  BY <1>0, <1>2 DEF WalkersType, OpType, QueuedInv, QueueType, PlacesOK, PlaceOK
<1>9. EndsInv'
  BY <1>0, <1>2, <1>3, <1>5 DEF EndsInv
<1> QED BY <1>4, <1>7, <1>8, <1>9 DEF FlagsInv

LEMMA FlagsSet ==
    ASSUME Flags!Configured, FlagsInv, NEW t \in Task, Flags!Set(t)
    PROVE  FlagsInv' /\ Flags!ServesOne
<1>0. /\ FlagsType /\ WalkersType /\ QueuedInv /\ PlacesOK /\ EndsInv /\ ServedInv
      /\ flags \in FlagsRecord /\ (pc[t] = "idle" => waiter[t] = Flags!NoWaiter)
  BY Layers
<1>1. PICK bits \in Changes :
          LET f == [flags EXCEPT !.mask = @ \cup bits] IN
          IF Flags!Tells(f)
          THEN flags' = Flags!Updated(f) /\ Flags!BeginWalk(t, "set", TRUE) /\ UNCHANGED Flags!queueVars
          ELSE Flags!ServeAndReturn(t, Flags!Updated(f))
  BY DEF Flags!Set
<1>2. /\ pc[t] = "idle" /\ flags.created /\ ~flags.destroyed /\ UNCHANGED <<listeners, told>>
  BY DEF Flags!Set, Flags!Starts
<1> DEFINE f == [flags EXCEPT !.mask = @ \cup bits]
<1>3. bits \subseteq Bits
  BY DEF Flags!Configured
<1>4. /\ f \in FlagsRecord /\ f.created = flags.created /\ f.destroyed = flags.destroyed
      /\ f.mode = flags.mode
  BY <1>0, <1>3 DEF FlagsRecord
<1>5. IF Flags!Tells(f)
      THEN flags' = Flags!Updated(f) /\ Flags!BeginWalk(t, "set", TRUE) /\ UNCHANGED Flags!queueVars
      ELSE Flags!ServeAndReturn(t, Flags!Updated(f))
  BY <1>1
<1> HIDE DEF f
<1>6. listeners' \in Flags!ListenerList(Listener) /\ told' = told
  BY <1>0, <1>2 DEF WalkersType
<1>7. /\ Flags!Updated(f) \in FlagsRecord /\ Flags!Updated(f).created = flags.created
      /\ Flags!Updated(f).destroyed = flags.destroyed /\ Flags!Updated(f).mode = flags.mode
      /\ Flags!Updated(f).ready_state = Flags!IsReady(Flags!Updated(f))
  BY <1>4, RefreshedFields DEF Lessened
<1>8. CASE Flags!Tells(f)
  <2>1. flags' = Flags!Updated(f) /\ Flags!BeginWalk(t, "set", TRUE) /\ UNCHANGED <<waiters, waiting_tasks, waiter>>
    BY <1>5, <1>8 DEF Flags!queueVars
  <2>2. Moves(t, "callback", CallOf("set"))
    BY <1>0, <1>8, <2>1, BeginWalkMoves DEF Flags!Tells
  <2>3. op'[t] = CallOf("set") /\ op'[t].kind = "set" /\ EndsOrTells(t, "set")
    BY <1>0, <2>2, CallOfType DEF Moves, EndsOrTells, WalkersType, OpType
  <2>4. FlagsType' /\ QueuedInv'
    BY <1>0, <1>7, <2>1 DEF FlagsType, QueuedInv, QueueType
  <2>5. FlagsInv'
    BY <1>0, <1>2, <1>6, <1>7, <2>1, <2>3, <2>4, StepKept DEF Spared
  <2> QED BY <2>1, <2>5, OneLeaves
<1>9. CASE ~Flags!Tells(f)
  <2>1. Flags!ServeAndReturn(t, Flags!Updated(f))
    BY <1>5, <1>9
  <2>2. /\ FlagsType' /\ QueuedInv' /\ EndsOrTells(t, "served")
        /\ waiter'[t] = Flags!NoWaiter /\ \A u \in Task \ {t} : Spared(u)
        /\ flags'.created = flags.created /\ flags'.destroyed = flags.destroyed
        /\ waiters = << >> => waiters' = << >>
        /\ \A u \in Task : waiter'[u].enqueued /\ Flags!Satisfied(flags', op[u].want) =>
                Exact(flags', op[u].want)
        /\ Flags!ServesOne
    BY <1>2, <1>7, <2>1, ServeEffect
  <2>3. FlagsInv'
    BY <1>2, <1>6, <2>2, StepKept
  <2> QED BY <2>2, <2>3
<1> QED BY <1>8, <1>9

LEMMA FlagsSetGoesOn ==
    ASSUME Flags!Configured, FlagsInv, NEW t \in Task, Flags!SetGoesOn(t)
    PROVE  FlagsInv' /\ Flags!ServesOne
<1>0. /\ FlagsType /\ WalkersType /\ QueuedInv /\ PlacesOK /\ EndsInv /\ ServedInv
      /\ flags \in FlagsRecord
  BY Layers
<1>1. /\ pc[t] = "renotify" /\ Flags!ServeAndReturn(t, flags) /\ UNCHANGED <<listeners, told>>
  BY DEF Flags!SetGoesOn, Flags!WalkEnds
<1>2. /\ FlagsType' /\ QueuedInv' /\ EndsOrTells(t, "served")
      /\ waiter'[t] = Flags!NoWaiter /\ \A u \in Task \ {t} : Spared(u)
      /\ flags'.created = flags.created /\ flags'.destroyed = flags.destroyed
      /\ waiters = << >> => waiters' = << >>
      /\ \A u \in Task : waiter'[u].enqueued /\ Flags!Satisfied(flags', op[u].want) =>
              Exact(flags', op[u].want)
      /\ Flags!ServesOne
  BY <1>0, <1>1, ServeEffect
<1>3. listeners' \in Flags!ListenerList(Listener) /\ told' = told
  BY <1>0, <1>1 DEF WalkersType
<1>4. ~flags.created \/ flags'.destroyed => waiters' = << >>
  BY <1>0, <1>2 DEF EndsInv
<1>5. FlagsInv'
  BY <1>2, <1>3, <1>4, StepKept
<1> QED BY <1>2, <1>5

LEMMA FlagsPark ==
    ASSUME Flags!Configured, FlagsInv, NEW t \in Task, Flags!Park(t)
    PROVE  FlagsInv' /\ Flags!ServesOne
<1>0. /\ FlagsType /\ WalkersType /\ QueuedInv /\ PlacesOK /\ EndsInv /\ ServedInv
      /\ pc[t] = "idle" => waiter[t] = Flags!NoWaiter /\ ~waiter[t].enqueued
  BY Layers
<1>1. PICK want \in Flags!Predicate, m \in Timeouts :
          /\ ~Flags!Satisfied(flags, want)
          /\ op' = [op EXCEPT ![t] = [kind |-> "wait", timeout |-> m, want |-> want]]
  BY DEF Flags!Park
<1>2. /\ waiters' = Append(waiters, t) /\ waiter' = [waiter EXCEPT ![t] = Flags!PreparedWaiter]
      /\ waiting_tasks' = waiting_tasks + 1 /\ pc' = [pc EXCEPT ![t] = "wait"]
      /\ UNCHANGED <<flags, listeners, told, wait_result, walk>>
      /\ pc[t] = "idle" /\ flags.created /\ ~flags.destroyed
  BY DEF Flags!Park, Flags!Starts, Flags!Goto
<1>3. /\ op'[t].kind = "wait" /\ op'[t].timeout = m /\ op'[t].want = want /\ OpType'
      /\ \A u \in Task \ {t} : op'[u] = op[u] /\ pc'[u] = pc[u] /\ waiter'[u] = waiter[u]
      /\ pc'[t] = "wait" /\ waiter'[t] = Flags!PreparedWaiter
  BY <1>0, <1>1, <1>2 DEF WalkersType, OpType, QueuedInv, FlagsCall, Want
<1>4. FlagsType' /\ WalkersType'
  BY <1>0, <1>2, <1>3 DEF FlagsType, Flags!IsReady, WalkersType
<1>5. QueuedInv'
  <2>1. ~Contains(waiters, t)
    BY <1>0, <1>2 DEF QueuedInv
  <2>2. /\ waiters' \in Seq(Task) /\ Len(waiters') = Len(waiters) + 1 /\ IsInjective(waiters')
        /\ \A u : Contains(waiters', u) <=> Contains(waiters, u) \/ u = t
    BY <1>0, <1>2, <2>1, AppendContains DEF QueuedInv, QueueType
  <2>3. waiter' \in [Task -> Flags!Waiter] /\ waiter'[t].enqueued
    BY <1>0, <1>2 DEF QueuedInv, Flags!PreparedWaiter, Flags!Waiter, Flags!WaitResult
  <2> QED BY <1>0, <1>2, <1>3, <2>2, <2>3 DEF QueuedInv, QueueType
<1>6. PlacesOK'
  <2>1. PlaceOK(t)'
    BY <1>3 DEF PlaceOK, Flags!PreparedWaiter
  <2>2. ASSUME NEW u \in Task \ {t} PROVE PlaceOK(u)'
    BY <1>0, <1>3, <2>2 DEF PlacesOK, PlaceOK
  <2> QED BY <2>1, <2>2 DEF PlacesOK
<1>7. EndsInv'
  BY <1>0, <1>2, <1>3 DEF EndsInv
<1>8. ServedInv'
  <2>1. op[t].kind # "set"
    BY <1>0, <1>2, NoCallType DEF PlacesOK, PlaceOK
  <2>2. Flags!Serving => Flags!Serving'
    BY <1>3, <2>1, ServingKept
  <2>3. ASSUME NEW u \in Task, waiter'[u].enqueued, Flags!Satisfied(flags, op'[u].want),
               ~Exact(flags, op'[u].want)
        PROVE  Flags!Serving'
    <3>1. u # t
      BY <1>1, <1>3, <2>3
    <3> QED BY <1>0, <1>3, <2>2, <2>3, <3>1 DEF ServedInv
  <2>4. ServedInv' <=> \A u \in Task : waiter'[u].enqueued /\ Flags!Satisfied(flags', op'[u].want) =>
                        Flags!Serving' \/ Exact(flags', op'[u].want)
    BY DEF ServedInv, Flags!Satisfied, Exact
  <2> QED BY <1>2, <2>3, <2>4
<1>9. Flags!ServesOne
  BY <1>3, OneLeaves
<1> QED BY <1>4, <1>5, <1>6, <1>7, <1>8, <1>9 DEF FlagsInv

(* A block ends: the task goes to its lock, its waiter as linked as before.*)
LEMMA FlagsBlock ==
    ASSUME Flags!Configured, FlagsInv, NEW t \in Task, Flags!BlockTaken(t) \/ Flags!BlockTimeout(t)
    PROVE  FlagsInv' /\ Flags!ServesOne
<1>0. FlagsType /\ WalkersType /\ QueuedInv /\ PlacesOK /\ EndsInv /\ ServedInv
  BY Layers
<1>1. /\ pc[t] = "wait" /\ pc' = [pc EXCEPT ![t] = "relock"]
      /\ UNCHANGED <<flags, waiters, waiting_tasks, listeners, told, op, walk>>
      /\ \E r : wait_result' = [wait_result EXCEPT ![t] = r]
      /\ \E w : waiter' = [waiter EXCEPT ![t] = w]
  BY DEF Flags!BlockTaken, Flags!BlockTimeout, Flags!Goto
<1>2. /\ waiter'[t] \in Flags!Waiter /\ waiter'[t].enqueued = waiter[t].enqueued
      /\ waiter'[t].given => ~waiter'[t].enqueued
      /\ wait_result'[t] \in Flags!WaitResult
  <2>1. waiter[t] \in Flags!Waiter /\ (waiter[t].given => ~waiter[t].enqueued)
    BY <1>0 DEF QueuedInv, PlacesOK, PlaceOK
  <2>2. CASE Flags!BlockTaken(t)
    <3>1. /\ waiter[t].given /\ waiter'[t] = Flags!NoWaiter /\ wait_result'[t] = waiter[t].result
      BY <1>0, <2>2 DEF Flags!BlockTaken, QueuedInv, WalkersType
    <3>2. ~waiter[t].enqueued /\ waiter[t].enqueued \in BOOLEAN /\ waiter[t].result \in Flags!WaitResult
      BY <2>1, <3>1 DEF Flags!Waiter
    <3>3. Flags!NoWaiter \in Flags!Waiter /\ Flags!NoWaiter.enqueued = FALSE /\ Flags!NoWaiter.given = FALSE
      BY DEF Flags!NoWaiter, Flags!Waiter, Flags!WaitResult
    <3> QED BY <3>1, <3>2, <3>3
  <2>3. CASE Flags!BlockTimeout(t)
    <3>1. waiter'[t] \in {waiter[t], Flags!TimedOut(waiter[t])} /\ wait_result'[t] = "timeout"
      BY <1>0, <2>3 DEF Flags!BlockTimeout, QueuedInv, WalkersType
    <3>2. /\ Flags!TimedOut(waiter[t]) \in Flags!Waiter
          /\ Flags!TimedOut(waiter[t]).enqueued = waiter[t].enqueued
          /\ Flags!TimedOut(waiter[t]).given = waiter[t].given
      <4> DEFINE w == [waiter[t] EXCEPT !.armed = FALSE]
      <4>1. w \in Flags!Waiter /\ w.enqueued = waiter[t].enqueued /\ w.given = waiter[t].given
        BY <2>1 DEF Flags!Waiter
      <4>2. Flags!TimedOut(waiter[t]) = [w EXCEPT !.result = "timeout"]
        BY DEF Flags!TimedOut
      <4> HIDE DEF w
      <4> QED BY <4>1, <4>2 DEF Flags!Waiter, Flags!WaitResult
    <3> QED BY <2>1, <3>1, <3>2 DEF Flags!WaitResult
  <2> QED BY <2>2, <2>3
<1>3. \A u \in Task \ {t} : waiter'[u] = waiter[u] /\ pc'[u] = pc[u]
  BY <1>0, <1>1 DEF QueuedInv, WalkersType
<1>4. FlagsType' /\ WalkersType' /\ EndsInv'
  <2>1. wait_result' \in [Task -> Flags!WaitResult]
    BY <1>0, <1>1, <1>2 DEF WalkersType
  <2>2. pc' \in [Task -> {"idle", "wait", "relock", "callback", "renotify"}] /\ pc'[t] = "relock"
    BY <1>0, <1>1 DEF WalkersType
  <2> QED BY <1>0, <1>1, <2>1, <2>2 DEF FlagsType, Flags!IsReady, WalkersType, OpType, EndsInv
<1>5. waiter' \in [Task -> Flags!Waiter]
  BY <1>0, <1>1, <1>2 DEF QueuedInv
<1>6. \A u \in Task : waiter'[u].enqueued = waiter[u].enqueued
  BY <1>2, <1>3
<1>7. QueuedInv'
  BY <1>0, <1>1, <1>5, <1>6 DEF QueuedInv, QueueType
<1>8. PlacesOK'
  <2>1. pc'[t] = "relock"
    BY <1>0, <1>1 DEF WalkersType
  <2>2. PlaceOK(t)'
    BY <1>0, <1>1, <1>2, <2>1 DEF PlacesOK, PlaceOK
  <2>3. ASSUME NEW u \in Task \ {t} PROVE PlaceOK(u)'
    BY <1>0, <1>1, <1>3, <2>3 DEF PlacesOK, PlaceOK
  <2> QED BY <2>2, <2>3 DEF PlacesOK
<1>9. ServedInv' /\ Flags!ServesOne
  <2>1. Flags!Serving' <=> Flags!Serving
    BY <1>1 DEF Flags!Serving
  <2>2. Lessened(flags, flags')
    BY <1>1 DEF Lessened
  <2> QED BY <1>0, <1>1, <1>3, <1>6, <2>1, <2>2, ServedKept, OneLeaves
<1> QED BY <1>4, <1>7, <1>8, <1>9 DEF FlagsInv

LEMMA FlagsWaitEnds ==
    ASSUME Flags!Configured, FlagsInv, NEW t \in Task, Flags!WaitEnds(t)
    PROVE  FlagsInv' /\ Flags!ServesOne
<1>0. /\ FlagsType /\ WalkersType /\ QueuedInv /\ PlacesOK /\ EndsInv /\ ServedInv
      /\ flags \in FlagsRecord
  BY Layers
<1>1. /\ pc[t] = "relock" /\ waiter' = [waiter EXCEPT ![t] = Flags!NoWaiter]
      /\ UNCHANGED <<listeners, told>>
      /\ (Flags!Return(t) /\ UNCHANGED flags) \/ Flags!UpdateReady(t, "wait", flags)
      /\ \/ ~waiter[t].enqueued /\ UNCHANGED <<waiters, waiting_tasks>>
         \/ /\ waiter[t].enqueued /\ waiters' \in Flags!Unlinked(waiters, t)
            /\ waiting_tasks' = Flags!Decrement(waiting_tasks)
  BY DEF Flags!WaitEnds
<1>2. /\ waiter'[t] = Flags!NoWaiter /\ waiter' \in [Task -> Flags!Waiter] /\ ~waiter'[t].enqueued
      /\ \A u \in Task \ {t} : waiter'[u] = waiter[u]
  BY <1>0, <1>1 DEF QueuedInv, Flags!NoWaiter, Flags!Waiter, Flags!WaitResult
<1>3. QueuedInv' /\ (waiters = << >> => waiters' = << >>)
  <2>1. CASE ~waiter[t].enqueued
    BY <1>0, <1>1, <1>2, <2>1 DEF QueuedInv, QueueType
  <2>2. CASE waiter[t].enqueued
    <3>1. Contains(waiters, t) /\ waiters # << >>
      BY <1>0, <2>2 DEF QueuedInv, Contains
    <3>2. PICK i \in DOMAIN waiters : waiters[i] = t /\ waiters' = RemoveAt(waiters, i)
      BY <1>1, <2>2, <3>1 DEF Flags!Unlinked, Flags!RemoveAt, RemoveAt, Flags!Contains,
         Contains
    <3>3. i \in 1 .. Len(waiters) /\ waiting_tasks' = Flags!Decrement(waiting_tasks)
      BY <1>0, <1>1, <2>2 DEF QueuedInv, QueueType
    <3>4. /\ waiters' \in Seq(Task) /\ Len(waiters') = Len(waiters) - 1
          /\ IsInjective(waiters')
          /\ \A u : Contains(waiters', u) <=> Contains(waiters, u) /\ u # t
      BY <1>0, <3>2, <3>3, RemoveAtIndexed, RemoveAtContains DEF QueuedInv, QueueType
    <3>5. waiting_tasks' = Len(waiters') /\ waiting_tasks' \in Nat
      BY <1>0, <3>3, <3>4 DEF QueuedInv, Flags!Decrement
    <3>6. \A u \in Task : waiter'[u].enqueued <=> Contains(waiters', u)
      BY <1>0, <1>2, <3>4 DEF QueuedInv
    <3> QED BY <1>2, <3>1, <3>4, <3>5, <3>6 DEF QueuedInv, QueueType
  <2> QED BY <2>1, <2>2
<1>4. FlagsType' /\ EndsOrTells(t, "wait") /\ Lessened(flags, flags')
  <2>1. CASE Flags!Return(t) /\ UNCHANGED flags
    BY <1>0, <2>1, ReturnMoves DEF FlagsType, Flags!IsReady, EndsOrTells, Lessened
  <2>2. CASE Flags!UpdateReady(t, "wait", flags)
    BY <1>0, <2>2, RefreshMoves, RefreshedFields
  <2> QED BY <1>1, <2>1, <2>2
<1>5. op[t].kind # "set" /\ flags'.created = flags.created /\ flags'.destroyed = flags.destroyed
  BY <1>0, <1>1, <1>4 DEF PlacesOK, PlaceOK, Lessened
<1>6. listeners' \in Flags!ListenerList(Listener) /\ told' = told
  BY <1>0, <1>1 DEF WalkersType
<1>7. ~flags.created \/ flags'.destroyed => waiters' = << >>
  BY <1>0, <1>3, <1>5 DEF EndsInv
<1>8. FlagsInv'
  BY <1>2, <1>3, <1>4, <1>5, <1>6, <1>7, StepKept DEF Spared
<1> QED BY <1>2, <1>8, OneLeaves

LEMMA FlagsDestroy ==
    ASSUME Flags!Configured, FlagsInv, NEW t \in Task, Flags!Destroy(t)
    PROVE  FlagsInv' /\ Flags!ServesOne
<1>0. /\ FlagsType /\ WalkersType /\ QueuedInv /\ PlacesOK /\ EndsInv /\ ServedInv
      /\ flags \in FlagsRecord
      /\ pc[t] = "idle" => waiter[t] = Flags!NoWaiter /\ ~waiter[t].enqueued
  BY Layers
<1>1. /\ pc[t] = "idle" /\ flags.created /\ waiters' = << >> /\ waiting_tasks' = 0
      /\ waiter' = Flags!WokenAll(waiter, waiters, "destroyed") /\ UNCHANGED <<listeners, told>>
      /\ flags' = [flags EXCEPT !.destroyed = TRUE, !.mask = {}, !.ready_state = FALSE]
      /\ \/ Flags!BeginWalk(t, "destroy", FALSE) /\ listeners.head # NoListener
         \/ Flags!Return(t)
  BY DEF Flags!Destroy, Flags!Starts
<1>2. /\ flags' \in FlagsRecord /\ flags'.destroyed /\ flags'.created = flags.created
      /\ flags'.mask = {} /\ flags'.ready_state = FALSE
  <2> DEFINE f == [flags EXCEPT !.destroyed = TRUE]
             g == [f EXCEPT !.mask = {}]
  <2>1. f \in FlagsRecord /\ f.destroyed /\ f.created = flags.created
    BY <1>0 DEF FlagsRecord
  <2> HIDE DEF f
  <2>2. g \in FlagsRecord /\ g.destroyed /\ g.created = flags.created /\ g.mask = {}
    BY <2>1 DEF FlagsRecord
  <2>3. flags' = [g EXCEPT !.ready_state = FALSE]
    BY <1>1 DEF f
  <2> HIDE DEF g
  <2> QED BY <2>2, <2>3 DEF FlagsRecord
<1>3. FlagsType'
  BY <1>2 DEF FlagsType, Flags!IsReady
<1>4. ASSUME NEW u \in Task
      PROVE  /\ Spared(u) /\ ~waiter'[u].enqueued /\ waiter'[u] \in Flags!Waiter
             /\ waiter[u].enqueued => waiter'[u].result = "destroyed"
  <2>1. waiter[u] \in Flags!Waiter /\ "destroyed" \in Flags!WaitResult
    BY <1>0 DEF QueuedInv, Flags!WaitResult
  <2>2. CASE Contains(waiters, u)
    <3>1. waiter'[u] = Flags!Woken(waiter[u], "destroyed") /\ waiter[u].enqueued
      BY <1>0, <1>1, <2>2 DEF Flags!WokenAll, Flags!Contains, Contains, QueuedInv
    <3> QED BY <2>1, <3>1, WokenIs DEF Spared
  <2>3. CASE ~Contains(waiters, u)
    <3>1. waiter'[u] = waiter[u] /\ ~waiter[u].enqueued
      BY <1>0, <1>1, <2>3 DEF Flags!WokenAll, Flags!Contains, Contains, QueuedInv
    <3> QED BY <2>1, <3>1 DEF Spared
  <2> QED BY <2>2, <2>3
<1>5. waiter' \in [Task -> Flags!Waiter] /\ waiter'[t] = Flags!NoWaiter
  BY <1>0, <1>1, <1>4 DEF Flags!WokenAll, Flags!Contains, Contains, QueuedInv
<1>6. QueuedInv'
  BY <1>1, <1>4, <1>5 DEF QueuedInv, QueueType, Contains, IsInjective
<1>7. EndsOrTells(t, "destroy")
  BY <1>0, <1>1, ReturnMoves, BeginWalkMoves DEF EndsOrTells
<1>8. listeners' \in Flags!ListenerList(Listener) /\ told' = told
  BY <1>0, <1>1 DEF WalkersType
<1>9. FlagsInv'
  BY <1>1, <1>2, <1>3, <1>4, <1>5, <1>6, <1>7, <1>8, StepKept
<1>10. Flags!ServesOne
  BY <1>4 DEF Flags!ServesOne
<1> QED BY <1>9, <1>10

LEMMA FlagsCallback ==
    ASSUME Flags!Configured, FlagsInv, NEW t \in Task, Flags!Callback(t) \/ Flags!Renotify(t)
    PROVE  FlagsInv' /\ Flags!ServesOne
<1>0. FlagsType /\ WalkersType /\ QueuedInv /\ PlacesOK /\ EndsInv /\ ServedInv
  BY Layers
<1>1. /\ UNCHANGED <<flags, waiters, waiting_tasks, waiter, listeners, op, wait_result>>
      /\ pc[t] \in {"callback", "renotify"}
      /\ \E l \in {"callback", "renotify"} : pc' = [pc EXCEPT ![t] = l]
  BY DEF Flags!Callback, Flags!Renotify, Flags!Goto, Flags!queueVars
<1>2. told' \in [Listener -> BOOLEAN] /\ walk' \in [Task -> Flags!Walk(Listener)]
  <2>1. CASE Flags!Callback(t)
    BY <1>0, <2>1 DEF Flags!Callback, WalkersType, Flags!Walk
  <2>2. CASE Flags!Renotify(t)
    <3>1. Flags!WalkTo(listeners, walk[t].next, walk[t].ready) \in Flags!Walk(Listener)
      BY <1>0, <2>2 DEF Flags!Renotify, WalkersType, Flags!ListenerList, Flags!WalkTo,
         Flags!Walk
    <3> QED BY <1>0, <2>2, <3>1 DEF Flags!Renotify, WalkersType
  <2> QED BY <2>1, <2>2
<1>3. WalkersType'
  BY <1>0, <1>1, <1>2 DEF WalkersType, OpType
<1>4. PlacesOK'
  <2>1. PlaceOK(t)'
    BY <1>0, <1>1 DEF WalkersType, PlacesOK, PlaceOK
  <2>2. ASSUME NEW u \in Task \ {t} PROVE PlaceOK(u)'
    BY <1>0, <1>1, <2>2 DEF WalkersType, PlacesOK, PlaceOK
  <2> QED BY <2>1, <2>2 DEF PlacesOK
<1>5. FlagsType' /\ QueuedInv' /\ EndsInv' /\ ServedInv'
  BY <1>0, <1>1 DEF FlagsType, Flags!IsReady, QueuedInv, QueueType, EndsInv, ServedInv,
     Flags!Satisfied,
                    Exact, Flags!Serving
<1> QED BY <1>1, <1>3, <1>4, <1>5, OneLeaves DEF FlagsInv

(* The end of the walk of a destroy, or of a call that has nobody to serve.*)
LEMMA FlagsWalkEnds ==
    ASSUME Flags!Configured, FlagsInv, NEW t \in Task, Flags!DestroyGoesOn(t) \/ Flags!OthersReturn(t)
    PROVE  FlagsInv' /\ Flags!ServesOne
<1>0. FlagsType /\ WalkersType /\ QueuedInv /\ PlacesOK /\ EndsInv /\ ServedInv
  BY Layers
<1>1. /\ pc[t] = "renotify" /\ Flags!Return(t) /\ op[t].kind # "set"
      /\ UNCHANGED <<flags, waiting_tasks, waiter, told>>
      /\ waiters' = waiters \/ (op[t].kind = "destroy" /\ waiters' = << >>)
      /\ listeners' \in {listeners, [listeners EXCEPT !.head = NoListener]}
  BY DEF Flags!DestroyGoesOn, Flags!OthersReturn, Flags!WalkEnds, Flags!queueVars
<1>2. UNCHANGED waiters
  BY <1>0, <1>1 DEF EndsInv
<1>3. QueuedInv' /\ FlagsType' /\ Lessened(flags, flags')
  BY <1>0, <1>1, <1>2 DEF QueuedInv, QueueType, FlagsType, Flags!IsReady, Lessened
<1>4. waiter'[t] = Flags!NoWaiter /\ \A u \in Task \ {t} : Spared(u)
  BY <1>0, <1>1 DEF PlacesOK, PlaceOK, Spared
<1>5. EndsOrTells(t, "clear")
  BY <1>0, <1>1, ReturnMoves DEF EndsOrTells
<1>6. listeners' \in Flags!ListenerList(Listener)
  BY <1>0, <1>1 DEF WalkersType, Flags!ListenerList
<1>7. ~flags.created \/ flags'.destroyed => waiters' = << >>
  BY <1>0, <1>1, <1>2 DEF EndsInv
<1>8. FlagsInv'
  BY <1>1, <1>3, <1>4, <1>5, <1>6, <1>7, StepKept
<1> QED BY <1>1, <1>8, OneLeaves

LEMMA FlagsSubscribe ==
    ASSUME Flags!Configured, FlagsInv, NEW t \in Task, Flags!SubscribeListener(t)
    PROVE  FlagsInv' /\ Flags!ServesOne
<1>0. /\ FlagsType /\ WalkersType /\ QueuedInv /\ PlacesOK /\ EndsInv /\ ServedInv
      /\ pc[t] = "idle" => waiter[t] = Flags!NoWaiter
  BY Layers
<1>1. PICK l \in Listener \ Flags!Subscribed(listeners) :
          /\ listeners' = Flags!Subscribe(listeners, l)
          /\ walk' = [walk EXCEPT ![t] =
                  [now |-> l, next |-> NoListener, ready |-> Flags!IsReady(flags)]]
  BY DEF Flags!SubscribeListener
<1>2. /\ UNCHANGED <<flags, waiters, waiting_tasks, waiter, told, wait_result>>
      /\ op' = [op EXCEPT ![t].kind = "subscribe"] /\ pc' = [pc EXCEPT ![t] = "callback"]
      /\ pc[t] = "idle" /\ flags.created
  BY DEF Flags!SubscribeListener, Flags!Goto, Flags!queueVars
<1>3. listeners' \in Flags!ListenerList(Listener)
  BY <1>0, <1>1 DEF WalkersType, Flags!ListenerList, Flags!Subscribe
<1>4. walk' \in [Task -> Flags!Walk(Listener)]
  BY <1>0, <1>1 DEF WalkersType, Flags!Walk, Flags!IsReady
<1>5. op[t] = Flags!NoOp /\ op[t].kind # "set"
  BY <1>0, <1>2, NoCallType DEF PlacesOK, PlaceOK
<1>6. EndsOrTells(t, "subscribe")
  BY <1>0, <1>2, <1>4, <1>5 DEF EndsOrTells, Moves, CallOf, WalkersType
<1>7. QueuedInv' /\ FlagsType' /\ Lessened(flags, flags')
  BY <1>0, <1>2 DEF QueuedInv, QueueType, FlagsType, Flags!IsReady, Lessened
<1>8. flags'.destroyed => waiters' = << >>
  BY <1>0, <1>2 DEF EndsInv
<1>9. FlagsInv'
  BY <1>0, <1>2, <1>3, <1>5, <1>6, <1>7, <1>8, StepKept DEF Spared
<1> QED BY <1>2, <1>9, OneLeaves

LEMMA FlagsUnsubscribe ==
    ASSUME Flags!Configured, FlagsInv, NEW t \in Task, Flags!UnsubscribeListener(t)
    PROVE  FlagsInv' /\ Flags!ServesOne
<1>0. FlagsType /\ WalkersType /\ QueuedInv /\ PlacesOK /\ EndsInv /\ ServedInv
  BY Layers
<1>1. PICK l \in Flags!Subscribed(listeners) : listeners' = Flags!Unsubscribe(listeners, l)
  BY DEF Flags!UnsubscribeListener
<1>2. UNCHANGED <<flags, waiters, waiting_tasks, waiter, told, pc, op, wait_result, walk>>
  BY DEF Flags!UnsubscribeListener, Flags!queueVars, Flags!taskVars
<1>3. l # NoListener
  BY <1>1, Zenon DEF Flags!Subscribed
<1>4. listeners' \in Flags!ListenerList(Listener)
  <2>1. /\ listeners.head \in Listener \cup {NoListener} /\ listeners.count \in Nat
        /\ \A k \in Listener : listeners.next[k] \in Listener \cup {NoListener}
    BY <1>0 DEF WalkersType, Flags!ListenerList
  <2>2. listeners.head = l => listeners.next[l] \in Listener \cup {NoListener}
    BY <1>3, <2>1
  <2>3. \A k \in Listener :
            listeners.next[k] = l => listeners.next[l] \in Listener \cup {NoListener}
    BY <1>3, <2>1
  <2>4. Flags!Decrement(listeners.count) \in Nat
    BY <2>1 DEF Flags!Decrement
  <2> QED BY <1>1, <2>1, <2>2, <2>3, <2>4 DEF Flags!ListenerList, Flags!Unsubscribe
<1>5. WalkersType'
  BY <1>0, <1>2, <1>4 DEF WalkersType, OpType
<1>6. FlagsType' /\ QueuedInv' /\ PlacesOK' /\ EndsInv' /\ ServedInv'
  BY <1>0, <1>2 DEF FlagsType, Flags!IsReady, QueuedInv, QueueType, PlacesOK, PlaceOK,
     EndsInv,
                    ServedInv, Flags!Satisfied, Exact, Flags!Serving
<1> QED BY <1>2, <1>5, <1>6, OneLeaves DEF FlagsInv

LEMMA FlagsInit == Flags!Configured /\ Flags!Init => FlagsInv
<1> SUFFICES ASSUME Flags!Configured, Flags!Init PROVE FlagsInv
  OBVIOUS
<1>1. FlagsType
  <2>1. PICK m \in Modes, mm \in MaskModes :
          flags = [created |-> FALSE, destroyed |-> FALSE, mode |-> m, mask_mode |-> mm,
                   mask |-> {}, ready_state |-> FALSE]
    BY DEF Flags!Init
  <2>2. flags \in FlagsRecord /\ flags.mask = {} /\ flags.ready_state = FALSE
    BY <2>1 DEF FlagsRecord
  <2> QED BY <2>2 DEF FlagsType, Flags!IsReady
<1>2. WalkersType
  BY NoCallType DEF Flags!Init, WalkersType, Flags!NoListeners, Flags!ListenerList, OpType,
     Flags!WaitResult, Flags!NoWalk, Flags!Walk
<1>3. QueuedInv
  BY DEF Flags!Init, QueuedInv, QueueType, Flags!NoWaiter, Flags!Waiter, Flags!WaitResult,
     Contains, IsInjective
<1>4. EndsInv
  BY NoCallType DEF Flags!Init, EndsInv
<1>5. PlacesOK /\ ServedInv
  BY DEF Flags!Init, PlacesOK, PlaceOK, ServedInv, Flags!NoWaiter
<1> QED BY <1>1, <1>2, <1>3, <1>4, <1>5 DEF FlagsInv

LEMMA FlagsNext ==
    Flags!Configured /\ FlagsInv /\ [Flags!Next]_(Flags!vars) => FlagsInv' /\ Flags!ServesOne
<1> SUFFICES ASSUME Flags!Configured, FlagsInv, [Flags!Next]_(Flags!vars)
             PROVE FlagsInv' /\ Flags!ServesOne
  OBVIOUS
<1>1. CASE UNCHANGED Flags!vars
  <2>1. UNCHANGED <<flags, waiters, waiting_tasks, waiter, listeners, told, pc, op,
                    wait_result, walk>>
    BY <1>1 DEF Flags!vars, Flags!queueVars, Flags!taskVars
  <2>2. FlagsInv'
    BY <2>1 DEF FlagsInv, FlagsType, WalkersType, OpType, QueuedInv, QueueType, PlacesOK,
                PlaceOK, EndsInv, ServedInv, Flags!Satisfied, Exact, Flags!Serving, Flags!IsReady
  <2> QED BY <2>1, <2>2 DEF Flags!ServesOne
<1>2. ASSUME NEW t \in Task, Flags!Begin(t) PROVE FlagsInv' /\ Flags!ServesOne
  BY <1>2, FlagsCreate, FlagsSet, FlagsClear, FlagsTake, FlagsPark, FlagsDestroy,
     FlagsSubscribe, FlagsUnsubscribe DEF Flags!Begin
<1>3. ASSUME NEW t \in Task, Flags!Step(t) PROVE FlagsInv' /\ Flags!ServesOne
  BY <1>3, FlagsBlock, FlagsWaitEnds, FlagsCallback, FlagsSetGoesOn, FlagsWalkEnds
     DEF Flags!Step
<1> QED BY <1>1, <1>2, <1>3 DEF Flags!Next

(* What is left of the waiters on event flags is in order whichever way    *)
(* they leave the queue: waiting_tasks counts them, each is in it once,    *)
(* and a task that waits is in it or has been given its semaphore. And     *)
(* nobody stays in it beside the bits he wants, unless a set is still on   *)
(* its way to the waiters (or he wants an exact mask, which a clear, which  *)
(* serves nobody, can leave): one pass of                                  *)
(* ipc_event_flags_service_waiters_locked is enough, although each waiter  *)
(* it wakes takes bits from the mask the next one is compared with, and    *)
(* ipc_event_flags_set drops its lock between the bits and that pass.      *)
THEOREM FlagsInvariance ==
    ASSUME Flags!Configured
    PROVE  Flags!Spec => [](Flags!TypeOK /\ Flags!WaitersCounted /\ Flags!SatisfiedServed)
<1>1. Flags!Init => FlagsInv
  BY FlagsInit
<1>2. FlagsInv /\ [Flags!Next]_(Flags!vars) => FlagsInv'
  BY FlagsNext
<1>3. FlagsInv => Flags!TypeOK /\ Flags!WaitersCounted /\ Flags!SatisfiedServed
  BY FlagsInvImplies
<1> QED BY <1>1, <1>2, <1>3, PTL DEF Flags!Spec

(* A bit that clears itself wakes one task: of the waiters that one step   *)
(* wakes, two that each need all the bits they named have no bit in common *)
(* (ipc_event_flags_apply_auto_clear in the loop over the waiters).        *)
THEOREM BitsServeOne == ASSUME Flags!Configured PROVE Flags!Spec => Flags!BitServesOne
<1>1. Flags!Init => FlagsInv
  BY FlagsInit
<1>2. FlagsInv /\ [Flags!Next]_(Flags!vars) => FlagsInv'
  BY FlagsNext
<1>3. FlagsInv /\ [Flags!Next]_(Flags!vars) => [Flags!ServesOne]_(Flags!vars)
  BY FlagsNext
<1> QED BY <1>1, <1>2, <1>3, PTL DEF Flags!Spec, Flags!BitServesOne

=============================================================================
