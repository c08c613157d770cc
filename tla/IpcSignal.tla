------------------------------ MODULE IpcSignal ------------------------------
(***************************************************************************)
(* The signals of ipc_signal.c: one slot of g_signals, the tasks that set, *)
(* clear and wait, and the listeners that are told of its readiness.       *)
(*                                                                         *)
(* What runs between portENTER_CRITICAL and portEXIT_CRITICAL is one step. *)
(* ipc_signal_notify_waitsets leaves the critical section for every        *)
(* callback: the callback and the way to the next listener are steps, so   *)
(* that set, clear, waits and destroy are cut in pieces while listeners    *)
(* are subscribed. A callback does not call into the signal.               *)
(*                                                                         *)
(* The slot is allocated once (bound): its handle stays valid, and a call  *)
(* finds the signal there, or destroyed. A call that changes nothing (on a *)
(* destroyed signal, or a try_wait on one that is not ready) is no step.   *)
(***************************************************************************)
EXTENDS IpcWaitset

CONSTANTS
    Modes,          \* the modes signals are created in: "counting", "one_shot"
    Timeouts,       \* how callers wait: "zero", "finite", "forever"
    Kinds,          \* what the tasks call: "set", "clear", "try_wait", "wait",
                    \* "subscribe", "unsubscribe", "destroy"
    MaxCounter      \* bound: how far a counting signal is set

(* What the constants are.                                                 *)
Configured == MaxCounter \in Nat

VARIABLES
    \* ipc_signal_t: mode, counter, pending, ready_state, header.destroyed,
    \* and created, whether the slot has been allocated
    signal,
    \* its wait queue and header.waiting_tasks, its listeners
    waiters, waiting_tasks, listeners,
    \* what the callback of each listener was told last
    told,
    \* each task's place in its call, the call, its waiter on the
    \* stack, what ipc_waiter_block returned, its walk through the listeners
    pc, op, waiter, wait_result, walk

queueVars == <<waiters, waiting_tasks, waiter>>
taskVars  == <<pc, op, wait_result, walk>>
vars      == <<signal, queueVars, listeners, told, taskVars>>

NoOp == [kind |-> "none", timeout |-> "none"]

IsReady(s) == IF s.mode = "counting" THEN s.counter > 0 ELSE s.pending

(* ipc_signal_consume_locked, on a signal that is ready.                   *)
Consumed(s) ==
    IF s.mode = "counting" THEN [s EXCEPT !.counter = Decrement(@)]
                           ELSE [s EXCEPT !.pending = FALSE]

Raised(s) ==
    IF s.mode = "counting" THEN [s EXCEPT !.counter = @ + 1]
                           ELSE [s EXCEPT !.pending = TRUE]

Cleared(s) == [s EXCEPT !.pending = FALSE, !.counter = 0]

(* Mutant: the end of the readiness is not noticed.                        *)
UpdatedRising(s) == [s EXCEPT !.ready_state = @ \/ IsReady(s)]

(* What ipc_signal_update_ready_locked writes.                             *)
Updated(s) == [s EXCEPT !.ready_state = IsReady(s)]

-----------------------------------------------------------------------------
Goto(t, l) == pc' = [pc EXCEPT ![t] = l]

Return(t) ==
    /\ Goto(t, "idle")
    /\ op' = [op EXCEPT ![t] = NoOp]
    /\ wait_result' = [wait_result EXCEPT ![t] = "ok"]
    /\ walk' = [walk EXCEPT ![t] = NoWalk]

(* ipc_signal_notify_waitsets up to the first callback, or past all of it  *)
(* when there are no listeners.                                            *)
BeginWalk(t, o, ready) ==
    /\ walk' = [walk EXCEPT ![t] = WalkTo(listeners, listeners.head, ready)]
    /\ op' = [op EXCEPT ![t] = o]
    /\ Goto(t, "callback")
    /\ UNCHANGED wait_result

(* A readiness that differs from the one the listeners were told.          *)
Tells(s) == IsReady(s) # s.ready_state /\ listeners.head # NoListener

(* ipc_signal_update_ready_locked on what the signal has become, where it  *)
(* is the last thing a call does before it returns.                        *)
UpdateReady(t, o, s) ==
    /\ signal' = Updated(s)
    /\ IF Tells(s) THEN BeginWalk(t, o, IsReady(s)) ELSE Return(t)

Starts(t, k) == pc[t] = "idle" /\ k \in Kinds /\ signal.created /\ ~signal.destroyed

Call(k) == [NoOp EXCEPT !.kind = k]

Create(t) ==
    /\ pc[t] = "idle" /\ ~signal.created
    /\ \E m \in Modes :
        signal' = [signal EXCEPT !.created = TRUE, !.mode = m]
    /\ UNCHANGED <<queueVars, listeners, told, taskVars>>

(* Mutant: with listeners to tell, nobody is woken.                        *)
WakeOneUnheard ==
    IF waiters = << >> \/ listeners.head # NoListener THEN UNCHANGED queueVars
    ELSE \E i \in Picks(waiters) :
            /\ waiters' = RemoveAt(waiters, i)
            /\ waiter' = [waiter EXCEPT ![waiters[i]] = Woken(@, "ok")]
            /\ waiting_tasks' = Decrement(waiting_tasks)

(* ipc_wake_one at the end of a set, and the counting out of whom it woke. *)
WakeOne ==
    IF waiters = << >> THEN UNCHANGED queueVars
    ELSE \E i \in Picks(waiters) :
            /\ waiters' = RemoveAt(waiters, i)
            /\ waiter' = [waiter EXCEPT ![waiters[i]] = Woken(@, "ok")]
            /\ waiting_tasks' = Decrement(waiting_tasks)

Set(t) ==
    /\ Starts(t, "set")
    /\ signal.mode = "counting" => signal.counter < MaxCounter
    /\ LET s == Raised(signal) IN
        /\ signal' = Updated(s)
        /\ IF Tells(s) THEN BeginWalk(t, Call("set"), IsReady(s)) /\ UNCHANGED queueVars
                       ELSE WakeOne /\ Return(t)
    /\ UNCHANGED <<listeners, told>>

Clear(t) ==
    /\ Starts(t, "clear")
    /\ UpdateReady(t, Call("clear"), Cleared(signal))
    /\ UNCHANGED <<queueVars, listeners, told>>

(* ipc_signal_try_wait, and ipc_signal_wait_internal, find it ready.       *)
Take(t) ==
    /\ Starts(t, "try_wait") \/ Starts(t, "wait")
    /\ IsReady(signal)
    /\ UpdateReady(t, Call("wait"), Consumed(signal))
    /\ UNCHANGED <<queueVars, listeners, told>>

Park(t) ==
    /\ Starts(t, "wait")
    /\ ~IsReady(signal)
    /\ \E m \in Timeouts :
        op' = [op EXCEPT ![t] = [NoOp EXCEPT !.kind = "wait", !.timeout = m]]
    /\ waiters' = Append(waiters, t)
    /\ waiter' = [waiter EXCEPT ![t] = PreparedWaiter]
    /\ waiting_tasks' = waiting_tasks + 1
    /\ Goto(t, "wait")
    /\ UNCHANGED <<signal, listeners, told, wait_result, walk>>

(* ipc_waiter_block or ipc_waiter_timed_block ends with the semaphore...   *)
BlockTaken(t) ==
    /\ pc[t] = "wait" /\ op[t].timeout # "zero" /\ waiter[t].given
    /\ wait_result' = [wait_result EXCEPT ![t] = waiter[t].result]
    /\ waiter' = [waiter EXCEPT ![t] = NoWaiter]
    /\ Goto(t, "relock")
    /\ UNCHANGED <<signal, waiters, waiting_tasks, listeners, told, op, walk>>

(* ... or at the deadline; a timeout of 0 does not block at all.           *)
BlockTimeout(t) ==
    /\ pc[t] = "wait" /\ op[t].timeout # "forever"
    /\ op[t].timeout = "finite" => ~waiter[t].given
    /\ wait_result' = [wait_result EXCEPT ![t] = "timeout"]
    /\ waiter' = [waiter EXCEPT ![t] = IF op[t].timeout = "zero" THEN @ ELSE TimedOut(@)]
    /\ Goto(t, "relock")
    /\ UNCHANGED <<signal, waiters, waiting_tasks, listeners, told, op, walk>>

(* Mutant: a waiter nobody woke is not counted out.                        *)
LeaveQueueUncounted(t) ==
    /\ waiters' \in IF waiter[t].enqueued THEN Unlinked(waiters, t) ELSE {waiters}
    /\ UNCHANGED waiting_tasks
    /\ waiter' = [waiter EXCEPT ![t] = NoWaiter]

(* ipc_waiter_remove, back under the lock, and ipc_signal_after_dequeue.   *)
LeaveQueue(t) ==
    /\ IF waiter[t].enqueued
       THEN /\ waiters' \in Unlinked(waiters, t)
            /\ waiting_tasks' = Decrement(waiting_tasks)
       ELSE UNCHANGED <<waiters, waiting_tasks>>
    /\ waiter' = [waiter EXCEPT ![t] = NoWaiter]

(* A woken waiter takes the indication, if it is still there: another one  *)
(* may have taken it, and then the wait returns IPC_ERR_SHUTDOWN.          *)
WokenTakes(t) ==
    /\ pc[t] = "relock" /\ wait_result[t] = "ok"
    /\ ~signal.destroyed /\ IsReady(signal)
    /\ LeaveQueue(t)
    /\ UpdateReady(t, Call("wait"), Consumed(signal))
    /\ UNCHANGED <<listeners, told>>

WokenInVain(t) ==
    /\ pc[t] = "relock" /\ wait_result[t] = "ok"
    /\ signal.destroyed \/ ~IsReady(signal)
    /\ LeaveQueue(t)
    /\ Return(t)
    /\ UNCHANGED <<signal, listeners, told>>

WaitEnds(t) ==
    /\ pc[t] = "relock" /\ wait_result[t] # "ok"
    /\ LeaveQueue(t)
    /\ IF wait_result[t] = "timeout" THEN UpdateReady(t, Call("wait"), signal)
                                     ELSE Return(t) /\ UNCHANGED signal
    /\ UNCHANGED <<listeners, told>>

(* ipc_signal_destroy, up to its walk or the end of its critical section.  *)
Destroy(t) ==
    /\ Starts(t, "destroy")
    /\ signal' = [Cleared(signal) EXCEPT !.destroyed = TRUE, !.ready_state = FALSE]
    /\ waiter' = WokenAll(waiter, waiters, "destroyed")
    /\ waiters' = << >> /\ waiting_tasks' = 0
    /\ IF listeners.head # NoListener
       THEN BeginWalk(t, Call("destroy"), FALSE) /\ UNCHANGED listeners
       ELSE Return(t) /\ listeners' = [listeners EXCEPT !.count = 0]
    /\ UNCHANGED told

-----------------------------------------------------------------------------
(* The callback of the listener the walk is at, outside the lock.          *)
Callback(t) ==
    /\ pc[t] = "callback"
    /\ told' = [told EXCEPT ![walk[t].now] = walk[t].ready]
    /\ Goto(t, "renotify")
    /\ UNCHANGED <<signal, queueVars, listeners, op, wait_result, walk>>

(* The lock again, and the listener that came next when it was dropped.    *)
Renotify(t) ==
    /\ pc[t] = "renotify" /\ walk[t].next # NoListener
    /\ walk' = [walk EXCEPT ![t] = WalkTo(listeners, walk[t].next, walk[t].ready)]
    /\ Goto(t, "callback")
    /\ UNCHANGED <<signal, queueVars, listeners, told, op, wait_result>>

(* The end of the walk, and of the call.                                   *)
EndWalk(t) ==
    /\ pc[t] = "renotify" /\ walk[t].next = NoListener
    /\ Return(t)
    /\ IF op[t].kind = "set" THEN WakeOne /\ UNCHANGED listeners
       ELSE IF op[t].kind = "destroy"
       THEN /\ listeners' = [listeners EXCEPT !.head = NoListener, !.count = 0]
            /\ waiters' = << >>
            /\ UNCHANGED <<waiting_tasks, waiter>>
       ELSE UNCHANGED <<queueVars, listeners>>
    /\ UNCHANGED <<signal, told>>

(* A listener subscribes, even to a signal that is destroyed. The callback *)
(* with the readiness found comes after the critical section. (A listener  *)
(* that is subscribed does not subscribe again.)                           *)
SubscribeListener(t) ==
    /\ pc[t] = "idle" /\ "subscribe" \in Kinds /\ signal.created
    /\ listeners.count < MaxListeners
    /\ \E l \in Listener \ Subscribed(listeners) :
        /\ listeners' = Subscribe(listeners, l)
        /\ walk' = [walk EXCEPT ![t] =
                [now |-> l, next |-> NoListener, ready |-> IsReady(signal)]]
    /\ op' = [op EXCEPT ![t] = Call("subscribe")]
    /\ Goto(t, "callback")
    /\ UNCHANGED <<signal, queueVars, told, wait_result>>

UnsubscribeListener(t) ==
    /\ pc[t] = "idle" /\ "unsubscribe" \in Kinds
    /\ \E l \in Subscribed(listeners) : listeners' = Unsubscribe(listeners, l)
    /\ UNCHANGED <<signal, queueVars, told, taskVars>>

Init ==
    /\ \E m \in Modes :
        signal = [created |-> FALSE, destroyed |-> FALSE, mode |-> m, counter |-> 0,
                  pending |-> FALSE, ready_state |-> FALSE]
    /\ waiters = << >> /\ waiting_tasks = 0
    /\ listeners = NoListeners(Listener)
    /\ told = [l \in Listener |-> FALSE]
    /\ pc = [t \in Task |-> "idle"]
    /\ op = [t \in Task |-> NoOp]
    /\ waiter = [t \in Task |-> NoWaiter]
    /\ wait_result = [t \in Task |-> "ok"]
    /\ walk = [t \in Task |-> NoWalk]

(* A task may call...                                                      *)
Begin(t) ==
    \/ Create(t) \/ Set(t) \/ Clear(t) \/ Take(t) \/ Park(t) \/ Destroy(t)
    \/ SubscribeListener(t) \/ UnsubscribeListener(t)

(* ... and, once in a call, goes on with it.                               *)
Step(t) ==
    \/ BlockTaken(t) \/ BlockTimeout(t) \/ WokenTakes(t) \/ WokenInVain(t)
    \/ WaitEnds(t) \/ Callback(t) \/ Renotify(t) \/ EndWalk(t)

Next == \E t \in Task : Begin(t) \/ Step(t)

Spec == Init /\ [][Next]_vars

(* The scheduler runs every ready task, and deadlines pass.                *)
FairSpec == Spec /\ \A t \in Task : WF_vars(Step(t))

-----------------------------------------------------------------------------
(* Properties.                                                             *)

(* Every variable has its type; ready_state is up to date whenever the     *)
(* lock is free.                                                           *)
TypeOK ==
    /\ signal.ready_state = IsReady(signal)
    /\ signal \in [created : BOOLEAN, destroyed : BOOLEAN, mode : Modes,
                   counter : 0 .. MaxCounter, pending : BOOLEAN, ready_state : BOOLEAN]
    /\ waiters \in Seq(Task) /\ waiting_tasks \in Nat
    /\ listeners \in ListenerList(Listener)
    /\ told \in [Listener -> BOOLEAN]
    /\ pc \in [Task -> {"idle", "wait", "relock", "callback", "renotify"}]
    /\ op \in [Task -> [kind : {"none", "set", "clear", "wait", "subscribe", "destroy"},
                        timeout : Timeouts \cup {"none"}]]
    /\ waiter \in [Task -> Waiter]
    /\ wait_result \in [Task -> WaitResult]
    /\ walk \in [Task -> Walk(Listener)]

(* A task that waits can be woken: it is in the queue once, or has been    *)
(* given its semaphore; and the object's count of waiting tasks is the     *)
(* length of the queue, though a waiter leaves it in four ways.            *)
WaitersCounted ==
    /\ waiting_tasks = Len(waiters) /\ IsInjective(waiters)
    /\ \A t \in Task :
        /\ waiter[t].enqueued <=> Contains(waiters, t)
        /\ pc[t] = "wait" => waiter[t].enqueued \/ waiter[t].given

Woke == {t \in Task : \/ pc[t] = "wait" /\ waiter[t].given /\ waiter[t].result = "ok"
                      \/ pc[t] = "relock" /\ wait_result[t] = "ok"}

Setting == {t \in Task : op[t].kind = "set"}

(* No indication lies beside a task that waits without somebody on the way *)
(* to fetch it, although a set leaves the critical section between its     *)
(* indication and its wake. (For tasks that wait forever.)                 *)
NoLostWakeup ==
    waiters # << >> =>
        (IF signal.mode = "counting" THEN signal.counter ELSE IF signal.pending THEN 1 ELSE 0)
            <= Cardinality(Woke \cup Setting)

(* Once the calls are done, every listener has been told the readiness the *)
(* signal has. (For one task at a time: the walks of two tasks overtake    *)
(* each other.)                                                            *)
ListenersCurrent ==
    (\A t \in Task : pc[t] \in {"idle", "wait"}) =>
        \A l \in Subscribed(listeners) : told[l] = IsReady(signal)

(* A task waits although the signal is ready, or destroyed.               *)
Lingers(t) == pc[t] = "wait" /\ (signal.destroyed \/ IsReady(signal))

(* "Wait indefinitely until the signal becomes ready" (ipc_signal_wait):   *)
(* no task lingers for ever.                                               *)
WaiterWakes == \A t \in Task : Lingers(t) ~> ~Lingers(t)
=============================================================================
