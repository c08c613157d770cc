---------------------------- MODULE IpcEventFlags ----------------------------
(***************************************************************************)
(* The event flags of ipc_event_flags.c: one slot of g_event_flags, the    *)
(* tasks that set, clear and wait for bits, and the listeners that are     *)
(* told whether any bit is set.                                            *)
(*                                                                         *)
(* What runs between portENTER_CRITICAL and portEXIT_CRITICAL is one step. *)
(* ipc_event_flags_notify_waitsets leaves the critical section for every   *)
(* callback. Unlike a signal, a set serves the waiters itself, and bits    *)
(* that clear themselves are taken from the mask for the task that is      *)
(* woken, which does not look again. A callback does not call in here.     *)
(*                                                                         *)
(* The slot is allocated once (bound), and a call that changes nothing is  *)
(* no step. A mask is the set of its bits.                                 *)
(***************************************************************************)
EXTENDS IpcWaitset

CONSTANTS
    Bits,           \* the bits of a mask
    Modes,          \* "auto_clear", "manual_clear"
    MaskModes,      \* "exact", "superset"
    Changes,        \* the masks tasks set and clear
    Wanted,         \* the masks they wait for
    WaitTypes,      \* "any", "all", "mask"
    Timeouts,       \* how they wait: "zero", "finite", "forever"
    Kinds           \* what they call

(* What the constants are.                                                 *)
Configured ==
    /\ IsFiniteSet(Bits)
    /\ Modes \subseteq {"auto_clear", "manual_clear"}
    /\ MaskModes \subseteq {"exact", "superset"}
    /\ Changes \cup Wanted \subseteq (SUBSET Bits) \ {{}}
    /\ WaitTypes \subseteq {"any", "all", "mask"}
    /\ Timeouts \subseteq {"zero", "finite", "forever"}
    /\ Kinds \subseteq {"set", "clear", "try_wait", "wait", "subscribe",
                        "unsubscribe", "destroy"}

VARIABLES
    \* ipc_event_flags_t: mode, mask_mode, mask, ready_state,
    \* header.destroyed, and created, whether the slot has been allocated
    flags,
    \* its wait queue and header.waiting_tasks, its listeners
    waiters, waiting_tasks, listeners,
    \* what the callback of each listener was told last
    told,
    \* each task's place in its call, the call, its waiter on the stack, what
    \* ipc_waiter_block returned, its walk through the listeners
    pc, op, waiter, wait_result, walk

queueVars == <<waiters, waiting_tasks, waiter>>
taskVars  == <<pc, op, wait_result, walk>>
vars      == <<flags, queueVars, listeners, told, taskVars>>

Predicate == [type : WaitTypes, mask : Wanted]
NoPredicate == [type |-> "none", mask |-> {}]
NoOp == [kind |-> "none", timeout |-> "none", want |-> NoPredicate]

(* ipc_event_flags_mask_satisfied.                                         *)
Satisfied(f, want) ==
    CASE want.type = "any" -> f.mask \cap want.mask # {}
      [] want.type = "mask" /\ f.mask_mode = "exact" -> f.mask = want.mask
      [] OTHER -> want.mask \subseteq f.mask

(* The bits it reports as matched.                                         *)
Matched(f, want) == IF want.type = "any" THEN f.mask \cap want.mask ELSE want.mask

(* ipc_event_flags_apply_auto_clear.                                       *)
AutoCleared(f, consumed) ==
    IF f.mode = "auto_clear" THEN [f EXCEPT !.mask = @ \ consumed] ELSE f

IsReady(f) == f.mask # {}

(* Mutant: the end of the readiness is not noticed.                        *)
UpdatedRising(f) == [f EXCEPT !.ready_state = @ \/ IsReady(f)]

(* What ipc_event_flags_update_ready_locked writes.                        *)
Updated(f) == [f EXCEPT !.ready_state = IsReady(f)]

(* Mutant: every waiter is shown the mask as the set left it.              *)
ServiceUntouched(f) ==
    [flags  |-> f,
     served |-> {t \in Task : Contains(waiters, t) /\ Satisfied(f, op[t].want)},
     left   |-> SelectSeq(waiters, LAMBDA t : ~Satisfied(f, op[t].want))]

(* One turn of ipc_event_flags_service_waiters_locked, on what the turns   *)
(* before it made of the flags, whom they served and whom they left: a     *)
(* waiter whose predicate the mask satisfies, as it is by then, is         *)
(* removed, takes its bits and is woken.                                   *)
Serve(so_far, t) ==
    LET want == op[t].want IN
    IF Satisfied(so_far.flags, want)
    THEN [flags  |-> AutoCleared(so_far.flags, Matched(so_far.flags, want)),
          served |-> so_far.served \cup {t},
          left   |-> so_far.left]
    ELSE [so_far EXCEPT !.left = Append(@, t)]

(* All of it, from the head of the queue on.                               *)
Service(f) ==
    LET passed[k \in 0 .. Len(waiters)] ==
            IF k = 0 THEN [flags |-> f, served |-> {}, left |-> << >>]
            ELSE Serve(passed[k - 1], waiters[k])
    IN  passed[Len(waiters)]

-----------------------------------------------------------------------------
Goto(t, l) == pc' = [pc EXCEPT ![t] = l]

Return(t) ==
    /\ Goto(t, "idle")
    /\ op' = [op EXCEPT ![t] = NoOp]
    /\ wait_result' = [wait_result EXCEPT ![t] = "ok"]
    /\ walk' = [walk EXCEPT ![t] = NoWalk]

(* ipc_event_flags_notify_waitsets up to the first callback.               *)
BeginWalk(t, k, ready) ==
    /\ walk' = [walk EXCEPT ![t] = WalkTo(listeners, listeners.head, ready)]
    /\ op' = [op EXCEPT ![t] = [NoOp EXCEPT !.kind = k]]
    /\ Goto(t, "callback")
    /\ UNCHANGED wait_result

(* The readiness is not the one the listeners were told, and there are     *)
(* some.                                                                   *)
Tells(f) == IsReady(f) # f.ready_state /\ listeners.head # NoListener

(* ipc_event_flags_update_ready_locked on what the flags have become, as   *)
(* the last thing a call does before it returns.                           *)
UpdateReady(t, k, f) ==
    /\ flags' = Updated(f)
    /\ IF Tells(f) THEN BeginWalk(t, k, IsReady(f)) ELSE Return(t)

Starts(t, k) == pc[t] = "idle" /\ k \in Kinds /\ flags.created /\ ~flags.destroyed

Create(t) ==
    /\ pc[t] = "idle" /\ ~flags.created
    /\ \E m \in Modes, mm \in MaskModes :
        flags' = [flags EXCEPT !.created = TRUE, !.mode = m, !.mask_mode = mm]
    /\ UNCHANGED <<queueVars, listeners, told, taskVars>>

(* The second half of a set, on the flags f: the waiters, and the          *)
(* readiness that is left.                                                 *)
ServeAndReturn(t, f) ==
    LET s == Service(f) IN
    /\ waiter' = [u \in Task |-> IF u \in s.served THEN Woken(waiter[u], "ok") ELSE waiter[u]]
    /\ waiters' = s.left
    /\ waiting_tasks' = waiting_tasks - Cardinality(s.served)
    /\ UpdateReady(t, "served", s.flags)

(* ipc_event_flags_set, to its first walk or to its end.                   *)
Set(t) ==
    /\ Starts(t, "set")
    /\ \E bits \in Changes :
        LET f == [flags EXCEPT !.mask = @ \cup bits] IN
        IF Tells(f)
        THEN flags' = Updated(f) /\ BeginWalk(t, "set", TRUE) /\ UNCHANGED queueVars
        ELSE ServeAndReturn(t, Updated(f))
    /\ UNCHANGED <<listeners, told>>

(* ipc_event_flags_clear serves nobody.                                    *)
Clear(t) ==
    /\ Starts(t, "clear")
    /\ \E bits \in Changes : UpdateReady(t, "clear", [flags EXCEPT !.mask = @ \ bits])
    /\ UNCHANGED <<queueVars, listeners, told>>

(* ipc_event_flags_try_wait, and ipc_event_flags_wait_internal, find what  *)
(* they want.                                                              *)
Take(t) ==
    /\ Starts(t, "try_wait") \/ Starts(t, "wait")
    /\ \E want \in Predicate :
        /\ Satisfied(flags, want)
        /\ UpdateReady(t, "wait", AutoCleared(flags, Matched(flags, want)))
    /\ UNCHANGED <<queueVars, listeners, told>>

Park(t) ==
    /\ Starts(t, "wait")
    /\ \E want \in Predicate, m \in Timeouts :
        /\ ~Satisfied(flags, want)
        /\ op' = [op EXCEPT ![t] = [kind |-> "wait", timeout |-> m, want |-> want]]
    /\ waiters' = Append(waiters, t)
    /\ waiter' = [waiter EXCEPT ![t] = PreparedWaiter]
    /\ waiting_tasks' = waiting_tasks + 1
    /\ Goto(t, "wait")
    /\ UNCHANGED <<flags, listeners, told, wait_result, walk>>

(* ipc_waiter_block or ipc_waiter_timed_block ends with the semaphore...   *)
BlockTaken(t) ==
    /\ pc[t] = "wait" /\ op[t].timeout # "zero" /\ waiter[t].given
    /\ wait_result' = [wait_result EXCEPT ![t] = waiter[t].result]
    /\ waiter' = [waiter EXCEPT ![t] = NoWaiter]
    /\ Goto(t, "relock")
    /\ UNCHANGED <<flags, waiters, waiting_tasks, listeners, told, op, walk>>

(* ... or at the deadline; a timeout of 0 does not block at all.           *)
BlockTimeout(t) ==
    /\ pc[t] = "wait" /\ op[t].timeout # "forever"
    /\ op[t].timeout = "finite" => ~waiter[t].given
    /\ wait_result' = [wait_result EXCEPT ![t] = "timeout"]
    /\ waiter' = [waiter EXCEPT ![t] = IF op[t].timeout = "zero" THEN @ ELSE TimedOut(@)]
    /\ Goto(t, "relock")
    /\ UNCHANGED <<flags, waiters, waiting_tasks, listeners, told, op, walk>>

(* The task has the lock again. A waiter still in the queue leaves it; one *)
(* that was woken does not look at the mask again: its bits were taken for *)
(* it. (It returns what the wait returned, or IPC_ERR_OBJECT_DESTROYED if  *)
(* that has happened since.)                                               *)
WaitEnds(t) ==
    /\ pc[t] = "relock"
    /\ IF waiter[t].enqueued
       THEN /\ waiters' \in Unlinked(waiters, t)
            /\ waiting_tasks' = Decrement(waiting_tasks)
       ELSE UNCHANGED <<waiters, waiting_tasks>>
    /\ waiter' = [waiter EXCEPT ![t] = NoWaiter]
    /\ IF wait_result[t] = "destroyed" \/ (wait_result[t] = "ok" /\ flags.destroyed)
       THEN Return(t) /\ UNCHANGED flags
       ELSE UpdateReady(t, "wait", flags)
    /\ UNCHANGED <<listeners, told>>

(* ipc_event_flags_destroy, up to its walk or the end of its critical      *)
(* section. (waitset_listeners keeps its count.)                           *)
Destroy(t) ==
    /\ Starts(t, "destroy")
    /\ flags' = [flags EXCEPT !.destroyed = TRUE, !.mask = {}, !.ready_state = FALSE]
    /\ waiter' = WokenAll(waiter, waiters, "destroyed")
    /\ waiters' = << >> /\ waiting_tasks' = 0
    /\ IF listeners.head # NoListener THEN BeginWalk(t, "destroy", FALSE) ELSE Return(t)
    /\ UNCHANGED <<listeners, told>>

-----------------------------------------------------------------------------
(* The callback of the listener the walk is at, outside the lock.          *)
Callback(t) ==
    /\ pc[t] = "callback"
    /\ told' = [told EXCEPT ![walk[t].now] = walk[t].ready]
    /\ Goto(t, "renotify")
    /\ UNCHANGED <<flags, queueVars, listeners, op, wait_result, walk>>

(* The lock again, and the listener that came next when it was dropped.    *)
Renotify(t) ==
    /\ pc[t] = "renotify" /\ walk[t].next # NoListener
    /\ walk' = [walk EXCEPT ![t] = WalkTo(listeners, walk[t].next, walk[t].ready)]
    /\ Goto(t, "callback")
    /\ UNCHANGED <<flags, queueVars, listeners, told, op, wait_result>>

WalkEnds(t) == pc[t] = "renotify" /\ walk[t].next = NoListener

(* Mutant: a set that has told the listeners forgets the waiters.          *)
SetGoesOnUnserved(t) ==
    /\ WalkEnds(t) /\ op[t].kind = "set"
    /\ UpdateReady(t, "served", flags)
    /\ UNCHANGED <<queueVars, listeners, told>>

(* A set goes on with the waiters.                                         *)
SetGoesOn(t) ==
    /\ WalkEnds(t) /\ op[t].kind = "set"
    /\ ServeAndReturn(t, flags)
    /\ UNCHANGED <<listeners, told>>

DestroyGoesOn(t) ==
    /\ WalkEnds(t) /\ op[t].kind = "destroy"
    /\ waiters' = << >>
    /\ listeners' = [listeners EXCEPT !.head = NoListener]
    /\ Return(t)
    /\ UNCHANGED <<flags, waiting_tasks, waiter, told>>

OthersReturn(t) ==
    /\ WalkEnds(t) /\ op[t].kind \notin {"set", "destroy"}
    /\ Return(t)
    /\ UNCHANGED <<flags, queueVars, listeners, told>>

(* A listener subscribes, even to flags that are destroyed. The callback   *)
(* with the readiness found comes after the critical section. (A listener  *)
(* that is subscribed does not subscribe again.)                           *)
SubscribeListener(t) ==
    /\ pc[t] = "idle" /\ "subscribe" \in Kinds /\ flags.created
    /\ listeners.count < MaxListeners
    /\ \E l \in Listener \ Subscribed(listeners) :
        /\ listeners' = Subscribe(listeners, l)
        /\ walk' = [walk EXCEPT ![t] =
                [now |-> l, next |-> NoListener, ready |-> IsReady(flags)]]
    /\ op' = [op EXCEPT ![t].kind = "subscribe"]
    /\ Goto(t, "callback")
    /\ UNCHANGED <<flags, queueVars, told, wait_result>>

UnsubscribeListener(t) ==
    /\ pc[t] = "idle" /\ "unsubscribe" \in Kinds
    /\ \E l \in Subscribed(listeners) : listeners' = Unsubscribe(listeners, l)
    /\ UNCHANGED <<flags, queueVars, told, taskVars>>

Init ==
    /\ \E m \in Modes, mm \in MaskModes :
        flags = [created |-> FALSE, destroyed |-> FALSE, mode |-> m, mask_mode |-> mm,
                 mask |-> {}, ready_state |-> FALSE]
    /\ waiters = << >> /\ waiting_tasks = 0
    /\ listeners = NoListeners(Listener)
    /\ told = [l \in Listener |-> FALSE]
    /\ pc = [t \in Task |-> "idle"]
    /\ op = [t \in Task |-> NoOp]
    /\ waiter = [t \in Task |-> NoWaiter]
    /\ wait_result = [t \in Task |-> "ok"]
    /\ walk = [t \in Task |-> NoWalk]

(* A task may call...                                                      *)
Begin(t) ==
    \/ Create(t) \/ Set(t) \/ Clear(t) \/ Take(t) \/ Park(t) \/ Destroy(t)
    \/ SubscribeListener(t) \/ UnsubscribeListener(t)

(* ... and, once in a call, goes on with it.                               *)
Step(t) ==
    \/ BlockTaken(t) \/ BlockTimeout(t) \/ WaitEnds(t) \/ Callback(t) \/ Renotify(t)
    \/ SetGoesOn(t) \/ DestroyGoesOn(t) \/ OthersReturn(t)

Next == \E t \in Task : Begin(t) \/ Step(t)

Spec == Init /\ [][Next]_vars

(* The scheduler runs every ready task, and deadlines pass.                *)
FairSpec == Spec /\ \A t \in Task : WF_vars(Step(t))

-----------------------------------------------------------------------------
(* Properties.                                                             *)

(* Every variable has its type; ready_state is up to date whenever the     *)
(* lock is free.                                                           *)
TypeOK ==
    /\ flags.ready_state = IsReady(flags)
    /\ flags \in [created : BOOLEAN, destroyed : BOOLEAN, mode : Modes,
                  mask_mode : MaskModes, mask : SUBSET Bits, ready_state : BOOLEAN]
    /\ waiters \in Seq(Task) /\ waiting_tasks \in Nat
    /\ listeners \in ListenerList(Listener)
    /\ told \in [Listener -> BOOLEAN]
    /\ pc \in [Task -> {"idle", "wait", "relock", "callback", "renotify"}]
    /\ op \in [Task -> [kind : {"none", "set", "served", "clear", "wait", "subscribe",
                                "destroy"},
                        timeout : Timeouts \cup {"none"}, want : Predicate \cup {NoPredicate}]]
    /\ waiter \in [Task -> Waiter]
    /\ wait_result \in [Task -> WaitResult]
    /\ walk \in [Task -> Walk(Listener)]

(* A task that waits can be woken, and is counted while it is in the queue.*)
WaitersCounted ==
    /\ waiting_tasks = Len(waiters) /\ IsInjective(waiters)
    /\ \A t \in Task :
        /\ waiter[t].enqueued <=> Contains(waiters, t)
        /\ pc[t] = "wait" => waiter[t].enqueued \/ waiter[t].given

(* A set that has still to serve the waiters: its listeners come first.    *)
Serving == \E t \in Task : op[t].kind = "set"

(* Nobody stays in the queue whose bits are there, unless a set is on its  *)
(* way to him: the bits others take, or leave, or clear, do not hide them. *)
(* (Exact masks, which a clear can satisfy, excepted.)                     *)
SatisfiedServed ==
    \A t \in Task :
        waiter[t].enqueued /\ Satisfied(flags, op[t].want) =>
            \/ Serving
            \/ op[t].want.type = "mask" /\ flags.mask_mode = "exact"

WantsWhole(t) == op[t].want.type # "any" \/ Cardinality(op[t].want.mask) = 1

(* A bit that clears itself wakes one task: two that are served in one     *)
(* step, and each need all the bits they named, named no bit in common.    *)
ServesOne ==
    flags.mode = "auto_clear" =>
        \A t, u \in {v \in Task : waiter[v].enqueued /\ ~waiter'[v].enqueued
                                     /\ waiter'[v].result = "ok"} :
            t # u /\ WantsWhole(t) /\ WantsWhole(u) =>
                op[t].want.mask \cap op[u].want.mask = {}

BitServesOne == [][ServesOne]_vars

(* Once the calls are done, every listener has been told the readiness the *)
(* flags have. (For one task at a time, as with signals.)                  *)
ListenersCurrent ==
    (\A t \in Task : pc[t] \in {"idle", "wait"}) =>
        \A l \in Subscribed(listeners) : told[l] = IsReady(flags)

(* "Stops future callbacks for the provided listener" (ipc_event_flags.h   *)
(* of the unsubscription): who is told of a change is subscribed.          *)
CallbackSubscribed ==
    \A t \in Task :
        pc[t] = "callback" /\ pc'[t] = "renotify" /\ op[t].kind # "subscribe"
            => walk[t].now \in Subscribed(listeners)

CallbacksSubscribed == [][CallbackSubscribed]_vars

(* A task waits although the flags are destroyed, or are as it wants them  *)
(* (and no exact mask, which a clear can bring about).                     *)
Lingers(t) ==
    /\ pc[t] = "wait"
    /\ \/ flags.destroyed
       \/ /\ waiter[t].enqueued /\ Satisfied(flags, op[t].want)
          /\ ~(op[t].want.type = "mask" /\ flags.mask_mode = "exact")

(* No task lingers for ever.                                               *)
WaiterWakes == \A t \in Task : Lingers(t) ~> ~Lingers(t)
=============================================================================
