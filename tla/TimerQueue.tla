------------------------------ MODULE TimerQueue -----------------------------
(***************************************************************************)
(* The queue of timers (kernel/core/timer/m_timer_queue.c): entries sorted *)
(* by their deadlines behind a mutex.  A client schedules a timer and gets *)
(* the entry, with which it may cancel it; whoever processes the queue     *)
(* reads the clock and then takes out one expired entry after the other,   *)
(* calls it back without the mutex, and frees it.  A callback may schedule *)
(* and cancel timers, its own among them.                                  *)
(*                                                                         *)
(* What is done under the mutex is one step. A timer is named by its       *)
(* entry, whose memory is not used again (bound); infinite deadlines come  *)
(* after all others and never expire.                                      *)
(***************************************************************************)
EXTENDS Integers, Sequences, SequencesExt

CONSTANTS
    Task,           \* who schedules, cancels and processes
    Timer, NoTimer,
    Deadlines,      \* the finite deadlines that are asked for
    MaxTime         \* bound: the clock stops here

VARIABLES
    clock,          \* esp_timer_get_time
    queue,          \* g_timer_queue_head and what follows
    deadline,       \* timer -> its deadline, 0 before it is scheduled
    memory,         \* timer -> "none", "live" or "freed"
    order,          \* the timers in the order they were scheduled in
    now,            \* task -> the time it processes the queue for, or NotNow
    ready,          \* task -> the timer it has taken out
    pc,             \* task -> "idle" outside m_timer_queue_process
    calls,          \* the timers called back, in order
    withdrawn       \* the timers whose cancellation was reported

vars == <<clock, queue, deadline, memory, order, now, ready, pc, calls, withdrawn>>

NotNow   == -1
Infinite == MaxTime + 1

(* No deadline is later than the clock can go, and NULL is no timer.       *)
Configured ==
    MaxTime \in Nat /\ Deadlines \subseteq 0 .. MaxTime /\ NoTimer \notin Timer

Goto(t, where) == pc' = [pc EXCEPT ![t] = where]

Init ==
    /\ clock = 0 /\ queue = << >> /\ order = << >>
    /\ deadline = [e \in Timer |-> 0]
    /\ memory = [e \in Timer |-> "none"]
    /\ now = [t \in Task |-> NotNow]
    /\ ready = [t \in Task |-> NoTimer]
    /\ pc = [t \in Task |-> "idle"]
    /\ calls = << >> /\ withdrawn = {}

-----------------------------------------------------------------------------
(* m_timer_deadline_compare is negative: d belongs before c.               *)
Before(d, c) == d # Infinite /\ d < c

(* Mutant: a timer overtakes the others of its deadline.                   *)
InsertedFirst(e, d) ==
    LET later == {i \in DOMAIN queue : ~Before(deadline[queue[i]], d)}
    IN  IF later = {} THEN Append(queue, e) ELSE InsertAt(queue, Min(later), e)

(* m_timer_queue_insert_entry: before the first that is later.             *)
Inserted(e, d) ==
    LET later == {i \in DOMAIN queue : Before(d, deadline[queue[i]])}
    IN  IF later = {} THEN Append(queue, e) ELSE InsertAt(queue, Min(later), e)

(* A task that can call: it is between calls, or in a callback.            *)
Calling(t) == pc[t] \in {"idle", "callback"}

Schedule(t, e, d) ==
    /\ Calling(t) /\ memory[e] = "none"
    /\ memory' = [memory EXCEPT ![e] = "live"]
    /\ deadline' = [deadline EXCEPT ![e] = d]
    /\ queue' = Inserted(e, d)
    /\ order' = Append(order, e)
    /\ UNCHANGED <<clock, now, ready, pc, calls, withdrawn>>

(* m_timer_queue_cancel: only a timer that is in the queue is taken out    *)
(* and freed; of any other it says so.                                     *)
Cancel(t, e) ==
    /\ Calling(t)
    /\ \E i \in DOMAIN queue : queue[i] = e /\ queue' = RemoveAt(queue, i)
    /\ memory' = [memory EXCEPT ![e] = "freed"]
    /\ withdrawn' = withdrawn \cup {e}
    /\ UNCHANGED <<clock, deadline, order, now, ready, pc, calls>>

(* m_timer_queue_process, for the time the caller has read.                *)
Process(t) ==
    /\ pc[t] = "idle"
    /\ now' = [now EXCEPT ![t] = clock]
    /\ Goto(t, "take")
    /\ UNCHANGED <<clock, queue, deadline, memory, order, ready, calls, withdrawn>>

(* m_timer_deadline_expired of the head.                                   *)
Expired(t) == queue # << >> /\ deadline[Head(queue)] <= now[t]

TakeReady(t) ==
    /\ pc[t] = "take" /\ Expired(t)
    /\ ready' = [ready EXCEPT ![t] = Head(queue)]
    /\ queue' = Tail(queue)
    /\ Goto(t, "call")
    /\ UNCHANGED <<clock, deadline, memory, order, now, calls, withdrawn>>

TakeNone(t) ==
    /\ pc[t] = "take" /\ ~Expired(t)
    /\ now' = [now EXCEPT ![t] = NotNow]
    /\ Goto(t, "idle")
    /\ UNCHANGED <<clock, queue, deadline, memory, order, ready, calls, withdrawn>>

Callback(t) ==
    /\ pc[t] = "call"
    /\ calls' = Append(calls, ready[t])
    /\ Goto(t, "callback")
    /\ UNCHANGED <<clock, queue, deadline, memory, order, now, ready, withdrawn>>

FreeReady(t) ==
    /\ pc[t] = "callback"
    /\ memory' = [memory EXCEPT ![ready[t]] = "freed"]
    /\ ready' = [ready EXCEPT ![t] = NoTimer]
    /\ Goto(t, "take")
    /\ UNCHANGED <<clock, queue, deadline, order, now, calls, withdrawn>>

Tick ==
    /\ clock < MaxTime
    /\ clock' = clock + 1
    /\ UNCHANGED <<queue, deadline, memory, order, now, ready, pc, calls, withdrawn>>

Next ==
    \/ Tick
    \/ \E t \in Task :
          \/ \E e \in Timer :
                \/ \E d \in Deadlines \cup {Infinite} : Schedule(t, e, d)
                \/ Cancel(t, e)
          \/ Process(t) \/ TakeReady(t) \/ TakeNone(t) \/ Callback(t) \/ FreeReady(t)

Spec == Init /\ [][Next]_vars

-----------------------------------------------------------------------------
(* Every variable has its type.                                            *)
TypeOK ==
    /\ clock \in 0 .. MaxTime /\ queue \in Seq(Timer) /\ order \in Seq(Timer)
    /\ deadline \in [Timer -> Deadlines \cup {0, Infinite}]
    /\ memory \in [Timer -> {"none", "live", "freed"}]
    /\ now \in [Task -> {NotNow} \cup 0 .. MaxTime]
    /\ ready \in [Task -> Timer \cup {NoTimer}]
    /\ pc \in [Task -> {"idle", "take", "call", "callback"}]
    /\ calls \in Seq(Timer) /\ withdrawn \subseteq Timer

Place(s, e) == CHOOSE i \in DOMAIN s : s[i] = e

(* A timer that was scheduled is in the queue, or is being called back, or *)
(* has been called back or cancelled: one of them, and once; only then is  *)
(* it freed.                                                               *)
OneEnd ==
    \A e \in Timer :
        LET taken == {t \in Task : ready[t] = e}
            ends  == {i \in DOMAIN calls : calls[i] = e}
        IN  /\ \A i, k \in ends : i = k
            /\ \A t, u \in taken : t = u
            /\ ~(ends # {} /\ e \in withdrawn)
            /\ Contains(queue, e) => ends = {} /\ taken = {} /\ e \notin withdrawn
            /\ memory[e] = "live" <=> Contains(queue, e) \/ taken # {}
            /\ memory[e] = "freed" <=> taken = {} /\ (ends # {} \/ e \in withdrawn)

(* A timer waits in the queue behind all that are due before it, and those *)
(* that are due with it and were scheduled first.                          *)
QueueOrdered ==
    \A i, k \in DOMAIN queue : i < k =>
        \/ Before(deadline[queue[i]], deadline[queue[k]])
        \/ /\ deadline[queue[i]] = deadline[queue[k]]
           /\ Place(order, queue[i]) < Place(order, queue[k])

(* No timer is called before it is due.                                    *)
CalledInTime == \A i \in DOMAIN calls : deadline[calls[i]] <= clock

(* Timers end once and in time, whoever processes the queue meanwhile.     *)
TimersSound == OneEnd /\ QueueOrdered /\ CalledInTime
=============================================================================
