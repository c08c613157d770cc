------------------------------ MODULE SchedSleep ------------------------------
(***************************************************************************)
(* Sleeping and timed waits: a relative timeout becomes a deadline on the  *)
(* monotonic clock (kernel/core/timer/m_timer_deadline.c), the deadline a  *)
(* number of scheduler ticks, and the task blocks for that many ticks      *)
(* (m_sched_sleep.c, m_sched_wait_block).  It can lose the processor       *)
(* between any two of these steps, and whenever it could run again.        *)
(*                                                                         *)
(* A sleep is a wait nobody wakes: its semaphore is on the sleeper's stack.*)
(***************************************************************************)
EXTENDS Integers

CONSTANTS
    Word,           \* a uint64_t counts microseconds 0 .. Word - 1
    Milli,          \* microseconds of a millisecond
    TickMs,         \* portTICK_PERIOD_MS
    MaxDelay,       \* portMAX_DELAY, the largest TickType_t
    Deltas,         \* the timeouts that are asked for
    MaxTime         \* bound: the clock stops here, long before a wait of
                    \* MaxDelay ticks would end at the end of the word

VARIABLES
    clock,          \* esp_timer_get_time
    pc,
    timeout, asked_at,  \* what was asked for, and when
    deadline,       \* its m_timer_deadline_t
    read_at,        \* when the clock was read to find the ticks
    ticks,          \* m_timer_deadline_to_ticks, and what is left of it
    took_at         \* when the task blocked

vars == <<clock, pc, timeout, asked_at, deadline, read_at, ticks, took_at>>

Forever == Word - 1
Tick    == Milli * TickMs

(* There are ticks, and none of the timeouts that a TickType_t can hold    *)
(* leads from a time the clock shows to the end of the word.               *)
Configured ==
    /\ {Word, Milli, TickMs, MaxDelay, MaxTime} \subseteq Nat
    /\ Milli > 0 /\ TickMs > 0 /\ MaxDelay > 1 /\ Deltas \subseteq 0 .. Forever
    /\ MaxTime + MaxDelay * Tick < Word

NoDeadline == [target |-> 0, infinite |-> FALSE]

Init ==
    /\ clock = 0 /\ pc = "idle" /\ deadline = NoDeadline
    /\ timeout = 0 /\ asked_at = 0 /\ read_at = 0 /\ took_at = 0 /\ ticks = 0

-----------------------------------------------------------------------------
(* m_timer_deadline_from_relative: the sum wraps.                          *)
FromRelative(delta) ==
    IF delta = Forever THEN [target |-> 0, infinite |-> TRUE]
                       ELSE [target |-> (clock + delta) % Word, infinite |-> FALSE]

(* Mutant: part of a tick is no tick.                                      *)
DeltaToTicksDown(delta) ==
    IF delta = Forever THEN MaxDelay ELSE (delta \div Milli) \div TickMs

(* m_timer_delta_to_ticks: both divisions round up, after a sum that wraps.*)
DeltaToTicks(delta) ==
    LET ms == ((delta + Milli - 1) % Word) \div Milli
        n  == (ms + TickMs - 1) \div TickMs
    IN  CASE delta = Forever -> MaxDelay
          [] n = 0           -> 1
          [] n >= MaxDelay   -> MaxDelay - 1
          [] OTHER           -> n

(* m_timer_deadline_delta_us                                               *)
Remaining == IF deadline.target <= clock THEN 0 ELSE deadline.target - clock

-----------------------------------------------------------------------------
(* m_sched_sleep_ms, or a call that waits with a timeout.                  *)
Sleep(delta) ==
    /\ pc = "idle"
    /\ timeout' = delta /\ asked_at' = clock
    /\ deadline' = FromRelative(delta)
    /\ pc' = "to_ticks"
    /\ UNCHANGED <<clock, read_at, ticks, took_at>>

(* m_timer_deadline_to_ticks                                               *)
ToTicks ==
    /\ pc = "to_ticks"
    /\ read_at' = clock
    /\ ticks' = IF deadline.infinite THEN MaxDelay ELSE DeltaToTicks(Remaining)
    /\ pc' = "take"
    /\ UNCHANGED <<clock, timeout, asked_at, deadline, took_at>>

(* xSemaphoreTake                                                          *)
Take ==
    /\ pc = "take"
    /\ took_at' = clock
    /\ pc' = "blocked"
    /\ UNCHANGED <<clock, timeout, asked_at, deadline, read_at, ticks>>

(* Time passes.  The tick interrupt counts down what is left of a wait;    *)
(* one of portMAX_DELAY has no end.                                        *)
Pass ==
    /\ clock < MaxTime
    /\ clock' = clock + 1
    /\ ticks' = IF pc = "blocked" /\ (clock + 1) % Tick = 0 /\ ticks \in 1 .. MaxDelay - 1
                THEN ticks - 1 ELSE ticks
    /\ UNCHANGED <<pc, timeout, asked_at, deadline, read_at, took_at>>

(* The sleeper runs again, and what was on its stack is gone.              *)
Wake ==
    /\ pc = "blocked" /\ ticks = 0
    /\ pc' = "idle" /\ deadline' = NoDeadline
    /\ timeout' = 0 /\ asked_at' = 0 /\ read_at' = 0 /\ took_at' = 0
    /\ UNCHANGED <<clock, ticks>>

Next == (\E delta \in Deltas : Sleep(delta)) \/ ToTicks \/ Take \/ Pass \/ Wake

Spec == Init /\ [][Next]_vars

-----------------------------------------------------------------------------
(* Every variable has its type.                                            *)
TypeOK ==
    /\ {clock, asked_at, read_at, took_at} \subseteq 0 .. MaxTime
    /\ pc \in {"idle", "to_ticks", "take", "blocked"}
    /\ timeout \in Deltas \cup {0} /\ ticks \in 0 .. MaxDelay
    /\ deadline \in [target : 0 .. Word - 1, infinite : BOOLEAN]

(* The timeouts a TickType_t can hold: a longer one is cut short, and one  *)
(* near the end of the word wraps to the past.                             *)
Held == timeout <= (MaxDelay - 1) * Tick

Later(a, b) == IF a < b THEN b ELSE a

(* A sleep never ends a whole tick before its deadline (m_sched_tests.c    *)
(* asks of 15 ms that they are 10), and what keeps it a tick beyond it is  *)
(* the time the sleeper did not have the processor.                        *)
SleepsInTime ==
    pc = "blocked" /\ Held =>
        /\ ticks = 0 => clock + Tick > asked_at + timeout
        /\ clock >= Later(asked_at + timeout, read_at) + Tick + (took_at - read_at) => ticks = 0

(* Who waits without a timeout is never woken by the clock.                *)
ForeverIsForever == pc = "blocked" /\ timeout = Forever => ticks = MaxDelay

SleepsSound == SleepsInTime /\ ForeverIsForever
=============================================================================
