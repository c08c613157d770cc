------------------------------- MODULE MCJobs -------------------------------
(***************************************************************************)
(* The instances of MCJobPool for TLC, and beside them what a job owns and *)
(* what the scheduler and the timers do below it:                          *)
(*   heap    - the heap of one job, three pointers and one region;         *)
(*   context - a worker and a client share the contexts of two jobs;       *)
(*   users   - a worker and two clients share the context of one;          *)
(*   tasks   - two clients manage two tasks;                               *)
(*   timers  - two tasks process three timers;                             *)
(*   sleep   - one task sleeps, a tick being four units of time.           *)
(* Timers have the names of the jobs.  Clients are alike, and so are jobs, *)
(* in all instances that have them; those of JobContext have clients and   *)
(* jobs of their own (c1, c2, j1, j2), which name the managed tasks too.   *)
(***************************************************************************)
EXTENDS MCJobPool, TLC

CONSTANTS c1, c2, j1, j2, v1, v2, l1, l2, NoValue

VARIABLES
    at, jobs, call,                             \* pc, job and op of the modules below
    heap,                                       \* of RegionHeap, JobContext
    held, asked, moving, cancelled,             \* of RegionHeap
    handle, refs, ctx, slot, listeners, current, prev, running, walk,
    dying, finished, due, told,                 \* of JobContext
    metas, registry, next_id, sched_lock, exists, suspended, subject, given,
    halted,                                     \* of SchedRegistry
    clock, deadline,                            \* of TimerQueue, SchedSleep
    queue, memory, order, now, ready, calls, withdrawn,     \* of TimerQueue
    timeout, asked_at, read_at, ticks, took_at  \* of SchedSleep

Heap == INSTANCE RegionHeap WITH
    Place <- {1, 2, 3}, Header <- 2, RegionSize <- 14, MaxRegions <- 4,
    Bases <- {10}, Sizes <- {1, 2, 3, 5}, Word <- 64

Context == INSTANCE JobContext WITH
    Task <- {w1, c1}, Worker <- {w1}, Job <- {j1, j2}, Value <- {v1}, Listener <- {l1},
    pc <- at, job <- jobs, op <- call

Users == INSTANCE JobContext WITH
    Task <- {w1, c1, c2}, Worker <- {w1}, Job <- {j1}, Value <- {v1, v2},
    Listener <- {l1, l2}, pc <- at, job <- jobs, op <- call

Threads == INSTANCE SchedRegistry WITH
    Meta <- {j1, j2}, NoMeta <- NoJob, NoOne <- NoTask, Ids <- 3,
    pc <- at

Timers == INSTANCE TimerQueue WITH
    Task <- Client, Timer <- Job, NoTimer <- NoJob, Deadlines <- {1, 2}, MaxTime <- 2,
    pc <- at

Sleep == INSTANCE SchedSleep WITH
    Word <- 64, Milli <- 2, TickMs <- 2, MaxDelay <- 6,
    Deltas <- {0, 3, 4, 7, 21, 62, 63}, MaxTime <- 16, pc <- at

(* What JobsProofs assumes of the constants, of those chosen here.         *)
ASSUME JobsConfigured ==
    /\ Context!Configured /\ Users!Configured
    /\ Threads!Configured /\ Timers!Configured /\ Sleep!Configured
    /\ Heap!Configured

heapOnly    == <<held, asked, moving, cancelled>>
contextOnly == <<handle, refs, ctx, slot, listeners, current, prev, running, walk,
                 dying, finished, due, told, jobs, call>>
taskOnly    == <<metas, registry, next_id, sched_lock, exists, suspended, subject, given,
                 halted>>
timerOnly   == <<queue, memory, order, now, ready, calls, withdrawn>>
sleepOnly   == <<timeout, asked_at, read_at, ticks, took_at>>
below       == <<taskOnly, timerOnly, sleepOnly, clock, deadline>>
above       == <<vars, heap, heapOnly, contextOnly>>

noHeap == held = << >> /\ asked = << >> /\ moving = << >> /\ cancelled = FALSE
noContext ==
    /\ handle = << >> /\ refs = << >> /\ ctx = << >> /\ slot = << >>
    /\ listeners = << >> /\ current = << >> /\ prev = << >> /\ running = << >>
    /\ walk = << >> /\ dying = << >> /\ finished = << >> /\ due = << >> /\ told = << >>
    /\ jobs = << >> /\ call = << >>
noTask ==
    /\ metas = << >> /\ registry = << >> /\ next_id = 0 /\ sched_lock = NoTask
    /\ exists = {} /\ suspended = {} /\ subject = << >> /\ given = {} /\ halted = FALSE
noTimer ==
    /\ queue = << >> /\ memory = << >> /\ order = << >> /\ now = << >>
    /\ ready = << >> /\ calls = << >> /\ withdrawn = {}
noSleep == timeout = 0 /\ asked_at = 0 /\ read_at = 0 /\ ticks = 0 /\ took_at = 0
noTime  == noTimer /\ noSleep /\ clock = 0 /\ deadline = << >>
noAbove == noHeap /\ noContext /\ heap = << >>

(* In the other instances the job queue is not used: it stays as it was    *)
(* created.                                                                *)
JobsInit ==
    \/ /\ MCInit /\ noAbove /\ at = << >>
       /\ noTask /\ noTime
    \/ /\ instance = "heap" /\ Heap!Init /\ Init /\ noContext
       /\ at = << >> /\ noTask /\ noTime
    \/ instance = "context" /\ Context!Init /\ Init /\ noHeap /\ noTask /\ noTime
    \/ instance = "users" /\ Users!Init /\ Init /\ noHeap /\ noTask /\ noTime
    \/ instance = "tasks" /\ Threads!Init /\ Init /\ noAbove /\ noTime
    \/ instance = "timers" /\ Timers!Init /\ Init /\ noAbove /\ noTask /\ noSleep
    \/ instance = "sleep" /\ Sleep!Init /\ Init /\ noAbove /\ noTask /\ noTimer

JobsNext ==
    \/ MCNext /\ UNCHANGED <<heap, heapOnly, contextOnly, below, at>>
    \/ /\ instance = "heap" /\ Heap!Next
       /\ UNCHANGED <<vars, contextOnly, below, at, instance>>
    \/ /\ \/ instance = "context" /\ Context!Next
          \/ instance = "users" /\ Users!Next
       /\ UNCHANGED <<vars, heapOnly, below, instance>>
    \/ /\ instance = "tasks" /\ Threads!Next
       /\ UNCHANGED <<above, timerOnly, sleepOnly, clock, deadline, instance>>
    \/ /\ instance = "timers" /\ Timers!Next
       /\ UNCHANGED <<above, taskOnly, sleepOnly, instance>>
    \/ /\ instance = "sleep" /\ Sleep!Next
       /\ UNCHANGED <<above, taskOnly, timerOnly, instance>>

JobsSpec ==
    JobsInit /\ [][JobsNext]_<<vars, heap, heapOnly, contextOnly, below, at, instance>>

-----------------------------------------------------------------------------
(* Blocks, the free list and the pointers of the job agree.                *)
MCHeapSound == instance = "heap" => Heap!TypeOK /\ Heap!HeapSound

(* Contexts live as long as they are used, and end as they should.         *)
MCContextsSound ==
    /\ instance = "context" => Context!TypeOK /\ Context!ContextsSound
    /\ instance = "users" => Users!TypeOK /\ Users!ContextsSound

(* The registry has the metadata that live, and one takes each of them out. *)
MCTasksSound == instance = "tasks" => Threads!TypeOK /\ Threads!TasksSound

(* Timers end once and in time, and so do sleeps.                          *)
MCTimeKept ==
    /\ instance = "timers" => Timers!TypeOK /\ Timers!TimersSound
    /\ instance = "sleep" => Sleep!TypeOK /\ Sleep!SleepsSound

Equals == Permutations(Client) \cup Permutations(Job)
=============================================================================
