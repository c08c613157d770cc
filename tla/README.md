# Magnolia: TLA+ models of the kernel

Magnolia is a small Unix-like system for the ESP32-S3: a kernel on FreeRTOS
(`src/main/kernel`), a VFS over littlefs, and user programs that are ELF applets. This
directory models the kernel's own logic in TLA+, checks small instances with TLC and
proves theorems with TLAPS. All paths below that start with `core/` are under
`src/main/kernel/`.

1. [The system](#1-the-system): inventory of the components
2. [What is modelled](#2-what-is-modelled): modules and their correspondence to the code
3. [Runs](#3-runs): what each one checks, bounds, fairness
4. [Proofs](#4-proofs)
5. [Where code and documentation disagree](#5-where-code-and-documentation-disagree):
   the violation runs
6. [What the passing runs take for granted](#6-what-the-passing-runs-take-for-granted)
7. [Not modelled](#7-not-modelled)
8. [What is left](#8-what-is-left)

## 1. The system

The firmware is built for one core (`CONFIG_FREERTOS_UNICORE`), so `portENTER_CRITICAL`
masks the interrupts and nothing else runs until `portEXIT_CRITICAL`. A FreeRTOS mutex
does not: a task that holds one can be preempted. The difference decides what is one
step of a model and what is not.

Layers, from the bottom: FreeRTOS tasks and semaphores; `sched` (tasks, wait contexts)
and `timer` (deadlines); `ipc` and `job` on them; `vfs` on `job` (a descriptor table
belongs to a job) and on `ipc` (streams of devfs); the ELF loader and the libc layer on
`vfs`; applets above.

### Scheduling and time

**Tasks and registry** (`core/sched/m_sched_core.c`, `m_sched_sleep.c`). State: a list
of task metadata behind one mutex, each with an id, a FreeRTOS handle, a state and a
`finalized` flag. Operations: create, destroy, suspend, resume, sleep. Hard: a client
looks a task up under the mutex and acts on it afterwards; the task may end by itself
meanwhile and free its metadata; a task is deleted wherever it is, with the mutex taken
perhaps. Correct when metadata live while they are used, the registry holds exactly the
tasks that exist, and the mutex is always given back.

**Wait contexts** (`m_sched_wait.c`). State: a binary semaphore, a result, `armed`.
Operations: prepare, block, block until a deadline, wake with a result. Used by every
blocking call of `ipc`, `job` and `vfs`. Hard: a wake that comes after the deadline and
before the waiter is taken out of the queue it is linked in. Correct when a wait ends
once, with the result of whoever ended it.

**Timers and deadlines** (`core/timer/*.c`). State: a sorted list of entries behind a
mutex. Operations: schedule, cancel, process; conversion of relative timeouts to
deadlines, and of deadlines to ticks. Hard: cancel against process, and from a callback;
arithmetic at the end of 64 bits; the time a task is not let run between two steps.
Correct when each entry ends once, in order and not early, and no sleep is a tick short.

### IPC

**Handles** (`core/ipc/ipc_core.c`). A registry per type: slots with a 16-bit generation
and an allocated flag, behind a spin lock. A handle is slot, type and generation.
Correct when a handle reaches only the object it was made for.

**Wait queues** (`ipc_scheduler_bridge.c`). A doubly linked list of waiters that live on
the stacks of the blocked tasks. Correct when a queue never holds a waiter whose call
has returned, a waiting task can be found by wakes, and wakes go by priority, then age.

**Channels** (`ipc_channel.c`). State: a ring of messages, two wait queues and three
counters, a `destroyed` flag, behind a spin lock. Operations: create, destroy, send and
receive (blocking, with timeout, try). Correct when the channel is a bounded FIFO whose
every call takes effect once or fails for its reason, no wakeup is lost, and a destroy
releases everybody.

**Signals** (`ipc_signal.c`) and **event flags** (`ipc_event_flags.c`). State: a count
or a mask, modes, a wait queue, and a list of listeners called with the lock dropped.
Hard: between two callbacks anything may happen: another set, a wait, an unsubscribe,
a destroy. Correct when nobody is forgotten in the queue, a bit that clears itself wakes
one task, and no change of readiness stays untold.

**Shared memory** (`ipc_shm.c`). State: a byte ring with raw, stream and packet modes,
policies for overrun, attachments, waiting readers and writers. Hard: wakes outside the
lock, release while attached, indices that wrap inside a header. Correct when bytes come
out in the order they went in, packets whole, the memory stays while somebody is
attached, and waiters can be reached.

### Jobs

**Job queue and workers** (`core/job/m_job_queue.c`, `m_job_worker.c`). State: a ring of
job handles, lists of waiting workers and submitters, a FreeRTOS mutex, flags. Hard:
workers come and go to the ring while clients fill it; destroy deletes the workers
wherever they are. Correct when jobs are taken in order and run once, no worker sleeps
beside a job, no submitter beside a free slot, and destroy leaves nothing behind.

**Job handles and futures** (`m_job_core.c`, `m_job_result.c`, `m_job_future.c`,
`m_job_wait.c`). State of a job: pending, running, completed, its result, the list of
waiters. Correct when there is one result, which wakes every waiter, and the memory
outlives every user.

**Job contexts and events** (`jctx.c`, `m_job_event.c`): reference-counted contexts with
thread-local slots, destructors and a heap; listeners for the end of a job. Correct when
a context lives as long as anything leads to it, and destructors and listeners run once.

**Job heap** (`core/memory/m_alloc.c`): blocks over several regions per job, first fit,
split and join. Correct when blocks tile the regions and none is given twice.

### Files

**VFS calls** (`core/vfs/core/m_vfs_core.c`, `m_vfs_object.c`) with **descriptor
tables** (`fd/m_vfs_fd.c`). State: files and nodes with reference counts, a table per
job, waiters per file. Hard: `dup`, `dup2` and `close` of one file from several
descriptors and tasks; the end of a job; the wait for a driver's event. Correct when a
file lives as long as a descriptor or a running call refers to it, and nobody stays
parked on a closed one.

**Mounts** (`m_vfs_registry.c`): a reader/writer lock that spins with `taskYIELD`;
unmount against open. **Read cache** (`cache/m_vfs_read_cache.c`): read-ahead blocks
between the VFS's offset and the driver's own position; correct when a cached file reads
as an uncached one. **Paths** (`path/m_vfs_path.c`): normalisation. **devfs**
(`vfs/fs/devfs/*.c`): a table of devices; streams with a ready mask and waiters.
**ramfs**, the **littlefs** adapter: file systems behind the driver interface.

### Programs

**ELF loader** (`core/elf`), **libc layer** (`core/libc`), **start-up** (`arch`),
applets, SDKs and host tools: sequential code with nothing shared.

`PROJECT.json` lists every component with its status, and under `hazards` the places of
this code that are hardest to test, each at its line with the properties that look at
it.

## 2. What is modelled

| module | models | code |
|---|---|---|
| `IpcWait` | wait contexts and wait queues, operators on values | `ipc_scheduler_bridge.c`, `m_sched_wait.c` |
| `IpcChannel` | one channel and its slot of the handle registry | `ipc_channel.c`, `ipc_core.c` |
| `BoundedChannel` | abstract specification of a channel | - |
| `IpcWaitset` | lists of listeners, operators on values | the `waitset` parts of `ipc_signal.c`, `ipc_event_flags.c` |
| `IpcSignal` | one signal, its waiters and listeners | `ipc_signal.c` |
| `IpcEventFlags` | one set of flags, its waiters and listeners | `ipc_event_flags.c` |
| `IpcShm` | one region, its slot, its attachments | `ipc_shm.c` |
| `ShmStream` | abstract specification of a region | - |
| `JobQueue` | queue, workers, job handles and futures together | `m_job_queue.c`, `m_job_worker.c`, `m_job_core.c`, `m_job_result.c`, `m_job_future.c`, `m_job_wait.c` |
| `JobPool` | abstract specification of a job queue | - |
| `JobContext` | contexts, TLS slots, destroy listeners | `jctx.c`, `m_job_event.c`, the calls of `m_job_core.c` and `m_job_worker.c` |
| `RegionHeap` | the heap of one job | `m_alloc.c` |
| `SchedRegistry` | task metadata and the registry | `m_sched_core.c` |
| `TimerQueue` | the sorted queue of timers | `m_timer_queue.c`, `m_timer_core.c` |
| `SchedSleep` | deadlines, ticks and the wait for them | `m_timer_deadline.c`, `m_sched_sleep.c`, `m_sched_wait.c` |
| `VfsFile` | descriptors, files, nodes over one device of devfs | `m_vfs_core.c`, `m_vfs_fd.c`, `m_vfs_object.c`, `devfs.c`, `devfs_stream.c` |
| `VfsMount` | the registry of mounts and its lock | `m_vfs_registry.c`, mount, unmount and resolution in `m_vfs_core.c`, `m_vfs_path.c` |
| `ReadCache` | the cache between VFS offset and driver position | `m_vfs_read_cache.c`, `m_vfs_core.c`, `littlefs_fs.c` |
| `VfsPath` | normalisation of paths | `m_vfs_path.c` |
| `SequenceLemmas` | lemmas about sequences, rings and remainders | - |
| `IpcChannelProofs`, `IpcShmProofs`, `IpcSignalProofs`, `JobQueueProofs`, `JobsProofs`, `VfsMountProofs`, `VfsFileProofs` | theorems | - |
| `MCIpcChannel`, `MCIpcCalls`, `MCIpcShm`, `MCIpcNotify`, `MCJobQueue`, `MCJobPool`, `MCJobs`, `MCVfs` | the instances TLC checks | - |

`IpcChannel`, `IpcShm`, `IpcSignal`, `IpcEventFlags`, `JobQueue` and `VfsFile` all
compose `IpcWait`: the same waiters are linked in the queues of a channel, a region, a
job or a file. `IpcSignal` and `IpcEventFlags` compose `IpcWaitset`.

The grain is the same everywhere. What runs between `portENTER_CRITICAL` and
`portEXIT_CRITICAL` is one step. What is done under a FreeRTOS mutex is one step where
everybody who could see the state in between respects the mutex and nobody can delete the
task meanwhile; where that is not so, taking and giving the mutex are steps. Checks and
reads before a lock, the block of a waiter, a callback, and what is done after a lock
was dropped are steps of their own. `pc` (in `JobContext` and others with the name of the
place in the code) puts a task between two of them. Freed memory is not given out
again in the models: a field says what was freed, so that a later use shows. Where the
code itself does nothing to keep a task from such a use, what comes after is undefined
and the model stops (`halted` in `IpcShm`, `SchedRegistry` and `VfsFile`); their
properties are about everything up to there.

### Waiters (`IpcWait`)

A waiter is a variable on the stack of a task, and a task is in one call at a time, so a
waiter is identified with its task and a queue is a sequence of tasks. A waiter has four
fields of the code: `enqueued`, `armed`, the semaphore (`given`) and `result`. `Woken`
is the wake (it writes the result whether or not it finds the waiter armed), `TimedOut`
is a block that gives up: the waiter is disarmed but stays in its queue until its task
has the lock again. That gap is where the races are. `Picks` is the relation
`ipc_wait_queue_pick` computes: the oldest waiter of the highest priority. `Unlinked`
also covers a waiter whose queue was initialised again under it; its null links then
become the queue's head and tail. This is exact while there is one such waiter.

### Channels (`IpcChannel`)

One slot of `g_channels` with its generation; the slots share only the registry's lock.

| code | actions |
|---|---|
| `_m_ipc_channel_lookup` and the argument checks, before the lock | `Reject`, `Call` |
| `m_ipc_channel_create` | `CreateNoSpace`, `Allocate`; `ClearObject`, `SetupObject` without the lock |
| the loops of `_m_ipc_channel_send_internal` and `_recv_internal`, the try functions | `FindDestroyed`, `TrySendInvalid`, `Send`, `Recv`, `RecvTooSmall`, `Refuse` |
| `_m_ipc_channel_wait_for_space`, `_wait_for_message` up to the block | `Park`, `ZeroTimeout` |
| the block | `BlockTaken`, `BlockTimeout` |
| after it, under the lock | `GiveUp`, or again the loop |
| `m_ipc_channel_destroy` | `Destroy` under the lock, `Release` outside |

`lock` exists for one reason: `wait_for_space` and `wait_for_message` return for a
timeout of 0 without leaving the critical section, and `lock` says which task has left
it held. A message is its length: no branch reads its bytes. `OrderlyReuse` is a
constant. TRUE: callers create a channel only when no other call is in flight. FALSE: a
slot may be allocated again while a call is still on its way out, which the code
permits.

`BoundedChannel`: a channel is created, holds a sequence of at most `Capacity` messages,
and is destroyed. Every call takes effect in one step between start and return. An error
needs a reason (`Excuse`): "no space" only when the queue is full at that moment,
"timeout" only if the call had a deadline, "destroyed" only if the channel the handle
names is gone.

### Signals, event flags, listeners

`ipc_signal_notify_waitsets` and its twin leave the critical section for every callback,
having read the next listener before: a walk is a record of the listener to be called,
the next one and what it is told, and every callback is a step (`Callback`, `Renotify`,
`EndWalk`). So a `set` is cut in pieces while listeners are subscribed: it writes the
count or the mask, tells the listeners, and only then wakes (`WakeOne`) or serves
(`SetGoesOn`) the waiters. Signals wake one waiter, which looks again; flags hand the
bits to the waiter that is woken, which does not.

### Shared memory (`IpcShm`)

The only module that models bytes, since indices and packet headers are what can go
wrong: a payload of n bytes is 1, ..., n, memory is a function, `CopyIn` and `CopyOut`
wrap. A call is `Call` (the checks before the lock), one step of the mode
(`Raw`, `ReadRing`, `WriteRing`, `ReadPacket`, `WritePacket`), perhaps `Park`, the block,
and the wake of the other side. The code calls `ipc_wake_one` after the critical section,
with nothing that protects the queue, so here the queues are the linked lists of the
code and a waker goes through them in steps: `PickFirst` and `PickNext` for each waiter
`ipc_wait_queue_pick` looks at, `TestEnqueued`, `JoinNext`, `JoinPrev` and `ClearLinks` of
`ipc_waiter_remove`, `Give` of `m_sched_wait_wake`, with the critical sections of others
(`Park`, `LeaveQueue`, `WakenAll`) between any two. A link that leads to a waiter whose
task has returned (`Dangles`) stops the model.
`MaybeCleanUp` is the deferred release by whoever is last. `ShmStream` has a sequence of
bytes or of packets and no memory; the mapping reads the ring from its read index.

### The job queue (`JobQueue`)

| code | actions |
|---|---|
| `m_job_queue_submit*`, `_m_job_wait_for_space` | `Submit`, `Enqueue`, `QueueFull`, `AwaitSpace`, `NoSpace`, `UnlockAgain`, `SubmitFails` |
| `_m_job_queue_take`, `m_job_worker.c` | `WorkerStart`, `Take`, `AwaitJob`, `TakeFails`, `RunHandler`, `SkipHandler`, `LeaveJob`, `HandlerReturns`, `SetResult`, `WorkerStop` |
| `m_job_cancel`, `m_job_handle_destroy` | `Cancel`, `HandleDestroy`, `FreeJob` |
| `m_job_wait_for_job*`, futures | `FutureInit`, `FutureReady`, `FutureAwait`, `FutureDone`, `FutureDeinit` |
| `m_job_queue_destroy` | `QueueDestroy`, `MarkDestroyed`, `DrainOne`, `KillWorker`, `FreeQueue` |

The queue's mutex is taken in a step (`Acquire`), and what is done under it until it is
given is another; `m_job_queue_destroy` after its first section, and the handles with a
lock of their own, interleave. The guards `~freed` only stop the model from inventing
what a use after free would do; the invariants say that there is none. A handler is any
code that ends and does not use the queue. `JobPool`: jobs are accepted into a bounded
queue, taken oldest first, run at most once and not after a cancel, and get one result
that never changes.

### What a job owns (`JobContext`, `RegionHeap`)

A context is counted: the handle, a running worker, a field access and
`m_job_handle_destroy` while it tells the listeners hold one reference each. `ReleaseOne`
and `ReleaseLast` are the two sides of `jctx_release`; whoever gives the last one runs
the destructors (`Destruct`), which may set slots again, tears down the heap and frees
the context. `RegionHeap` has addresses: blocks are in one list over all regions, and
which regions the platform gives, and where, is chosen. malloc and free are one critical
section, realloc is two with a copy between.

### Tasks and time (`SchedRegistry`, `TimerQueue`, `SchedSleep`)

`SchedRegistry`: a client's call finds a task under the mutex (one step, since nobody
deletes a client) and acts on it in later steps (`Delete`, `Finalize`, `FreeMeta`,
`Tell`); a task's own update of its state takes two, between which it can be
deleted or suspended with the mutex. Nothing is assumed of who runs when, or of what
clients do with an id; when one comes to metadata that were freed, or to a task that is
gone (`Strays`), the model stops. `TimerQueue`: `Schedule`, `Cancel`; `Process` reads
the clock once, then `TakeReady` and `Callback` by turns. `SchedSleep`: from the timeout
to the deadline, from the deadline to ticks, to the block, with time passing between any
two, on words of 2^w (`Word`).

### Files (`VfsFile`, `VfsMount`, `ReadCache`, `VfsPath`)

`VfsFile` has the counts of files and nodes, the tables of jobs, and one stream device:
`Lookup` finds a file and takes no reference, as the code, so that a close, a `dup2`, a
sweep (`Evict`, which takes descriptors out under running calls) or the end of the device
may free it under the call: a call that comes to a file, a node or an entry of the device
that was freed (`Strays`) stops the model. `Wait` enqueues without looking again;
`LookAgain` is the lookup of every turn of `m_vfs_poll`; `Notify`, `Store` and `Query` are the three steps of
`devfs_stream_refresh_ready`. `Released` is the release of a descriptor, which frees the
file and its node in the same critical section. `Foreach` is one step. `VfsMount` cuts
the lock into its accesses to flag and counter, so that a reader and a writer announce
themselves in two steps each. `ReadCache` has the table of entries, the offset of the VFS
and the position of the driver; a byte is its place in the file, so that a byte skipped
or read twice shows. `VfsPath` reads a path segment by segment.

## 3. Runs

Every run is a `.cfg` of the same name. Several modules are checked side by side in one
run: an MC module gives each instance a name (the variable `instance`), a behaviour
begins in one of them and stays there, and a property `MCx` states `x` of the instances
it is about. Deadlock is not checked except for the heap: callers may stop calling at
any moment, and when the bounds are used up the system is at rest. Tasks that are stuck
are what the liveness properties look for.

### Passing

| run | distinct states | instances |
|---|---|---|
| `Channel_queues` | 554 252 | capacity 2; `waits`: 3 tasks of 2 priorities, 2 lengths of message, finite and infinite waits, one generation of the slot; `calls`: 2 tasks, try, zero and finite timeouts, lengths and buffers 0 to 2, 2 generations |
| `JobQueue_pool` | 435 773 | `given`: 2 workers, 2 clients, ring of 2, 3 jobs, cancel, destroy of the queue; `pool`: 1 worker, 1 slot, submits that wait, time out or find no memory, waits for results, handles destroyed; `heap`; `context`, `users`; `tasks`; `timers`, `sleep` |
| `JobQueue_progress` | 44 230 | 2 clients, 1 worker, ring of 1, 3 jobs, no deadlines, fairness |
| `Shm_region` | 283 831 | `given`: at most 2 of 3 tasks at a time, 2 generations, deadlines; `alone`: 1 task at a time, larger regions; `three`: 3 tasks that wait forever, one byte at a time |
| `Ipc_notify` | 151 577 | event flags and signals, each with 2 tasks and 1 listener, with 1 task and 3 listeners, and with 3 tasks that wait forever; a region with 2 tasks that wait forever; a channel with 3 tasks that wait forever, buffers that fit; fairness |
| `Vfs_files` | 242 710 | mounts (`mounts`, `crowd`, `full`), files (`sharing`, `jobs`, `stream`, `removal`), the read cache (`cache`, `races`, `device`), `paths`; fairness |

What the properties are about (the state of an instance in brackets where it matters):

- `RingConsistent`: `head`, `tail` and `depth` agree over wrap-around, destroys that
  reset them and slots reused.
- `QueuedAreParked`, `ParkedAreQueued`, `WaitersCounted`: a wait queue holds stack
  variables only of calls that are still blocked there, every task that waits unwoken is
  found in one, and the counters are the lengths, whoever took a waiter out.
- `WakeOrder`: no waiter is passed over by one of lower priority, or a younger one.
- `ImplementsBoundedChannel`, `ImplementsJobPool`, `MCImplementsShmStream`:
  refinement of the abstract specifications.
- `MCChannelWakes`: while receivers wait, every message has a woken receiver on its way;
  the same for senders and free slots. `MCWaitersWake` says it as liveness, of channels,
  signals, flags and regions, and of a destroy, which releases everybody.
- `WaitListsMatch`: the wait lists of workers, submitters and futures against the tasks'
  own state. `NothingFreedInUse`: no job handle and no queue is freed while something
  leads to it. `DestroyCancels`: when the queue is gone every accepted job has its
  result, unless its worker was deleted while it held it.
- `MCHeapSound`: blocks tile the region, the free list is exact, nothing is lost or given
  twice. `MCContextsSound`: references are counted, destructors and listeners run once.
  `MCTasksSound`: the registry has the metadata that are not finalized, each once and
  under an id of its own; of those who finalize a task, one frees its metadata.
  `MCTimeKept`: a timer ends once, in order, not early; a sleep is not a tick short.
- `JobCompletes`, `WaiterReturns`, `BlockedSubmitterWakes`: progress of jobs.
- `RegionKept`: a region stays while a handle is attached, and no longer, whatever the
  wakes outside the lock do to its queues.
- `MCWaitersCounted`, `MCNobodyForgotten`, `MCListenersCurrent`, `MCBitServesOne`: waiters
  of signals and flags are counted, and none stays queued beside what he waits for, with
  the lock dropped for every listener; readiness never changes untold; a bit that clears
  itself wakes one task.
- `RegistryConsistent`, `MCReadersSeeLive`, `MCWaitersGetOn`: slots, their number and the
  mounts agree; no reader has a freed mount in hand; a writer gets in.
- `MCFilesKept`, `MCWaitersGetOn`: the references of files and nodes are those of their
  descriptors, files and calls, and the last one frees; nobody stays parked on a file that
  was closed.
- `MCTransparent`: a cached reader reads the bytes of the file [cache]; in the others
  only the table is checked. `MCPathsCanonical`: every path of up to six segments has the
  normal form that leads to the same place.

Every action of every module is taken in some passing run: TLC's coverage of each
instance was looked at, not only that of the composed next-state relation.

Bounds, and why they are enough for the cases that matter. Three tasks give two waiters
of one queue beside a third that wakes, times out against, or destroys them; of two
priorities, so that the pick is not always the head. Capacity 2 lets a ring be empty,
full and in between, and wrap. Two lengths tell messages apart, so that a refinement sees
their order. Two generations are one reuse, which is what a stale handle needs. One slot
and three jobs give a full ring with a submitter waiting and a worker on its way; two
workers and two slots the race of two workers for one job, and a destroy between them.
Three pointers and one region give every order of split and join with both neighbours.
Three listeners let one unsubscribe before, at and behind the place of a walk. What is
bounded by a constant of its own: `MaxGen`, `Job`, `MaxWaiting`, `MaxAttached`, `Ids`,
`MaxTime`, `MaxListeners`, `MaxByte`, `MaxOpen`; the words of 64 bits are cut to `Word`.

Symmetry: tasks of one priority (`Channel_queues`, `Shm_region`), clients and jobs
(`JobQueue_pool`); only in runs without liveness.

Fairness: weak fairness of each task's `Step`, and nothing else. FreeRTOS runs every
ready task of equal priority in turn, and those of higher priority block when they wait;
handlers and callbacks end; time passes, so a wait with a deadline that nobody ends times
out. No fairness is assumed of a call: nobody has to call anything, so no wait is ended
by a call that another task merely could make.

### Violations

Six runs end in a counterexample; section 5 says what each one shows. `Shm_wakes` has
the instance `three` of `Shm_region` alone, with fairness: one writer and two readers that
attach, stay, and move one byte at a time.
## 4. Proofs

TLC checks instances; the theorems below hold for every value of the constants that
their assumptions allow. Each property was checked by TLC first, in the run that lists
it. The inductive invariants behind them are stated in the proof modules.

Assumptions, beside those a theorem states: `PrioAssumption` (every task has a priority),
`ChannelAssumption`, `ShmAssumption`, `MountAssumption` and `JobQueueAssumption` (sizes are
positive, the sets of tasks finite and disjoint where the roles are, the special values no members).
TLC evaluates them in every run of those modules. Modules that TLC checks through `INSTANCE`
define the same as an operator `Configured`, which the theorem has as its hypothesis and an
`ASSUME` of the MC module states of the constants chosen there.

| theorem | states | hypotheses |
|---|---|---|
| `IpcChannelProofs!TypeInvariance`, `RingInvariance` | `TypeOK`, `RingConsistent` | none |
| `IpcChannelProofs!QueueInvariance` | `QueuedAreParked`, `ParkedAreQueued`, `WaitersCounted` | orderly reuse |
| `IpcChannelProofs!WakesAreInOrder` | `WakeOrder`, an action property | orderly reuse |
| `IpcChannelProofs!ChannelRefinement` | `ImplementsBoundedChannel` | orderly reuse |
| `IpcChannelProofs!WakeupInvariance` | `NoLostWakeup` | `Patient` |
| `JobQueueProofs!TypeInvariance` | `TypeOK` | none |
| `JobQueueProofs!PoolRefinement` | `ImplementsJobPool` | none |
| `JobQueueProofs!DestroyCompletes` | `DestroyCancels` | orderly destroy |
| `JobQueueProofs!CallsKeepHandles` | `HandlesKept`, of that module | none |
| `JobQueueProofs!WaitListsInvariance` | `WaitListsMatch` | none |
| `IpcShmProofs!RegionInvariance` | `RegionKept` | none beyond section 6 |
| `IpcSignalProofs!QueueInvariance` | `TypeOK`, `WaitersCounted` | `Configured` |
| `IpcSignalProofs!WakeupInvariance` | `NoLostWakeup` | `Patient` of that module |
| `IpcSignalProofs!FlagsInvariance` | `TypeOK`, `WaitersCounted`, `SatisfiedServed` of `IpcEventFlags` | `Configured` |
| `IpcSignalProofs!BitsServeOne` | `BitServesOne` of `IpcEventFlags`, an action property | `Configured` |
| `VfsMountProofs!RegistryInvariance` | `RegistryConsistent`, `ReadersSeeLive` | none beyond section 6 |
| `VfsFileProofs!FilesKept` | `RefsCounted` | `Configured` |
| `JobsProofs!ContextInvariance` | `TypeOK`, `ContextsSound` of `JobContext` | `Configured` |
| `JobsProofs!TasksInvariance` | `TypeOK`, `TasksSound` of `SchedRegistry` | `Configured` |
| `JobsProofs!TimersInvariance` | `TypeOK`, `TimersSound` of `TimerQueue` | `Configured` |
| `JobsProofs!SleepsInvariance` | `TypeOK`, `SleepsSound` of `SchedSleep` | `Configured` |
| `JobsProofs!HeapInvariance` | `TypeOK`, `HeapSound` of `RegionHeap` | `Configured`, `OneRegion` |

Where the runs check a component in one of several instances, their property is the
theorem's in that instance: `MCChannelWakes` of channels, `MCWaitersCounted` and
`MCNobodyForgotten` of signals and of flags, `MCBitServesOne`, `MCReadersSeeLive`,
`MCFilesKept`, `MCContextsSound`, `MCTasksSound`, `MCHeapSound`, and `MCTimeKept` of timers
and of sleeps. "None" means that the theorem is about all behaviours of the model; where
a model stops (section 6), that is up to there.

`SequenceLemmas` has what the others share: `Append` and `RemoveAt` on sequences without
duplicates, the contents of a ring (`RingContents`) when one is put in or taken out, how
the sizes of two finite sets compare (`CountKeeps`, `CountGains`, `CountLoses`,
`CountSwaps`, `CountChange`), and induction up to a number (`InductionUpTo`). Several
components in one proof module are instances of their modules there, each with its own
variables; nothing connects them but the lemmas.

### Channels

The invariants are layered; each is proved from those before it.

- `RingInv` is `TypeOK` with `RingConsistent`. The two are inductive only together:
  the types need `depth <= capacity` to bound the depth by `Capacity`, the ring needs
  the types to compute modulo. It holds also for disorderly reuse of the slot.
- `ChannelInv` adds `Linked` (a task is in the queue of its kind of call exactly if its
  waiter says so, and once), `WaitersCounted`, `WaiterState` (a waiter that waits is
  enqueued and armed or has been given its semaphore, not both, and is still enqueued
  after its block timed out) and `Creating` (while a slot is set up nobody is in a call
  on it). Without `WaiterState` a wake could take the waiter of a task that has gone on.
  `Creating` is where orderly reuse is needed: without it the theorem is false, since
  `ClearObject` empties queues that tasks are linked in. `QueueInvariance` and
  `WakesAreInOrder` follow; the second looks at one wake, which takes the first of the
  highest priority, and shows that a destroy passes for no wake.
- `RefInv` adds what a call may rely on after it has left every lock: `CallInv` (its
  handle names the slot's generation, its arguments were checked), `WaitInv` (a wait
  failed for a reason that still holds) and `SlotInv` (the registry's flag and generation
  against the object). The refinement maps the ring to a sequence (`RingContents`) and
  each task's call to what the abstract channel knows of it. `Call` and `Allocate` are
  the abstract `Start`; `Send`, `Recv` and `Destroy` are themselves; `SetupObject` is
  `Create`; `Release` is the return of a destroy; the ways to fail (`Reject`,
  `CreateNoSpace`, `FindDestroyed`, `TrySendInvalid`, `RecvTooSmall`, `Refuse`,
  `ZeroTimeout`, `GiveUp`) are `Fail`, each with the excuse the abstract channel asks
  for; `ClearObject`, `Park` and both ends of a block are stutters.
- `WakeInv` is for `NoLostWakeup`: the receivers that were woken and have not looked yet
  are counted as a set, and each step is shown to keep enough of them. Its hypotheses
  (`Patient`: no deadlines, buffers that fit every message) are those of the run. They
  are needed: with a deadline or a small buffer a wake is spent on a call that fails,
  as section 5 says.

### The job queue

- `TypeInv`, for `TypeOK`: `CallInv` (where in the code each call and worker can be),
  `ActiveInv` (`active_workers` is the number of workers that have begun and not ended,
  and those that were killed, which nobody takes out), `FutureInv` (the futures of a job
  are counted by the waits that use it), `BornInv` (a handle that was not made yet has
  its first value). The counters are why this is more than typing: that they do not go
  below zero needs what they count.
- `LifeInv`: the holder of the mutex is the task that is between taking and giving it
  (`LockInv`), how far `m_job_queue_destroy` is (`StageInv`), and what callers of an
  orderly destroy keep to (`OrderInv`).
- `PoolInv`: `JobInv` (a job has its result exactly if it is completed; a handle that is
  destroyed or freed has left its owner), `CallJobInv` (the job of each call in flight: a
  submit's is not accepted yet, the one that is destroyed belongs to nobody else),
  `RingInv` (used slots, and those the destroy still looks at, hold accepted jobs),
  `HandInv` (a job is in the ring or in one worker's hand, and once) and `StateInv` (its
  handler is called once, by the worker that took it).
- `PoolRefinement`. The queue is the ring's contents until the queue is destroyed, a
  job's status is its handle's. `Enqueue` is the abstract `Accept`, `Take` is itself,
  `RunHandler` is `Start`, `SetResult` is `Complete` or a stutter when a cancel was
  first, `Cancel` and `DrainOne` are `Cancel` or a stutter, and all else stutters. The
  proof has a lemma that says what each action does to the handles (`JobEffect`: at most
  one changes, in one of five ways) and one that says what it does to the ring
  (`QueuedNext`). It needs no hypothesis: it holds also when the queue is destroyed
  under its submitters.
- `DestroyCompletes` adds `DrainInv`: an accepted job has its result, or a worker has it,
  or the destroy still comes to it. If somebody submits while the queue is destroyed, a
  job can get into the ring behind the drain.
- `CallsKeepHandles` follows from `PoolInv` alone, for every mix of calls: a destroyed
  handle has its result, and a freed one is in no submit, wait (whose future counts) or
  other destroy. That is what `m_job_handle_destroy` keeps by itself. `NothingFreedInUse`
  says more, that neither the ring nor a worker leads to a freed handle and that the queue
  outlives its callers; the code does not keep that (section 5), and only TLC checks it,
  in the two instances where callers see to it.
- `WaitListsInvariance` has `WaitInv` over `PoolInv`. `ListsInv`: each list holds exactly
  the tasks whose waiter is linked for it, and once. `ParkedInv`: where a task is whose
  waiter is linked, and that it was not woken. `EmptyInv`: the queue's lists are empty
  once it is destroyed, a job's list once it has its result; so nobody waits for what
  will not come. `PoolInv` gives two facts: a completed job is one that a call, a worker
  or the ring holds, and workers are deleted only after the lists were emptied, so that
  no list keeps the waiter of a task that is gone.

### Shared memory

- `RegionInv`, for `RegionKept`. `SlotInv`: the slot's generation, the handle and the
  memory; a region with a handle and no memory is one whose create failed, and nobody was
  told of its generation. `ReleaseInv`: the slot stays in use until the one task that
  cleaned the region up has released it. `CountInv`: the attachments counted are the tasks
  attached, and a destroyed region has some. `CallInv`: what a call in flight relies on
  after it left the lock. One that came with an attachment finds the region; one that came
  with a handle finds the generation it was checked against; nobody attaches who is
  attached. The proof counts the attached tasks as a set, which is why `ShmAssumption`
  asks for finitely many. Reads and writes are shown once to leave the life of a region
  alone (`SameLife`), so that only `Create`, `Attach`, `Detach`, `Destroy` and `Release`
  are looked at one by one.
The queues of waiters are in none of these parts: the wakes outside the lock may do to
them what they can. What would say that every waiter is found and no wake lost is false
(`Shm_wakes`).

### Signals

- `SignalInv`, for `WaitersCounted`. `SlotType` and `TaskType` are the types; `QueueInv`: the
  queue has exactly the tasks whose waiter is linked, once, and `waiting_tasks` is its
  length; `CallOK`: what a call has in hand at each place, a waiter that was taken out with
  its semaphore given among it; `LifeInv`: a destroyed signal keeps nobody. Signals count
  every waiter out where they take it out, so here the counter is the length, which the
  regions could not have.
- `FetchInv`, for `NoLostWakeup`, adds `PatientInv` (nobody waits with a deadline, or was
  linked when there was an indication) and `FetchOK`: the woken tasks that have not fetched
  yet are enough for the indications there are, or nobody waits. `Patient` has
  `Timeouts \subseteq {"forever"}`, because a waiter that times out beside a wake spends it
  (section 5), and finitely many tasks, because they are counted.

### Event flags

- `FlagsInv` has the parts of `SignalInv` for flags (`FlagsType` and `WalkersType`,
  `QueuedInv`, `PlacesOK`, `EndsInv`) and `ServedInv`: who is linked and satisfied has a set
  still on its way to him, or wants an exact mask. A clear may satisfy an exact mask and
  serves nobody, so without that exception the statement is false.
- The hard step is the pass through the waiters. `Service` is a function of the number of
  waiters passed; `PassesExist` shows that there is one, and `ServiceEffect` that after k
  turns (`PassOK`) the waiters passed are served or left, in order and once, nobody left is
  satisfied by what the mask has become (`LeftOK`; masks only lose bits in the loop), and who
  took a whole mask shares no bit with another who did (`TakenOK`). `TurnServed` and
  `TurnLeft` are the two turns. The induction is over the set of the numbers of turns for
  which this is true (`InductionUpTo`, from the least-number principle), since the
  library's induction theorems are out of reach.
- `FlagsInvariance` follows from the invariant. `BitsServeOne` speaks of one step; it is
  proved with each step's lemma: `TakenOK` gives it for a step that serves, all others let
  at most one waiter go, or destroy.

### Files

`RefInv`, for `FilesKept`. `TypeInv` has the types of the objects (`DataInv`) and what each
call has in hand at each place (`CallInv`). `RecordInv` ties files, nodes and the device to
each other, and `OpeningInv` says that the node an open has made stays listed until the
open has told it of the readiness. `FileCount` is the invariant proper: the counter of a
file is the number of its descriptors, in all tables, and of the calls that hold a
reference, both counted as sets; `NodeCount` says the same of nodes, with the files and the
opens and closes on their way; `FreedInv`: only a count of nothing frees. The steps that
take a descriptor out and drop its reference later, the sweeps at the end of a job and of
the forced unmount among them, move one member from the first set to the second.

Nothing is assumed of callers: two may use a descriptor at once, and a sweep waits for
nobody. A call on a descriptor is in neither set, so its file may be freed under it. `dup`
and `dup2` keep the count all the same because the model stops where they would take a
reference to a file that is freed or about to be (`Strays`; with a count of 1 that is the
entry `dup2` itself replaces); what a descriptor
or a call that counts refers to is alive (`ReferredAlive`). Each action has a lemma of its own
(`AllocateKeeps`, `ReadEntryKeeps`, ...), which `RefSteps` collects.

### Job contexts, tasks, timers and sleeps

- `ContextInv`, for `ContextsSound`, has five layers. `TypeInv`: types, and what a task has
  in hand at each place. `JobInv`: one worker runs a job, one task destroys its handle, and
  whoever ends a context is the one that dropped the last reference. `CountInv`: the
  counter is the number of handles, workers and calls that hold a reference; who finds it
  at zero is alone. `ValueInv`: a TLS value is in one slot or in the hand of the one task
  that took it out, so that its destructor runs once; it needs `CountInv` to know that the
  slots are empty when the context is freed. `ListenInv`: a destroy listener that was
  subscribed when the walk began is in what is left of the walk or has been told.
- `SchedInv`, for `TasksSound`. `TaskTypes` are the types. `HandInv`: a client in a call has
  some metadata in hand. `DataInv`: `NewInv` (metadata that were not made yet are not
  finalized), `FreedByOne`, `ListInv` (the registry lists the metadata that live and are not
  finalized, each once) and `IdInv` (ids are given in turn, so that no two tasks have the
  same while there are fewer tasks than ids, `Configured`). Clients may do anything at any
  time; that a second one frees nothing needs only that metadata which are still there say
  whether they were finalized.
- `TimerInv`, for `TimersSound`: `EndInv` has for each timer whether it is in the queue, in
  a task's hand, called or withdrawn, and that the sequences hold none twice; `ReadyInv`:
  a timer in hand was due when it was taken, which it still is, since the clock a task
  reads is not ahead; `OrderInv`: of two timers in the queue the one in front is due
  earlier, or was scheduled earlier. An insertion keeps the order because the scan ends at
  the first timer that is later (`InsertedAt`) and those behind it are later still.
- `SleepInv`, for `SleepsSound`. `DeltaTicks` is about the conversion: of the ticks it
  returns, all but the last end before the timeout and the last does not, through both
  divisions, whatever their divisors are. `TakeOK` says this of the time when the clock was read, and `BlockedOK`
  of `EndTick`, the tick interrupt that ends the wait: it stays the same while the clock
  and the ticks that are left move together (`NextTick`). `Configured` asks that no timeout
  a number of ticks can hold leads from a time the clock shows to the end of the word.
- `HeapInv`, for `HeapSound`, has two parts. `HeapOK(h, hole)` is about a heap: its blocks
  cut the region into parts (`Tiling`), the free list has the free blocks (`Listed`), and no
  two free blocks are neighbours (`Unjoined`). In between, `m_region_heap_free_block` has a block
  that is free, in no list and perhaps beside another free one: that is the `hole`, the
  index to which the last two do not apply, so that one lemma for each helper (split, take
  out of the list, join with the block behind, join with the one before) is enough for
  malloc, free and both halves of realloc. `OwnInv`: the pointers of the program are the
  allocated blocks (`Granted`), each has one owner, and a resize that moves has two blocks
  in hand. `OneRegion` is needed: with two regions the join goes across them, which is the
  finding `Heap_regions`.

### Mounts

`RegInv` has four parts. `Types`; `LockInv`: the writer's flag is set by one writer at a
time, `readers` is the number of tasks that are counted, and once a writer is past the
counter nobody looks at the registry, though a reader that came late is still counted;
`MountInv` says whose hand a mount is in before it is in its slot and after it was taken
out (`NewAlone`: nobody else has a mount before it is in its slot) and that slots, their
number and the mounts agree (`SlotsInv`). The search for the first free slot and for the
first mount that fits uses the least-number principle, which is derived from the
well-foundedness of `<` (`LeastOfNaturals`).

### Only model-checked

Liveness and everything with `ENABLED` (`MCWaitersWake`, `MCWaitersGetOn`, `JobCompletes`,
`WaiterReturns`, `BlockedSubmitterWakes`): out
of the provers' reach. No module has a `RECURSIVE` operator, but `VfsPath` and `ShmStream`
fold over sequences and `IpcWaitset` has a recursive function: what those compute for every
input needs induction over data, for which the theorems of the library cannot be used, and
a fold is not a function that could be unfolded turn by turn as `Service` is.
Of `IpcShm`, `TypeOK` (what the packet headers in memory hold) and the refinement of
`ShmStream` stay with TLC. The other components have their invariants
checked by TLC; section 8 has them.


## 5. Where code and documentation disagree

Each of these runs checks what the documentation says, and TLC finds it violated.

- `Channel_zero_timeout` (`TryReturns`). A timed call with timeout 0 that would have to
  wait returns with the channel's critical section still entered (`ipc_channel.c:101`,
  `:157`). Every later call of another task hangs, a try function too, of which
  `ipc_channel.h:84` says "The call fails immediately".
- `JobQueue_kill` (`WaiterReturns`). The queue is destroyed while a handler runs
  (`m_job_queue.c:405`): its job never gets a result and a task waiting for it stays.
  `m_job_future.h:52`: "Wait until a job completes."
- `EventFlags_unsubscribe` (`MCCallbacksSubscribed`). A listener is called after it
  unsubscribed: the walk read it before it dropped the lock (`ipc_event_flags.c:78`).
  `ipc_event_flags.h:196`: "Stops future callbacks for the provided listener".
- `Shm_wakes` (`MCWaiterWakes`). A write wakes a reader after it left the critical
  section (`ipc_shm.c:653-656`); preempted inside `ipc_waiter_remove`
  (`ipc_scheduler_bridge.c:96-111`) between the head and the tail of the list, it leaves a
  tail that is on its way out. The next reader enqueues behind it, then the tail is
  cleared: the reader is in no list and sleeps beside a byte for ever.
  `design/shm_module_spec.txt:76`: tasks "sleep on wait queues until the condition, timeout,
  or destroy"; `:82`: "Wake-up occurs outside the lock". `Shm_region` shows that the data
  and the life of the region stay right all the same.
- `Heap_regions` (`BlocksInRegions`). Freeing joins the last block of one region with the
  first of another (`m_alloc.c:293`), over the memory between. `Kconfig.memory:18`:
  regions are split "into individual blocks".
- `ReadCache_short` (`Transparent`). A driver delivers less than a block; the rest of it
  is looked for under another number and skipped (`m_vfs_read_cache.c:209`).
  `Kconfig.vfs:153`: "The cache transparently buffers".

Seen while modelling, with no run of their own:

- IPC. A deadline that passes beside a wake spends the wake on a call that fails
  (`ipc_channel.c:280`); so does a receiver whose buffer is too small (`:317`). A timed
  call waits its whole timeout again after every spurious wake (`:309`). A woken call
  whose channel was destroyed and whose slot was taken goes on with the new channel
  (`:180`). A woken waiter of a signal that finds the indication taken returns
  `IPC_ERR_SHUTDOWN` (`ipc_signal.c:470`). Bits that clear themselves are consumed for a
  waiter that has timed out (`ipc_event_flags.c:223`); a clear serves nobody who waits
  for an exact mask (`:381`). A region: a woken waiter does not count itself out of
  `waiting_readers` (`ipc_shm.c:592`); a write of exactly the region's size with the
  policy that drops the oldest loops for ever (`:660`), with the one that blocks waits for
  ever; a flush makes room but wakes no writer (`:1230`); lengths above 65535 are cut in the packet header.
- Jobs. The error paths of `_m_job_wait_for_space` give the mutex and so do their callers
  (`m_job_queue.c:204`, `:454`); another task may hold it by then. A job cancelled in the
  ring may be freed by its owner and then taken by a worker (`m_job_worker.c:93`). A
  submitter that times out can swallow a worker's wake (`m_job_queue.c:113`). A submit that
  fails frees the handle but not its context (`:455`). A handler that submits to its own
  full queue waits for a slot only it could free (`:190`). A queue destroyed while
  submitters wait is freed under them (`:411`).
- Files. `devfs_unregister` wakes waiters before it clears the device, so they wait
  again. A wait enqueues without looking whether data came since the call was told there
  is none; a notification wakes only if the mask has changed; two tasks that refresh the
  mask can store them in the wrong order. A descriptor's lookup takes no reference: a
  close by another task, or a forced unmount (`m_vfs_fd_close_mount_fds`, `m_vfs_fd.c:420`,
  asks for no running call), frees the file under a read. `devfs_node_destroy` reads the
  entry of the device before it takes the lock (`devfs.c:739`); `devfs_unregister` may have
  freed it by then. `m_vfs_unmount` without force counts
  the mount's own root and always answers busy, of which `m_vfs_selftests.c:58` expects
  otherwise. `Kconfig.vfs` says new mounts shadow older ones; the lookup takes the lowest
  slot. A mount can be found before it is active. Unregistering a file system takes the
  reader lock inside a critical section. An unmount looked up and torn down in two
  sections can be done twice. In the cache, an evicted block that was read in part loses
  the rest; a flush before a write throws away bytes the driver has already passed.
- Scheduler and time. Clients, and the task itself, come to metadata that were freed
  meanwhile: `m_sched_task_create` reads the id after the task may have ended
  (`m_sched_core.c:267`), `m_sched_task_destroy` and a second destroy, or the end of the
  task, read `finalized`. A task deleted with the registry mutex keeps it
  (`:293`). Destroying oneself leaks the metadata. A timer callback that
  schedules a timer that is due makes the processing loop. `delta + 999` wraps near 2^64.

## 6. What the passing runs take for granted

- Wakeups of channels are checked without deadlines and with buffers that fit;
  those of a region with transfers of one length and two tasks (with three, `Shm_wakes`
  has the wake that is lost). The races above are the reason.
- One core: a critical section is one step for everybody, the waker of a region too, who
  is in none. The links and the fields of a waiter are read and written one at a time by
  that waker; a read and the write that follows from it are one step (`JoinNext`, `Give`).
- Wait queues of channels: a slot is reused only while no other call is in flight
  (`OrderlyReuse`). Regions: a slot is reused only while nobody is between the lookup of an
  old handle and the lock (`Create`, which writes the slot without its lock, so that such a
  call could find it half made).
- Where the code leaves it to chance that nothing freed is used, the model stops at such a
  use (section 2), so nothing is shown of what comes after: links to waiters that are gone
  (`IpcShm`), metadata and tasks that are gone (`SchedRegistry`), files, nodes and entries
  of devices that were freed (`VfsFile`).
- `NothingFreedInUse`: no instance has cancels, or the destroy of the queue, together with
  destroyed handles, as the tests of the repository do (`m_job_tests.c:199`). A queue is
  destroyed when nobody submits (`OrderlyDestroy`). In both cases the property fails
  otherwise, and section 5 says how. `UnlockAgain` waits until the mutex is free; when it
  is not, the assertion of FreeRTOS stops the system. The workers of `JobQueue` exist from
  the start.
- `VfsFile`: a job ends when none of its calls is running (`EndJob`): a call holds a
  reference to its job's context. A forced unmount waits for nobody.
- `VfsMount`: no new mount gets the memory of one that was freed, and what a task that
  came late reads there is what the mount held last. Unregistering a type while a writer
  holds the lock stops the system (`halted`), so that a writer gets in (`MCWaitersGetOn`) is checked without it.
- The registry mutex of the scheduler, taken inside `ipc_waiter_prepare`, is free.
- Time has no measure except in `TimerQueue` and `SchedSleep`: a deadline passes at any
  moment while its task waits.
- Contents of messages, results and names, statistics and the functions that only report
  are left out; no branch of the modelled code depends on them.

## 7. Not modelled

The vendored littlefs (`lfs.c`), start-up and per-architecture code, relocation
arithmetic of the ELF loader, formatting, host tools, SDKs and applets: sequential code
with nothing shared, or not this project's. RAMFS is disabled in the build this models;
reading it showed that a directory made by `m_vfs_mkdir` is released while its parent
still links it (`m_vfs_core.c:1140`). Diagnostics and self tests only report. The width of
generations (16 bits) and the search for a free slot are left out of the handle registry.
`PROJECT.json` has every component with its status and the reason.

The map covers a tenth of the lines of the repository: most of the others are those
above.

## 8. What is left

Proofs: `ReadCache` (`MCTransparent`, in the instances in which it
holds), `VfsPath` (`MCPathsCanonical`, induction over a path), `TypeOK` of
`IpcShm` and its refinement of `ShmStream`, `ListenersCurrent`.

Models: calls on paths other than open, the RAM file system, the loader's tables, and
the parts of `PROJECT.json` that are `partly`.

