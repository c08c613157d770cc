------------------------------ MODULE JobQueue ------------------------------
(***************************************************************************)
(* The job queue: m_job_queue.c and its workers (m_job_worker.c), the job   *)
(* handles (m_job_core.c, m_job_result.c) and the futures that wait for     *)
(* them (m_job_future.c, m_job_wait.c).                                     *)
(*                                                                          *)
(* The queue has a FreeRTOS mutex, which does not stop preemption: taking   *)
(* it (Acquire) and what is done under it until it is given back are steps  *)
(* of their own. A job handle has a spin lock: what is done under it is     *)
(* done in one step. m_job_queue_destroy reads the ring, kills the workers  *)
(* and frees the queue without the mutex, one step at a time.               *)
(*                                                                          *)
(* A job is one submission. Its handler is any code that ends: it returns   *)
(* success or an error, when it likes, and does not use the queue. Not      *)
(* modelled: the statistics, the job context (jctx.c) and its fields, the   *)
(* callbacks of m_job_event.c, and a failing allocation of a job handle,    *)
(* which returns before anything happens. shutdown_requested is set where   *)
(* destroyed is and nowhere else; a job is cancelled only together with     *)
(* result_ready: neither flag is kept.                                      *)
(***************************************************************************)
EXTENDS IpcWait, FiniteSets

CONSTANTS
    Client,         \* the tasks that use the queue...
    Worker,         \* ... and the queue's worker tasks
    NoTask,         \* nobody holds the mutex
    Job,            \* bound: the jobs that are ever submitted
    NoJob,          \* what a ring slot, a worker or a call does not hold
    Capacity,       \* the length of the ring
    Ops,            \* the calls clients make, see AllOps
    Modes,          \* how they wait, for space or for a result, see AllModes
    AllocFails,     \* pvPortMalloc may find no memory for a wait node
    OrderlyDestroy  \* the queue is destroyed only when nobody submits

AllOps == {"submit", "cancel", "wait", "handle_destroy", "queue_destroy"}

(* m_job_queue_submit_nowait and m_job_try_wait_for_job; a submit or a     *)
(* wait with a deadline; and one without.                                  *)
AllModes == {"try", "timed", "forever"}

ASSUME JobQueueAssumption ==
    /\ Task = Client \cup Worker /\ Client \cap Worker = {}
    /\ IsFiniteSet(Client) /\ IsFiniteSet(Worker)
    /\ NoTask \notin Task
    /\ NoJob \notin Job
    /\ Capacity \in Nat \ {0}
    /\ Ops \subseteq AllOps
    /\ Modes \subseteq AllModes
    /\ {AllocFails, OrderlyDestroy} \subseteq BOOLEAN

VARIABLES
    \* m_job_queue: the ring, its flags and the memory it lives in
    ring, head, tail, count, destroyed, freed, active_workers,
    \* m_job_queue: the holder of the mutex and the two wait lists
    lock, worker_waiters, submit_waiters,
    \* m_job_handle: each job, and the jobs whose handle the clients have
    job, shared,
    \* each task's place in its code, the call it is in, the job it holds,
    \* its wait context and what m_sched_wait_block returned
    pc, op, hand, waiter, wait_result,
    \* m_job_queue_destroy: the pending jobs left to look at, from which slot
    pending, index

ringVars    == <<ring, head, tail, count>>
lifeVars    == <<destroyed, freed, active_workers>>
waitersVars == <<worker_waiters, submit_waiters>>
queueVars   == <<ringVars, lifeVars, lock, waitersVars>>
jobVars     == <<job, shared>>
taskVars    == <<pc, op, hand, waiter, wait_result>>
drainVars   == <<pending, index>>
vars        == <<queueVars, jobVars, taskVars, drainVars>>

NoOp == [kind |-> "none", mode |-> "none", job |-> NoJob]
Op(k, m, j) == [kind |-> k, mode |-> m, job |-> j]

(* _m_job_handle_init: the result is not ready, whatever status it holds.  *)
NewJob == [state |-> "pending", result_ready |-> FALSE, status |-> "error",
           future_count |-> 0, waiters |-> << >>,
           destroyed |-> FALSE, freed |-> FALSE]

(* A job nobody has submitted yet.                                         *)
Unborn == [NewJob EXCEPT !.state = "none"]

Goto(t, l) == pc' = [pc EXCEPT ![t] = l]

(* The call of client c returns.                                           *)
Return(c) ==
    /\ Goto(c, "idle")
    /\ op' = [op EXCEPT ![c] = NoOp]
    /\ wait_result' = [wait_result EXCEPT ![c] = "ok"]

Unlock == lock' = NoTask

-----------------------------------------------------------------------------
(* The mutex and the wait contexts.                                        *)

Acquire(t) ==
    /\ pc[t] = "lock" /\ lock = NoTask /\ ~freed
    /\ lock' = t
    /\ Goto(t, "locked")
    /\ UNCHANGED <<ringVars, lifeVars, waitersVars, jobVars, op, hand, waiter,
                   wait_result, drainVars>>

(* m_sched_wait_block returns: the semaphore was given...                  *)
BlockTaken(t) ==
    /\ pc[t] \in {"wait", "await"}
    /\ waiter[t].given
    /\ wait_result' = [wait_result EXCEPT ![t] = waiter[t].result]
    /\ waiter' = [waiter EXCEPT ![t] = NoWaiter]
    /\ Goto(t, IF pc[t] = "wait" THEN "lock" ELSE "awaited")
    /\ UNCHANGED <<queueVars, jobVars, op, hand, drainVars>>

(* ... or the deadline passed.                                             *)
BlockTimeout(t) ==
    /\ pc[t] \in {"wait", "await"}
    /\ op[t].mode = "timed"
    /\ ~waiter[t].given
    /\ wait_result' = [wait_result EXCEPT ![t] = "timeout"]
    /\ waiter' = [waiter EXCEPT ![t] = TimedOut(@)]
    /\ Goto(t, IF pc[t] = "wait" THEN "lock" ELSE "awaited")
    /\ UNCHANGED <<queueVars, jobVars, op, hand, drainVars>>

(* The head of a wait list is woken, whatever its task has come to.        *)
WakeHead(q) ==
    /\ q # << >>
    /\ waiter' = [waiter EXCEPT ![Head(q)] = Woken(@, "ok")]

(* Mutant: nobody is told of the job.                                      *)
WakeWorkerNot == UNCHANGED <<worker_waiters, waiter>>

WakeWorker ==
    \/ WakeHead(worker_waiters) /\ worker_waiters' = Tail(worker_waiters)
    \/ worker_waiters = << >> /\ UNCHANGED <<worker_waiters, waiter>>

(* Mutant: nobody is told of the free slot.                                *)
WakeSubmitterNot == UNCHANGED <<submit_waiters, waiter>>

WakeSubmitter ==
    \/ WakeHead(submit_waiters) /\ submit_waiters' = Tail(submit_waiters)
    \/ submit_waiters = << >> /\ UNCHANGED <<submit_waiters, waiter>>

-----------------------------------------------------------------------------
(* Submitting a job.                                                       *)

(* Nobody calls submit on a queue that is known to be destroyed.           *)
MaySubmit ==
    /\ ~destroyed
    /\ OrderlyDestroy => \A t \in Client : op[t].kind # "queue_destroy"

(* The job handle is created before the queue is looked at.                *)
Submit(c) ==
    /\ pc[c] = "idle" /\ "submit" \in Ops /\ MaySubmit
    /\ \E j \in {i \in Job : job[i].state = "none"}, m \in Modes :
        /\ job' = [job EXCEPT ![j] = NewJob]
        /\ op' = [op EXCEPT ![c] = Op("submit", m, j)]
    /\ Goto(c, "lock")
    /\ UNCHANGED <<queueVars, shared, hand, waiter, wait_result, drainVars>>

(* The client holds the mutex, and its wait, if it waited, was ended by    *)
(* the wake of a worker that had taken a job.                              *)
Submitting(c) ==
    pc[c] = "locked" /\ op[c].kind = "submit" /\ wait_result[c] = "ok"

(* Mutant: one job too many.                                               *)
HasSpaceLate == count <= Capacity

HasSpace == count < Capacity

(* _m_job_enqueue_job_locked; the handle reaches the caller.               *)
Enqueue(c) ==
    /\ Submitting(c) /\ HasSpace
    /\ ring' = [ring EXCEPT ![tail] = op[c].job]
    /\ tail' = (tail + 1) % Capacity
    /\ count' = count + 1
    /\ WakeWorker
    /\ shared' = shared \cup {op[c].job}
    /\ Unlock
    /\ Return(c)
    /\ UNCHANGED <<head, lifeVars, submit_waiters, job, hand, drainVars>>

(* The job handle of a submit that fails is freed.                         *)
Discarded(j) == [job EXCEPT ![j].freed = TRUE]

(* m_job_queue_submit_nowait_with_handle: the queue is full.               *)
QueueFull(c) ==
    /\ Submitting(c) /\ ~HasSpace
    /\ op[c].mode = "try"
    /\ job' = Discarded(op[c].job)
    /\ Unlock
    /\ Return(c)
    /\ UNCHANGED <<ringVars, lifeVars, waitersVars, shared, hand, waiter, drainVars>>

(* _m_job_wait_for_space enqueues a wait node and blocks.                  *)
AwaitSpace(c) ==
    /\ Submitting(c) /\ ~HasSpace
    /\ op[c].mode # "try" /\ ~destroyed
    /\ waiter' = [waiter EXCEPT ![c] = PreparedWaiter]
    /\ submit_waiters' = Append(submit_waiters, c)
    /\ Unlock
    /\ Goto(c, "wait")
    /\ UNCHANGED <<ringVars, lifeVars, worker_waiters, jobVars, op, hand,
                   wait_result, drainVars>>

(* It finds the queue destroyed, or no memory for a node: it gives the     *)
(* mutex back before it returns...                                         *)
NoSpace(c) ==
    /\ Submitting(c) /\ ~HasSpace
    /\ op[c].mode # "try"
    /\ destroyed \/ AllocFails
    /\ Unlock
    /\ Goto(c, "unlock")
    /\ UNCHANGED <<ringVars, lifeVars, waitersVars, jobVars, op, hand, waiter,
                   wait_result, drainVars>>

(* ... and its caller gives it once more. That does nothing if the mutex   *)
(* is free; if another task has taken it, the assertion of FreeRTOS that   *)
(* only its holder gives a mutex stops the system (the call waits here).   *)
UnlockAgain(c) ==
    /\ pc[c] = "unlock" /\ lock = NoTask /\ ~freed
    /\ job' = Discarded(op[c].job)
    /\ Return(c)
    /\ UNCHANGED <<queueVars, shared, hand, waiter, drainVars>>

(* Mutant: the node stays linked.                                          *)
UnlinkedSubmitterNot(c) == {submit_waiters}

UnlinkedSubmitter(c) ==
    IF waiter[c].enqueued /\ Contains(submit_waiters, c)
    THEN Unlinked(submit_waiters, c)
    ELSE {submit_waiters}

(* The wait ended with a timeout or because the queue is destroyed.        *)
SubmitFails(c) ==
    /\ pc[c] = "locked" /\ op[c].kind = "submit" /\ wait_result[c] # "ok"
    /\ submit_waiters' \in UnlinkedSubmitter(c)
    /\ waiter' = [waiter EXCEPT ![c] = NoWaiter]
    /\ job' = Discarded(op[c].job)
    /\ Unlock
    /\ Return(c)
    /\ UNCHANGED <<ringVars, lifeVars, worker_waiters, shared, hand, drainVars>>

-----------------------------------------------------------------------------
(* The workers. A worker that is not waiting holds the mutex between two   *)
(* sections of _m_job_queue_take only as Acquire says.                     *)

(* m_job_worker_hook_start; the worker enters its loop.                    *)
WorkerStart(w) ==
    /\ pc[w] = "start" /\ lock = NoTask /\ ~freed
    /\ active_workers' = active_workers + 1
    /\ Goto(w, "lock")
    /\ UNCHANGED <<ringVars, destroyed, freed, lock, waitersVars, jobVars, op,
                   hand, waiter, wait_result, drainVars>>

Taking(w) == pc[w] = "locked" /\ w \in Worker /\ wait_result[w] = "ok"

(* _m_job_queue_take: the oldest job, and a wake for the oldest submitter. *)
Take(w) ==
    /\ Taking(w) /\ count > 0
    /\ hand' = [hand EXCEPT ![w] = ring[head]]
    /\ head' = (head + 1) % Capacity
    /\ count' = count - 1
    /\ WakeSubmitter
    /\ Unlock
    /\ Goto(w, "got")
    /\ UNCHANGED <<ring, tail, lifeVars, worker_waiters, jobVars, op,
                   wait_result, drainVars>>

(* There is none: the worker waits for one...                              *)
AwaitJob(w) ==
    /\ Taking(w) /\ count = 0 /\ ~destroyed
    /\ waiter' = [waiter EXCEPT ![w] = PreparedWaiter]
    /\ worker_waiters' = Append(worker_waiters, w)
    /\ Unlock
    /\ Goto(w, "wait")
    /\ UNCHANGED <<ringVars, lifeVars, submit_waiters, jobVars, op, hand,
                   wait_result, drainVars>>

(* ... or leaves its loop, because the queue is destroyed.                 *)
TakeFails(w) ==
    /\ pc[w] = "locked" /\ w \in Worker
    /\ wait_result[w] # "ok" \/ (count = 0 /\ destroyed)
    /\ Unlock
    /\ Goto(w, "stop")
    /\ UNCHANGED <<ringVars, lifeVars, waitersVars, jobVars, op, hand, waiter,
                   wait_result, drainVars>>

(* m_job_worker_hook_stop; the worker's task ends.                         *)
WorkerStop(w) ==
    /\ pc[w] = "stop" /\ lock = NoTask /\ ~freed
    /\ active_workers' = active_workers - 1
    /\ Goto(w, "dead")
    /\ UNCHANGED <<ringVars, destroyed, freed, lock, waitersVars, jobVars, op,
                   hand, waiter, wait_result, drainVars>>

(* Mutant: the result is not looked at before the handler is called.       *)
RunnableAlways(j) == TRUE

Runnable(j) == ~job[j].result_ready

(* The job has no result yet: its handler is called...                     *)
RunHandler(w) ==
    /\ pc[w] = "got" /\ ~job[hand[w]].freed /\ Runnable(hand[w])
    /\ job' = [job EXCEPT ![hand[w]].state = "running"]
    /\ Goto(w, "run")
    /\ UNCHANGED <<queueVars, shared, op, hand, waiter, wait_result, drainVars>>

(* ... or it was cancelled while it was pending: the worker records that   *)
(* (which changes nothing, the first result stays) under the lock it takes *)
(* once more, and leaves the job.                                          *)
SkipHandler(w) ==
    /\ pc[w] = "got" /\ ~job[hand[w]].freed /\ ~Runnable(hand[w])
    /\ Goto(w, "skip")
    /\ UNCHANGED <<queueVars, jobVars, op, hand, waiter, wait_result, drainVars>>

LeaveJob(w) ==
    /\ pc[w] = "skip" /\ ~job[hand[w]].freed
    /\ Goto(w, "lock")
    /\ hand' = [hand EXCEPT ![w] = NoJob]
    /\ UNCHANGED <<queueVars, jobVars, op, waiter, wait_result, drainVars>>

(* The handler returns; the queue's statistics are updated.                *)
HandlerReturns(w) ==
    /\ pc[w] = "run" /\ lock = NoTask /\ ~freed
    /\ Goto(w, "returned")
    /\ UNCHANGED <<queueVars, jobVars, op, hand, waiter, wait_result, drainVars>>

(* _m_job_handle_set_result and _m_job_handle_record_cancellation: the     *)
(* first result stays, and wakes everybody who waits for it.               *)
Completed(j, s) ==
    IF job[j].result_ready \/ job[j].destroyed THEN job
    ELSE [job EXCEPT ![j].result_ready = TRUE, ![j].state = "completed",
                     ![j].status = s, ![j].waiters = << >>]

(* Mutant: only the first of them is.                                      *)
WokenForFirst(j) == WokenFirst(waiter, job[j].waiters, "ok")

(* (Once there is a result nobody is left in the queue.)                   *)
WokenFor(j) == WokenAll(waiter, job[j].waiters, "ok")

SetResult(w) ==
    /\ pc[w] = "returned" /\ ~job[hand[w]].freed
    /\ \E s \in {"success", "error"} : job' = Completed(hand[w], s)
    /\ waiter' = WokenFor(hand[w])
    /\ Goto(w, "lock")
    /\ hand' = [hand EXCEPT ![w] = NoJob]
    /\ UNCHANGED <<queueVars, shared, op, wait_result, drainVars>>

-----------------------------------------------------------------------------
(* Job handles and futures. Only a handle some submit returned is used,    *)
(* and none after m_job_handle_destroy has accepted it.                    *)

(* m_job_cancel of a job that has no result yet. (With one, it fails.)     *)
Cancel(c) ==
    /\ pc[c] = "idle" /\ "cancel" \in Ops
    /\ \E j \in shared :
        /\ ~job[j].result_ready
        /\ job' = Completed(j, "cancelled")
        /\ waiter' = WokenFor(j)
    /\ UNCHANGED <<queueVars, shared, pc, op, hand, wait_result, drainVars>>

(* Mutant: a future does not keep its job.                                 *)
HandleUnusedAlways(j) == TRUE

HandleUnused(j) == job[j].future_count = 0

(* m_job_handle_destroy accepts the handle...                              *)
HandleDestroy(c) ==
    /\ pc[c] = "idle" /\ "handle_destroy" \in Ops
    /\ \E j \in shared :
        /\ job[j].result_ready /\ HandleUnused(j)
        /\ job' = [job EXCEPT ![j].destroyed = TRUE]
        /\ shared' = shared \ {j}
        /\ op' = [op EXCEPT ![c] = Op("handle_destroy", "none", j)]
    /\ Goto(c, "free_job")
    /\ UNCHANGED <<queueVars, hand, waiter, wait_result, drainVars>>

(* ... and frees it, after the callbacks.                                  *)
FreeJob(c) ==
    /\ pc[c] = "free_job"
    /\ job' = [job EXCEPT ![op[c].job].freed = TRUE]
    /\ Return(c)
    /\ UNCHANGED <<queueVars, shared, hand, waiter, drainVars>>

(* m_job_wait_for_job: m_job_future_init on a future on the stack...       *)
FutureInit(c) ==
    /\ pc[c] = "idle" /\ "wait" \in Ops
    /\ \E j \in shared, m \in Modes :
        /\ job' = [job EXCEPT ![j].future_count = @ + 1]
        /\ op' = [op EXCEPT ![c] = Op("wait", m, j)]
    /\ Goto(c, "future")
    /\ UNCHANGED <<queueVars, shared, hand, waiter, wait_result, drainVars>>

(* ... whose wait finds the result, or does not block...                   *)
FutureReady(c) ==
    /\ pc[c] = "future"
    /\ job[op[c].job].result_ready \/ op[c].mode = "try"
    /\ Goto(c, "deinit")
    /\ UNCHANGED <<queueVars, jobVars, op, hand, waiter, wait_result, drainVars>>

(* ... or enqueues the future's waiter on the job and blocks...            *)
FutureAwait(c) ==
    /\ pc[c] = "future"
    /\ ~job[op[c].job].result_ready /\ op[c].mode # "try"
    /\ waiter' = [waiter EXCEPT ![c] = PreparedWaiter]
    /\ job' = [job EXCEPT ![op[c].job].waiters = Append(@, c)]
    /\ Goto(c, "await")
    /\ UNCHANGED <<queueVars, shared, op, hand, wait_result, drainVars>>

(* ... and removes it afterwards if nobody woke it...                      *)
FutureDone(c) ==
    /\ pc[c] = "awaited"
    /\ IF waiter[c].enqueued
       THEN \E q \in Unlinked(job[op[c].job].waiters, c) :
                job' = [job EXCEPT ![op[c].job].waiters = q]
       ELSE job' = job
    /\ waiter' = [waiter EXCEPT ![c] = NoWaiter]
    /\ Goto(c, "deinit")
    /\ UNCHANGED <<queueVars, shared, op, hand, wait_result, drainVars>>

(* ... until m_job_future_deinit.                                          *)
FutureDeinit(c) ==
    /\ pc[c] = "deinit"
    /\ job' = [job EXCEPT ![op[c].job].future_count = @ - 1]
    /\ Return(c)
    /\ UNCHANGED <<queueVars, shared, hand, waiter, drainVars>>

-----------------------------------------------------------------------------
(* m_job_queue_destroy.                                                    *)

QueueDestroy(c) ==
    /\ pc[c] = "idle" /\ "queue_destroy" \in Ops /\ ~destroyed
    /\ \A t \in Client : /\ op[t].kind # "queue_destroy"
                         /\ OrderlyDestroy => op[t].kind # "submit"
    /\ op' = [op EXCEPT ![c] = Op("queue_destroy", "none", NoJob)]
    /\ Goto(c, "lock")
    /\ UNCHANGED <<queueVars, jobVars, hand, waiter, wait_result, drainVars>>

(* Under the mutex: everybody who waits is woken.                          *)
MarkDestroyed(c) ==
    /\ pc[c] = "locked" /\ op[c].kind = "queue_destroy"
    /\ destroyed' = TRUE
    /\ pending' = count /\ index' = head
    /\ waiter' = WokenAll(WokenAll(waiter, submit_waiters, "destroyed"),
                          worker_waiters, "destroyed")
    /\ submit_waiters' = << >> /\ worker_waiters' = << >>
    /\ Unlock
    /\ Goto(c, "drain")
    /\ UNCHANGED <<ringVars, freed, active_workers, jobVars, op, hand, wait_result>>

(* Mutant: the last pending job is forgotten.                              *)
DrainedEarly == pending <= 1

Drained == pending = 0

(* Without it: the jobs that were pending are cancelled, one by one...     *)
DrainOne(c) ==
    /\ pc[c] = "drain" /\ ~Drained
    /\ LET j == ring[index] IN
        /\ ~job[j].freed
        /\ job' = Completed(j, "cancelled")
        /\ waiter' = WokenFor(j)
    /\ pending' = pending - 1 /\ index' = (index + 1) % Capacity
    /\ UNCHANGED <<queueVars, shared, pc, op, hand, wait_result>>

(* Mutant: a worker that runs a handler is left alone.                     *)
WorkersDeadOrRunning == \A w \in Worker : pc[w] \in {"dead", "run"}

WorkersDead == \A w \in Worker : pc[w] = "dead"

(* ... then the workers that have not ended are deleted, wherever they     *)
(* are...                                                                  *)
KillWorker(c) ==
    /\ pc[c] = "drain" /\ Drained
    /\ \E w \in Worker : pc[w] # "dead" /\ Goto(w, "dead")
    /\ UNCHANGED <<queueVars, jobVars, op, hand, waiter, wait_result, drainVars>>

(* ... and the queue is freed.                                             *)
FreeQueue(c) ==
    /\ pc[c] = "drain" /\ Drained
    /\ WorkersDead
    /\ freed' = TRUE
    /\ Return(c)
    /\ UNCHANGED <<ringVars, destroyed, active_workers, lock, waitersVars,
                   jobVars, hand, waiter, drainVars>>

-----------------------------------------------------------------------------
Init ==
    /\ ring = [i \in 0 .. Capacity - 1 |-> NoJob]
    /\ head = 0 /\ tail = 0 /\ count = 0
    /\ destroyed = FALSE /\ freed = FALSE /\ active_workers = 0
    /\ lock = NoTask /\ worker_waiters = << >> /\ submit_waiters = << >>
    /\ job = [j \in Job |-> Unborn] /\ shared = {}
    /\ pc = [t \in Task |-> IF t \in Worker THEN "start" ELSE "idle"]
    /\ op = [t \in Task |-> NoOp]
    /\ hand = [t \in Task |-> NoJob]
    /\ waiter = [t \in Task |-> NoWaiter]
    /\ wait_result = [t \in Task |-> "ok"]
    /\ pending = 0 /\ index = 0

(* A client may call...                                                    *)
Begin(c) ==
    \/ Submit(c) \/ Cancel(c) \/ HandleDestroy(c) \/ FutureInit(c)
    \/ QueueDestroy(c)

(* ... and every task goes on with what it has begun.                      *)
ClientStep(c) ==
    \/ Enqueue(c) \/ QueueFull(c) \/ AwaitSpace(c) \/ NoSpace(c)
    \/ UnlockAgain(c) \/ SubmitFails(c)
    \/ FreeJob(c) \/ FutureReady(c) \/ FutureAwait(c) \/ FutureDone(c)
    \/ FutureDeinit(c)
    \/ MarkDestroyed(c) \/ DrainOne(c) \/ KillWorker(c) \/ FreeQueue(c)

WorkerStep(w) ==
    \/ WorkerStart(w) \/ Take(w) \/ AwaitJob(w) \/ TakeFails(w) \/ WorkerStop(w)
    \/ RunHandler(w) \/ SkipHandler(w) \/ LeaveJob(w) \/ HandlerReturns(w)
    \/ SetResult(w)

Step(t) ==
    \/ Acquire(t) \/ BlockTaken(t) \/ BlockTimeout(t)
    \/ t \in Client /\ ClientStep(t)
    \/ t \in Worker /\ WorkerStep(t)

Next == (\E c \in Client : Begin(c)) \/ (\E t \in Task : Step(t))

Spec == Init /\ [][Next]_vars

(* The scheduler runs every ready task, handlers end, and time passes.     *)
FairSpec == Spec /\ \A t \in Task : WF_vars(Step(t))

-----------------------------------------------------------------------------
(* Properties.                                                             *)

Location == {"idle", "lock", "locked", "wait", "unlock", "start", "got", "skip",
             "run", "returned", "stop", "dead", "future", "await", "awaited",
             "deinit", "free_job", "drain"}

JobHandle ==
    [state : {"none", "pending", "running", "completed"}, result_ready : BOOLEAN,
     status : {"success", "error", "cancelled"}, future_count : Nat,
     waiters : Seq(Client), destroyed : BOOLEAN, freed : BOOLEAN]

CallOp == [kind : AllOps \cup {"none"}, mode : AllModes \cup {"none"},
           job : Job \cup {NoJob}]

RingTypeOK ==
    /\ ring \in [0 .. Capacity - 1 -> Job \cup {NoJob}]
    /\ head \in 0 .. Capacity - 1 /\ tail \in 0 .. Capacity - 1
    /\ count \in 0 .. Capacity
    /\ pending \in 0 .. Capacity /\ index \in 0 .. Capacity - 1

QueueTypeOK ==
    /\ destroyed \in BOOLEAN /\ freed \in BOOLEAN
    /\ active_workers \in 0 .. Cardinality(Worker)
    /\ lock \in Task \cup {NoTask}
    /\ worker_waiters \in Seq(Worker) /\ submit_waiters \in Seq(Client)

JobTypeOK == job \in [Job -> JobHandle] /\ shared \subseteq Job

TaskTypeOK ==
    /\ pc \in [Task -> Location] /\ op \in [Task -> CallOp]
    /\ hand \in [Task -> Job \cup {NoJob}]
    /\ waiter \in [Task -> Waiter] /\ wait_result \in [Task -> WaitResult]

(* Every variable has its type: no index leaves the ring, no counter goes  *)
(* below zero, and no more workers are active than there are.              *)
TypeOK == RingTypeOK /\ QueueTypeOK /\ JobTypeOK /\ TaskTypeOK

(* The wait lists hold the tasks that wait there, each once: a client that *)
(* timed out until it has taken itself out, and no task that has gone on.  *)
(* The same goes for the futures that wait for a job.                      *)
WaitListsMatch ==
    /\ \A q \in {worker_waiters, submit_waiters} \cup {job[j].waiters : j \in Job} :
          IsInjective(q)
    /\ \A w \in Worker : Contains(worker_waiters, w)
          => pc[w] = "dead" \/ (pc[w] = "wait" /\ waiter[w].armed)
    /\ \A c \in Client :
          /\ Contains(submit_waiters, c)
                => op[c].kind = "submit" /\ waiter[c].enqueued
          /\ \A j \in Job : Contains(job[j].waiters, c)
                => op[c].kind = "wait" /\ op[c].job = j /\ waiter[c].enqueued
          /\ waiter[c].enqueued
                => \/ Contains(submit_waiters, c)
                   \/ op[c].job # NoJob /\ Contains(job[op[c].job].waiters, c)

(* A job handle is not freed while the ring, a worker, a future or a call  *)
(* still leads to it.                                                      *)
JobAlive ==
    /\ \A i \in 0 .. count - 1 : ~job[ring[(head + i) % Capacity]].freed
    /\ \A i \in 0 .. pending - 1 : ~job[ring[(index + i) % Capacity]].freed
    /\ \A t \in Task :
          /\ pc[t] \in {"got", "skip", "run", "returned"} => ~job[hand[t]].freed
          /\ op[t].job # NoJob => ~job[op[t].job].freed

(* The queue is not freed while some task still has to use it.             *)
QueueAlive ==
    freed => \A t \in Task :
        pc[t] \notin {"start", "lock", "locked", "wait", "unlock", "run", "stop"}

(* Nothing is freed that somebody still has to use.                        *)
NothingFreedInUse == JobAlive /\ QueueAlive

(* Destroying the queue gives a result to every job that was in the ring:  *)
(* only a job whose worker was deleted while it ran has none afterwards.   *)
DestroyCancels ==
    freed => \A j \in shared : job[j].result_ready \/ \E w \in Worker : hand[w] = j

(* A job that was accepted gets its result.                                *)
JobCompletes == \A j \in Job : (j \in shared) ~> job[j].result_ready

(* Whoever waits for a job returns: m_job_future.h says of                 *)
(* m_job_future_wait that it is to "Wait until a job completes."           *)
WaiterReturns == \A c \in Client : (pc[c] = "await") ~> (pc[c] # "await")

(* A submit is not left waiting while the ring has a free slot: a worker   *)
(* that takes a job is to "Wake the oldest submitter waiting for queue     *)
(* capacity."                                                              *)
BlockedSubmitterWakes ==
    \A c \in Client :
        (pc[c] = "wait" /\ count < Capacity) ~> (pc[c] # "wait" \/ count = Capacity)

(* What the ring holds, the oldest job first, and what the callers know of *)
(* a job. A job whose submit has not succeeded is nobody's.                *)
Contents == [i \in 1 .. count |-> ring[(head + i - 1) % Capacity]]

StatusOf(j) ==
    IF j \notin shared /\ ~job[j].destroyed THEN "new"
    ELSE IF job[j].state = "completed" THEN job[j].status
    ELSE job[j].state

(* Jobs are taken in the order they were accepted, run at most once and    *)
(* never after they were cancelled, and have one result.                   *)
Status == [j \in Job |-> StatusOf(j)]

Abstract == INSTANCE JobPool WITH queue <- Contents, status <- Status

ImplementsJobPool == Abstract!Spec
=============================================================================
