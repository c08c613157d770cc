--------------------------- MODULE JobQueueProofs ---------------------------
(***************************************************************************)
(* Proofs about JobQueue, for every number of clients, workers and jobs,   *)
(* every capacity, and every set of calls and of ways to wait.             *)
(*                                                                         *)
(* TypeOK is not inductive. The invariant TypeInv adds where in the code   *)
(* each call can be, and what the two counters count: the workers that     *)
(* have begun, and the futures that lead to a job.                         *)
(*                                                                         *)
(* The later parts build on it: LifeInv (the mutex and the destruction of  *)
(* the queue), PoolInv (which job is where, for the refinement of JobPool  *)
(* and for what is freed when) and WaitInv (the three lists of waiters).   *)
(***************************************************************************)
EXTENDS JobQueue, SequenceLemmas, FiniteSetTheorems

(* Where in the code a call of kind k can be.                              *)
Place(k, l) ==
    \/ k = "none" /\ l = "idle"
    \/ k = "submit" /\ l \in {"lock", "locked", "wait", "unlock"}
    \/ k = "wait" /\ l \in {"future", "await", "awaited", "deinit"}
    \/ k = "handle_destroy" /\ l = "free_job"
    \/ k = "queue_destroy" /\ l \in {"lock", "locked", "drain"}

ClientOK(c) ==
    /\ Place(op[c].kind, pc[c])
    /\ op[c].kind \in {"submit", "wait", "handle_destroy"} => op[c].job \in Job
    /\ op[c].kind \in {"none", "queue_destroy"} => op[c].job = NoJob

WorkerOK(w) ==
    /\ op[w] = NoOp
    /\ pc[w] \in {"start", "lock", "locked", "wait", "got", "skip", "run", "returned",
                  "stop", "dead"}

CallInv == (\A c \in Client : ClientOK(c)) /\ (\A w \in Worker : WorkerOK(w))

(* A killed worker is never taken out of active_workers.                   *)
Begun   == {w \in Worker : pc[w] # "start"}
Working == {w \in Worker : pc[w] \notin {"start", "dead"}}

ActiveInv ==
    Cardinality(Working) <= active_workers /\ active_workers <= Cardinality(Begun)

Waiting(j) == {c \in Client : op[c].kind = "wait" /\ op[c].job = j}

FutureInv == \A j \in Job : job[j].future_count = Cardinality(Waiting(j))

Born(j) == job[j].state # "none"

BornInv ==
    /\ \A c \in Client : op[c].job \in Job => Born(op[c].job)
    /\ \A j \in shared : Born(j)

TypeInv == TypeOK /\ CallInv /\ ActiveInv /\ FutureInv /\ BornInv

-----------------------------------------------------------------------------
(* What the building blocks of the actions do.                             *)

(* All the task-local state but the waiters.                               *)
Still(u) ==
    /\ pc'[u] = pc[u] /\ op'[u] = op[u] /\ hand'[u] = hand[u]
    /\ wait_result'[u] = wait_result[u]

Alone(t) == \A u \in Task : u # t => Still(u)

LEMMA TasksApart ==
    /\ \A c \in Client : c \in Task /\ c \notin Worker
    /\ \A w \in Worker : w \in Task /\ w \notin Client
BY JobQueueAssumption

LEMMA GotoAt ==
    ASSUME TaskTypeOK, NEW t \in Task, NEW l \in Location, Goto(t, l)
    PROVE  /\ pc' \in [Task -> Location] /\ pc'[t] = l
           /\ \A u \in Task : u # t => pc'[u] = pc[u]
BY DEF TaskTypeOK, Goto

LEMMA ReturnAt ==
    ASSUME TaskTypeOK, NEW t \in Task, Return(t)
    PROVE  /\ pc' \in [Task -> Location] /\ op' \in [Task -> CallOp]
           /\ wait_result' \in [Task -> WaitResult]
           /\ pc'[t] = "idle" /\ op'[t] = NoOp /\ wait_result'[t] = "ok"
           /\ \A u \in Task : u # t => /\ pc'[u] = pc[u] /\ op'[u] = op[u]
                                       /\ wait_result'[u] = wait_result[u]
BY DEF TaskTypeOK, Return, Goto, NoOp, CallOp, WaitResult, Location

(* A call begins.                                                          *)
LEMMA CallAt ==
    ASSUME TaskTypeOK, NEW t \in Task, NEW k \in AllOps,
           NEW m \in AllModes \cup {"none"}, NEW j \in Job \cup {NoJob},
           op' = [op EXCEPT ![t] = Op(k, m, j)]
    PROVE  /\ op' \in [Task -> CallOp]
           /\ op'[t].kind = k /\ op'[t].mode = m /\ op'[t].job = j
           /\ \A u \in Task : u # t => op'[u] = op[u]
BY DEF TaskTypeOK, Op, CallOp

LEMMA WokenType ==
    ASSUME NEW w \in Waiter, NEW r \in WaitResult
    PROVE  Woken(w, r) \in Waiter
BY DEF Woken, Waiter, WaitResult

LEMMA WokenAllType ==
    ASSUME NEW w \in [Task -> Waiter], NEW q, NEW r \in WaitResult
    PROVE  WokenAll(w, q, r) \in [Task -> Waiter]
BY WokenType DEF WokenAll

LEMMA WakeHeadType ==
    ASSUME TaskTypeOK, NEW S \in SUBSET Task, NEW q \in Seq(S), WakeHead(q)
    PROVE  waiter' \in [Task -> Waiter] /\ Tail(q) \in Seq(S) /\ Head(q) \in S
<1>1. q # << >> /\ Head(q) \in S /\ Tail(q) \in Seq(S)
  BY DEF WakeHead
<1>2. Woken(waiter[Head(q)], "ok") \in Waiter
  BY <1>1, WokenType DEF TaskTypeOK, WaitResult
<1> QED BY <1>1, <1>2 DEF WakeHead, TaskTypeOK

LEMMA PreparedType ==
    PreparedWaiter \in Waiter /\ NoWaiter \in Waiter
BY DEF PreparedWaiter, NoWaiter, Waiter, WaitResult

LEMMA TimedOutType ==
    ASSUME NEW w \in Waiter
    PROVE  TimedOut(w) \in Waiter
BY DEF TimedOut, Waiter, WaitResult

-----------------------------------------------------------------------------
(* What is done to a job's handle.                                         *)

JobsBut(j) == \A i \in Job : i # j => job'[i] = job[i]

LEMMA JobMade ==
    ASSUME JobTypeOK, NEW j \in Job, job' = [job EXCEPT ![j] = NewJob]
    PROVE  /\ job' \in [Job -> JobHandle] /\ JobsBut(j)
           /\ job'[j].state = "pending" /\ job'[j].status = "error"
           /\ job'[j].result_ready = FALSE /\ job'[j].destroyed = FALSE
           /\ job'[j].freed = FALSE
           /\ job'[j].future_count = 0 /\ job'[j].waiters = << >>
BY DEF JobTypeOK, JobsBut, NewJob, JobHandle

LEMMA JobFreed ==
    ASSUME JobTypeOK, NEW j \in Job, job' = [job EXCEPT ![j].freed = TRUE]
    PROVE  /\ job' \in [Job -> JobHandle] /\ JobsBut(j)
           /\ job'[j].state = job[j].state /\ job'[j].status = job[j].status
           /\ job'[j].result_ready = job[j].result_ready
           /\ job'[j].destroyed = job[j].destroyed
           /\ job'[j].freed = TRUE
           /\ job'[j].future_count = job[j].future_count
           /\ job'[j].waiters = job[j].waiters
BY DEF JobTypeOK, JobsBut, JobHandle

LEMMA JobRuns ==
    ASSUME JobTypeOK, NEW j \in Job, job' = [job EXCEPT ![j].state = "running"]
    PROVE  /\ job' \in [Job -> JobHandle] /\ JobsBut(j)
           /\ job'[j].state = "running" /\ job'[j].status = job[j].status
           /\ job'[j].result_ready = job[j].result_ready
           /\ job'[j].destroyed = job[j].destroyed
           /\ job'[j].freed = job[j].freed
           /\ job'[j].future_count = job[j].future_count
           /\ job'[j].waiters = job[j].waiters
BY DEF JobTypeOK, JobsBut, JobHandle

(* The first result stays.                                                 *)
LEMMA JobCompleted ==
    ASSUME JobTypeOK, NEW j \in Job, NEW s \in {"success", "error", "cancelled"},
           job' = Completed(j, s), ~job[j].result_ready, ~job[j].destroyed
    PROVE  /\ job' \in [Job -> JobHandle] /\ JobsBut(j)
           /\ job'[j].state = "completed" /\ job'[j].status = s
           /\ job'[j].result_ready = TRUE
           /\ job'[j].destroyed = job[j].destroyed
           /\ job'[j].freed = job[j].freed
           /\ job'[j].future_count = job[j].future_count
           /\ job'[j].waiters = << >>
<1>1. job' = [job EXCEPT ![j].result_ready = TRUE, ![j].state = "completed",
                         ![j].status = s, ![j].waiters = << >>]
  BY DEF Completed
<1>2. JobsBut(j)
  BY <1>1 DEF JobsBut, JobTypeOK
<1>3. DOMAIN job' = Job
  BY <1>1 DEF JobTypeOK
<1>4. job'[j] = [job[j] EXCEPT !.result_ready = TRUE, !.state = "completed",
                               !.status = s, !.waiters = << >>]
  BY <1>1 DEF JobTypeOK
<1>5. job[j] \in JobHandle
  BY DEF JobTypeOK
<1>6. /\ job'[j] \in JobHandle
      /\ job'[j].state = "completed" /\ job'[j].status = s
      /\ job'[j].result_ready = TRUE
      /\ job'[j].destroyed = job[j].destroyed
      /\ job'[j].freed = job[j].freed
      /\ job'[j].future_count = job[j].future_count
      /\ job'[j].waiters = << >>
  <2>1. /\ job'[j].state = "completed" /\ job'[j].status = s
        /\ job'[j].destroyed = job[j].destroyed
        /\ job'[j].freed = job[j].freed
        /\ job'[j].future_count = job[j].future_count
        /\ job'[j].waiters = << >>
    BY <1>4, <1>5 DEF JobHandle
  <2>2. job'[j].result_ready = TRUE
    BY <1>4, <1>5 DEF JobHandle
  <2>3. job'[j] = [state |-> "completed", result_ready |-> TRUE, status |-> s,
                   future_count |-> job[j].future_count, waiters |-> << >>,
                   destroyed |-> job[j].destroyed, freed |-> job[j].freed]
    BY <1>4, <1>5 DEF JobHandle
  <2>4. << >> \in Seq(Client)
    OBVIOUS
  <2>5. job'[j] \in JobHandle
    BY <2>3, <2>4, <1>5 DEF JobHandle
  <2> QED BY <2>1, <2>2, <2>5
<1>7. job' \in [Job -> JobHandle]
  <2>1. \A i \in Job : job'[i] \in JobHandle
    BY <1>2, <1>6 DEF JobsBut, JobTypeOK
  <2>2. job' = [i \in Job |-> job'[i]]
    BY <1>1, <1>3, Zenon
  <2> QED BY <2>1, <2>2
<1> QED BY <1>2, <1>6, <1>7

LEMMA JobCompletedBefore ==
    ASSUME NEW j, NEW s, job' = Completed(j, s),
           job[j].result_ready \/ job[j].destroyed
    PROVE  job' = job
BY DEF Completed

LEMMA JobDestroyed ==
    ASSUME JobTypeOK, NEW j \in Job, job' = [job EXCEPT ![j].destroyed = TRUE]
    PROVE  /\ job' \in [Job -> JobHandle] /\ JobsBut(j)
           /\ job'[j].state = job[j].state /\ job'[j].status = job[j].status
           /\ job'[j].result_ready = job[j].result_ready
           /\ job'[j].destroyed = TRUE
           /\ job'[j].freed = job[j].freed
           /\ job'[j].future_count = job[j].future_count
           /\ job'[j].waiters = job[j].waiters
BY DEF JobTypeOK, JobsBut, JobHandle

LEMMA JobCounted ==
    ASSUME JobTypeOK, NEW j \in Job, NEW n \in Nat,
           job' = [job EXCEPT ![j].future_count = n]
    PROVE  /\ job' \in [Job -> JobHandle] /\ JobsBut(j)
           /\ job'[j].state = job[j].state /\ job'[j].status = job[j].status
           /\ job'[j].result_ready = job[j].result_ready
           /\ job'[j].destroyed = job[j].destroyed
           /\ job'[j].freed = job[j].freed
           /\ job'[j].future_count = n
           /\ job'[j].waiters = job[j].waiters
BY DEF JobTypeOK, JobsBut, JobHandle

LEMMA JobAwaited ==
    ASSUME JobTypeOK, NEW j \in Job, NEW q \in Seq(Client),
           job' = [job EXCEPT ![j].waiters = q]
    PROVE  /\ job' \in [Job -> JobHandle] /\ JobsBut(j)
           /\ job'[j].state = job[j].state /\ job'[j].status = job[j].status
           /\ job'[j].result_ready = job[j].result_ready
           /\ job'[j].destroyed = job[j].destroyed
           /\ job'[j].freed = job[j].freed
           /\ job'[j].future_count = job[j].future_count
           /\ job'[j].waiters = q
BY DEF JobTypeOK, JobsBut, JobHandle

-----------------------------------------------------------------------------
(* Which actions change what.                                              *)

LEMMA NextActs ==
    ASSUME Next
    PROVE  \E t \in Task : Step(t) \/ (t \in Client /\ Begin(t))
BY TasksApart DEF Next

LEMMA RingChanges ==
    ASSUME NEW t, Step(t) \/ Begin(t)
    PROVE  \/ UNCHANGED ringVars
           \/ t \in Client /\ Enqueue(t)
           \/ t \in Worker /\ Take(t)
<1>1. CASE Begin(t)
  BY <1>1 DEF Begin, Submit, Cancel, HandleDestroy, FutureInit,
              QueueDestroy, queueVars, ringVars
<1>2. CASE Acquire(t) \/ BlockTaken(t) \/ BlockTimeout(t)
  BY <1>2 DEF Acquire, BlockTaken, BlockTimeout, queueVars, ringVars
<1>3. CASE t \in Client /\ ClientStep(t)
  BY <1>3 DEF ClientStep, QueueFull, AwaitSpace, NoSpace, UnlockAgain,
              SubmitFails, FreeJob, FutureReady, FutureAwait, FutureDone,
              FutureDeinit, MarkDestroyed, DrainOne, KillWorker, FreeQueue,
              queueVars, ringVars
<1>4. CASE t \in Worker /\ WorkerStep(t)
  BY <1>4 DEF WorkerStep, WorkerStart, AwaitJob, TakeFails, WorkerStop,
              RunHandler, SkipHandler, LeaveJob, HandlerReturns, SetResult,
              queueVars, ringVars
<1> QED BY <1>1, <1>2, <1>3, <1>4 DEF Step

LEMMA DrainChanges ==
    ASSUME NEW t, Step(t) \/ Begin(t)
    PROVE  \/ UNCHANGED drainVars
           \/ /\ t \in Client
              /\ \/ MarkDestroyed(t) \/ DrainOne(t)
<1>1. CASE Begin(t)
  BY <1>1 DEF Begin, Submit, Cancel, HandleDestroy, FutureInit,
              QueueDestroy, drainVars
<1>2. CASE Acquire(t) \/ BlockTaken(t) \/ BlockTimeout(t)
  BY <1>2 DEF Acquire, BlockTaken, BlockTimeout, drainVars
<1>3. CASE t \in Client /\ ClientStep(t)
  BY <1>3 DEF ClientStep, Enqueue, QueueFull, AwaitSpace, NoSpace,
              UnlockAgain, SubmitFails, FreeJob, FutureReady, FutureAwait,
              FutureDone, FutureDeinit, KillWorker, FreeQueue, drainVars
<1>4. CASE t \in Worker /\ WorkerStep(t)
  BY <1>4 DEF WorkerStep, WorkerStart, Take, AwaitJob, TakeFails,
              WorkerStop, RunHandler, SkipHandler, LeaveJob, HandlerReturns,
              SetResult, drainVars
<1> QED BY <1>1, <1>2, <1>3, <1>4 DEF Step

LEMMA LifeChanges ==
    ASSUME NEW t, Step(t) \/ Begin(t)
    PROVE  \/ UNCHANGED <<destroyed, freed>>
           \/ /\ t \in Client
              /\ \/ MarkDestroyed(t) \/ FreeQueue(t)
<1>1. CASE Begin(t)
  BY <1>1 DEF Begin, Submit, Cancel, HandleDestroy, FutureInit,
              QueueDestroy, queueVars, lifeVars
<1>2. CASE Acquire(t) \/ BlockTaken(t) \/ BlockTimeout(t)
  BY <1>2 DEF Acquire, BlockTaken, BlockTimeout, queueVars, lifeVars
<1>3. CASE t \in Client /\ ClientStep(t)
  BY <1>3 DEF ClientStep, Enqueue, QueueFull, AwaitSpace, NoSpace,
              UnlockAgain, SubmitFails, FreeJob, FutureReady, FutureAwait,
              FutureDone, FutureDeinit, DrainOne, KillWorker, queueVars,
              lifeVars
<1>4. CASE t \in Worker /\ WorkerStep(t)
  BY <1>4 DEF WorkerStep, WorkerStart, Take, AwaitJob, TakeFails,
              WorkerStop, RunHandler, SkipHandler, LeaveJob, HandlerReturns,
              SetResult, queueVars, lifeVars
<1> QED BY <1>1, <1>2, <1>3, <1>4 DEF Step

LEMMA ActiveChanges ==
    ASSUME NEW t, Step(t) \/ Begin(t)
    PROVE  \/ UNCHANGED active_workers
           \/ /\ t \in Worker
              /\ \/ WorkerStart(t) \/ WorkerStop(t)
<1>1. CASE Begin(t)
  BY <1>1 DEF Begin, Submit, Cancel, HandleDestroy, FutureInit,
              QueueDestroy, queueVars, lifeVars
<1>2. CASE Acquire(t) \/ BlockTaken(t) \/ BlockTimeout(t)
  BY <1>2 DEF Acquire, BlockTaken, BlockTimeout, queueVars, lifeVars
<1>3. CASE t \in Client /\ ClientStep(t)
  BY <1>3 DEF ClientStep, Enqueue, QueueFull, AwaitSpace, NoSpace,
              UnlockAgain, SubmitFails, FreeJob, FutureReady, FutureAwait,
              FutureDone, FutureDeinit, MarkDestroyed, DrainOne,
              KillWorker, FreeQueue, queueVars, lifeVars
<1>4. CASE t \in Worker /\ WorkerStep(t)
  BY <1>4 DEF WorkerStep, Take, AwaitJob, TakeFails, RunHandler,
              SkipHandler, LeaveJob, HandlerReturns, SetResult, queueVars, lifeVars
<1> QED BY <1>1, <1>2, <1>3, <1>4 DEF Step

LEMMA ListChanges ==
    ASSUME NEW t, Step(t) \/ Begin(t)
    PROVE  \/ UNCHANGED waitersVars
           \/ /\ t \in Client
              /\ \/ Enqueue(t) \/ AwaitSpace(t) \/ SubmitFails(t)
                 \/ MarkDestroyed(t)
           \/ /\ t \in Worker
              /\ \/ Take(t) \/ AwaitJob(t)
<1>1. CASE Begin(t)
  BY <1>1 DEF Begin, Submit, Cancel, HandleDestroy, FutureInit,
              QueueDestroy, queueVars, waitersVars
<1>2. CASE Acquire(t) \/ BlockTaken(t) \/ BlockTimeout(t)
  BY <1>2 DEF Acquire, BlockTaken, BlockTimeout, queueVars, waitersVars
<1>3. CASE t \in Client /\ ClientStep(t)
  BY <1>3 DEF ClientStep, QueueFull, NoSpace, UnlockAgain, FreeJob,
              FutureReady, FutureAwait, FutureDone, FutureDeinit, DrainOne,
              KillWorker, FreeQueue, queueVars, waitersVars
<1>4. CASE t \in Worker /\ WorkerStep(t)
  BY <1>4 DEF WorkerStep, WorkerStart, TakeFails, WorkerStop, RunHandler,
              SkipHandler, LeaveJob, HandlerReturns, SetResult, queueVars,
              waitersVars
<1> QED BY <1>1, <1>2, <1>3, <1>4 DEF Step

LEMMA LockChanges ==
    ASSUME NEW t, Step(t) \/ Begin(t)
    PROVE  \/ UNCHANGED lock
           \/ Acquire(t)
           \/ /\ t \in Client
              /\ \/ Enqueue(t) \/ QueueFull(t) \/ AwaitSpace(t)
                 \/ NoSpace(t) \/ SubmitFails(t) \/ MarkDestroyed(t)
           \/ /\ t \in Worker
              /\ \/ Take(t) \/ AwaitJob(t) \/ TakeFails(t)
<1>1. CASE Begin(t)
  BY <1>1 DEF Begin, Submit, Cancel, HandleDestroy, FutureInit,
              QueueDestroy, queueVars
<1>2. CASE Acquire(t) \/ BlockTaken(t) \/ BlockTimeout(t)
  BY <1>2 DEF BlockTaken, BlockTimeout, queueVars
<1>3. CASE t \in Client /\ ClientStep(t)
  BY <1>3 DEF ClientStep, UnlockAgain, FreeJob, FutureReady, FutureAwait,
              FutureDone, FutureDeinit, DrainOne, KillWorker, FreeQueue,
              queueVars
<1>4. CASE t \in Worker /\ WorkerStep(t)
  BY <1>4 DEF WorkerStep, WorkerStart, WorkerStop, RunHandler, SkipHandler, LeaveJob,
              HandlerReturns, SetResult, queueVars
<1> QED BY <1>1, <1>2, <1>3, <1>4 DEF Step

LEMMA JobChanges ==
    ASSUME NEW t, Step(t) \/ Begin(t)
    PROVE  \/ UNCHANGED job
           \/ Submit(t) \/ Cancel(t) \/ HandleDestroy(t)
           \/ FutureInit(t)
           \/ /\ t \in Client
              /\ \/ QueueFull(t) \/ UnlockAgain(t) \/ SubmitFails(t)
                 \/ FreeJob(t) \/ FutureAwait(t) \/ FutureDone(t)
                 \/ FutureDeinit(t) \/ DrainOne(t)
           \/ /\ t \in Worker
              /\ \/ RunHandler(t) \/ SetResult(t)
<1>1. CASE Begin(t)
  BY <1>1 DEF Begin, QueueDestroy, jobVars
<1>2. CASE Acquire(t) \/ BlockTaken(t) \/ BlockTimeout(t)
  BY <1>2 DEF Acquire, BlockTaken, BlockTimeout, jobVars
<1>3. CASE t \in Client /\ ClientStep(t)
  BY <1>3 DEF ClientStep, Enqueue, AwaitSpace, NoSpace, FutureReady,
              MarkDestroyed, KillWorker, FreeQueue, jobVars
<1>4. CASE t \in Worker /\ WorkerStep(t)
  BY <1>4 DEF WorkerStep, WorkerStart, Take, AwaitJob, TakeFails,
              WorkerStop, SkipHandler, LeaveJob, HandlerReturns, jobVars
<1> QED BY <1>1, <1>2, <1>3, <1>4 DEF Step

LEMMA SharedChanges ==
    ASSUME NEW t, Step(t) \/ Begin(t)
    PROVE  \/ UNCHANGED shared
           \/ HandleDestroy(t)
           \/ t \in Client /\ Enqueue(t)
<1>1. CASE Begin(t)
  BY <1>1 DEF Begin, Submit, Cancel, FutureInit, QueueDestroy, jobVars
<1>2. CASE Acquire(t) \/ BlockTaken(t) \/ BlockTimeout(t)
  BY <1>2 DEF Acquire, BlockTaken, BlockTimeout, jobVars
<1>3. CASE t \in Client /\ ClientStep(t)
  BY <1>3 DEF ClientStep, QueueFull, AwaitSpace, NoSpace, UnlockAgain,
              SubmitFails, FreeJob, FutureReady, FutureAwait, FutureDone,
              FutureDeinit, MarkDestroyed, DrainOne, KillWorker, FreeQueue,
              jobVars
<1>4. CASE t \in Worker /\ WorkerStep(t)
  BY <1>4 DEF WorkerStep, WorkerStart, Take, AwaitJob, TakeFails,
              WorkerStop, RunHandler, SkipHandler, LeaveJob, HandlerReturns,
              SetResult, jobVars
<1> QED BY <1>1, <1>2, <1>3, <1>4 DEF Step

LEMMA HandChanges ==
    ASSUME NEW t, Step(t) \/ Begin(t)
    PROVE  \/ UNCHANGED hand
           \/ /\ t \in Worker
              /\ \/ Take(t) \/ LeaveJob(t) \/ SetResult(t)
<1>1. CASE Begin(t)
  BY <1>1 DEF Begin, Submit, Cancel, HandleDestroy, FutureInit,
              QueueDestroy
<1>2. CASE Acquire(t) \/ BlockTaken(t) \/ BlockTimeout(t)
  BY <1>2 DEF Acquire, BlockTaken, BlockTimeout
<1>3. CASE t \in Client /\ ClientStep(t)
  BY <1>3 DEF ClientStep, Enqueue, QueueFull, AwaitSpace, NoSpace,
              UnlockAgain, SubmitFails, FreeJob, FutureReady, FutureAwait,
              FutureDone, FutureDeinit, MarkDestroyed, DrainOne,
              KillWorker, FreeQueue
<1>4. CASE t \in Worker /\ WorkerStep(t)
  BY <1>4 DEF WorkerStep, WorkerStart, AwaitJob, TakeFails, WorkerStop,
              RunHandler, SkipHandler, HandlerReturns
<1> QED BY <1>1, <1>2, <1>3, <1>4 DEF Step

-----------------------------------------------------------------------------
(* The types of the next state.                                            *)

LEMMA WaiterTypeNext ==
    ASSUME TypeOK, NEW t \in Task, Step(t) \/ (t \in Client /\ Begin(t))
    PROVE  waiter' \in [Task -> Waiter]
<1>0. /\ TaskTypeOK /\ QueueTypeOK /\ waiter \in [Task -> Waiter]
      /\ worker_waiters \in Seq(Worker) /\ submit_waiters \in Seq(Client)
      /\ Worker \in SUBSET Task /\ Client \in SUBSET Task
      /\ PreparedWaiter \in Waiter /\ NoWaiter \in Waiter
      /\ "ok" \in WaitResult /\ "destroyed" \in WaitResult
  BY PreparedType, TasksApart DEF TypeOK, TaskTypeOK, QueueTypeOK, WaitResult
<1>1. CASE UNCHANGED waiter
  BY <1>0, <1>1
<1>2. CASE BlockTaken(t)
  BY <1>0, <1>2 DEF BlockTaken
<1>3. CASE BlockTimeout(t)
  BY <1>0, <1>3, TimedOutType DEF BlockTimeout
<1>4. CASE Enqueue(t)
  BY <1>0, <1>4, WakeHeadType DEF Enqueue, WakeWorker
<1>5. CASE Take(t)
  BY <1>0, <1>5, WakeHeadType DEF Take, WakeSubmitter
<1>6. CASE AwaitSpace(t) \/ AwaitJob(t) \/ FutureAwait(t)
  BY <1>0, <1>6 DEF AwaitSpace, AwaitJob, FutureAwait
<1>7. CASE SubmitFails(t) \/ FutureDone(t)
  BY <1>0, <1>7 DEF SubmitFails, FutureDone
<1>8. CASE Cancel(t) \/ SetResult(t) \/ DrainOne(t)
  BY <1>0, <1>8, WokenAllType DEF Cancel, SetResult, DrainOne, WokenFor
<1>9. CASE MarkDestroyed(t)
  BY <1>0, <1>9, WokenAllType DEF MarkDestroyed
<1>10. CASE Begin(t) /\ ~Cancel(t)
  BY <1>10, <1>1 DEF Begin, Submit, HandleDestroy, FutureInit, QueueDestroy
<1>11. CASE Acquire(t)
  BY <1>11, <1>1 DEF Acquire
<1>12. CASE ClientStep(t)
  BY <1>12, <1>1, <1>4, <1>6, <1>7, <1>8, <1>9
     DEF ClientStep, QueueFull, NoSpace, UnlockAgain, FreeJob, FutureReady,
         FutureDeinit, KillWorker, FreeQueue
<1>13. CASE WorkerStep(t)
  BY <1>13, <1>1, <1>5, <1>6, <1>8
     DEF WorkerStep, WorkerStart, TakeFails, WorkerStop, RunHandler,
         SkipHandler, LeaveJob, HandlerReturns
<1> QED
  BY <1>2, <1>3, <1>8, <1>10, <1>11, <1>12, <1>13 DEF Step

LEMMA RingTypeNext ==
    ASSUME TypeOK, CallInv, NEW t \in Task, Step(t) \/ (t \in Client /\ Begin(t))
    PROVE  RingTypeOK'
<1>0. RingTypeOK /\ Capacity \in Nat \ {0} /\ 1 \in 0 .. Capacity
  BY JobQueueAssumption DEF TypeOK
<1>1. ASSUME NEW h \in 0 .. Capacity - 1
      PROVE  (h + 1) % Capacity \in 0 .. Capacity - 1
  BY <1>0, <1>1, SlotValue DEF Slot
<1>2. /\ ring' \in [0 .. Capacity - 1 -> Job \cup {NoJob}]
      /\ head' \in 0 .. Capacity - 1 /\ tail' \in 0 .. Capacity - 1
      /\ count' \in 0 .. Capacity
  <2>1. CASE UNCHANGED ringVars
    BY <1>0, <2>1 DEF RingTypeOK, ringVars
  <2>2. CASE t \in Client /\ Enqueue(t)
    <3>1. op[t].job \in Job
      BY <2>2 DEF CallInv, ClientOK, Enqueue, Submitting
    <3>2. /\ ring' = [ring EXCEPT ![tail] = op[t].job] /\ head' = head
          /\ tail' = (tail + 1) % Capacity /\ count' = count + 1
          /\ count < Capacity
      BY <2>2 DEF Enqueue, HasSpace
    <3> QED BY <1>0, <1>1, <3>1, <3>2 DEF RingTypeOK
  <2>3. CASE t \in Worker /\ Take(t)
    <3>1. /\ ring' = ring /\ tail' = tail
          /\ head' = (head + 1) % Capacity /\ count' = count - 1 /\ count > 0
      BY <2>3 DEF Take
    <3> QED BY <1>0, <1>1, <3>1 DEF RingTypeOK
  <2> QED BY <2>1, <2>2, <2>3, RingChanges
<1>3. pending' \in 0 .. Capacity /\ index' \in 0 .. Capacity - 1
  <2>1. CASE UNCHANGED drainVars
    BY <1>0, <2>1 DEF RingTypeOK, drainVars
  <2>2. CASE MarkDestroyed(t)
    BY <1>0, <2>2 DEF RingTypeOK, MarkDestroyed
  <2>3. CASE DrainOne(t)
    BY <1>0, <1>1, <2>3 DEF RingTypeOK, DrainOne, Drained
  <2> QED BY <2>1, <2>2, <2>3, DrainChanges
<1> QED BY <1>2, <1>3 DEF RingTypeOK

(* A step changes its own task only, but for the waiters it wakes and the  *)
(* workers m_job_queue_destroy deletes.                                    *)
LEMMA TasksNext ==
    ASSUME TypeOK, NEW t \in Task, Step(t) \/ (t \in Client /\ Begin(t))
    PROVE  /\ TaskTypeOK'
           /\ Alone(t) \/ (t \in Client /\ KillWorker(t))
<1>0. /\ TaskTypeOK /\ RingTypeOK /\ waiter' \in [Task -> Waiter]
      /\ "timeout" \in WaitResult /\ shared \subseteq Job
      /\ AllOps = {"submit", "cancel", "wait", "handle_destroy", "queue_destroy"}
      /\ Modes \subseteq AllModes
  BY WaiterTypeNext, JobQueueAssumption DEF TypeOK, WaitResult, AllOps, JobTypeOK
<1>1. CASE t \in Client /\ Begin(t)
  <2>1. /\ UNCHANGED <<hand, wait_result>>
        /\ \/ UNCHANGED <<pc, op>>
           \/ /\ \E l \in Location : Goto(t, l)
              /\ \E k \in AllOps, m \in AllModes \cup {"none"},
                    j \in Job \cup {NoJob} : op' = [op EXCEPT ![t] = Op(k, m, j)]
    <3>1. CASE Submit(t)
      BY <1>0, <3>1 DEF Submit, Location
    <3>2. CASE Cancel(t)
      BY <3>2 DEF Cancel
    <3>3. CASE HandleDestroy(t)
      BY <1>0, <3>3 DEF HandleDestroy, Location
    <3>4. CASE FutureInit(t)
      BY <1>0, <3>4 DEF FutureInit, Location
    <3>5. CASE QueueDestroy(t)
      BY <1>0, <3>5 DEF QueueDestroy, Location
    <3> QED BY <1>1, <3>1, <3>2, <3>3, <3>4, <3>5 DEF Begin
  <2>2. CASE UNCHANGED <<pc, op>>
    BY <1>0, <2>1, <2>2 DEF TaskTypeOK, Alone, Still
  <2>3. CASE ~UNCHANGED <<pc, op>>
    <3>1. PICK l \in Location : Goto(t, l)
      BY <2>1, <2>3
    <3>2. PICK k \in AllOps, m \in AllModes \cup {"none"}, j \in Job \cup {NoJob} :
              op' = [op EXCEPT ![t] = Op(k, m, j)]
      BY <2>1, <2>3
    <3>3. pc' \in [Task -> Location] /\ \A u \in Task : u # t => pc'[u] = pc[u]
      BY <1>0, <3>1, GotoAt
    <3>4. op' \in [Task -> CallOp] /\ \A u \in Task : u # t => op'[u] = op[u]
      BY <1>0, <3>2, CallAt
    <3> QED BY <1>0, <2>1, <3>3, <3>4 DEF TaskTypeOK, Alone, Still
  <2> QED BY <2>2, <2>3
<1>2. CASE Acquire(t) \/ BlockTaken(t) \/ BlockTimeout(t)
  <2>1. /\ UNCHANGED <<op, hand>>
        /\ \E l \in Location : Goto(t, l)
        /\ \/ UNCHANGED wait_result
           \/ \E r \in WaitResult : wait_result' = [wait_result EXCEPT ![t] = r]
    <3>1. waiter[t].result \in WaitResult
      BY <1>0 DEF TaskTypeOK, Waiter
    <3> QED
      BY <1>0, <1>2, <3>1 DEF Acquire, BlockTaken, BlockTimeout, Location
  <2> QED BY <1>0, <2>1, GotoAt DEF TaskTypeOK, Alone, Still
<1>3. CASE t \in Client /\ ClientStep(t) /\ ~KillWorker(t)
  <2>1. /\ UNCHANGED hand
        /\ \/ UNCHANGED <<pc, op, wait_result>>
           \/ Return(t)
           \/ UNCHANGED <<op, wait_result>> /\ \E l \in Location : Goto(t, l)
    BY <1>3 DEF ClientStep, Enqueue, QueueFull, AwaitSpace, NoSpace, UnlockAgain,
                SubmitFails, FreeJob, FutureReady, FutureAwait, FutureDone,
                FutureDeinit, MarkDestroyed, DrainOne, FreeQueue, Location
  <2> QED BY <1>0, <2>1, GotoAt, ReturnAt DEF TaskTypeOK, Alone, Still
<1>4. CASE t \in Client /\ KillWorker(t)
  BY <1>0, <1>4, TasksApart DEF KillWorker, Goto, TaskTypeOK, Location
<1>5. CASE t \in Worker /\ WorkerStep(t)
  <2>1. /\ UNCHANGED <<op, wait_result>>
        /\ \E l \in Location : Goto(t, l)
        /\ \/ UNCHANGED hand
           \/ \E j \in Job \cup {NoJob} : hand' = [hand EXCEPT ![t] = j]
    <3>1. ring[head] \in Job \cup {NoJob}
      BY <1>0 DEF RingTypeOK
    <3>2. CASE Take(t)
      <4>1. /\ UNCHANGED <<op, wait_result>> /\ Goto(t, "got")
            /\ hand' = [hand EXCEPT ![t] = ring[head]]
        BY <3>2 DEF Take
      <4> QED BY <3>1, <4>1 DEF Location
    <3>3. CASE LeaveJob(t) \/ SetResult(t)
      <4>1. /\ UNCHANGED <<op, wait_result>> /\ Goto(t, "lock")
            /\ hand' = [hand EXCEPT ![t] = NoJob]
        BY <3>3 DEF LeaveJob, SetResult
      <4> QED BY <4>1 DEF Location
    <3>4. CASE ~Take(t) /\ ~LeaveJob(t) /\ ~SetResult(t)
      BY <1>5, <3>4 DEF WorkerStep, WorkerStart, AwaitJob, TakeFails,
                        WorkerStop, RunHandler, SkipHandler, LeaveJob, HandlerReturns,
                        Location
    <3> QED BY <3>2, <3>3, <3>4
  <2> QED BY <1>0, <2>1, GotoAt DEF TaskTypeOK, Alone, Still
<1> QED BY <1>1, <1>2, <1>3, <1>4, <1>5 DEF Step

(* A call goes through its places in order.                                *)
LEMMA CallNext ==
    ASSUME TypeOK, CallInv, NEW t \in Task, Step(t) \/ (t \in Client /\ Begin(t))
    PROVE  CallInv'
<1>0. /\ TaskTypeOK /\ shared \subseteq Job /\ Modes \subseteq AllModes
      /\ AllOps = {"submit", "cancel", "wait", "handle_destroy", "queue_destroy"}
  BY JobQueueAssumption DEF TypeOK, AllOps, JobTypeOK
<1>1. CASE KillWorker(t)
  BY <1>0, <1>1, TasksApart
     DEF KillWorker, Goto, CallInv, ClientOK, WorkerOK, TaskTypeOK
<1>2. CASE t \in Client /\ ~KillWorker(t)
  <2>1. Alone(t) /\ ClientOK(t) /\ t \notin Worker
    BY <1>2, TasksNext, TasksApart DEF CallInv
  <2>2. SUFFICES ClientOK(t)'
    BY <1>2, <2>1, <2>2, TasksApart DEF CallInv, ClientOK, WorkerOK, Alone, Still
  <2>3. CASE Submit(t)
    <3>1. PICK j \in Job, m \in Modes : op' = [op EXCEPT ![t] = Op("submit", m, j)]
      BY <2>3 DEF Submit
    <3>2. op'[t].kind = "submit" /\ op'[t].job = j
      BY <1>0, <3>1 DEF TaskTypeOK, Op
    <3>3. pc'[t] = "lock"
      BY <1>0, <2>3, GotoAt DEF Submit, Location
    <3> QED BY <3>2, <3>3 DEF ClientOK, Place
  <2>4. CASE HandleDestroy(t)
    <3>1. PICK j \in Job : op' = [op EXCEPT ![t] = Op("handle_destroy", "none", j)]
      BY <1>0, <2>4 DEF HandleDestroy
    <3>2. op'[t].kind = "handle_destroy" /\ op'[t].job = j
      BY <1>0, <3>1 DEF TaskTypeOK, Op
    <3>3. pc'[t] = "free_job"
      BY <1>0, <2>4, GotoAt DEF HandleDestroy, Location
    <3> QED BY <3>2, <3>3 DEF ClientOK, Place
  <2>5. CASE FutureInit(t)
    <3>1. PICK j \in Job, m \in Modes : op' = [op EXCEPT ![t] = Op("wait", m, j)]
      BY <1>0, <2>5 DEF FutureInit
    <3>2. op'[t].kind = "wait" /\ op'[t].job = j
      BY <1>0, <3>1 DEF TaskTypeOK, Op
    <3>3. pc'[t] = "future"
      BY <1>0, <2>5, GotoAt DEF FutureInit, Location
    <3> QED BY <3>2, <3>3 DEF ClientOK, Place
  <2>6. CASE QueueDestroy(t)
    <3>1. op' = [op EXCEPT ![t] = Op("queue_destroy", "none", NoJob)]
      BY <2>6 DEF QueueDestroy
    <3>2. op'[t].kind = "queue_destroy" /\ op'[t].job = NoJob
      BY <1>0, <3>1 DEF TaskTypeOK, Op
    <3>3. pc'[t] = "lock"
      BY <1>0, <2>6, GotoAt DEF QueueDestroy, Location
    <3> QED BY <3>2, <3>3 DEF ClientOK, Place
  <2>7. CASE UNCHANGED <<pc, op>>
    BY <2>1, <2>7 DEF ClientOK
  <2>8. CASE Return(t)
    <3>1. pc'[t] = "idle" /\ op'[t] = NoOp
      BY <1>0, <2>8, ReturnAt
    <3> QED BY <3>1 DEF ClientOK, Place, NoOp
  <2>9. CASE Acquire(t) \/ BlockTaken(t) \/ BlockTimeout(t)
    BY <1>0, <2>1, <2>9
       DEF Acquire, BlockTaken, BlockTimeout, Goto, TaskTypeOK, ClientOK, Place
  <2>10. CASE AwaitSpace(t) \/ NoSpace(t) \/ FutureReady(t) \/ FutureAwait(t)
              \/ FutureDone(t) \/ MarkDestroyed(t)
    BY <1>0, <2>1, <2>10
       DEF AwaitSpace, NoSpace, FutureReady, FutureAwait, FutureDone,
           MarkDestroyed, Submitting, Goto, TaskTypeOK, ClientOK, Place
  <2> QED
    BY <1>2, <2>1, <2>3, <2>4, <2>5, <2>6, <2>7, <2>8, <2>9, <2>10
       DEF Step, Begin, ClientStep, Cancel, Enqueue, QueueFull, UnlockAgain,
           SubmitFails, FreeJob, FutureDeinit, DrainOne, FreeQueue
<1>3. CASE t \in Worker
  <2>1. Alone(t) /\ WorkerOK(t) /\ t \notin Client
    BY <1>3, TasksNext, TasksApart DEF CallInv
  <2>2. SUFFICES WorkerOK(t)'
    BY <1>3, <2>1, <2>2, TasksApart DEF CallInv, ClientOK, WorkerOK, Alone, Still
  <2>3. CASE Acquire(t) \/ BlockTaken(t) \/ BlockTimeout(t)
    BY <1>0, <2>1, <2>3
       DEF Acquire, BlockTaken, BlockTimeout, Goto, TaskTypeOK, WorkerOK, NoOp
  <2>4. CASE WorkerStep(t)
    BY <1>0, <2>1, <2>4
       DEF WorkerStep, WorkerStart, Take, AwaitJob, TakeFails, WorkerStop,
           RunHandler, SkipHandler, LeaveJob, HandlerReturns, SetResult, Goto, TaskTypeOK,
           WorkerOK
  <2> QED BY <2>1, <2>3, <2>4 DEF Step
<1> QED BY <1>1, <1>2, <1>3, JobQueueAssumption

(* Killing a worker leaves it counted as active: active_workers lies       *)
(* between the workers at work and those that have ever begun.             *)
LEMMA ActiveNext ==
    ASSUME TypeOK, CallInv, ActiveInv,
           NEW t \in Task, Step(t) \/ (t \in Client /\ Begin(t))
    PROVE  ActiveInv' /\ active_workers' \in 0 .. Cardinality(Worker)
<1>0. /\ TaskTypeOK /\ active_workers \in Nat /\ Cardinality(Worker) \in Nat
      /\ \A S \in SUBSET Worker : /\ IsFiniteSet(S) /\ Cardinality(S) \in Nat
                                  /\ Cardinality(S) <= Cardinality(Worker)
  <2>1. IsFiniteSet(Worker)
    BY JobQueueAssumption
  <2>2. ASSUME NEW S \in SUBSET Worker
        PROVE  /\ IsFiniteSet(S) /\ Cardinality(S) \in Nat
               /\ Cardinality(S) <= Cardinality(Worker)
    BY <2>1, FS_Subset, FS_CardinalityType
  <2>3. Cardinality(Worker) \in Nat
    BY <2>1, FS_CardinalityType
  <2> QED BY <2>1, <2>2, <2>3 DEF TypeOK, QueueTypeOK
<1>1. /\ Working \in SUBSET Worker /\ Begun \in SUBSET Worker
      /\ Working' \in SUBSET Worker /\ Begun' \in SUBSET Worker
  BY DEF Working, Begun
<1> DEFINE Goal == /\ Cardinality(Working') <= active_workers'
                   /\ active_workers' <= Cardinality(Begun')
                   /\ active_workers' \in Nat
<1>2. SUFFICES Goal
  BY <1>0, <1>1 DEF ActiveInv
<1>3. CASE Working' = Working /\ Begun' = Begun /\ active_workers' = active_workers
  BY <1>0, <1>3 DEF ActiveInv
<1>4. CASE t \in Worker /\ WorkerStart(t)
  <2>1. /\ pc[t] = "start" /\ active_workers' = active_workers + 1
        /\ pc'[t] = "lock" /\ \A u \in Task : u # t => pc'[u] = pc[u]
    BY <1>0, <1>4, GotoAt DEF WorkerStart, Location
  <2>2. /\ Working' = Working \cup {t} /\ Begun' = Begun \cup {t}
        /\ t \notin Begun /\ t \notin Working
    BY <1>4, <2>1, TasksApart DEF Working, Begun
  <2>3. Cardinality(Working') = Cardinality(Working) + 1
    BY <1>0, <1>1, <2>2, FS_AddElement
  <2>4. Cardinality(Begun') = Cardinality(Begun) + 1
    BY <1>0, <1>1, <2>2, FS_AddElement
  <2> QED BY <1>0, <1>1, <2>1, <2>3, <2>4 DEF ActiveInv
<1>5. CASE t \in Worker /\ WorkerStop(t)
  <2>1. /\ pc[t] = "stop" /\ active_workers' = active_workers - 1
        /\ pc'[t] = "dead" /\ \A u \in Task : u # t => pc'[u] = pc[u]
    BY <1>0, <1>5, GotoAt DEF WorkerStop, Location
  <2>2. /\ Working' = Working \ {t} /\ Begun' = Begun /\ t \in Working
    BY <1>5, <2>1, TasksApart DEF Working, Begun
  <2>3. Cardinality(Working') = Cardinality(Working) - 1
    BY <1>0, <1>1, <2>2, FS_RemoveElement
  <2> QED BY <1>0, <1>1, <2>1, <2>2, <2>3 DEF ActiveInv
<1>6. CASE t \in Client /\ KillWorker(t)
  <2>1. PICK w \in Worker : pc[w] # "dead" /\ Goto(w, "dead")
    BY <1>6 DEF KillWorker
  <2>2. /\ pc'[w] = "dead" /\ active_workers' = active_workers
        /\ \A u \in Task : u # w => pc'[u] = pc[u]
    BY <1>0, <1>6, <2>1, TasksApart, GotoAt DEF KillWorker, Location, queueVars, lifeVars
  <2>3. /\ Working' = Working \ {w} /\ Begun' = Begun \cup {w}
    BY <2>2, TasksApart DEF Working, Begun
  <2>4. Cardinality(Working') <= Cardinality(Working)
    BY <1>0, <1>1, <2>3, FS_RemoveElement
  <2>5. Cardinality(Begun') >= Cardinality(Begun)
    BY <1>0, <1>1, <2>3, FS_AddElement
  <2> QED BY <1>0, <1>1, <2>2, <2>4, <2>5 DEF ActiveInv
<1>7. CASE t \in Client /\ ~KillWorker(t)
  <2>1. \A w \in Worker : pc'[w] = pc[w]
    BY <1>7, TasksNext, TasksApart DEF Alone, Still
  <2>2. active_workers' = active_workers
    BY <1>7, ActiveChanges, TasksApart
  <2> QED BY <1>3, <2>1, <2>2 DEF Working, Begun
<1>8. CASE t \in Worker /\ ~WorkerStart(t) /\ ~WorkerStop(t)
  <2>1. Alone(t) /\ t \notin Client
    BY <1>8, TasksNext, TasksApart
  <2>2. active_workers' = active_workers
    BY <1>8, ActiveChanges
  <2>3. pc[t] \notin {"start", "dead"} /\ pc'[t] \notin {"start", "dead"}
    BY <1>0, <1>8, <2>1
       DEF Step, Acquire, BlockTaken, BlockTimeout, WorkerStep, Take, AwaitJob,
           TakeFails, RunHandler, SkipHandler, LeaveJob, HandlerReturns, SetResult, Taking,
           Goto, TaskTypeOK
  <2> QED BY <1>3, <2>1, <2>2, <2>3, TasksApart DEF Working, Begun, Alone, Still
<1> QED
  BY <1>4, <1>5, <1>6, <1>7, <1>8, JobQueueAssumption

LEMMA QueueTypeNext ==
    ASSUME TypeOK, CallInv, ActiveInv,
           NEW t \in Task, Step(t) \/ (t \in Client /\ Begin(t))
    PROVE  QueueTypeOK'
<1>0. QueueTypeOK /\ TaskTypeOK
  BY DEF TypeOK
<1>1. destroyed' \in BOOLEAN /\ freed' \in BOOLEAN
  <2>1. CASE UNCHANGED <<destroyed, freed>>
    BY <1>0, <2>1 DEF QueueTypeOK
  <2>2. CASE MarkDestroyed(t) \/ FreeQueue(t)
    BY <1>0, <2>2 DEF QueueTypeOK, MarkDestroyed, FreeQueue
  <2> QED BY <2>1, <2>2, LifeChanges
<1>2. active_workers' \in 0 .. Cardinality(Worker)
  BY ActiveNext
<1>3. lock' \in Task \cup {NoTask}
  <2>1. CASE lock' = lock \/ lock' = NoTask \/ lock' = t
    BY <1>0, <2>1 DEF QueueTypeOK
  <2>2. lock' = lock \/ lock' = NoTask \/ lock' = t
    BY LockChanges
       DEF Acquire, Enqueue, QueueFull, AwaitSpace, NoSpace, SubmitFails, Take,
           AwaitJob, TakeFails, MarkDestroyed, Unlock
  <2> QED BY <2>1, <2>2
<1>4. worker_waiters' \in Seq(Worker) /\ submit_waiters' \in Seq(Client)
  <2>0. /\ worker_waiters \in Seq(Worker) /\ submit_waiters \in Seq(Client)
        /\ Worker \in SUBSET Task /\ Client \in SUBSET Task
    BY <1>0, TasksApart DEF QueueTypeOK
  <2>1. CASE UNCHANGED waitersVars
    BY <2>0, <2>1 DEF waitersVars
  <2>2. CASE t \in Client /\ Enqueue(t)
    BY <1>0, <2>0, <2>2, WakeHeadType DEF Enqueue, WakeWorker
  <2>3. CASE t \in Worker /\ Take(t)
    BY <1>0, <2>0, <2>3, WakeHeadType DEF Take, WakeSubmitter
  <2>4. CASE t \in Client /\ AwaitSpace(t)
    BY <2>0, <2>4 DEF AwaitSpace
  <2>5. CASE t \in Worker /\ AwaitJob(t)
    BY <2>0, <2>5 DEF AwaitJob
  <2>6. CASE t \in Client /\ MarkDestroyed(t)
    BY <2>0, <2>6 DEF MarkDestroyed
  <2>7. CASE t \in Client /\ SubmitFails(t)
    <3>1. worker_waiters' = worker_waiters /\ submit_waiters' \in UnlinkedSubmitter(t)
      BY <2>7 DEF SubmitFails
    <3>2. CASE submit_waiters' = submit_waiters
      BY <2>0, <3>1, <3>2
    <3>3. CASE \E i \in 1 .. Len(submit_waiters) :
                  submit_waiters' = RemoveAt(submit_waiters, i)
      BY <2>0, <3>1, <3>3, RemoveAtIndexed
    <3> QED
      BY <2>0, <3>1, <3>2, <3>3 DEF UnlinkedSubmitter, Unlinked
  <2> QED BY <2>1, <2>2, <2>3, <2>4, <2>5, <2>6, <2>7, ListChanges
<1> QED BY <1>1, <1>2, <1>3, <1>4 DEF QueueTypeOK

-----------------------------------------------------------------------------
(* The futures of a job.                                                   *)

LEMMA UnlinkedType ==
    ASSUME NEW S, NEW q \in Seq(S), NEW t, NEW r \in Unlinked(q, t)
    PROVE  r \in Seq(S)
<1>1. CASE Contains(q, t)
  <2>1. PICK i \in 1 .. Len(q) : r = RemoveAt(q, i)
    BY <1>1 DEF Unlinked
  <2> QED BY <2>1, RemoveAtIndexed
<1>2. CASE ~Contains(q, t)
  BY <1>2 DEF Unlinked
<1> QED BY <1>1, <1>2

LEMMA WaitingFinite ==
    ASSUME NEW j
    PROVE  IsFiniteSet(Waiting(j)) /\ Cardinality(Waiting(j)) \in Nat
<1>1. Waiting(j) \in SUBSET Client /\ IsFiniteSet(Client)
  BY JobQueueAssumption DEF Waiting
<1>2. IsFiniteSet(Waiting(j))
  BY <1>1, FS_Subset
<1> QED BY <1>2, FS_CardinalityType

(* Nobody waits for a job that has not been accepted.                      *)
LEMMA WaitingUnborn ==
    ASSUME CallInv, BornInv, NEW j \in Job, ~Born(j)
    PROVE  Waiting(j) = {}
BY DEF BornInv, Waiting, CallInv

(* Only m_job_future_init and m_job_future_deinit change who waits.        *)
LEMMA WaitingNext ==
    ASSUME TypeOK, CallInv, NEW t \in Task, Step(t) \/ (t \in Client /\ Begin(t)),
           ~FutureInit(t), ~FutureDeinit(t), NEW j
    PROVE  Waiting(j)' = Waiting(j)
<1>0. TaskTypeOK /\ CallInv'
  BY CallNext DEF TypeOK
<1>1. \A c \in Client : c # t => op'[c] = op[c]
  <2>1. CASE Alone(t)
    BY <2>1, TasksApart DEF Alone, Still
  <2>2. CASE KillWorker(t)
    BY <2>2 DEF KillWorker
  <2> QED BY <2>1, <2>2, TasksNext
<1>2. t \in Client /\ op'[t] # op[t] => op[t].kind # "wait" /\ op'[t].kind # "wait"
  <2> SUFFICES ASSUME t \in Client, op'[t] # op[t]
               PROVE  op[t].kind # "wait" /\ op'[t].kind # "wait"
    OBVIOUS
  <2>0. ClientOK(t) /\ t \notin Worker /\ ClientOK(t)'
    BY <1>0, TasksApart DEF CallInv
  <2>1. CASE Begin(t)
    <3>1. pc[t] = "idle" /\ pc'[t] \in {"idle", "lock", "free_job"}
      BY <1>0, <2>1 DEF Begin, Submit, Cancel, HandleDestroy, QueueDestroy, Goto,
                        TaskTypeOK
    <3> QED BY <2>0, <3>1 DEF ClientOK, Place
  <2>2. CASE Step(t)
    <3>1. /\ pc'[t] = "idle"
          /\ pc[t] \in {"locked", "unlock", "free_job", "drain"}
      BY <1>0, <2>0, <2>2, ReturnAt
         DEF Step, Acquire, BlockTaken, BlockTimeout, ClientStep, Enqueue, QueueFull,
             AwaitSpace, NoSpace, UnlockAgain, SubmitFails, FreeJob, FutureReady,
             FutureAwait, FutureDone, MarkDestroyed, DrainOne, KillWorker, FreeQueue,
             Submitting
    <3> QED BY <2>0, <3>1 DEF ClientOK, Place
  <2> QED BY <2>1, <2>2
<1> QED BY <1>1, <1>2 DEF Waiting

(* A step that leaves future_count alone.                                  *)
LEMMA FutureKept ==
    ASSUME TypeOK, CallInv, FutureInv,
           NEW t \in Task, Step(t) \/ (t \in Client /\ Begin(t)),
           ~FutureInit(t), ~FutureDeinit(t),
           \A i \in Job : job'[i].future_count = job[i].future_count
    PROVE  FutureInv'
BY WaitingNext DEF FutureInv

(* An index that leads to no job changes none.                             *)
LEMMA NoJobChanged ==
    ASSUME JobTypeOK, NEW s
    PROVE  /\ [job EXCEPT ![NoJob].state = "running"] = job
           /\ Completed(NoJob, s) = job
BY JobQueueAssumption DEF JobTypeOK, Completed

(* The result of a job, in every case.                                     *)
LEMMA CompletedType ==
    ASSUME JobTypeOK, NEW j \in Job \cup {NoJob},
           NEW s \in {"success", "error", "cancelled"}, job' = Completed(j, s)
    PROVE  /\ job' \in [Job -> JobHandle]
           /\ \A i \in Job : /\ job'[i].future_count = job[i].future_count
                             /\ Born(i) => Born(i)'
<1>1. CASE job' = job
  BY <1>1 DEF JobTypeOK, Born
<1>2. CASE j = NoJob
  BY <1>1, <1>2, NoJobChanged
<1>3. CASE j \in Job /\ (job[j].result_ready \/ job[j].destroyed)
  BY <1>1, <1>3, JobCompletedBefore
<1>4. CASE j \in Job /\ ~job[j].result_ready /\ ~job[j].destroyed
  <2>1. /\ job' \in [Job -> JobHandle] /\ JobsBut(j)
        /\ job'[j].state = "completed"
        /\ job'[j].future_count = job[j].future_count
    BY <1>4, JobCompleted
  <2> QED BY <2>1 DEF JobsBut, Born
<1> QED BY <1>2, <1>3, <1>4

LEMMA JobNext ==
    ASSUME TypeInv, NEW t \in Task, Step(t) \/ (t \in Client /\ Begin(t))
    PROVE  /\ job' \in [Job -> JobHandle] /\ FutureInv'
           /\ \A i \in Job : Born(i) => Born(i)'
<1>0. /\ TypeOK /\ CallInv /\ FutureInv /\ BornInv /\ JobTypeOK /\ TaskTypeOK
      /\ job \in [Job -> JobHandle] /\ shared \subseteq Job /\ RingTypeOK
      /\ \A j \in Job : job[j].future_count \in Nat
      /\ \A j \in Job : job[j].waiters \in Seq(Client)
  BY DEF TypeInv, TypeOK, JobTypeOK, JobHandle
<1> DEFINE Same == \A i \in Job : /\ job'[i].future_count = job[i].future_count
                                  /\ Born(i) => Born(i)'
<1>1. CASE job' \in [Job -> JobHandle] /\ Same /\ ~FutureInit(t) /\ ~FutureDeinit(t)
  <2>1. \A i \in Job : job'[i].future_count = job[i].future_count
    BY <1>1
  <2>2. FutureInv'
    BY <1>0, <1>1, <2>1, FutureKept
  <2> QED BY <1>1, <2>2
<1>1a. CASE UNCHANGED job /\ ~FutureInit(t) /\ ~FutureDeinit(t)
  <2>1. Same
    BY <1>1a DEF Born
  <2> QED BY <1>0, <1>1, <1>1a, <2>1
<1> HIDE DEF Same
<1>2. CASE FutureInit(t)
  <2>1. PICK j \in shared, m \in Modes :
            /\ job' = [job EXCEPT ![j].future_count = @ + 1]
            /\ op' = [op EXCEPT ![t] = Op("wait", m, j)]
    BY <1>2 DEF FutureInit
  <2>2. /\ job' = [job EXCEPT ![j].future_count = job[j].future_count + 1]
        /\ j \in Job /\ job[j].future_count + 1 \in Nat
    BY <1>0, <2>1
  <2>3. /\ job' \in [Job -> JobHandle] /\ JobsBut(j)
        /\ job'[j].state = job[j].state
        /\ job'[j].future_count = job[j].future_count + 1
    <3> DEFINE n == job[j].future_count + 1
    <3>1. n \in Nat /\ job' = [job EXCEPT ![j].future_count = n]
      BY <2>2
    <3> HIDE DEF n
    <3>2. /\ job' \in [Job -> JobHandle] /\ JobsBut(j)
          /\ job'[j].state = job[j].state /\ job'[j].future_count = n
      BY <1>0, <2>2, <3>1, JobCounted
    <3> QED BY <3>2 DEF n
  <2>4. t \in Client /\ op[t].kind = "none"
    BY <1>0, <1>2, JobQueueAssumption
       DEF FutureInit, CallInv, ClientOK, WorkerOK, Place
  <2>5. op'[t].kind = "wait" /\ op'[t].job = j /\ \A u \in Task : u # t => op'[u] = op[u]
    BY <1>0, <2>1 DEF TaskTypeOK, Op
  <2>6. /\ Waiting(j)' = Waiting(j) \cup {t} /\ t \notin Waiting(j)
        /\ \A i \in Job : i # j => Waiting(i)' = Waiting(i)
    BY <2>4, <2>5, TasksApart DEF Waiting
  <2>7. Cardinality(Waiting(j)') = Cardinality(Waiting(j)) + 1
    BY <2>6, WaitingFinite, FS_AddElement
  <2>8. FutureInv'
    BY <1>0, <2>3, <2>6, <2>7 DEF FutureInv, JobsBut
  <2> QED BY <2>3, <2>8 DEF JobsBut, Born, Same
<1>3. CASE t \in Client /\ FutureDeinit(t)
  <2>0. PICK j \in Job : j = op[t].job /\ op[t].kind = "wait"
    BY <1>0, <1>3 DEF FutureDeinit, CallInv, ClientOK, Place
  <2>1. t \in Waiting(j)
    BY <1>3, <2>0 DEF Waiting
  <2>2. Return(t) /\ job' = [job EXCEPT ![j].future_count = job[j].future_count - 1]
    BY <1>3, <2>0 DEF FutureDeinit
  <2>3. op'[t].kind = "none" /\ \A u \in Task : u # t => op'[u] = op[u]
    BY <1>0, <2>2, ReturnAt DEF NoOp
  <2>4. /\ Waiting(j)' = Waiting(j) \ {t}
        /\ \A i \in Job : i # j => Waiting(i)' = Waiting(i)
    BY <2>0, <2>3, TasksApart DEF Waiting
  <2>5. Cardinality(Waiting(j)') = Cardinality(Waiting(j)) - 1
    BY <2>1, <2>4, WaitingFinite, FS_RemoveElement
  <2>6. /\ Cardinality(Waiting(j)') \in Nat
        /\ job[j].future_count = Cardinality(Waiting(j))
        /\ job[j].future_count - 1 \in Nat
    <3>1. IsFiniteSet(Waiting(j)')
      BY <2>4, WaitingFinite, FS_RemoveElement
    <3>2. Cardinality(Waiting(j)') \in Nat /\ Cardinality(Waiting(j)) \in Nat
      BY <3>1, WaitingFinite, FS_CardinalityType
    <3>3. job[j].future_count = Cardinality(Waiting(j))
      BY <1>0, <2>1 DEF FutureInv
    <3> QED BY <2>5, <3>2, <3>3
  <2>7. /\ job' \in [Job -> JobHandle] /\ JobsBut(j)
        /\ job'[j].state = job[j].state
        /\ job'[j].future_count = job[j].future_count - 1
    <3> DEFINE n == job[j].future_count - 1
    <3>1. n \in Nat /\ job' = [job EXCEPT ![j].future_count = n]
      BY <2>2, <2>6
    <3> HIDE DEF n
    <3>2. /\ job' \in [Job -> JobHandle] /\ JobsBut(j)
          /\ job'[j].state = job[j].state /\ job'[j].future_count = n
      BY <1>0, <2>1, <3>1, JobCounted
    <3> QED BY <3>2 DEF n
  <2>8. FutureInv'
    BY <1>0, <2>4, <2>5, <2>6, <2>7 DEF FutureInv, JobsBut
  <2> QED BY <2>7, <2>8 DEF JobsBut, Born, Same
<1>4. CASE Submit(t)
  <2>1. PICK j \in Job : job[j].state = "none" /\ job' = [job EXCEPT ![j] = NewJob]
    BY <1>4 DEF Submit
  <2>2. /\ job' \in [Job -> JobHandle] /\ JobsBut(j) /\ job'[j].state = "pending"
        /\ job'[j].future_count = 0
    BY <1>0, <2>1, JobMade
  <2>3. job[j].future_count = 0
    BY <1>0, <2>1, WaitingUnborn, FS_EmptySet DEF FutureInv, Born
  <2>4. ~FutureInit(t) /\ ~FutureDeinit(t)
    <3>1. pc[t] = "idle" /\ pc'[t] = "lock"
      BY <1>0, <1>4, GotoAt DEF Submit, Location
    <3>2. FutureInit(t) => pc'[t] = "future"
      BY <1>0, GotoAt DEF FutureInit, Location
    <3> QED BY <3>1, <3>2 DEF FutureDeinit
  <2> QED BY <1>1, <2>2, <2>3, <2>4 DEF JobsBut, Born, Same
<1>5. CASE /\ QueueFull(t) \/ UnlockAgain(t) \/ SubmitFails(t) \/ FreeJob(t)
           /\ t \in Client
  <2> DEFINE j == op[t].job
  <2>1. j \in Job /\ ~FutureInit(t) /\ ~FutureDeinit(t)
    BY <1>0, <1>5
       DEF QueueFull, UnlockAgain, SubmitFails, FreeJob, Submitting, FutureInit,
           FutureDeinit, CallInv, ClientOK, Place
  <2>2. job' = [job EXCEPT ![j].freed = TRUE]
    BY <1>5 DEF QueueFull, UnlockAgain, SubmitFails, FreeJob, Discarded
  <2>3. /\ job' \in [Job -> JobHandle] /\ JobsBut(j)
        /\ job'[j].state = job[j].state
        /\ job'[j].future_count = job[j].future_count
    BY <1>0, <2>1, <2>2, JobFreed
  <2> QED BY <1>1, <2>1, <2>3 DEF JobsBut, Born, Same
<1>6. CASE HandleDestroy(t)
  <2>1. PICK j \in shared : job' = [job EXCEPT ![j].destroyed = TRUE]
    BY <1>6 DEF HandleDestroy
  <2>2. /\ job' \in [Job -> JobHandle] /\ JobsBut(j)
        /\ job'[j].state = job[j].state
        /\ job'[j].future_count = job[j].future_count
    BY <1>0, <2>1, JobDestroyed
  <2>3. ~FutureInit(t) /\ ~FutureDeinit(t)
    <3>1. pc[t] = "idle" /\ pc'[t] = "free_job"
      BY <1>0, <1>6, GotoAt DEF HandleDestroy, Location
    <3>2. FutureInit(t) => pc'[t] = "future"
      BY <1>0, GotoAt DEF FutureInit, Location
    <3> QED BY <3>1, <3>2 DEF FutureDeinit
  <2> QED BY <1>1, <2>2, <2>3 DEF JobsBut, Born, Same
<1>7. CASE Cancel(t) \/ SetResult(t) \/ DrainOne(t)
  <2>1. PICK j \in Job \cup {NoJob}, s \in {"success", "error", "cancelled"} :
            job' = Completed(j, s)
    <3>1. CASE Cancel(t)
      BY <1>0, <3>1 DEF Cancel
    <3>2. CASE SetResult(t)
      BY <1>0, <3>2 DEF SetResult, TaskTypeOK
    <3>3. CASE DrainOne(t)
      BY <1>0, <3>3 DEF DrainOne, RingTypeOK
    <3> QED BY <1>7, <3>1, <3>2, <3>3
  <2>2. job' \in [Job -> JobHandle] /\ Same
    BY <1>0, <2>1, CompletedType DEF Same
  <2>3. ~FutureInit(t) /\ ~FutureDeinit(t)
    <3>1. pc'[t] # "future" /\ pc[t] # "deinit"
      BY <1>0, <1>7, GotoAt DEF Cancel, SetResult, DrainOne, Location
    <3>2. FutureInit(t) => pc'[t] = "future"
      BY <1>0, GotoAt DEF FutureInit, Location
    <3> QED BY <3>1, <3>2 DEF FutureDeinit
  <2> QED BY <1>1, <2>2, <2>3
<1>8. CASE RunHandler(t)
  <2>1. /\ hand[t] \in Job \cup {NoJob}
        /\ job' = [job EXCEPT ![hand[t]].state = "running"]
        /\ ~FutureInit(t) /\ ~FutureDeinit(t)
    BY <1>0, <1>8 DEF RunHandler, TaskTypeOK, FutureInit, FutureDeinit
  <2>2. CASE hand[t] = NoJob
    BY <1>0, <1>1a, <2>1, <2>2, NoJobChanged
  <2>3. CASE hand[t] \in Job
    <3>1. /\ job' \in [Job -> JobHandle] /\ JobsBut(hand[t])
          /\ job'[hand[t]].state = "running"
          /\ job'[hand[t]].future_count = job[hand[t]].future_count
      BY <1>0, <2>1, <2>3, JobRuns
    <3> QED BY <1>1, <2>1, <3>1 DEF JobsBut, Born, Same
  <2> QED BY <2>1, <2>2, <2>3
<1>9. CASE t \in Client /\ (FutureAwait(t) \/ FutureDone(t))
  <2> DEFINE j == op[t].job
  <2>1. j \in Job /\ ~FutureInit(t) /\ ~FutureDeinit(t)
    BY <1>0, <1>9
       DEF FutureAwait, FutureDone, FutureInit, FutureDeinit, CallInv, ClientOK,
           Place
  <2>2. CASE job' = job
    BY <1>1a, <2>1, <2>2
  <2>3. CASE job' # job
    <3>1. PICK q \in Seq(Client) : job' = [job EXCEPT ![j].waiters = q]
      <4>1. CASE FutureAwait(t)
        <5>1. job' = [job EXCEPT ![j].waiters = Append(job[j].waiters, t)]
          BY <4>1 DEF FutureAwait
        <5>2. Append(job[j].waiters, t) \in Seq(Client)
          BY <1>0, <1>9, <2>1
        <5> QED BY <5>1, <5>2
      <4>2. CASE FutureDone(t)
        <5>1. PICK q \in Unlinked(job[j].waiters, t) :
                  job' = [job EXCEPT ![j].waiters = q]
          BY <4>2, <2>3 DEF FutureDone
        <5>2. q \in Seq(Client)
          BY <1>0, <2>1, <5>1, UnlinkedType
        <5> QED BY <5>1, <5>2
      <4> QED BY <1>9, <4>1, <4>2
    <3>2. /\ job' \in [Job -> JobHandle] /\ JobsBut(j)
          /\ job'[j].state = job[j].state
          /\ job'[j].future_count = job[j].future_count
      BY <1>0, <2>1, <3>1, JobAwaited
    <3> QED BY <1>1, <2>1, <3>2 DEF JobsBut, Born, Same
  <2> QED BY <2>2, <2>3
<1>10. FutureDeinit(t) => t \in Client
  BY <1>0, JobQueueAssumption DEF FutureDeinit, CallInv, WorkerOK
<1> QED
  BY <1>2, <1>3, <1>4, <1>5, <1>6, <1>7, <1>8, <1>9, <1>10, <1>1a,
     JobChanges

LEMMA BornNext ==
    ASSUME TypeInv, NEW t \in Task, Step(t) \/ (t \in Client /\ Begin(t))
    PROVE  BornInv' /\ shared' \subseteq Job
<1>0. /\ TypeOK /\ CallInv /\ BornInv /\ JobTypeOK /\ TaskTypeOK
      /\ shared \subseteq Job /\ \A i \in Job : Born(i) => Born(i)'
      /\ AllOps = {"submit", "cancel", "wait", "handle_destroy", "queue_destroy"}
      /\ Modes \subseteq AllModes /\ NoJob \notin Job
  BY JobNext, JobQueueAssumption DEF TypeInv, TypeOK, JobTypeOK, AllOps
<1>1. shared' \subseteq Job /\ \A j \in shared' : Born(j)'
  <2>1. CASE UNCHANGED shared \/ HandleDestroy(t)
    BY <1>0, <2>1 DEF HandleDestroy, BornInv
  <2>2. CASE t \in Client /\ Enqueue(t)
    <3>1. op[t].job \in Job /\ shared' = shared \cup {op[t].job}
      BY <1>0, <2>2 DEF Enqueue, Submitting, CallInv, ClientOK
    <3> QED BY <1>0, <2>2, <3>1 DEF BornInv
  <2> QED BY <2>1, <2>2, SharedChanges
<1>2. ASSUME NEW c \in Client, NEW j \in Job, op'[c] = op[c], op'[c].job = j
      PROVE  Born(j)'
  BY <1>0, <1>2 DEF BornInv
<1>3. ASSUME NEW c \in Client, c # t
      PROVE  op'[c] = op[c]
  <2>1. CASE Alone(t)
    BY <1>3, <2>1, TasksApart DEF Alone, Still
  <2>2. CASE KillWorker(t)
    BY <2>2 DEF KillWorker
  <2> QED BY <1>0, <2>1, <2>2, TasksNext
<1>4. ASSUME t \in Client, op'[t] # op[t], op'[t].job \in Job
      PROVE  \E j \in Job : op'[t].job = j /\ Born(j)'
  <2>1. CASE Submit(t)
    <3>1. PICK j \in Job, m \in Modes :
              /\ job' = [job EXCEPT ![j] = NewJob]
              /\ op' = [op EXCEPT ![t] = Op("submit", m, j)]
      BY <2>1 DEF Submit
    <3>2. op'[t].job = j
      BY <1>0, <3>1 DEF TaskTypeOK, Op
    <3>3. job'[j].state = "pending"
      BY <1>0, <3>1, JobMade
    <3> QED BY <3>2, <3>3 DEF Born
  <2>2. CASE HandleDestroy(t) \/ FutureInit(t)
    <3>1. PICK j \in shared, m \in AllModes \cup {"none"},
               k \in {"handle_destroy", "wait"} :
              op' = [op EXCEPT ![t] = Op(k, m, j)]
      BY <1>0, <2>2 DEF HandleDestroy, FutureInit
    <3>2. op'[t].job = j /\ j \in Job
      BY <1>0, <3>1 DEF TaskTypeOK, Op
    <3> QED BY <1>0, <3>1, <3>2 DEF BornInv
  <2>3. CASE QueueDestroy(t)
    BY <1>0, <1>4, <2>3 DEF QueueDestroy, TaskTypeOK, Op
  <2>4. CASE Return(t)
    BY <1>0, <1>4, <2>4, ReturnAt DEF NoOp
  <2>5. CASE Step(t)
    BY <1>4, <2>4, <2>5, TasksApart
       DEF Step, Acquire, BlockTaken, BlockTimeout, ClientStep, Enqueue, QueueFull,
           AwaitSpace, NoSpace, UnlockAgain, SubmitFails, FreeJob, FutureReady,
           FutureAwait, FutureDone, FutureDeinit, MarkDestroyed, DrainOne,
           KillWorker, FreeQueue
  <2> QED
    BY <1>4, <2>1, <2>2, <2>3, <2>5 DEF Begin, Cancel
<1>5. ASSUME NEW c \in Client, NEW j \in Job, op'[c].job = j
      PROVE  Born(j)'
  BY <1>2, <1>3, <1>4, <1>5
<1>6. \A c \in Client : op'[c].job \in Job => job'[op'[c].job].state # "none"
  BY <1>5 DEF Born
<1> QED BY <1>1, <1>6 DEF BornInv, Born

LEMMA TypeInvInit == Init => TypeInv
<1> SUFFICES ASSUME Init PROVE TypeInv
  OBVIOUS
<1>0. Capacity \in Nat \ {0} /\ NoJob \notin Job
  BY JobQueueAssumption
<1>1. RingTypeOK
  BY <1>0 DEF Init, RingTypeOK
<1>2. Cardinality(Worker) \in Nat
  BY FS_CardinalityType, JobQueueAssumption
<1>3. QueueTypeOK
  <2>1. << >> \in Seq(Worker) /\ << >> \in Seq(Client)
    OBVIOUS
  <2>2. 0 \in 0 .. Cardinality(Worker)
    BY <1>2
  <2>3. /\ worker_waiters = << >> /\ submit_waiters = << >>
        /\ active_workers = 0 /\ lock = NoTask
        /\ destroyed = FALSE /\ freed = FALSE
    BY DEF Init
  <2>4. destroyed \in BOOLEAN /\ freed \in BOOLEAN /\ lock \in Task \cup {NoTask}
    BY <2>3
  <2>5. /\ worker_waiters \in Seq(Worker) /\ submit_waiters \in Seq(Client)
        /\ active_workers \in 0 .. Cardinality(Worker)
    BY <2>1, <2>2, <2>3
  <2> QED BY <2>4, <2>5 DEF QueueTypeOK
<1>4. JobTypeOK
  <2>1. Unborn \in JobHandle
    <3>1. NewJob \in JobHandle
      BY DEF NewJob, JobHandle
    <3>2. ASSUME NEW h \in JobHandle
          PROVE  [h EXCEPT !.state = "none"] \in JobHandle
      BY DEF JobHandle
    <3> QED BY <3>1, <3>2 DEF Unborn
  <2> QED BY <2>1 DEF Init, JobTypeOK
<1>5. TaskTypeOK
  BY PreparedType DEF Init, TaskTypeOK, Location, CallOp, NoOp, WaitResult
<1>6. CallInv
  BY TasksApart DEF Init, CallInv, ClientOK, WorkerOK, Place, NoOp
<1>7. ActiveInv
  <2>1. Working = {} /\ Begun = {}
    BY TasksApart DEF Init, Working, Begun
  <2> QED BY <2>1, FS_EmptySet DEF Init, ActiveInv
<1>8. FutureInv
  <2>1. \A j \in Job : job[j].future_count = 0
    BY DEF Init, Unborn, NewJob
  <2>2. \A j \in Job : Waiting(j) = {}
    BY TasksApart DEF Init, Waiting, NoOp
  <2> QED BY <2>1, <2>2, FS_EmptySet DEF FutureInv
<1>9. BornInv
  BY <1>0, TasksApart DEF Init, BornInv, NoOp
<1> QED
  BY <1>1, <1>3, <1>4, <1>5, <1>6, <1>7, <1>8, <1>9 DEF TypeInv, TypeOK

LEMMA TypeInvNext == TypeInv /\ [Next]_vars => TypeInv'
<1> SUFFICES ASSUME TypeInv, [Next]_vars PROVE TypeInv'
  OBVIOUS
<1>1. ASSUME NEW t \in Task, Step(t) \/ (t \in Client /\ Begin(t))
      PROVE  TypeInv'
  <2>1. TypeOK /\ CallInv /\ ActiveInv
    BY DEF TypeInv
  <2>2. RingTypeOK' /\ QueueTypeOK' /\ TaskTypeOK' /\ CallInv' /\ ActiveInv'
    BY <1>1, <2>1, RingTypeNext, QueueTypeNext, TasksNext, CallNext, ActiveNext
  <2>3. JobTypeOK' /\ FutureInv' /\ BornInv'
    BY <1>1, JobNext, BornNext DEF JobTypeOK
  <2> QED BY <2>2, <2>3 DEF TypeInv, TypeOK
<1>2. CASE UNCHANGED vars
  BY <1>2
     DEF vars, queueVars, ringVars, lifeVars, waitersVars, jobVars, taskVars,
         drainVars, TypeInv, TypeOK, RingTypeOK, QueueTypeOK, JobTypeOK, TaskTypeOK,
         CallInv, ClientOK, WorkerOK, ActiveInv, Working, Begun, FutureInv, Waiting,
         BornInv, Born
<1> QED BY <1>1, <1>2, NextActs

LEMMA TypeInvSpec == Spec => []TypeInv
<1> QED BY TypeInvInit, TypeInvNext, PTL DEF Spec

(* Every variable keeps its type, whatever the clients do and whenever the *)
(* queue is destroyed: in particular no index leaves the ring, the futures *)
(* of a job are not released more often than they were made, and           *)
(* active_workers does not go below zero although killed workers never     *)
(* count themselves out.                                                   *)
THEOREM TypeInvariance == Spec => []TypeOK
BY TypeInvSpec, PTL DEF TypeInv

-----------------------------------------------------------------------------
(* Calls, and what a step does to them.                                    *)

(* A step of a task leaves the others where they are, unless it kills a    *)
(* worker.                                                                 *)
LEMMA OthersNext ==
    ASSUME TypeOK, NEW t \in Task, Step(t) \/ (t \in Client /\ Begin(t))
    PROVE  /\ \A c \in Client : c # t => op'[c] = op[c] /\ pc'[c] = pc[c]
           /\ \A w \in Worker : w # t => pc'[w] = pc[w] \/ pc'[w] = "dead"
           /\ t \in Worker => pc[t] # "dead"
<1>1. t \in Worker => pc[t] # "dead"
  BY TasksApart
     DEF Step, Acquire, BlockTaken, BlockTimeout, WorkerStep, WorkerStart, Take,
         AwaitJob, TakeFails, WorkerStop, RunHandler, SkipHandler, LeaveJob, HandlerReturns,
         SetResult, Taking
<1>2. CASE Alone(t)
  BY <1>1, <1>2, TasksApart DEF Alone, Still
<1>3. CASE KillWorker(t)
  BY <1>1, <1>3, TasksApart DEF KillWorker, Goto, TypeOK, TaskTypeOK
<1> QED BY <1>2, <1>3, TasksNext

(* How a call begins, and that it ends by returning.                       *)
LEMMA CallChanges ==
    ASSUME TypeOK, NEW t \in Client, Step(t) \/ Begin(t)
    PROVE  \/ op'[t] = op[t]
           \/ /\ Submit(t)
              /\ op'[t].kind = "submit" /\ op'[t].job \in Job
              /\ job[op'[t].job].state = "none"
              /\ job' = [job EXCEPT ![op'[t].job] = NewJob]
           \/ /\ HandleDestroy(t)
              /\ op'[t].kind = "handle_destroy" /\ op'[t].job \in shared
              /\ job[op'[t].job].result_ready /\ HandleUnused(op'[t].job)
              /\ job' = [job EXCEPT ![op'[t].job].destroyed = TRUE]
              /\ shared' = shared \ {op'[t].job}
           \/ /\ FutureInit(t)
              /\ op'[t].kind = "wait" /\ op'[t].job \in shared
           \/ QueueDestroy(t) /\ op'[t].kind = "queue_destroy"
           \/ op'[t] = NoOp /\ pc'[t] = "idle"
<1>0. /\ TaskTypeOK /\ shared \subseteq Job /\ Modes \subseteq AllModes
      /\ t \in Task /\ t \notin Worker
  BY JobQueueAssumption DEF TypeOK, JobTypeOK
<1>1. CASE Submit(t)
  <2>1. PICK j \in Job, m \in Modes :
            /\ job[j].state = "none"
            /\ job' = [job EXCEPT ![j] = NewJob]
            /\ op' = [op EXCEPT ![t] = Op("submit", m, j)]
    BY <1>1 DEF Submit
  <2>2. op'[t].kind = "submit" /\ op'[t].job = j
    BY <1>0, <2>1 DEF TaskTypeOK, Op
  <2> QED BY <1>1, <2>1, <2>2
<1>2. CASE HandleDestroy(t)
  <2>1. PICK j \in shared :
            /\ job[j].result_ready /\ HandleUnused(j)
            /\ job' = [job EXCEPT ![j].destroyed = TRUE]
            /\ shared' = shared \ {j}
            /\ op' = [op EXCEPT ![t] = Op("handle_destroy", "none", j)]
    BY <1>2 DEF HandleDestroy
  <2>2. op'[t].kind = "handle_destroy" /\ op'[t].job = j
    BY <1>0, <2>1 DEF TaskTypeOK, Op
  <2> QED BY <1>2, <2>1, <2>2
<1>3. CASE FutureInit(t)
  <2>1. PICK j \in shared, m \in Modes : op' = [op EXCEPT ![t] = Op("wait", m, j)]
    BY <1>3 DEF FutureInit
  <2>2. op'[t].kind = "wait" /\ op'[t].job = j
    BY <1>0, <2>1 DEF TaskTypeOK, Op
  <2> QED BY <1>3, <2>1, <2>2
<1>4. CASE QueueDestroy(t)
  BY <1>0, <1>4 DEF QueueDestroy, TaskTypeOK, Op
<1>5. CASE Return(t)
  BY <1>0, <1>5, ReturnAt
<1>6. CASE UNCHANGED op
  BY <1>6
<1> QED
  BY <1>0, <1>1, <1>2, <1>3, <1>4, <1>5, <1>6
     DEF Step, Begin, Cancel, Acquire, BlockTaken, BlockTimeout, ClientStep,
         Enqueue, QueueFull, AwaitSpace, NoSpace, UnlockAgain, SubmitFails,
         FreeJob, FutureReady, FutureAwait, FutureDone, FutureDeinit,
         MarkDestroyed, DrainOne, KillWorker, FreeQueue

(* So a client is in a call that it was in, or that this step begins.      *)
LEMMA KindNext ==
    ASSUME TypeOK, NEW t \in Task, Step(t) \/ (t \in Client /\ Begin(t)),
           NEW c \in Client, op'[c] # op[c], op'[c].kind # "none"
    PROVE  /\ c = t
           /\ \/ Submit(c) /\ op'[c].kind = "submit"
              \/ HandleDestroy(c) /\ op'[c].kind = "handle_destroy"
              \/ FutureInit(c) /\ op'[c].kind = "wait"
              \/ QueueDestroy(c) /\ op'[c].kind = "queue_destroy"
<1>1. c = t
  BY OthersNext
<1>2. op'[c] # NoOp
  BY DEF NoOp
<1> QED BY <1>1, <1>2, CallChanges

-----------------------------------------------------------------------------
(* The mutex, and the stages of m_job_queue_destroy.                       *)

LockInv == \A t \in Task : pc[t] = "locked" => lock = t

Destroyer(c) == op[c].kind = "queue_destroy"

(* There is one call of m_job_queue_destroy, which drains what it has      *)
(* marked destroyed and frees it last.                                     *)
StageInv ==
    /\ freed => destroyed /\ pending = 0 /\ \A w \in Worker : pc[w] = "dead"
    /\ \A c \in Client : Destroyer(c) => (pc[c] = "drain" <=> destroyed) /\ ~freed
    /\ \A c, d \in Client : Destroyer(c) /\ Destroyer(d) => c = d
    /\ ~destroyed => pending = 0

(* What the callers of an orderly destroy keep to.                         *)
OrderInv ==
    OrderlyDestroy /\ (destroyed \/ \E c \in Client : Destroyer(c))
        => \A d \in Client : op[d].kind # "submit"

LifeInv == TypeInv /\ LockInv /\ StageInv /\ OrderInv

LEMMA LockNext ==
    ASSUME TypeInv, LockInv, NEW t \in Task, Step(t) \/ (t \in Client /\ Begin(t))
    PROVE  LockInv'
<1>0. TypeOK /\ TaskTypeOK
  BY DEF TypeInv, TypeOK
<1>1. /\ \A u \in Task : u # t /\ pc'[u] = "locked" => pc[u] = "locked"
      /\ t \in Task /\ (t \in Client => t \notin Worker) /\ NoTask \notin Task
  BY <1>0, OthersNext, JobQueueAssumption
<1>2. CASE Acquire(t)
  BY <1>1, <1>2 DEF LockInv, Acquire
<1>3. CASE lock' = NoTask /\ lock # NoTask
  <2>0. \/ /\ t \in Client
           /\ \/ Enqueue(t) \/ QueueFull(t) \/ AwaitSpace(t)
              \/ NoSpace(t) \/ SubmitFails(t) \/ MarkDestroyed(t)
        \/ /\ t \in Worker
           /\ \/ Take(t) \/ AwaitJob(t) \/ TakeFails(t)
    BY <1>3, LockChanges DEF Acquire
  <2>1. pc[t] = "locked" /\ pc'[t] # "locked"
    BY <1>0, <2>0, ReturnAt
       DEF Enqueue, QueueFull, AwaitSpace, NoSpace, SubmitFails, MarkDestroyed,
           Take, AwaitJob, TakeFails, Submitting, Taking, Goto, TaskTypeOK
  <2> QED BY <1>1, <2>1 DEF LockInv
<1>4. CASE lock' = lock /\ ~Acquire(t)
  <2>1. pc'[t] = pc[t] \/ pc'[t] # "locked"
    <3>1. CASE Begin(t)
      BY <1>0, <3>1
         DEF Begin, Submit, Cancel, HandleDestroy, FutureInit, QueueDestroy, Goto,
             TaskTypeOK
    <3>2. CASE BlockTaken(t) \/ BlockTimeout(t)
      BY <1>0, <3>2 DEF BlockTaken, BlockTimeout, Goto, TaskTypeOK
    <3>3. CASE t \in Client /\ ClientStep(t)
      BY <1>0, <1>1, <3>3, ReturnAt
         DEF ClientStep, Enqueue, QueueFull, AwaitSpace, NoSpace, UnlockAgain,
             SubmitFails, FreeJob, FutureReady, FutureAwait, FutureDone,
             FutureDeinit, MarkDestroyed, DrainOne, KillWorker, FreeQueue, Goto,
             TaskTypeOK
    <3>4. CASE t \in Worker /\ WorkerStep(t)
      BY <1>0, <3>4
         DEF WorkerStep, WorkerStart, Take, AwaitJob, TakeFails, WorkerStop,
             RunHandler, SkipHandler, LeaveJob, HandlerReturns, SetResult, Goto, TaskTypeOK
    <3> QED BY <1>4, <3>1, <3>2, <3>3, <3>4 DEF Step
  <2> QED BY <1>1, <1>4, <2>1 DEF LockInv
<1> QED
  BY <1>1, <1>2, <1>3, <1>4, LockChanges
     DEF Enqueue, QueueFull, AwaitSpace, NoSpace, SubmitFails, MarkDestroyed,
         Take, AwaitJob, TakeFails, Unlock

LEMMA StageNext ==
    ASSUME LifeInv, NEW t \in Task, Step(t) \/ (t \in Client /\ Begin(t))
    PROVE  StageInv' /\ (destroyed => destroyed') /\ (freed => freed')
<1>0. /\ TypeOK /\ TaskTypeOK /\ CallInv /\ StageInv /\ destroyed \in BOOLEAN
      /\ \A c \in Client : c \in Task /\ c \notin Worker /\ ClientOK(c)
      /\ CallInv'
  BY TasksApart, CallNext DEF LifeInv, TypeInv, TypeOK, QueueTypeOK, CallInv
<1>1. MarkDestroyed(t) \/ DrainOne(t) \/ FreeQueue(t)
        => t \in Client /\ Destroyer(t)
  <2>1. t \in Worker => pc[t] \notin {"drain"} /\ op[t].kind = "none"
    BY <1>0 DEF CallInv, WorkerOK, NoOp
  <2>2. t \in Client => ClientOK(t)
    BY <1>0
  <2> QED
    BY <2>1, <2>2, JobQueueAssumption
       DEF MarkDestroyed, DrainOne, FreeQueue, Destroyer, ClientOK, Place
<1>2. (destroyed => destroyed') /\ (freed => freed')
  BY LifeChanges DEF MarkDestroyed, FreeQueue
<1>3. freed' => destroyed' /\ pending' = 0 /\ \A w \in Worker : pc'[w] = "dead"
  <2>1. CASE FreeQueue(t)
    <3>1. destroyed' /\ pending' = 0
      BY <1>0, <1>1, <2>1 DEF FreeQueue, StageInv, drainVars, Drained
    <3>2. \A w \in Worker : pc'[w] = "dead"
      BY <1>0, <1>1, <2>1, OthersNext DEF FreeQueue, WorkersDead
    <3> QED BY <3>1, <3>2
  <2>2. CASE ~FreeQueue(t) /\ freed
    <3>1. \A w \in Worker : pc'[w] = "dead"
      BY <1>0, <2>2, OthersNext DEF StageInv
    <3>2. destroyed' /\ pending' = 0
      BY <1>0, <1>1, <1>2, <2>2, DrainChanges DEF StageInv, drainVars
    <3> QED BY <3>1, <3>2
  <2>3. CASE ~FreeQueue(t) /\ ~freed
    BY <2>3, LifeChanges DEF MarkDestroyed
  <2> QED BY <2>1, <2>2, <2>3
<1>4. ASSUME NEW c \in Client, Destroyer(c)'
      PROVE  (pc'[c] = "drain" <=> destroyed') /\ ~freed'
  <2>1. CASE c # t
    <3>1. pc'[c] = pc[c] /\ Destroyer(c)
      BY <1>0, <1>4, <2>1, OthersNext DEF Destroyer
    <3>2. ~MarkDestroyed(t) /\ ~FreeQueue(t)
      BY <1>0, <1>1, <2>1, <3>1 DEF StageInv
    <3> QED BY <1>0, <3>1, <3>2, LifeChanges DEF StageInv
  <2>2. CASE c = t /\ op'[t] = op[t]
    <3>1. Destroyer(t) /\ ClientOK(t) /\ t \notin Worker
      BY <1>0, <1>4, <2>2 DEF Destroyer
    <3>2. CASE MarkDestroyed(t)
      BY <1>0, <2>2, <3>1, <3>2
         DEF MarkDestroyed, Goto, TaskTypeOK, StageInv
    <3>3. CASE ~MarkDestroyed(t)
      <4>1. ~FreeQueue(t)
        <5>1. FreeQueue(t) => op'[t] = NoOp
          BY <1>0, ReturnAt DEF FreeQueue
        <5> QED BY <1>4, <2>2, <5>1 DEF Destroyer, NoOp
      <4>2. UNCHANGED <<destroyed, freed>>
        BY <3>3, <4>1, LifeChanges
      <4>3. pc'[t] = "drain" <=> pc[t] = "drain"
        BY <1>0, <2>2, <3>1, <3>3, <4>1, ReturnAt
           DEF Step, Begin, Submit, Cancel, HandleDestroy, FutureInit, QueueDestroy,
               Acquire, BlockTaken, BlockTimeout, ClientStep,
               Enqueue, QueueFull, AwaitSpace, NoSpace, UnlockAgain, SubmitFails,
               FreeJob, FutureReady, FutureAwait, FutureDone, FutureDeinit,
               DrainOne, KillWorker, Destroyer, ClientOK, Place, Goto, TaskTypeOK,
               Submitting
      <4> QED BY <1>0, <2>2, <3>1, <4>2, <4>3 DEF StageInv
    <3> QED BY <3>2, <3>3
  <2>3. CASE c = t /\ op'[t] # op[t]
    <3>1. QueueDestroy(t)
      BY <1>0, <1>4, <2>3, KindNext DEF Destroyer
    <3> QED
      BY <1>0, <2>3, <3>1
         DEF QueueDestroy, queueVars, lifeVars, Goto, TaskTypeOK, StageInv
  <2> QED BY <2>1, <2>2, <2>3
<1>5. ASSUME NEW c \in Client, NEW d \in Client, Destroyer(c)', Destroyer(d)'
      PROVE  c = d
  <2>1. CASE QueueDestroy(t)
    <3>1. \A u \in Client : u # t => ~Destroyer(u)'
      BY <1>0, <2>1, OthersNext DEF QueueDestroy, Destroyer
    <3> QED BY <1>5, <3>1
  <2>2. CASE ~QueueDestroy(t)
    <3>1. \A u \in Client : Destroyer(u)' => Destroyer(u)
      BY <1>0, <2>2, KindNext DEF Destroyer
    <3> QED BY <1>0, <1>5, <3>1 DEF StageInv
  <2> QED BY <2>1, <2>2
<1>6. ~destroyed' => pending' = 0
  BY <1>0, <1>1, <1>2, DrainChanges
     DEF StageInv, drainVars, MarkDestroyed, DrainOne, ClientOK, Place
<1> QED BY <1>2, <1>3, <1>4, <1>5, <1>6 DEF StageInv

LEMMA OrderNext ==
    ASSUME LifeInv, NEW t \in Task, Step(t) \/ (t \in Client /\ Begin(t))
    PROVE  OrderInv'
<1>0. /\ TypeOK /\ OrderInv /\ CallInv
      /\ \A c \in Client : ClientOK(c)
      /\ \A c \in Client : c # t => op'[c] = op[c]
  BY OthersNext DEF LifeInv, TypeInv, CallInv
<1> SUFFICES ASSUME OrderlyDestroy, destroyed' \/ \E c \in Client : Destroyer(c)',
                    NEW d \in Client
             PROVE  op'[d].kind # "submit"
  BY DEF OrderInv, Destroyer
<1>1. CASE destroyed \/ \E c \in Client : Destroyer(c)
  <2>1. op[d].kind # "submit" /\ ~Submit(t)
    <3>1. Submit(t) => MaySubmit
      BY DEF Submit
    <3> QED BY <1>0, <1>1, <3>1 DEF OrderInv, MaySubmit, Destroyer
  <2> QED BY <1>0, <2>1, KindNext
<1>2. CASE ~destroyed /\ \A c \in Client : ~Destroyer(c)
  <2>1. ~MarkDestroyed(t) \/ t \notin Client
    BY <1>2 DEF MarkDestroyed, Destroyer
  <2>2. \E c \in Client : Destroyer(c)'
    BY <1>2, <2>1, LifeChanges DEF FreeQueue
  <2>3. t \in Client /\ QueueDestroy(t)
    BY <1>0, <1>2, <2>2, KindNext DEF Destroyer
  <2>4. op[d].kind # "submit"
    BY <2>3 DEF QueueDestroy
  <2>5. op'[t].kind = "queue_destroy"
    BY <1>0, <1>2, <2>2 DEF Destroyer
  <2> QED BY <1>0, <2>4, <2>5
<1> QED BY <1>1, <1>2

LEMMA LifeInvInit == Init => LifeInv
<1> SUFFICES ASSUME Init PROVE LifeInv
  OBVIOUS
<1>1. \A t \in Task : pc[t] # "locked" /\ op[t].kind = "none"
  BY DEF Init, NoOp
<1>2. \A c \in Client : ~Destroyer(c) /\ op[c].kind = "none"
  BY <1>1, TasksApart DEF Destroyer
<1> QED
  BY <1>1, <1>2, TypeInvInit DEF Init, LifeInv, LockInv, StageInv, OrderInv

LEMMA LifeInvNext == LifeInv /\ [Next]_vars => LifeInv'
<1> SUFFICES ASSUME LifeInv, [Next]_vars PROVE LifeInv'
  OBVIOUS
<1>1. TypeInv'
  BY TypeInvNext DEF LifeInv
<1>2. ASSUME NEW t \in Task, Step(t) \/ (t \in Client /\ Begin(t))
      PROVE  LifeInv'
  BY <1>1, <1>2, LockNext, StageNext, OrderNext DEF LifeInv
<1>3. CASE UNCHANGED vars
  BY <1>1, <1>3
     DEF vars, queueVars, lifeVars, taskVars, drainVars, LifeInv, LockInv,
         StageInv, OrderInv, Destroyer
<1> QED BY <1>2, <1>3, NextActs

-----------------------------------------------------------------------------
(* The jobs: what a step does to their handles.                            *)

(* The caller of its submit has it, or destroyed it since.                 *)
Accepted == shared \cup {j \in Job : job[j].destroyed}

Kept(j) ==
    /\ job'[j].state = job[j].state /\ job'[j].status = job[j].status
    /\ job'[j].result_ready = job[j].result_ready
    /\ job'[j].destroyed = job[j].destroyed
    /\ job'[j].freed = job[j].freed

KeptBut(j) == \A i \in Job : i # j => Kept(i)

(* The ways a job's handle changes, futures apart.                         *)
Made(t, j) ==
    /\ Submit(t) /\ op'[t].job = j /\ job[j].state = "none"
    /\ job'[j].state = "pending" /\ job'[j].result_ready = FALSE
    /\ job'[j].destroyed = FALSE /\ job'[j].freed = FALSE

Runs(t, j) ==
    /\ t \in Worker /\ RunHandler(t) /\ hand[t] = j
    /\ job'[j].state = "running" /\ job'[j].status = job[j].status
    /\ job[j].result_ready = FALSE /\ job'[j].result_ready = FALSE
    /\ job'[j].destroyed = job[j].destroyed
    /\ job'[j].freed = job[j].freed

Completes(t, j) ==
    /\ \/ t \in Worker /\ SetResult(t) /\ hand[t] = j
          /\ job'[j].status \in {"success", "error"}
       \/ t \in Client /\ Cancel(t) /\ j \in shared /\ job'[j].status = "cancelled"
       \/ t \in Client /\ DrainOne(t) /\ ring[index] = j
          /\ job'[j].status = "cancelled"
    /\ job[j].result_ready = FALSE /\ job[j].destroyed = FALSE
    /\ job'[j].state = "completed" /\ job'[j].result_ready = TRUE
    /\ job'[j].destroyed = FALSE /\ job'[j].freed = job[j].freed

IsDestroyed(t, j) ==
    /\ t \in Client /\ HandleDestroy(t) /\ j \in shared
    /\ op'[t].kind = "handle_destroy" /\ op'[t].job = j /\ shared' = shared \ {j}
    /\ job[j].result_ready = TRUE /\ HandleUnused(j)
    /\ job'[j].state = job[j].state /\ job'[j].status = job[j].status
    /\ job'[j].result_ready = TRUE /\ job'[j].destroyed = TRUE
    /\ job'[j].freed = job[j].freed

IsFreed(t, j) ==
    /\ t \in Client /\ op[t].job = j /\ op'[t] = NoOp
    /\ \/ op[t].kind = "submit" /\ (QueueFull(t) \/ UnlockAgain(t) \/ SubmitFails(t))
       \/ op[t].kind = "handle_destroy" /\ FreeJob(t)
    /\ job'[j].state = job[j].state /\ job'[j].status = job[j].status
    /\ job'[j].result_ready = job[j].result_ready
    /\ job'[j].destroyed = job[j].destroyed
    /\ job'[j].freed = TRUE

LEMMA CompletedEffect ==
    ASSUME JobTypeOK, NEW j \in Job \cup {NoJob},
           NEW s \in {"success", "error", "cancelled"}, job' = Completed(j, s)
    PROVE  \/ \A i \in Job : Kept(i)
           \/ /\ j \in Job /\ KeptBut(j)
              /\ job[j].result_ready = FALSE /\ job[j].destroyed = FALSE
              /\ job'[j].state = "completed" /\ job'[j].result_ready = TRUE
              /\ job'[j].status = s
              /\ job'[j].destroyed = FALSE /\ job'[j].freed = job[j].freed
<1>1. CASE job' = job
  BY <1>1 DEF Kept
<1>2. CASE j = NoJob
  BY <1>1, <1>2, NoJobChanged
<1>3. CASE j \in Job /\ (job[j].result_ready \/ job[j].destroyed)
  BY <1>1, <1>3, JobCompletedBefore
<1>4. CASE j \in Job /\ ~job[j].result_ready /\ ~job[j].destroyed
  <2>1. job[j].result_ready \in BOOLEAN /\ job[j].destroyed \in BOOLEAN
    BY <1>4 DEF JobTypeOK, JobHandle
  <2>2. job[j].result_ready = FALSE /\ job[j].destroyed = FALSE
    BY <1>4, <2>1
  <2>3. /\ JobsBut(j) /\ job'[j].state = "completed" /\ job'[j].status = s
        /\ job'[j].result_ready = TRUE
        /\ job'[j].destroyed = job[j].destroyed
        /\ job'[j].freed = job[j].freed
    BY <1>4, JobCompleted
  <2> QED BY <1>4, <2>2, <2>3 DEF JobsBut, Kept, KeptBut
<1> QED BY <1>2, <1>3, <1>4

LEMMA SubmitEffect ==
    ASSUME TypeInv, NEW t \in Client, Submit(t)
    PROVE  \E j \in Job : KeptBut(j) /\ Made(t, j) /\ op'[t].kind = "submit"
<1>0. JobTypeOK /\ TaskTypeOK /\ t \in Task
  BY TasksApart DEF TypeInv, TypeOK
<1>1. PICK j \in Job, m \in Modes :
          /\ job[j].state = "none"
          /\ job' = [job EXCEPT ![j] = NewJob]
          /\ op' = [op EXCEPT ![t] = Op("submit", m, j)]
  BY DEF Submit
<1>2. op'[t].job = j /\ op'[t].kind = "submit"
  BY <1>0, <1>1 DEF TaskTypeOK, Op
<1>3. /\ JobsBut(j) /\ job'[j].state = "pending" /\ job'[j].result_ready = FALSE
      /\ job'[j].destroyed = FALSE /\ job'[j].freed = FALSE
  BY <1>0, <1>1, JobMade
<1> QED BY <1>1, <1>2, <1>3 DEF JobsBut, Kept, KeptBut, Made

LEMMA DestroyEffect ==
    ASSUME TypeInv, NEW t \in Client, HandleDestroy(t)
    PROVE  \E j \in Job : KeptBut(j) /\ IsDestroyed(t, j)
<1>0. /\ JobTypeOK /\ TaskTypeOK /\ t \in Task /\ shared \subseteq Job
      /\ \A i \in Job : job[i].result_ready \in BOOLEAN
  BY TasksApart DEF TypeInv, TypeOK, JobTypeOK, JobHandle
<1>1. PICK j \in shared :
          /\ job[j].result_ready /\ HandleUnused(j)
          /\ job' = [job EXCEPT ![j].destroyed = TRUE]
          /\ shared' = shared \ {j}
          /\ op' = [op EXCEPT ![t] = Op("handle_destroy", "none", j)]
  BY DEF HandleDestroy
<1>2. op'[t].job = j /\ op'[t].kind = "handle_destroy" /\ j \in Job
  BY <1>0, <1>1 DEF TaskTypeOK, Op
<1>3. job[j].result_ready = TRUE
  BY <1>0, <1>1, <1>2
<1>4. /\ JobsBut(j) /\ job'[j].state = job[j].state /\ job'[j].status = job[j].status
      /\ job'[j].result_ready = job[j].result_ready
      /\ job'[j].destroyed = TRUE /\ job'[j].freed = job[j].freed
  BY <1>0, <1>1, <1>2, JobDestroyed
<1> QED
  BY <1>1, <1>2, <1>3, <1>4 DEF JobsBut, Kept, KeptBut, IsDestroyed

LEMMA JobEffect ==
    ASSUME TypeInv, NEW t \in Task, Step(t) \/ (t \in Client /\ Begin(t))
    PROVE  \/ \A i \in Job : Kept(i)
           \/ \E j \in Job :
                /\ KeptBut(j)
                /\ Made(t, j) \/ Runs(t, j) \/ Completes(t, j) \/ IsDestroyed(t, j)
                   \/ IsFreed(t, j)
<1>0. /\ TypeOK /\ JobTypeOK /\ TaskTypeOK /\ CallInv
      /\ shared \subseteq Job /\ hand[t] \in Job \cup {NoJob}
      /\ ring[index] \in Job \cup {NoJob}
      /\ \A i \in Job : job[i].result_ready \in BOOLEAN /\ job[i].destroyed \in BOOLEAN
                        /\ job[i].future_count \in Nat
  BY DEF TypeInv, TypeOK, JobTypeOK, TaskTypeOK, RingTypeOK, JobHandle
<1>1. CASE UNCHANGED job
  BY <1>1 DEF Kept
<1>2. CASE Submit(t) /\ t \in Client
  BY <1>2, SubmitEffect
<1>3. CASE Cancel(t) /\ t \in Client
  <2>1. PICK j \in shared : job' = Completed(j, "cancelled")
    BY <1>3 DEF Cancel
  <2> QED BY <1>0, <1>3, <2>1, CompletedEffect DEF Completes
<1>4. CASE HandleDestroy(t) /\ t \in Client
  BY <1>4, DestroyEffect
<1>5. CASE t \in Client /\ (QueueFull(t) \/ UnlockAgain(t) \/ SubmitFails(t) \/ FreeJob(t))
  <2>1. PICK j \in Job : j = op[t].job
    BY <1>0, <1>5 DEF QueueFull, UnlockAgain, SubmitFails, FreeJob, Submitting,
                      CallInv, ClientOK, Place
  <2>2. /\ job' = [job EXCEPT ![j].freed = TRUE] /\ Return(t)
        /\ \/ op[t].kind = "submit" /\ ~FreeJob(t)
           \/ op[t].kind = "handle_destroy" /\ FreeJob(t)
    BY <1>0, <1>5, <2>1
       DEF QueueFull, UnlockAgain, SubmitFails, FreeJob, Submitting, Discarded,
           CallInv, ClientOK, Place
  <2>3. op'[t] = NoOp
    BY <1>0, <2>2, ReturnAt
  <2>4. /\ JobsBut(j) /\ job'[j].state = job[j].state /\ job'[j].status = job[j].status
        /\ job'[j].result_ready = job[j].result_ready
        /\ job'[j].destroyed = job[j].destroyed /\ job'[j].freed = TRUE
    BY <1>0, <2>2, JobFreed
  <2> QED
    BY <1>5, <2>1, <2>2, <2>3, <2>4 DEF JobsBut, Kept, KeptBut, IsFreed
<1>6. CASE t \in Client /\ DrainOne(t)
  <2>1. job' = Completed(ring[index], "cancelled")
    BY <1>6 DEF DrainOne
  <2> QED BY <1>0, <1>6, <2>1, CompletedEffect DEF Completes
<1>7. CASE t \in Worker /\ SetResult(t)
  <2>1. PICK s \in {"success", "error"} : job' = Completed(hand[t], s)
    BY <1>7 DEF SetResult
  <2> QED BY <1>0, <1>7, <2>1, CompletedEffect DEF Completes
<1>8. CASE t \in Worker /\ RunHandler(t)
  <2>1. ~job[hand[t]].result_ready /\ job' = [job EXCEPT ![hand[t]].state = "running"]
    BY <1>8 DEF RunHandler, Runnable
  <2>2. CASE hand[t] = NoJob
    BY <1>0, <1>1, <2>1, <2>2, NoJobChanged
  <2>3. CASE hand[t] \in Job
    <3>1. job[hand[t]].result_ready = FALSE
      BY <1>0, <2>1, <2>3
    <3>2. /\ JobsBut(hand[t]) /\ job'[hand[t]].state = "running"
          /\ job'[hand[t]].status = job[hand[t]].status
          /\ job'[hand[t]].result_ready = job[hand[t]].result_ready
          /\ job'[hand[t]].destroyed = job[hand[t]].destroyed
          /\ job'[hand[t]].freed = job[hand[t]].freed
      BY <1>0, <2>1, <2>3, JobRuns
    <3> QED BY <1>8, <2>3, <3>1, <3>2 DEF JobsBut, Kept, KeptBut, Runs
  <2> QED BY <1>0, <2>2, <2>3
<1>9. CASE t \in Client /\ (FutureInit(t) \/ FutureDeinit(t) \/ FutureAwait(t) \/ FutureDone(t))
  <2>1. \E j \in Job :
            \/ job' = job
            \/ \E n : job' = [job EXCEPT ![j].future_count = n]
            \/ \E q : job' = [job EXCEPT ![j].waiters = q]
    <3>1. ~FutureInit(t) => op[t].job \in Job
      BY <1>0, <1>9 DEF FutureDeinit, FutureAwait, FutureDone, CallInv, ClientOK, Place
    <3> QED
      BY <1>0, <1>9, <3>1, Zenon
         DEF FutureInit, FutureDeinit, FutureAwait, FutureDone
  <2> QED BY <1>0, <2>1 DEF Kept, JobTypeOK, JobHandle
<1>10. Submit(t) \/ Cancel(t) \/ HandleDestroy(t) \/ FutureInit(t) => t \in Client
  BY <1>0, JobQueueAssumption
     DEF Submit, Cancel, HandleDestroy, FutureInit, CallInv, WorkerOK
<1> QED
  BY <1>1, <1>2, <1>3, <1>4, <1>5, <1>6, <1>7, <1>8, <1>9, <1>10, JobChanges
(* The same, with what becomes of shared.                                  *)
LEMMA HandleEffect ==
    ASSUME TypeInv, NEW t \in Task, Step(t) \/ (t \in Client /\ Begin(t))
    PROVE  \/ shared' = shared /\ \A i \in Job : Kept(i)
           \/ /\ t \in Client /\ Enqueue(t)
              /\ op[t].kind = "submit" /\ op[t].job \in Job /\ op'[t] = NoOp
              /\ shared' = shared \cup {op[t].job} /\ \A i \in Job : Kept(i)
           \/ \E j \in Job :
                /\ KeptBut(j)
                /\ \/ IsDestroyed(t, j)
                   \/ /\ shared' = shared
                      /\ Made(t, j) \/ Runs(t, j) \/ Completes(t, j) \/ IsFreed(t, j)
<1>0. TypeOK /\ TaskTypeOK /\ CallInv
  BY DEF TypeInv, TypeOK
<1>1. CASE HandleDestroy(t)
  <2>1. t \in Client
    BY <1>0, <1>1, JobQueueAssumption DEF HandleDestroy, CallInv, WorkerOK
  <2> QED BY <1>1, <2>1, DestroyEffect
<1>2. CASE t \in Client /\ Enqueue(t)
  <2>1. \A i \in Job : Kept(i)
    BY <1>2 DEF Enqueue, Kept
  <2>2. op[t].kind = "submit" /\ op[t].job \in Job
    BY <1>0, <1>2 DEF Enqueue, Submitting, CallInv, ClientOK
  <2>3. op'[t] = NoOp /\ shared' = shared \cup {op[t].job}
    BY <1>0, <1>2, ReturnAt DEF Enqueue
  <2> QED BY <1>2, <2>1, <2>2, <2>3
<1>3. CASE shared' = shared /\ ~HandleDestroy(t)
  BY <1>3, JobEffect DEF IsDestroyed
<1> QED BY <1>1, <1>2, <1>3, SharedChanges

-----------------------------------------------------------------------------
(* Which job is where.                                                     *)

(* Only a job that was accepted and not destroyed can be in use; a result  *)
(* is what completes it.                                                   *)
JobInv ==
    \A j \in Job :
        /\ job[j].result_ready = TRUE <=> job[j].state = "completed"
        /\ job[j].destroyed = TRUE => job[j].result_ready = TRUE /\ j \notin shared
        /\ job[j].freed = TRUE => j \notin shared

OwnJob(c) == op[c].kind \in {"submit", "handle_destroy"}

(* The job of a call: a submit's is not accepted yet, the one that is      *)
(* destroyed is nobody else's.                                             *)
CallJobOK(c) ==
    /\ op[c].kind = "submit"
         => /\ job[op[c].job].state = "pending"
            /\ job[op[c].job].result_ready = FALSE
            /\ job[op[c].job].destroyed = FALSE /\ job[op[c].job].freed = FALSE
            /\ op[c].job \notin shared
    /\ op[c].kind = "wait" => op[c].job \in shared
    /\ op[c].kind = "handle_destroy"
         => job[op[c].job].destroyed = TRUE /\ job[op[c].job].freed = FALSE

CallJobInv ==
    /\ \A c \in Client : CallJobOK(c)
    /\ \A c, d \in Client : OwnJob(c) /\ OwnJob(d) /\ op[c].job = op[d].job => c = d

(* The ring's used slots hold accepted jobs, and so do those that the      *)
(* destroy of the queue still looks at.                                    *)
RingInv ==
    /\ tail = Slot(head, count, Capacity)
    /\ \A s \in 0 .. Capacity - 1 : ring[s] \in Accepted \cup {NoJob}
    /\ \A i \in 0 .. count - 1 : ring[Slot(head, i, Capacity)] # NoJob
    /\ \A i \in 0 .. pending - 1 : ring[Slot(index, i, Capacity)] # NoJob

Queued == RingContents(ring, head, count, Capacity)

(* A job is in the ring or in one worker's hand, and only once.            *)
HandInv ==
    /\ \A w \in Worker :
         /\ pc[w] \in {"start", "lock", "locked", "wait", "stop"} => hand[w] = NoJob
         /\ pc[w] \in {"got", "skip", "run", "returned"} => hand[w] # NoJob
         /\ hand[w] # NoJob => hand[w] \in Accepted /\ ~Contains(Queued, hand[w])
    /\ \A w, v \in Worker : hand[w] = hand[v] /\ hand[w] # NoJob => w = v
    /\ IsInjective(Queued)

(* Its handler is called once, by the worker that took it.                 *)
StateInv ==
    /\ \A w \in Worker :
         /\ pc[w] = "got" => job[hand[w]].state # "running"
         /\ pc[w] = "skip" => job[hand[w]].result_ready = TRUE
         /\ pc[w] \in {"run", "returned"}
              => job[hand[w]].state \in {"running", "completed"}
    /\ \A j \in Job : Contains(Queued, j) => job[j].state # "running"

PoolInv == LifeInv /\ JobInv /\ CallJobInv /\ RingInv /\ HandInv /\ StateInv

LEMMA PoolTypes ==
    ASSUME PoolInv
    PROVE  /\ TypeInv /\ TypeOK /\ TaskTypeOK /\ JobTypeOK /\ RingTypeOK /\ QueueTypeOK
           /\ CallInv /\ BornInv /\ FutureInv
           /\ job \in [Job -> JobHandle] /\ shared \subseteq Job
           /\ Accepted \subseteq Job /\ NoJob \notin Job
           /\ Capacity \in Nat \ {0}
           /\ \A i \in Job : /\ job[i].result_ready \in BOOLEAN
                             /\ job[i].destroyed \in BOOLEAN /\ job[i].freed \in BOOLEAN
           /\ \A c \in Client : ClientOK(c) /\ c \in Task /\ c \notin Worker
           /\ \A w \in Worker : WorkerOK(w) /\ w \in Task /\ w \notin Client
BY JobQueueAssumption
   DEF PoolInv, LifeInv, TypeInv, TypeOK, JobTypeOK, JobHandle, Accepted, CallInv

(* Whoever gives a job its result or runs it has it from the ring or from  *)
(* its caller.                                                             *)
LEMMA UsedIsAccepted ==
    ASSUME PoolInv, NEW t \in Task, NEW j \in Job,
           Runs(t, j) \/ Completes(t, j) \/ IsDestroyed(t, j)
    PROVE  j \in Accepted
<1>1. CASE t \in Worker /\ hand[t] = j
  BY <1>1, PoolTypes DEF PoolInv, HandInv
<1>2. CASE j \in shared
  BY <1>2 DEF Accepted
<1>3. CASE ring[index] = j
  BY <1>3, PoolTypes DEF PoolInv, RingInv, RingTypeOK
<1> QED BY <1>1, <1>2, <1>3 DEF Runs, Completes, IsDestroyed

LEMMA AcceptedNext ==
    ASSUME PoolInv, NEW t \in Task, Step(t) \/ (t \in Client /\ Begin(t))
    PROVE  /\ Accepted \subseteq Accepted'
           /\ \A j \in Accepted' : j \in Accepted
                                     \/ (t \in Client /\ Enqueue(t) /\ j = op[t].job)
<1>1. CASE shared' = shared /\ \A i \in Job : Kept(i)
  BY <1>1 DEF Accepted, Kept
<1>2. CASE t \in Client /\ Enqueue(t) /\ shared' = shared \cup {op[t].job}
           /\ \A i \in Job : Kept(i)
  BY <1>2 DEF Accepted, Kept
<1>3. ASSUME NEW j \in Job, KeptBut(j), IsDestroyed(t, j)
      PROVE  Accepted' = Accepted
  <2>1. shared' = shared \ {j} /\ j \in shared /\ job'[j].destroyed
    BY <1>3 DEF IsDestroyed
  <2>2. \A i \in Job : i # j => job'[i].destroyed = job[i].destroyed
    BY <1>3 DEF KeptBut, Kept
  <2> QED BY <2>1, <2>2 DEF Accepted
<1>4. ASSUME NEW j \in Job, KeptBut(j), shared' = shared,
             Made(t, j) \/ Runs(t, j) \/ Completes(t, j) \/ IsFreed(t, j)
      PROVE  Accepted' = Accepted
  <2>1. Made(t, j) => job[j].destroyed = FALSE
    BY PoolTypes DEF PoolInv, JobInv, Made
  <2>2. job'[j].destroyed = job[j].destroyed
    BY <1>4, <2>1 DEF Made, Runs, Completes, IsFreed
  <2>3. \A i \in Job : job'[i].destroyed = job[i].destroyed
    BY <1>4, <2>2 DEF KeptBut, Kept
  <2> QED BY <1>4, <2>3 DEF Accepted
<1> QED BY <1>1, <1>2, <1>3, <1>4, HandleEffect, PoolTypes

LEMMA JobInvNext ==
    ASSUME PoolInv, NEW t \in Task, Step(t) \/ (t \in Client /\ Begin(t))
    PROVE  JobInv'
<1>0. JobInv /\ TypeInv /\ CallJobInv /\ \A j \in shared : Born(j)
  BY PoolTypes DEF PoolInv, BornInv
<1>1. CASE shared' = shared /\ \A i \in Job : Kept(i)
  BY <1>0, <1>1 DEF JobInv, Kept
<1>2. CASE /\ t \in Client /\ Enqueue(t)
           /\ op[t].kind = "submit" /\ op[t].job \in Job
           /\ shared' = shared \cup {op[t].job} /\ \A i \in Job : Kept(i)
  BY <1>0, <1>2 DEF JobInv, Kept, CallJobInv, CallJobOK
<1>3. ASSUME NEW j \in Job, KeptBut(j), IsDestroyed(t, j)
      PROVE  JobInv'
  BY <1>0, <1>3 DEF JobInv, Kept, KeptBut, IsDestroyed
<1>4. ASSUME NEW j \in Job, KeptBut(j), shared' = shared,
             Made(t, j) \/ Runs(t, j) \/ Completes(t, j) \/ IsFreed(t, j)
      PROVE  JobInv'
  <2>1. CASE Made(t, j)
    BY <1>0, <1>4, <2>1 DEF JobInv, Kept, KeptBut, Made, Born
  <2>2. CASE Runs(t, j) \/ Completes(t, j)
    BY <1>0, <1>4, <2>2 DEF JobInv, Kept, KeptBut, Runs, Completes
  <2>3. CASE IsFreed(t, j)
    <3>1. j \notin shared
      BY <1>0, <2>3 DEF IsFreed, CallJobInv, CallJobOK, JobInv
    <3> QED BY <1>0, <1>4, <2>3, <3>1 DEF JobInv, Kept, KeptBut, IsFreed
  <2> QED BY <1>4, <2>1, <2>2, <2>3
<1> QED BY <1>0, <1>1, <1>2, <1>3, <1>4, HandleEffect
LEMMA CallJobNext ==
    ASSUME PoolInv, NEW t \in Task, Step(t) \/ (t \in Client /\ Begin(t))
    PROVE  CallJobInv'
<1>0. /\ JobInv /\ TypeInv /\ TypeOK /\ CallJobInv /\ FutureInv
      /\ \A j \in shared : Born(j)
      /\ \A c \in Client : ClientOK(c) /\ c \in Task /\ ClientOK(c)'
      /\ shared \subseteq Job
  BY PoolTypes, CallNext DEF PoolInv, BornInv, CallInv
<1>1. ASSUME NEW c \in Client, op'[c] = op[c]
      PROVE  CallJobOK(c)'
  <2>1. op[c].kind \in {"submit", "wait", "handle_destroy"} => op[c].job \in Job
    BY <1>0 DEF ClientOK
  <2>2. ASSUME op[c].kind = "submit"
        PROVE  Kept(op[c].job) /\ op[c].job \notin shared'
    <3>1. /\ op[c].job \notin shared /\ op[c].job \notin Accepted
          /\ job[op[c].job].state = "pending" /\ op[c] # NoOp
      BY <1>0, <2>2 DEF CallJobInv, CallJobOK, Accepted, NoOp
    <3>2. ASSUME NEW j \in Job, KeptBut(j), IsDestroyed(t, j) \/
                 (shared' = shared /\ (Made(t, j) \/ Runs(t, j) \/ Completes(t, j)
                                       \/ IsFreed(t, j)))
          PROVE  op[c].job # j /\ op[c].job \notin shared'
      <4>1. CASE Made(t, j)
        BY <3>1, <3>2, <4>1 DEF Made, IsDestroyed
      <4>2. CASE Runs(t, j) \/ Completes(t, j) \/ IsDestroyed(t, j)
        BY <3>1, <3>2, <4>2, UsedIsAccepted DEF IsDestroyed
      <4>3. CASE IsFreed(t, j) /\ shared' = shared
        <5>1. OwnJob(t) /\ op[t].job = j /\ op'[t] = NoOp /\ t \in Client
          BY <4>3 DEF IsFreed, OwnJob
        <5>2. c # t /\ OwnJob(c)
          BY <1>1, <2>2, <3>1, <5>1 DEF OwnJob
        <5> QED BY <1>0, <3>1, <4>3, <5>1, <5>2 DEF CallJobInv
      <4> QED BY <3>2, <4>1, <4>2, <4>3
    <3>3. CASE \E j \in Job : KeptBut(j) /\ (IsDestroyed(t, j) \/
                 (shared' = shared /\ (Made(t, j) \/ Runs(t, j) \/ Completes(t, j)
                                       \/ IsFreed(t, j))))
      BY <2>1, <2>2, <3>2, <3>3 DEF KeptBut
    <3>4. CASE shared' = shared /\ \A i \in Job : Kept(i)
      BY <2>1, <2>2, <3>1, <3>4
    <3>5. CASE /\ t \in Client /\ op[t].kind = "submit" /\ op'[t] = NoOp
               /\ shared' = shared \cup {op[t].job} /\ \A i \in Job : Kept(i)
      <4>1. c # t /\ OwnJob(c) /\ OwnJob(t)
        BY <1>1, <2>2, <3>1, <3>5 DEF OwnJob
      <4> QED BY <1>0, <2>1, <2>2, <3>1, <3>5, <4>1 DEF CallJobInv
    <3> QED BY <1>0, <3>3, <3>4, <3>5, HandleEffect
  <2>3. ASSUME op[c].kind = "wait"
        PROVE  op[c].job \in shared'
    <3>1. op[c].job \in shared /\ c \in Waiting(op[c].job) /\ op[c].job \in Job
      BY <1>0, <2>1, <2>3 DEF CallJobInv, CallJobOK, Waiting
    <3>2. ~HandleUnused(op[c].job)
      <4>1. Waiting(op[c].job) # {} /\ IsFiniteSet(Waiting(op[c].job))
        BY <3>1, WaitingFinite
      <4>2. Cardinality(Waiting(op[c].job)) # 0
        BY <4>1, FS_EmptySet
      <4> QED BY <1>0, <3>1, <4>2 DEF HandleUnused, FutureInv
    <3> QED BY <1>0, <3>1, <3>2, HandleEffect DEF IsDestroyed
  <2>4. ASSUME op[c].kind = "handle_destroy"
        PROVE  job'[op[c].job].destroyed = TRUE /\ job'[op[c].job].freed = FALSE
    <3>1. /\ job[op[c].job].destroyed = TRUE /\ job[op[c].job].freed = FALSE
          /\ job[op[c].job].result_ready = TRUE /\ op[c].job \notin shared
          /\ job[op[c].job].state = "completed" /\ op[c] # NoOp /\ op[c].job \in Job
      BY <1>0, <2>1, <2>4 DEF CallJobInv, CallJobOK, JobInv, NoOp
    <3>2. ASSUME NEW j \in Job, KeptBut(j), IsDestroyed(t, j) \/
                 Made(t, j) \/ Runs(t, j) \/ Completes(t, j) \/ IsFreed(t, j)
          PROVE  op[c].job # j
      <4>1. CASE Made(t, j) \/ Runs(t, j) \/ Completes(t, j) \/ IsDestroyed(t, j)
        BY <3>1, <4>1 DEF Made, Runs, Completes, IsDestroyed
      <4>3. CASE IsFreed(t, j)
        <5>1. OwnJob(t) /\ op[t].job = j /\ op'[t] = NoOp /\ t \in Client
          BY <4>3 DEF IsFreed, OwnJob
        <5>2. c # t /\ OwnJob(c)
          BY <1>1, <2>4, <3>1, <5>1 DEF OwnJob
        <5> QED BY <1>0, <5>1, <5>2 DEF CallJobInv
      <4> QED BY <3>2, <4>1, <4>3
    <3>3. Kept(op[c].job)
      BY <1>0, <3>1, <3>2, HandleEffect DEF KeptBut
    <3> QED BY <3>1, <3>3 DEF Kept
  <2>5. CallJobOK(c)
    BY <1>0 DEF CallJobInv
  <2> QED BY <1>1, <2>2, <2>3, <2>4, <2>5 DEF CallJobOK, Kept
<1>2. ASSUME NEW c \in Client, op'[c] # op[c], op'[c].kind # "none"
      PROVE  /\ CallJobOK(c)' /\ c = t
             /\ OwnJob(c)' => \A d \in Client : OwnJob(d) => op[d].job # op'[c].job
  <2>1. CASE Submit(c) /\ c = t /\ op'[c].kind = "submit"
    <3>1. PICK j \in Job : KeptBut(j) /\ Made(c, j)
      BY <1>0, <2>1, SubmitEffect
    <3>2. shared' = shared /\ op'[c].job = j /\ j \notin shared
      BY <1>0, <2>1, <3>1 DEF Submit, Made, Born
    <3>3. \A d \in Client : OwnJob(d) => op[d].job # j
      BY <1>0, <3>1 DEF Made, OwnJob, CallJobInv, CallJobOK, ClientOK, JobInv
    <3> QED BY <2>1, <3>1, <3>2, <3>3 DEF Made, CallJobOK
  <2>2. CASE HandleDestroy(c) /\ c = t /\ op'[c].kind = "handle_destroy"
    <3>1. PICK j \in Job : KeptBut(j) /\ IsDestroyed(c, j)
      BY <1>0, <2>2, DestroyEffect
    <3>2. /\ op'[c].job = j /\ j \in shared /\ job'[j].destroyed = TRUE
          /\ job'[j].freed = job[j].freed
      BY <3>1 DEF IsDestroyed
    <3>3. job[j].freed = FALSE
      BY <1>0, <3>2, PoolTypes DEF JobInv
    <3>4. \A d \in Client : OwnJob(d) => op[d].job # j
      BY <1>0, <3>2 DEF OwnJob, CallJobInv, CallJobOK, ClientOK, JobInv
    <3> QED BY <2>2, <3>2, <3>3, <3>4 DEF CallJobOK
  <2>3. CASE FutureInit(c) /\ c = t /\ op'[c].kind = "wait"
    <3>1. PICK j \in shared, m \in Modes : op' = [op EXCEPT ![c] = Op("wait", m, j)]
      BY <2>3 DEF FutureInit
    <3>2. op'[c].job = j /\ shared' = shared
      BY <1>0, <2>3, <3>1, PoolTypes DEF TaskTypeOK, Op, FutureInit
    <3> QED BY <2>3, <3>2 DEF CallJobOK, OwnJob
  <2>4. CASE QueueDestroy(c) /\ c = t /\ op'[c].kind = "queue_destroy"
    BY <2>4 DEF CallJobOK, OwnJob
  <2> QED BY <1>0, <1>2, <2>1, <2>2, <2>3, <2>4, KindNext
<1>3. ASSUME NEW c \in Client  PROVE CallJobOK(c)'
  <2>1. CASE op'[c].kind = "none"
    BY <2>1 DEF CallJobOK
  <2> QED BY <1>1, <1>2, <2>1
<1>4. ASSUME NEW c \in Client, NEW d \in Client, OwnJob(c)', OwnJob(d)',
             op'[c].job = op'[d].job
      PROVE  c = d
  <2>1. op'[c].kind # "none" /\ op'[d].kind # "none"
    BY <1>4 DEF OwnJob
  <2>2. CASE op'[c] = op[c] /\ op'[d] = op[d]
    BY <1>0, <1>4, <2>2 DEF OwnJob, CallJobInv
  <2>3. CASE op'[c] # op[c] /\ op'[d] = op[d]
    BY <1>2, <1>4, <2>1, <2>3 DEF OwnJob
  <2>4. CASE op'[c] = op[c] /\ op'[d] # op[d]
    BY <1>2, <1>4, <2>1, <2>4 DEF OwnJob
  <2>5. CASE op'[c] # op[c] /\ op'[d] # op[d]
    BY <1>2, <2>1, <2>5
  <2> QED BY <2>2, <2>3, <2>4, <2>5
<1> QED BY <1>3, <1>4 DEF CallJobInv
-----------------------------------------------------------------------------
(* The ring, and the workers' hands.                                       *)

LEMMA RingInvNext ==
    ASSUME PoolInv, NEW t \in Task, Step(t) \/ (t \in Client /\ Begin(t))
    PROVE  RingInv'
<1>0. /\ RingInv /\ RingTypeOK /\ Capacity \in Nat \ {0} /\ Accepted \subseteq Accepted'
      /\ NoJob \notin Job
      /\ head \in 0 .. Capacity - 1 /\ tail \in 0 .. Capacity - 1
      /\ index \in 0 .. Capacity - 1
      /\ count \in 0 .. Capacity /\ pending \in 0 .. Capacity
      /\ ring \in [0 .. Capacity - 1 -> Job \cup {NoJob}]
  BY AcceptedNext, PoolTypes DEF PoolInv, RingTypeOK
<1>1. \A s \in 0 .. Capacity - 1 :
        /\ ring'[s] \in Accepted' \cup {NoJob}
        /\ ring[s] # NoJob => ring'[s] # NoJob
  <2>1. CASE ring' = ring
    BY <1>0, <2>1 DEF RingInv
  <2>2. CASE t \in Client /\ Enqueue(t)
    <3>1. ring' = [ring EXCEPT ![tail] = op[t].job] /\ op[t].job \in shared'
          /\ op[t].job \in Job
      BY <2>2, PoolTypes DEF Enqueue, Submitting, ClientOK
    <3> QED BY <1>0, <3>1 DEF RingInv, Accepted
  <2> QED BY <2>1, <2>2, RingChanges DEF ringVars, Take
<1>2. /\ tail' = Slot(head', count', Capacity)
      /\ \A i \in 0 .. count' - 1 : ring'[Slot(head', i, Capacity)] # NoJob
  <2>1. CASE UNCHANGED ringVars
    BY <1>0, <2>1 DEF RingInv, ringVars
  <2>2. CASE t \in Client /\ Enqueue(t)
    <3>1. /\ ring' = [ring EXCEPT ![tail] = op[t].job] /\ op[t].job \in Job
          /\ tail' = Slot(tail, 1, Capacity) /\ count' = count + 1 /\ head' = head
          /\ count \in 0 .. Capacity - 1
      BY <1>0, <2>2, PoolTypes DEF Enqueue, HasSpace, Submitting, ClientOK, Slot
    <3>2. tail = Slot(head, count, Capacity)
      BY <1>0 DEF RingInv
    <3>3. tail' = Slot(head, count + 1, Capacity)
      BY <1>0, <3>1, <3>2, SlotNext
    <3>4. ASSUME NEW i \in 0 .. count' - 1
          PROVE  ring'[Slot(head, i, Capacity)] # NoJob
      <4>1. CASE i = count
        BY <1>0, <3>1, <3>2, <4>1
      <4>2. CASE i # count
        <5>1. i \in 0 .. count - 1 /\ i \in 0 .. Capacity
          BY <1>0, <3>1, <4>2
        <5>2. /\ ring[Slot(head, i, Capacity)] # NoJob
              /\ Slot(head, i, Capacity) \in 0 .. Capacity - 1
          BY <1>0, <5>1, SlotValue DEF RingInv
        <5> QED BY <1>1, <5>2
      <4> QED BY <4>1, <4>2
    <3> QED BY <3>1, <3>3, <3>4
  <2>3. CASE t \in Worker /\ Take(t)
    <3>1. /\ head' = Slot(head, 1, Capacity) /\ count' = count - 1 /\ tail' = tail
          /\ ring' = ring /\ count \in 1 .. Capacity
      BY <1>0, <2>3 DEF Take, Slot
    <3>2. tail = Slot(head, count, Capacity)
      BY <1>0 DEF RingInv
    <3>3. Slot(head', count', Capacity) = Slot(head, count, Capacity)
      <4> DEFINE k == count - 1
      <4>1. k \in 0 .. Capacity - 1 /\ k + 1 = count /\ count' = k
        BY <1>0, <3>1
      <4> HIDE DEF k
      <4> QED BY <1>0, <3>1, <4>1, SlotNext
    <3>4. ASSUME NEW i \in 0 .. count' - 1
          PROVE  ring'[Slot(head', i, Capacity)] # NoJob
      <4>1. i \in 0 .. Capacity - 1 /\ i + 1 \in 0 .. count - 1
        BY <1>0, <3>1
      <4>2. Slot(head', i, Capacity) = Slot(head, i + 1, Capacity)
        BY <1>0, <3>1, <4>1, SlotNext
      <4> QED BY <1>0, <3>1, <4>1, <4>2 DEF RingInv
    <3> QED BY <3>1, <3>2, <3>3, <3>4
  <2> QED BY <2>1, <2>2, <2>3, RingChanges
<1>3. \A i \in 0 .. pending' - 1 : ring'[Slot(index', i, Capacity)] # NoJob
  <2>1. CASE UNCHANGED drainVars
    <3> SUFFICES ASSUME NEW i \in 0 .. pending - 1
                 PROVE  ring'[Slot(index, i, Capacity)] # NoJob
      BY <2>1 DEF drainVars
    <3>1. i \in 0 .. Capacity
      BY <1>0
    <3>2. /\ ring[Slot(index, i, Capacity)] # NoJob
          /\ Slot(index, i, Capacity) \in 0 .. Capacity - 1
      BY <1>0, <3>1, SlotValue DEF RingInv
    <3> QED BY <1>1, <3>2
  <2>2. CASE t \in Client /\ MarkDestroyed(t)
    BY <1>0, <2>2 DEF MarkDestroyed, RingInv, ringVars
  <2>3. CASE t \in Client /\ DrainOne(t)
    <3>1. /\ index' = Slot(index, 1, Capacity) /\ pending' = pending - 1
          /\ ring' = ring /\ pending \in 1 .. Capacity
      BY <1>0, <2>3 DEF DrainOne, Drained, queueVars, ringVars, Slot
    <3> SUFFICES ASSUME NEW i \in 0 .. pending' - 1
                 PROVE  ring[Slot(index', i, Capacity)] # NoJob
      BY <3>1
    <3>2. i \in 0 .. Capacity - 1 /\ i + 1 \in 0 .. pending - 1
      BY <1>0, <3>1
    <3>3. Slot(index', i, Capacity) = Slot(index, i + 1, Capacity)
      BY <1>0, <3>1, <3>2, SlotNext
    <3> QED BY <1>0, <3>2, <3>3 DEF RingInv
  <2> QED BY <2>1, <2>2, <2>3, DrainChanges
<1> QED BY <1>1, <1>2, <1>3 DEF RingInv

(* The ring as a queue of jobs.                                            *)
LEMMA QueuedType ==
    ASSUME PoolInv
    PROVE  /\ Queued \in Seq(Accepted) /\ Len(Queued) = count
           /\ DOMAIN Queued = 1 .. count
<1>0. /\ RingInv /\ Capacity \in Nat \ {0}
      /\ head \in 0 .. Capacity - 1 /\ count \in 0 .. Capacity
      /\ ring \in [0 .. Capacity - 1 -> Job \cup {NoJob}]
  BY PoolTypes DEF PoolInv, RingTypeOK
<1>1. Queued \in Seq(Job \cup {NoJob})
  BY <1>0, RingContentsType DEF Queued
<1>2. /\ Len(Queued) = count
      /\ \A i \in 1 .. count : Queued[i] = ring[Slot(head, i - 1, Capacity)]
  BY <1>0, RingContentsAt DEF Queued
<1>3. ASSUME NEW i \in 1 .. count  PROVE Queued[i] \in Accepted
  <2>1. i - 1 \in 0 .. Capacity /\ i - 1 \in 0 .. count - 1
    BY <1>0
  <2>2. Slot(head, i - 1, Capacity) \in 0 .. Capacity - 1
    BY <1>0, <2>1, SlotValue
  <2> QED BY <1>0, <1>2, <2>1, <2>2 DEF RingInv
<1>4. Queued = [i \in 1 .. count |-> Queued[i]]
  BY <1>1, <1>2
<1> QED BY <1>0, <1>1, <1>2, <1>3, <1>4

LEMMA QueuedNext ==
    ASSUME PoolInv, NEW t \in Task, Step(t) \/ (t \in Client /\ Begin(t))
    PROVE  \/ Queued' = Queued /\ ~Enqueue(t) /\ ~(t \in Worker /\ Take(t))
           \/ /\ t \in Client /\ Enqueue(t) /\ count \in 0 .. Capacity - 1
              /\ op[t].job \in Job /\ op[t].job \notin Accepted
              /\ Queued' = Append(Queued, op[t].job)
           \/ /\ t \in Worker /\ Take(t)
              /\ Queued # << >> /\ hand' = [hand EXCEPT ![t] = Head(Queued)]
              /\ Queued' = Tail(Queued)
<1>0. /\ RingInv /\ CallJobInv /\ Capacity \in Nat \ {0}
      /\ head \in 0 .. Capacity - 1 /\ count \in 0 .. Capacity
      /\ ring \in [0 .. Capacity - 1 -> Job \cup {NoJob}]
      /\ ring = [i \in 0 .. Capacity - 1 |-> ring[i]]
  BY PoolTypes DEF PoolInv, RingTypeOK
<1>1. CASE t \in Client /\ Enqueue(t)
  <2>1. /\ ring' = [ring EXCEPT ![Slot(head, count, Capacity)] = op[t].job]
        /\ head' = head /\ count' = count + 1 /\ count \in 0 .. Capacity - 1
        /\ op[t].kind = "submit" /\ op[t].job \in Job
    BY <1>0, <1>1, PoolTypes DEF Enqueue, HasSpace, Submitting, ClientOK, RingInv
  <2>2. op[t].job \notin Accepted
    BY <1>0, <1>1, <2>1 DEF CallJobInv, CallJobOK, Accepted
  <2>3. RingContents(ring', head, count + 1, Capacity)
          = Append(RingContents(ring, head, count, Capacity), op[t].job)
    <3>1. ring = [i \in 0 .. Capacity - 1 |-> ring[i]]
      BY <1>0
    <3>2. ASSUME NEW v
          PROVE  RingContents([ring EXCEPT ![Slot(head, count, Capacity)] = v],
                              head, count + 1, Capacity)
                   = Append(RingContents(ring, head, count, Capacity), v)
      <4>1. /\ Capacity \in Nat \ {0} /\ head \in 0 .. Capacity - 1
            /\ count \in 0 .. Capacity - 1
        BY <1>0, <2>1
      <4> QED BY ONLY <3>1, <4>1, RingContentsAppend, Z3
    <3> QED BY <2>1, <3>2
  <2>4. Queued' = RingContents(ring', head', count', Capacity)
    BY DEF Queued
  <2> QED BY <1>1, <2>1, <2>2, <2>3, <2>4 DEF Queued
<1>2. CASE t \in Worker /\ Take(t)
  <2>1. /\ head' = Slot(head, 1, Capacity) /\ count' = count - 1 /\ ring' = ring
        /\ count \in 1 .. Capacity /\ hand' = [hand EXCEPT ![t] = ring[head]]
    BY <1>0, <1>2 DEF Take, Slot
  <2>2. /\ Queued # << >> /\ Head(Queued) = ring[head]
        /\ RingContents(ring, Slot(head, 1, Capacity), count - 1, Capacity)
             = Tail(Queued)
    BY <1>0, <2>1, RingContentsTail DEF Queued
  <2>3. Queued' = RingContents(ring', head', count', Capacity)
    BY DEF Queued
  <2> QED BY <1>2, <2>1, <2>2, <2>3
<1>3. CASE UNCHANGED ringVars
  <2>1. ~Enqueue(t) /\ ~(t \in Worker /\ Take(t))
    BY <1>0, <1>3 DEF Enqueue, Take, ringVars
  <2> QED BY <1>3, <2>1 DEF Queued, ringVars
<1> QED BY <1>1, <1>2, <1>3, RingChanges
LEMMA QueuedKept ==
    ASSUME PoolInv, NEW t \in Task, Step(t) \/ (t \in Client /\ Begin(t))
    PROVE  /\ IsInjective(Queued')
           /\ \A j \in Accepted : Contains(Queued', j) => Contains(Queued, j)
<1>0. Queued \in Seq(Accepted) /\ IsInjective(Queued)
  BY QueuedType DEF PoolInv, HandInv
<1>1. CASE Queued' = Queued
  BY <1>0, <1>1
<1>2. CASE /\ op[t].job \in Job /\ op[t].job \notin Accepted
           /\ Queued' = Append(Queued, op[t].job)
  <2>1. Queued \in Seq(Job) /\ \A i \in DOMAIN Queued : Queued[i] \in Accepted
    BY <1>0, PoolTypes
  <2>2. ~Contains(Queued, op[t].job)
    BY <1>2, <2>1 DEF Contains
  <2>3. /\ IsInjective(Append(Queued, op[t].job))
        /\ \A u : Contains(Append(Queued, op[t].job), u)
                    <=> Contains(Queued, u) \/ u = op[t].job
    BY <1>0, <1>2, <2>1, <2>2, AppendContains
  <2> QED BY <1>2, <2>3
<1>3. CASE Queued # << >> /\ Queued' = Tail(Queued)
  BY <1>0, <1>3, TailContains
<1> QED BY <1>1, <1>2, <1>3, QueuedNext

LEMMA HandInvNext ==
    ASSUME PoolInv, NEW t \in Task, Step(t) \/ (t \in Client /\ Begin(t))
    PROVE  HandInv'
<1>0. /\ HandInv /\ TypeOK /\ TaskTypeOK /\ hand \in [Task -> Job \cup {NoJob}]
      /\ pc \in [Task -> Location]
      /\ Accepted \subseteq Accepted' /\ Accepted \subseteq Job /\ NoJob \notin Job
      /\ \A w \in Worker : WorkerOK(w) /\ w \in Task /\ w \notin Client
  BY AcceptedNext, PoolTypes DEF PoolInv, TaskTypeOK
<1>1. \A w \in Worker : w # t => hand'[w] = hand[w]
  BY <1>0, HandChanges DEF Take, LeaveJob, SetResult
<1>2. t \in Worker /\ Take(t)
        => /\ hand'[t] = Head(Queued) /\ Head(Queued) \in Accepted
           /\ Contains(Queued, Head(Queued)) /\ ~Contains(Queued', Head(Queued))
  <2> SUFFICES ASSUME t \in Worker, Take(t)
               PROVE  /\ hand'[t] = Head(Queued) /\ Head(Queued) \in Accepted
                      /\ Contains(Queued, Head(Queued))
                      /\ ~Contains(Queued', Head(Queued))
    OBVIOUS
  <2>1. /\ Queued # << >> /\ hand' = [hand EXCEPT ![t] = Head(Queued)]
        /\ Queued' = Tail(Queued)
    BY <1>0, QueuedNext
  <2>2. Queued \in Seq(Accepted) /\ IsInjective(Queued)
    BY <1>0, QueuedType DEF HandInv
  <2> QED BY <1>0, <2>1, <2>2, TailContains
<1>3. t \in Worker /\ ~Take(t) => hand'[t] = hand[t] \/ hand'[t] = NoJob
  BY <1>0, HandChanges DEF LeaveJob, SetResult
<1>4. ASSUME NEW w \in Worker, w # t
      PROVE  /\ pc'[w] \in {"start", "lock", "locked", "wait", "stop"}
                  => hand'[w] = NoJob
             /\ pc'[w] \in {"got", "skip", "run", "returned"} => hand'[w] # NoJob
  BY <1>0, <1>1, <1>4, OthersNext DEF HandInv
<1>5. ASSUME t \in Worker
      PROVE  /\ pc'[t] \in {"start", "lock", "locked", "wait", "stop"}
                  => hand'[t] = NoJob
             /\ pc'[t] \in {"got", "skip", "run", "returned"} => hand'[t] # NoJob
  <2>1. CASE Take(t)
    <3>1. pc'[t] = "got"
      BY <1>0, <2>1 DEF Take, Goto
    <3> QED BY <1>0, <1>2, <1>5, <2>1, <3>1
  <2>2. CASE LeaveJob(t) \/ SetResult(t)
    BY <1>0, <2>2 DEF LeaveJob, SetResult, Goto
  <2>3. CASE WorkerStep(t) /\ ~Take(t) /\ ~LeaveJob(t) /\ ~SetResult(t)
    BY <1>0, <1>5, <2>3
       DEF WorkerStep, WorkerStart, AwaitJob, TakeFails, WorkerStop, RunHandler,
           SkipHandler, LeaveJob, HandlerReturns, Taking, Goto, HandInv
  <2>4. CASE Acquire(t) \/ BlockTaken(t) \/ BlockTimeout(t)
    BY <1>0, <1>5, <2>4
       DEF Acquire, BlockTaken, BlockTimeout, Goto, WorkerOK, HandInv
  <2> QED BY <1>0, <1>5, <2>1, <2>2, <2>3, <2>4 DEF Step
<1>6. ASSUME NEW w \in Worker, hand'[w] # NoJob
      PROVE  hand'[w] \in Accepted' /\ ~Contains(Queued', hand'[w])
  <2>1. CASE hand'[w] = hand[w]
    <3>1. hand[w] \in Accepted /\ ~Contains(Queued, hand[w])
      BY <1>0, <1>6, <2>1 DEF HandInv
    <3> QED BY <1>0, <2>1, <3>1, QueuedKept
  <2>2. CASE hand'[w] # hand[w]
    BY <1>0, <1>1, <1>2, <1>3, <1>6, <2>2
  <2> QED BY <2>1, <2>2
<1>7. ASSUME NEW w \in Worker, NEW v \in Worker, hand'[w] = hand'[v], hand'[w] # NoJob
      PROVE  w = v
  <2>1. CASE hand'[w] = hand[w] /\ hand'[v] = hand[v]
    BY <1>0, <1>7, <2>1 DEF HandInv
  <2>2. ASSUME NEW x \in Worker, NEW y \in Worker, hand'[x] # hand[x], x # y,
               hand'[x] = hand'[y], hand'[x] # NoJob
        PROVE  FALSE
    <3>1. x = t /\ Take(t) /\ hand'[y] = hand[y]
      BY <1>1, <1>3, <2>2
    <3>2. hand[y] = Head(Queued) /\ Contains(Queued, Head(Queued))
      BY <1>2, <2>2, <3>1
    <3> QED BY <1>0, <2>2, <3>1, <3>2 DEF HandInv
  <2> QED BY <1>7, <2>1, <2>2
<1> QED BY <1>4, <1>5, <1>6, <1>7, QueuedKept DEF HandInv

(* Only a worker that has taken a job from the ring runs its handler.      *)
LEMMA StateInvNext ==
    ASSUME PoolInv, NEW t \in Task, Step(t) \/ (t \in Client /\ Begin(t))
    PROVE  StateInv'
<1>0. /\ StateInv /\ HandInv /\ TypeInv /\ TypeOK /\ TaskTypeOK /\ JobInv /\ CallJobInv
      /\ hand \in [Task -> Job \cup {NoJob}] /\ pc \in [Task -> Location]
      /\ Accepted \subseteq Job /\ NoJob \notin Job
      /\ \A j \in Accepted : j \in Job /\ Born(j)
      /\ \A w \in Worker : WorkerOK(w) /\ w \in Task /\ w \notin Client
  BY PoolTypes DEF PoolInv, TaskTypeOK, JobInv, BornInv, Born, Accepted
<1>1. ASSUME NEW j \in Accepted, job'[j].state # job[j].state
      PROVE  \/ job'[j].state = "completed"
             \/ job'[j].state = "running" /\ Runs(t, j) /\ t \in Worker /\ hand[t] = j
  <2>1. j \in Job /\ job[j].state # "none" /\ ~Kept(j)
    BY <1>0, <1>1 DEF Born, Kept
  <2>2. /\ KeptBut(j)
        /\ Made(t, j) \/ Runs(t, j) \/ Completes(t, j) \/ IsDestroyed(t, j)
           \/ IsFreed(t, j)
    BY <1>0, <2>1, JobEffect DEF KeptBut
  <2> QED
    BY <1>1, <2>1, <2>2 DEF Made, Runs, Completes, IsDestroyed, IsFreed
<1>5. ASSUME NEW j \in Accepted, job[j].result_ready = TRUE
      PROVE  job'[j].result_ready = TRUE
  <2>1. j \in Job /\ job[j].state # "none"
    BY <1>0 DEF Born
  <2>2. CASE Kept(j)
    BY <1>5, <2>2 DEF Kept
  <2>3. CASE ~Kept(j)
    <3>1. /\ KeptBut(j)
          /\ Made(t, j) \/ Runs(t, j) \/ Completes(t, j) \/ IsDestroyed(t, j)
             \/ IsFreed(t, j)
      BY <1>0, <2>1, <2>3, JobEffect DEF KeptBut
    <3> QED
      BY <1>5, <2>1, <3>1 DEF Made, Runs, Completes, IsDestroyed, IsFreed
  <2> QED BY <2>2, <2>3
<1>2. ASSUME NEW w \in Worker, w # t
      PROVE  /\ pc'[w] = "got" => job'[hand'[w]].state # "running"
             /\ pc'[w] = "skip" => job'[hand'[w]].result_ready = TRUE
             /\ pc'[w] \in {"run", "returned"}
                  => job'[hand'[w]].state \in {"running", "completed"}
  <2>1. hand'[w] = hand[w] /\ (pc'[w] = pc[w] \/ pc'[w] = "dead")
    BY <1>0, <1>2, OthersNext, HandChanges DEF Take, LeaveJob, SetResult
  <2>2. CASE pc[w] \in {"got", "skip", "run", "returned"}
    <3>1. hand[w] \in Accepted /\ hand[w] # NoJob
      BY <1>0, <2>2 DEF HandInv
    <3>2. t \in Worker => hand[t] # hand[w]
      BY <1>0, <1>2, <3>1 DEF HandInv
    <3>3. CASE pc[w] = "skip"
      <4>1. job[hand[w]].result_ready = TRUE
        BY <1>0, <3>3 DEF StateInv
      <4> QED BY <1>5, <2>1, <3>1, <3>3, <4>1
    <3>4. CASE pc[w] # "skip"
      BY <1>0, <1>1, <2>1, <3>1, <3>2, <3>4 DEF StateInv
    <3> QED BY <3>3, <3>4
  <2>3. CASE pc[w] \notin {"got", "skip", "run", "returned"}
    BY <2>1, <2>3
  <2> QED BY <2>2, <2>3
<1>3. ASSUME t \in Worker
      PROVE  /\ pc'[t] = "got" => job'[hand'[t]].state # "running"
             /\ pc'[t] = "skip" => job'[hand'[t]].result_ready = TRUE
             /\ pc'[t] \in {"run", "returned"}
                  => job'[hand'[t]].state \in {"running", "completed"}
  <2>1. CASE Take(t)
    <3>1. /\ Queued # << >> /\ hand'[t] = Head(Queued) /\ pc'[t] = "got"
          /\ job' = job
      BY <1>0, <1>3, <2>1, QueuedNext DEF Take, Goto, jobVars
    <3>2. Contains(Queued, Head(Queued)) /\ Head(Queued) \in Accepted
      BY <3>1, QueuedType, TailContains
    <3> QED BY <1>0, <3>1, <3>2 DEF StateInv
  <2>2. CASE RunHandler(t)
    <3>1. /\ hand' = hand /\ pc'[t] = "run" /\ pc[t] = "got"
          /\ job' = [job EXCEPT ![hand[t]].state = "running"]
      BY <1>0, <2>2 DEF RunHandler, Goto
    <3>2. hand[t] \in Job
      BY <1>0, <1>3, <3>1 DEF HandInv
    <3>3. job'[hand[t]].state = "running"
      BY <1>0, <3>1, <3>2, PoolTypes DEF JobHandle
    <3> QED BY <3>1, <3>3
  <2>3. CASE HandlerReturns(t)
    BY <1>0, <1>3, <2>3 DEF HandlerReturns, Goto, jobVars, StateInv
  <2>4. CASE SkipHandler(t)
    <3>1. /\ hand' = hand /\ job' = job /\ pc'[t] = "skip" /\ pc[t] = "got"
          /\ ~job[hand[t]].result_ready = FALSE
      BY <1>0, <2>4 DEF SkipHandler, Runnable, Goto, jobVars
    <3>2. hand[t] \in Job
      BY <1>0, <1>3, <3>1 DEF HandInv
    <3>3. job[hand[t]].result_ready = TRUE
      BY <3>1, <3>2, PoolTypes DEF JobHandle
    <3> QED BY <3>1, <3>3
  <2>5. CASE ~Take(t) /\ ~RunHandler(t) /\ ~SkipHandler(t) /\ ~HandlerReturns(t)
    <3>1. pc'[t] \notin {"got", "skip", "run", "returned"}
      BY <1>0, <1>3, <2>5
         DEF Step, Acquire, BlockTaken, BlockTimeout, WorkerStep, WorkerStart,
             AwaitJob, TakeFails, WorkerStop, LeaveJob, SetResult, Goto
    <3> QED BY <3>1
  <2> QED BY <2>1, <2>2, <2>3, <2>4, <2>5
<1>4. ASSUME NEW j \in Job, Contains(Queued', j)
      PROVE  job'[j].state # "running"
  <2>1. CASE Contains(Queued, j)
    <3>1. j \in Accepted
      BY <2>1, QueuedType DEF Contains
    <3>2. t \in Worker => hand[t] # j
      BY <1>0, <2>1, <3>1 DEF HandInv
    <3> QED BY <1>0, <1>1, <2>1, <3>1, <3>2 DEF StateInv
  <2>2. CASE ~Contains(Queued, j)
    <3>1. /\ t \in Client /\ Enqueue(t)
          /\ Queued' = Append(Queued, op[t].job)
      BY <1>4, <2>2, QueuedNext, QueuedType, TailContains
    <3>2. Queued \in Seq(Job) /\ op[t].job \in Job
      BY <1>0, <3>1, QueuedType, PoolTypes DEF Enqueue, Submitting, ClientOK
    <3>3. j = op[t].job
      BY <1>4, <2>2, <3>1, <3>2, AppendContains
    <3>4. job' = job /\ op[t].kind = "submit"
      BY <3>1 DEF Enqueue, Submitting
    <3> QED BY <1>0, <3>1, <3>3, <3>4 DEF CallJobInv, CallJobOK
  <2> QED BY <2>1, <2>2
<1> QED BY <1>2, <1>3, <1>4 DEF StateInv
LEMMA PoolInvInit == Init => PoolInv
<1> SUFFICES ASSUME Init PROVE PoolInv
  OBVIOUS
<1>0. /\ Capacity \in Nat \ {0} /\ LifeInv
      /\ ring = [i \in 0 .. Capacity - 1 |-> NoJob]
      /\ head = 0 /\ tail = 0 /\ count = 0 /\ pending = 0 /\ index = 0
      /\ shared = {} /\ job = [j \in Job |-> Unborn]
  BY LifeInvInit, JobQueueAssumption DEF Init
<1>1. /\ \A t \in Task : op[t].kind = "none" /\ hand[t] = NoJob
      /\ \A w \in Worker : pc[w] = "start" /\ hand[w] = NoJob
      /\ \A c \in Client : op[c].kind = "none"
  BY TasksApart DEF Init, NoOp
<1>2. \A j \in Job : /\ job[j].result_ready = FALSE /\ job[j].state = "none"
                     /\ job[j].destroyed = FALSE
  BY <1>0 DEF Unborn, NewJob
<1>3. JobInv
  BY <1>0, <1>2 DEF JobInv
<1>4. CallJobInv
  BY <1>1 DEF CallJobInv, CallJobOK, OwnJob
<1>5. RingInv
  <2>1. Slot(0, 0, Capacity) = 0
    BY <1>0, SlotValue
  <2> QED BY <1>0, <2>1 DEF RingInv
<1>6. Queued = << >>
  <2>1. 1 .. 0 = {}
    OBVIOUS
  <2> QED BY <1>0, <2>1 DEF Queued, RingContents
<1>7. IsInjective(Queued) /\ \A x : ~Contains(Queued, x)
  BY <1>6 DEF IsInjective, Contains
<1>8. HandInv
  BY <1>1, <1>7 DEF HandInv
<1>9. StateInv
  BY <1>1, <1>7 DEF StateInv
<1> QED BY <1>0, <1>3, <1>4, <1>5, <1>8, <1>9 DEF PoolInv

LEMMA PoolInvNext == PoolInv /\ [Next]_vars => PoolInv'
<1> SUFFICES ASSUME PoolInv, [Next]_vars PROVE PoolInv'
  OBVIOUS
<1>1. LifeInv'
  BY LifeInvNext DEF PoolInv
<1>2. ASSUME NEW t \in Task, Step(t) \/ (t \in Client /\ Begin(t))
      PROVE  PoolInv'
  BY <1>1, <1>2, JobInvNext, CallJobNext, RingInvNext, HandInvNext, StateInvNext
     DEF PoolInv
<1>3. CASE UNCHANGED vars
  BY <1>1, <1>3
     DEF vars, queueVars, ringVars, jobVars, taskVars, drainVars, PoolInv, JobInv,
         CallJobInv, CallJobOK, OwnJob, RingInv, Accepted, HandInv, Queued, StateInv
<1> QED BY <1>2, <1>3, NextActs

LEMMA PoolInvSpec == Spec => []PoolInv
<1> QED BY PoolInvInit, PoolInvNext, PTL DEF Spec
-----------------------------------------------------------------------------
(* The job queue as a JobPool.                                             *)

LEMMA ContentsQueued ==
    ASSUME RingTypeOK
    PROVE  Contents = Queued
<1>1. head \in Nat /\ count \in Nat
  BY JobQueueAssumption DEF RingTypeOK
<1>2. ASSUME NEW i \in 1 .. count
      PROVE  ring[(head + i - 1) % Capacity] = ring[Slot(head, i - 1, Capacity)]
  <2>1. head + i - 1 = head + (i - 1)
    BY <1>1
  <2> QED BY <2>1 DEF Slot
<1> QED BY <1>2 DEF Contents, Queued, RingContents

LEMMA StatusKept ==
    ASSUME NEW j \in Job, Kept(j), j \in shared' <=> j \in shared
    PROVE  Status'[j] = Status[j]
BY DEF Status, StatusOf, Kept

LEMMA StatusFrame ==
    ASSUME NEW j \in Job, KeptBut(j),
           \A i \in Job : i # j => (i \in shared' <=> i \in shared)
    PROVE  /\ Status'[j] = Status[j] => Status' = Status
           /\ \A s : Status'[j] = s => Status' = [Status EXCEPT ![j] = s]
<1>1. \A i \in Job : i # j => Status'[i] = Status[i]
  BY StatusKept DEF KeptBut
<1>2. DOMAIN Status = Job /\ DOMAIN Status' = Job
  BY DEF Status
<1>3. Status = [i \in Job |-> Status[i]] /\ Status' = [i \in Job |-> Status'[i]]
  BY DEF Status
<1> QED BY <1>1, <1>2, <1>3

(* A worker's step from "got" to "run" is the abstract Start, the first    *)
(* result of a job the abstract Complete or Cancel.                        *)
LEMMA StatusNext ==
    ASSUME PoolInv, NEW t \in Task, Step(t) \/ (t \in Client /\ Begin(t)),
           Contents' = Contents, Queued = Contents, ~Enqueue(t)
    PROVE  Abstract!Next \/ UNCHANGED Abstract!vars
<1>0. /\ JobInv /\ HandInv /\ StateInv /\ CallJobInv
      /\ \A j \in shared : j \in Job /\ Born(j)
      /\ \A j \in Job : /\ job[j].destroyed \in BOOLEAN
                        /\ job[j].state \in {"none", "pending", "running", "completed"}
  BY PoolTypes DEF PoolInv, BornInv, JobHandle
<1>1. CASE shared' = shared /\ \A i \in Job : Kept(i)
  <2>1. \A i \in Job : Status'[i] = Status[i]
    BY <1>1, StatusKept
  <2>2. Status = [i \in Job |-> Status[i]] /\ Status' = [i \in Job |-> Status'[i]]
    BY DEF Status
  <2>3. Status' = Status
    BY <2>1, <2>2
  <2> QED BY <2>3 DEF Abstract!vars
<1>2. ASSUME NEW j \in Job, KeptBut(j), IsDestroyed(t, j)
      PROVE  UNCHANGED Abstract!vars
  <2>1. j \in shared /\ shared' = shared \ {j}
    BY <1>2 DEF IsDestroyed
  <2>2. Status'[j] = Status[j]
    BY <1>2, <2>1 DEF IsDestroyed, Status, StatusOf
  <2>3. Status' = Status
    BY <1>2, <2>1, <2>2, StatusFrame
  <2> QED BY <2>3 DEF Abstract!vars
<1>3. ASSUME NEW j \in Job, KeptBut(j), shared' = shared,
             Made(t, j) \/ IsFreed(t, j)
      PROVE  UNCHANGED Abstract!vars
  <2>1. Status'[j] = Status[j]
    <3>1. CASE IsFreed(t, j)
      BY <1>3, <3>1 DEF IsFreed, Status, StatusOf
    <3>2. CASE Made(t, j)
      <4>1. j \notin shared /\ job[j].destroyed = FALSE /\ job'[j].destroyed = FALSE
        BY <1>0, <3>2 DEF Made, JobInv, Born
      <4> QED BY <1>3, <4>1 DEF Status, StatusOf
    <3> QED BY <1>3, <3>1, <3>2
  <2>2. Status' = Status
    BY <1>3, <2>1, StatusFrame
  <2> QED BY <2>2 DEF Abstract!vars
<1>4. ASSUME NEW j \in Job, KeptBut(j), shared' = shared, Runs(t, j)
      PROVE  Abstract!Next
  <2>1. j \in Accepted /\ job[j].destroyed = FALSE
    BY <1>0, <1>4, UsedIsAccepted DEF Runs, JobInv
  <2>2. j \in shared
    BY <2>1 DEF Accepted
  <2>3. t \in Worker /\ hand[t] = j /\ pc[t] = "got" /\ job[j].state = "pending"
    BY <1>0, <1>4, <2>2 DEF Runs, RunHandler, JobInv, StateInv, Born
  <2>4. \A i \in DOMAIN Contents : Contents[i] # j
    <3>1. ~Contains(Queued, j)
      BY <1>0, <2>3, PoolTypes DEF HandInv
    <3> QED BY <3>1 DEF Contains
  <2>5. Status[j] = "pending" /\ Status'[j] = "running"
    BY <1>4, <2>2, <2>3 DEF Runs, Status, StatusOf
  <2>6. Status' = [Status EXCEPT ![j] = "running"]
    BY <1>4, <2>5, StatusFrame
  <2>7. Abstract!Start(j)
    BY <2>4, <2>5, <2>6 DEF Abstract!Start, Abstract!Becomes
  <2> QED BY <2>7 DEF Abstract!Next
<1>5. ASSUME NEW j \in Job, KeptBut(j), shared' = shared, Completes(t, j)
      PROVE  Abstract!Next
  <2>1. j \in Accepted /\ job[j].destroyed = FALSE
    BY <1>5, UsedIsAccepted DEF Completes
  <2>2. j \in shared
    BY <2>1 DEF Accepted
  <2>3. job[j].state \in {"pending", "running"}
    BY <1>0, <1>5, <2>2 DEF Completes, JobInv, Born
  <2>4. Status[j] = job[j].state /\ Status'[j] = job'[j].status
    BY <1>5, <2>2, <2>3 DEF Completes, Status, StatusOf
  <2>5. Status' = [Status EXCEPT ![j] = job'[j].status]
    BY <1>5, <2>4, StatusFrame
  <2>6. CASE job'[j].status = "cancelled"
    <3>1. Abstract!Cancel(j)
      BY <2>3, <2>4, <2>5, <2>6 DEF Abstract!Cancel, Abstract!Becomes
    <3> QED BY <3>1 DEF Abstract!Next
  <2>7. CASE job'[j].status # "cancelled"
    <3>1. t \in Worker /\ SetResult(t) /\ hand[t] = j /\ job'[j].status \in {"success", "error"}
      BY <1>5, <2>7 DEF Completes
    <3>2. job[j].state = "running"
      BY <1>0, <2>3, <3>1 DEF SetResult, StateInv
    <3>3. Abstract!Complete(j)
      BY <2>4, <2>5, <3>1, <3>2 DEF Abstract!Complete, Abstract!Becomes
    <3> QED BY <3>3 DEF Abstract!Next
  <2> QED BY <2>6, <2>7
<1> QED BY <1>1, <1>2, <1>3, <1>4, <1>5, HandleEffect, PoolTypes

LEMMA PoolStep ==
    ASSUME PoolInv, TypeInv', NEW t \in Task, Step(t) \/ (t \in Client /\ Begin(t))
    PROVE  Abstract!Next \/ UNCHANGED Abstract!vars
<1>0. RingTypeOK'
  BY DEF TypeInv, TypeOK
<1>1. Contents = Queued /\ Contents' = Queued'
  <2>1. Contents = Queued
    BY PoolTypes, ContentsQueued
  <2>2. Contents' = Queued'
    <3>1. head' \in Nat /\ count' \in Nat
      BY <1>0, JobQueueAssumption DEF RingTypeOK
    <3>2. ASSUME NEW i \in 1 .. count'
          PROVE  ring'[(head' + i - 1) % Capacity] = ring'[Slot(head', i - 1, Capacity)]
      <4>1. head' + i - 1 = head' + (i - 1)
        BY <3>1
      <4> QED BY <4>1 DEF Slot
    <3> QED BY <3>2 DEF Contents, Queued, RingContents
  <2> QED BY <2>1, <2>2
<1>2. CASE t \in Client /\ Enqueue(t) /\ Queued' = Append(Queued, op[t].job)
  <2>1. PICK j \in Job : j = op[t].job
    BY <1>2, PoolTypes DEF Enqueue, Submitting, ClientOK
  <2>2. /\ job' = job /\ shared' = shared \cup {j} /\ count < Capacity
        /\ job[j].state = "pending" /\ job[j].destroyed = FALSE /\ j \notin shared
    BY <1>2, <2>1
       DEF Enqueue, Submitting, HasSpace, PoolInv, CallJobInv, CallJobOK
  <2>3. Status[j] = "new" /\ Status'[j] = "pending"
    BY <2>2 DEF Status, StatusOf
  <2>4. Status' = [Status EXCEPT ![j] = "pending"]
    <3>1. KeptBut(j) /\ \A i \in Job : i # j => (i \in shared' <=> i \in shared)
      BY <2>2 DEF KeptBut, Kept
    <3> QED BY <2>3, <3>1, StatusFrame
  <2>5. Len(Contents) < Capacity /\ Contents' = Append(Contents, j)
    BY <1>1, <1>2, <2>1, <2>2, QueuedType
  <2>6. Abstract!Accept(j)
    BY <2>3, <2>4, <2>5 DEF Abstract!Accept, Abstract!Becomes
  <2> QED BY <2>6 DEF Abstract!Next
<1>3. CASE t \in Worker /\ Take(t) /\ Queued # << >> /\ Queued' = Tail(Queued)
  <2>1. job' = job /\ shared' = shared
    BY <1>3 DEF Take, jobVars
  <2>2. Status' = Status
    BY <2>1 DEF Status, StatusOf
  <2>3. Abstract!Take
    BY <1>1, <1>3, <2>2 DEF Abstract!Take
  <2> QED BY <2>3 DEF Abstract!Next
<1>4. CASE Queued' = Queued /\ ~Enqueue(t)
  BY <1>1, <1>4, StatusNext
<1> QED BY <1>2, <1>3, <1>4, QueuedNext

(* Jobs are taken from the ring in the order they were accepted; a job's   *)
(* handler is called at most once, only after the job left the ring and    *)
(* never after it was cancelled; and the first result a job gets, from its *)
(* worker, from m_job_cancel or from m_job_queue_destroy, is its last.     *)
THEOREM PoolRefinement == Spec => ImplementsJobPool
<1>1. Init => Abstract!Init
  <2> SUFFICES ASSUME Init PROVE Abstract!Init
    OBVIOUS
  <2>1. count = 0 /\ shared = {} /\ \A j \in Job : job[j].destroyed = FALSE
    BY DEF Init, Unborn, NewJob
  <2>2. Contents = << >>
    <3>1. 1 .. 0 = {}
      OBVIOUS
    <3> QED BY <2>1, <3>1 DEF Contents
  <2>3. Status = [j \in Job |-> "new"]
    BY <2>1 DEF Status, StatusOf
  <2> QED BY <2>2, <2>3 DEF Abstract!Init
<1>2. PoolInv /\ TypeInv' /\ [Next]_vars => [Abstract!Next]_(Abstract!vars)
  <2> SUFFICES ASSUME PoolInv, TypeInv', [Next]_vars
               PROVE  Abstract!Next \/ UNCHANGED Abstract!vars
    OBVIOUS
  <2>1. CASE UNCHANGED vars
    BY <2>1
       DEF vars, queueVars, ringVars, jobVars, Abstract!vars, Contents, Status,
           StatusOf
  <2> QED BY <2>1, PoolStep, NextActs
<1> QED
  BY <1>1, <1>2, PoolInvSpec, TypeInvSpec, PTL
     DEF Spec, ImplementsJobPool, Abstract!Spec
-----------------------------------------------------------------------------
(* The jobs that are left when the queue is destroyed.                     *)

Doomed == RingContents(ring, index, pending, Capacity)

Left == IF destroyed THEN Doomed ELSE Queued

(* A job that was accepted has its result, or a worker has it, or the      *)
(* destroy of the queue still comes to it.                                 *)
DrainInv ==
    \A j \in shared :
        \/ job[j].result_ready = TRUE
        \/ \E w \in Worker : hand[w] = j
        \/ Contains(Left, j)

LEMMA DoomedNext ==
    ASSUME PoolInv, OrderlyDestroy, destroyed,
           NEW t \in Task, Step(t) \/ (t \in Client /\ Begin(t))
    PROVE  \/ Doomed' = Doomed
           \/ /\ t \in Client /\ DrainOne(t)
              /\ Doomed # << >> /\ Head(Doomed) = ring[index]
              /\ Doomed \in Seq(Job \cup {NoJob}) /\ Doomed' = Tail(Doomed)
<1>0. /\ LifeInv /\ RingInv /\ Capacity \in Nat \ {0}
      /\ index \in 0 .. Capacity - 1 /\ pending \in 0 .. Capacity
      /\ ring \in [0 .. Capacity - 1 -> Job \cup {NoJob}]
      /\ ring = [i \in 0 .. Capacity - 1 |-> ring[i]]
  BY PoolTypes DEF PoolInv, RingTypeOK
<1>1. ring' = ring
  <2>1. ~(t \in Client /\ Enqueue(t))
    BY <1>0 DEF LifeInv, OrderInv, Enqueue, Submitting
  <2> QED BY <2>1, RingChanges DEF ringVars, Take
<1>2. ~MarkDestroyed(t) \/ t \notin Client
  BY <1>0 DEF LifeInv, StageInv, MarkDestroyed, Destroyer
<1>3. CASE UNCHANGED drainVars
  BY <1>1, <1>3 DEF Doomed, drainVars
<1>4. CASE t \in Client /\ DrainOne(t)
  <2>1. /\ index' = Slot(index, 1, Capacity) /\ pending' = pending - 1
        /\ pending \in 1 .. Capacity
    BY <1>0, <1>4 DEF DrainOne, Drained, Slot
  <2>2. /\ Doomed # << >> /\ Head(Doomed) = ring[index]
        /\ RingContents(ring, Slot(index, 1, Capacity), pending - 1, Capacity)
             = Tail(Doomed)
    BY <1>0, <2>1, RingContentsTail DEF Doomed
  <2>3. Doomed \in Seq(Job \cup {NoJob})
    BY <1>0, RingContentsType DEF Doomed
  <2>4. Doomed' = RingContents(ring', index', pending', Capacity)
    BY DEF Doomed
  <2> QED BY <1>1, <1>4, <2>1, <2>2, <2>3, <2>4
<1> QED BY <1>2, <1>3, <1>4, DrainChanges

LEMMA DrainInvNext ==
    ASSUME PoolInv, OrderlyDestroy, DrainInv,
           NEW t \in Task, Step(t) \/ (t \in Client /\ Begin(t))
    PROVE  DrainInv'
<1>0. /\ LifeInv /\ JobInv /\ HandInv /\ TypeInv /\ TypeOK /\ JobTypeOK
      /\ hand \in [Task -> Job \cup {NoJob}] /\ NoJob \notin Job
      /\ destroyed \in BOOLEAN /\ destroyed' \in BOOLEAN
      /\ \A j \in shared : j \in Job /\ Born(j)
      /\ \A i \in Job : /\ job[i].result_ready \in BOOLEAN
                        /\ job[i].destroyed \in BOOLEAN
      /\ \A w \in Worker : w \in Task /\ w \notin Client
      /\ \A c \in Client : c \in Task /\ c \notin Worker
  BY PoolTypes, QueueTypeNext DEF PoolInv, LifeInv, TypeInv, BornInv, TaskTypeOK, QueueTypeOK
<1>1. ASSUME NEW j \in shared, job[j].result_ready = TRUE
      PROVE  job'[j].result_ready = TRUE
  <2>1. j \in Job /\ job[j].state # "none"
    BY <1>0 DEF Born
  <2>2. CASE \A i \in Job : Kept(i)
    BY <1>1, <2>1, <2>2 DEF Kept
  <2>3. ASSUME NEW i \in Job, KeptBut(i),
               Made(t, i) \/ Runs(t, i) \/ Completes(t, i) \/ IsDestroyed(t, i)
                 \/ IsFreed(t, i)
        PROVE  job'[j].result_ready = TRUE
    <3>1. CASE i # j
      BY <1>1, <2>1, <2>3, <3>1 DEF KeptBut, Kept
    <3>2. CASE i = j
      BY <1>1, <2>1, <2>3, <3>2 DEF Made, Runs, Completes, IsDestroyed, IsFreed
    <3> QED BY <3>1, <3>2
  <2> QED BY <1>0, <2>2, <2>3, JobEffect
<1>2. ASSUME NEW j \in shared, NEW w \in Worker, hand[w] = j
      PROVE  job'[j].result_ready = TRUE \/ hand'[w] = j
  <2>1. CASE w = t /\ Take(t)
    BY <1>0, <1>2, <2>1 DEF Take, Taking, HandInv
  <2>2. CASE w = t /\ LeaveJob(t)
    BY <1>0, <1>2, <2>2 DEF LeaveJob, StateInv, PoolInv, jobVars
  <2>3. CASE w = t /\ SetResult(t)
    <3>1. PICK s \in {"success", "error"} : job' = Completed(j, s)
      BY <1>2, <2>3 DEF SetResult
    <3>2. job[j].destroyed = FALSE
      BY <1>0 DEF JobInv
    <3> QED BY <1>0, <1>1, <3>1, <3>2, JobCompleted
  <2>4. CASE hand'[w] = hand[w]
    BY <1>2, <2>4
  <2> QED
    BY <1>0, <1>2, <2>1, <2>2, <2>3, <2>4, HandChanges DEF Take, LeaveJob, SetResult
<1>3. ASSUME NEW j \in Job, ~destroyed, Contains(Queued, j)
      PROVE  Contains(Left', j) \/ \E w \in Worker : hand'[w] = j
  <2>1. CASE t \in Client /\ MarkDestroyed(t)
    <3>1. destroyed' /\ pending' = count /\ index' = head /\ ring' = ring
      BY <2>1 DEF MarkDestroyed, ringVars
    <3>2. Doomed' = Queued
      BY <3>1 DEF Doomed, Queued
    <3> QED BY <1>3, <3>1, <3>2 DEF Left
  <2>2. CASE ~destroyed'
    <3>1. Left' = Queued'
      BY <2>2 DEF Left
    <3>2. CASE Queued' = Queued
      BY <1>3, <3>1, <3>2
    <3>3. CASE op[t].job \in Job /\ Queued' = Append(Queued, op[t].job)
      <4>1. Queued \in Seq(Job)
        BY QueuedType, PoolTypes
      <4> QED BY <1>3, <3>1, <3>3, <4>1, AppendContains
    <3>4. CASE /\ t \in Worker /\ Queued # << >> /\ Queued' = Tail(Queued)
               /\ hand' = [hand EXCEPT ![t] = Head(Queued)]
      <4>1. hand'[t] = Head(Queued)
        BY <1>0, <3>4
      <4>2. j = Head(Queued) \/ Contains(Tail(Queued), j)
        BY <1>3, <3>4, QueuedType, TailContains
      <4> QED BY <3>1, <3>4, <4>1, <4>2
    <3> QED BY <3>2, <3>3, <3>4, QueuedNext
  <2> QED BY <1>0, <1>3, <2>1, <2>2, LifeChanges DEF FreeQueue
<1>4. ASSUME NEW j \in shared, destroyed, Contains(Doomed, j)
      PROVE  Contains(Left', j) \/ job'[j].result_ready = TRUE
  <2>1. Left' = Doomed'
    <3>1. destroyed'
      BY <1>0, <1>4, StageNext
    <3> QED BY <3>1 DEF Left
  <2>2. CASE Doomed' = Doomed
    BY <1>4, <2>1, <2>2
  <2>3. CASE /\ t \in Client /\ DrainOne(t)
             /\ Doomed # << >> /\ Head(Doomed) = ring[index]
             /\ Doomed \in Seq(Job \cup {NoJob}) /\ Doomed' = Tail(Doomed)
    <3>1. CASE j = ring[index]
      <4>1. job' = Completed(j, "cancelled")
        BY <2>3, <3>1 DEF DrainOne
      <4>2. job[j].destroyed = FALSE
        BY <1>0 DEF JobInv
      <4> QED BY <1>0, <1>1, <4>1, <4>2, JobCompleted
    <3>2. CASE j # ring[index]
      <4>1. Contains(Tail(Doomed), j)
        BY <1>4, <2>3, <3>2, TailContains
      <4> QED BY <2>1, <2>3, <4>1
    <3> QED BY <3>1, <3>2
  <2> QED BY <1>4, <2>2, <2>3, DoomedNext
<1>5. ASSUME NEW j \in shared', j \notin shared
      PROVE  Contains(Left', j)
  <2>1. t \in Client /\ Enqueue(t) /\ j = op[t].job /\ j \in Job
    BY <1>0, <1>5, HandleEffect DEF IsDestroyed
  <2>2. ~destroyed'
    <3>1. ~destroyed
      BY <1>0, <2>1 DEF LifeInv, OrderInv, Enqueue, Submitting
    <3> QED BY <1>0, <2>1, <3>1 DEF Enqueue, lifeVars
  <2>3. Queued' = Append(Queued, j)
    BY <1>0, <2>1, QueuedNext
  <2>4. Queued \in Seq(Job)
    BY QueuedType, PoolTypes
  <2> QED BY <2>1, <2>2, <2>3, <2>4, AppendContains DEF Left
<1> SUFFICES ASSUME NEW j \in shared'
             PROVE  \/ job'[j].result_ready = TRUE
                    \/ \E w \in Worker : hand'[w] = j
                    \/ Contains(Left', j)
  BY DEF DrainInv
<1>6. CASE j \notin shared
  BY <1>5, <1>6
<1>7. CASE j \in shared
  BY <1>0, <1>1, <1>2, <1>3, <1>4, <1>7 DEF DrainInv, Left
<1> QED BY <1>6, <1>7

(* m_job_queue_destroy gives a result to every job that was in the ring    *)
(* when it began, if nobody submits meanwhile: of the jobs whose handles   *)
(* the clients still have, only one that a deleted worker held is without. *)
THEOREM DestroyCompletes == OrderlyDestroy => (Spec => []DestroyCancels)
<1> SUFFICES ASSUME OrderlyDestroy PROVE Spec => []DestroyCancels
  OBVIOUS
<1>1. Init => DrainInv
  BY DEF Init, DrainInv
<1>2. PoolInv /\ PoolInv' /\ DrainInv /\ [Next]_vars => DrainInv'
  <2> SUFFICES ASSUME PoolInv, DrainInv, [Next]_vars PROVE DrainInv'
    OBVIOUS
  <2>1. CASE UNCHANGED vars
    BY <2>1
       DEF vars, queueVars, ringVars, lifeVars, jobVars, taskVars, drainVars,
           DrainInv, Left, Doomed, Queued
  <2> QED BY <2>1, DrainInvNext, NextActs
<1>3. PoolInv /\ DrainInv => DestroyCancels
  <2> SUFFICES ASSUME PoolInv, DrainInv, freed, NEW j \in shared
               PROVE  job[j].result_ready \/ \E w \in Worker : hand[w] = j
    BY DEF DestroyCancels
  <2>1. destroyed /\ pending = 0
    BY DEF PoolInv, LifeInv, StageInv
  <2>2. ~Contains(Left, j)
    <3>1. 1 .. 0 = {}
      OBVIOUS
    <3> QED BY <2>1, <3>1 DEF Left, Doomed, RingContents, Contains
  <2> QED BY <2>2 DEF DrainInv
<1> QED BY <1>1, <1>2, <1>3, PoolInvSpec, PTL DEF Spec
-----------------------------------------------------------------------------
(* The memory of the job handles.                                          *)

(* A handle that was destroyed has its result, and one that was freed is   *)
(* in no call: not in a submit, not in a wait (whose future counts), and   *)
(* not in the destroy itself.                                              *)
HandlesKept ==
    \A j \in Job :
        /\ job[j].destroyed => job[j].result_ready
        /\ job[j].freed => \A t \in Task : op[t].job # j

(* Whatever clients do with the handles they have, and whenever the queue  *)
(* is destroyed: m_job_handle_destroy takes no handle whose job has no     *)
(* result, and frees none that a future or another call still leads to.    *)
(* (The ring or a worker may lead to a freed one, that of a cancelled      *)
(* job.)                                                                   *)
THEOREM CallsKeepHandles == Spec => []HandlesKept
<1>1. PoolInv => HandlesKept
  <2> SUFFICES ASSUME PoolInv PROVE HandlesKept
    OBVIOUS
  <2>0. /\ JobInv /\ CallJobInv /\ NoJob \notin Job
        /\ \A i \in Job : /\ job[i].destroyed \in BOOLEAN
                          /\ job[i].freed \in BOOLEAN
                          /\ job[i].result_ready \in BOOLEAN
        /\ \A w \in Worker : WorkerOK(w)
        /\ \A c \in Client : ClientOK(c)
    BY PoolTypes DEF PoolInv, JobHandle
  <2>1. ASSUME NEW j \in Job, job[j].freed, NEW t \in Task, op[t].job = j
        PROVE  FALSE
    <3>1. t \in Client
      BY <2>0, <2>1, JobQueueAssumption DEF WorkerOK, NoOp
    <3>2. op[t].kind \in {"submit", "wait", "handle_destroy"}
      BY <2>0, <2>1, <3>1 DEF ClientOK, Place
    <3>3. CallJobOK(t)
      BY <2>0, <3>1 DEF CallJobInv
    <3>4. job[j].freed = TRUE
      BY <2>0, <2>1
    <3>5. CASE op[t].kind = "wait"
      BY <2>0, <2>1, <3>3, <3>4, <3>5 DEF CallJobOK, JobInv
    <3>6. CASE op[t].kind \in {"submit", "handle_destroy"}
      BY <2>1, <3>3, <3>4, <3>6 DEF CallJobOK
    <3> QED BY <3>2, <3>5, <3>6
  <2>2. ASSUME NEW j \in Job, job[j].destroyed
        PROVE  job[j].result_ready
    BY <2>0, <2>2 DEF JobInv
  <2> QED BY <2>1, <2>2 DEF HandlesKept
<1> QED BY <1>1, PoolInvSpec, PTL

-----------------------------------------------------------------------------
(***************************************************************************)
(* The wait lists of the job queue: of its workers, of the submitters that *)
(* wait for space, and of the futures that wait for a job. A node of these *)
(* lists is on the stack of the task that waits, so a list that holds a    *)
(* task that has gone on is a dangling pointer, and a task that waits in   *)
(* no list is never woken.                                                 *)
(*                                                                         *)
(* WaitInv says of every task whether its waiter is linked, where in the   *)
(* code it then is, and that each list holds exactly the tasks whose       *)
(* waiters are linked for it. It rests on PoolInv for two facts: the job   *)
(* that is completed is one a call or a worker holds, and a worker is      *)
(* deleted only after the queue's lists were emptied.                      *)
(***************************************************************************)

(* Lists that hold the tasks of a set, each once.                          *)

Holds(q, S) == IsInjective(q) /\ \A t : Contains(q, t) <=> t \in S

LEMMA HoldsNobody == Holds(<< >>, {})
BY DEF Holds, IsInjective, Contains

LEMMA HoldsEmpty ==
    ASSUME NEW T, NEW q \in Seq(T), Holds(q, {})
    PROVE  q = << >>
<1> SUFFICES ASSUME q # << >> PROVE FALSE
  OBVIOUS
<1>1. Contains(q, Head(q))
  BY TailContains
<1> QED BY <1>1 DEF Holds

LEMMA HoldsAppend ==
    ASSUME NEW T, NEW q \in Seq(T), NEW t \in T, NEW S, Holds(q, S), t \notin S
    PROVE  Append(q, t) \in Seq(T) /\ Holds(Append(q, t), S \cup {t})
BY AppendContains DEF Holds

LEMMA HoldsTail ==
    ASSUME NEW T, NEW q \in Seq(T), q # << >>, NEW S, Holds(q, S)
    PROVE  /\ Head(q) \in S /\ Head(q) \in T
           /\ Tail(q) \in Seq(T) /\ Holds(Tail(q), S \ {Head(q)})
<1>1. /\ Head(q) \in T /\ Tail(q) \in Seq(T) /\ Contains(q, Head(q))
      /\ \A t : Contains(Tail(q), t) => Contains(q, t)
      /\ \A t : Contains(q, t) /\ t # Head(q) => Contains(Tail(q), t)
      /\ IsInjective(Tail(q)) /\ ~Contains(Tail(q), Head(q))
  BY TailContains DEF Holds
<1> QED BY <1>1 DEF Holds

LEMMA HoldsUnlinked ==
    ASSUME NEW T, NEW q \in Seq(T), NEW S, Holds(q, S), NEW t \in S,
           NEW r \in Unlinked(q, t)
    PROVE  r \in Seq(T) /\ Holds(r, S \ {t})
<1>1. Contains(q, t) /\ Len(q) \in Nat /\ DOMAIN q = 1 .. Len(q)
  BY DEF Holds
<1>2. PICK i \in 1 .. Len(q) : q[i] = t /\ r = RemoveAt(q, i)
  BY <1>1 DEF Unlinked
<1>3. /\ r \in Seq(T) /\ IsInjective(r)
      /\ \A u : Contains(r, u) <=> Contains(q, u) /\ u # t
  BY <1>2, RemoveAtIndexed, RemoveAtContains DEF Holds
<1> QED BY <1>3 DEF Holds

-----------------------------------------------------------------------------
(* The invariant.                                                          *)

(* The task's waiter is in a list.                                         *)
Linked(t) == waiter[t].enqueued = TRUE

WaitingWorkers    == {w \in Worker : Linked(w)}
WaitingSubmitters == {c \in Client : op[c].kind = "submit" /\ Linked(c)}
WaitingFor(j)     ==
    {c \in Client : op[c].kind = "wait" /\ op[c].job = j /\ Linked(c)}

ListsInv ==
    /\ Holds(worker_waiters, WaitingWorkers)
    /\ Holds(submit_waiters, WaitingSubmitters)
    /\ \A j \in Job : Holds(job[j].waiters, WaitingFor(j))

(* Where a task is whose waiter is linked: it has not been woken, and it   *)
(* waits, or has timed out and not taken itself out yet.                   *)
ParkedOK(t) ==
    Linked(t) =>
        /\ waiter[t].given = FALSE
        /\ \/ t \in Worker /\ pc[t] = "wait" /\ waiter[t].armed = TRUE
           \/ /\ t \in Client /\ op[t].kind = "submit"
              /\ \/ pc[t] = "wait"
                 \/ pc[t] \in {"lock", "locked"} /\ wait_result[t] # "ok"
           \/ t \in Client /\ op[t].kind = "wait" /\ pc[t] \in {"await", "awaited"}

ParkedInv == \A t \in Task : ParkedOK(t)

(* Nobody waits for what will not come any more.                           *)
EmptyInv ==
    /\ destroyed => worker_waiters = << >> /\ submit_waiters = << >>
    /\ \A j \in Job : job[j].result_ready = TRUE => job[j].waiters = << >>

WaitInv == ListsInv /\ ParkedInv /\ EmptyInv

LEMMA WaitTypes ==
    ASSUME PoolInv
    PROVE  /\ TypeOK /\ TaskTypeOK /\ JobTypeOK /\ CallInv
           /\ worker_waiters \in Seq(Worker) /\ submit_waiters \in Seq(Client)
           /\ \A j \in Job : job[j].waiters \in Seq(Client)
           /\ waiter \in [Task -> Waiter]
           /\ \A u \in Task : /\ waiter[u].enqueued \in BOOLEAN
                              /\ waiter[u].given \in BOOLEAN
                              /\ waiter[u].armed \in BOOLEAN
BY PoolTypes DEF QueueTypeOK, JobTypeOK, JobHandle, TaskTypeOK, Waiter

-----------------------------------------------------------------------------
(* What steps do to the waiters.                                           *)

LEMMA WaiterChanges ==
    ASSUME NEW t, Step(t) \/ Begin(t)
    PROVE  \/ UNCHANGED waiter
           \/ BlockTaken(t) \/ BlockTimeout(t) \/ Cancel(t)
           \/ /\ t \in Client
              /\ \/ Enqueue(t) \/ AwaitSpace(t) \/ SubmitFails(t) \/ FutureAwait(t)
                 \/ FutureDone(t) \/ MarkDestroyed(t) \/ DrainOne(t)
           \/ /\ t \in Worker
              /\ \/ Take(t) \/ AwaitJob(t) \/ SetResult(t)
<1>1. CASE Begin(t)
  BY <1>1 DEF Begin, Submit, HandleDestroy, FutureInit, QueueDestroy
<1>2. CASE Acquire(t)
  BY <1>2 DEF Acquire
<1>3. CASE t \in Client /\ ClientStep(t)
  BY <1>3 DEF ClientStep, QueueFull, NoSpace, UnlockAgain, FreeJob, FutureReady,
              FutureDeinit, KillWorker, FreeQueue
<1>4. CASE t \in Worker /\ WorkerStep(t)
  BY <1>4 DEF WorkerStep, WorkerStart, TakeFails, WorkerStop, RunHandler,
              SkipHandler, LeaveJob, HandlerReturns
<1> QED BY <1>1, <1>2, <1>3, <1>4 DEF Step

(* A task whose waiter was not touched and that stays where it is.         *)
Stays(u) ==
    /\ waiter'[u] = waiter[u] /\ pc'[u] = pc[u] /\ op'[u] = op[u]
    /\ wait_result'[u] = wait_result[u]

LEMMA ParkedFrame ==
    ASSUME ParkedInv, NEW t \in Task, ParkedOK(t)',
           \A u \in Task : u # t => waiter'[u].enqueued = FALSE \/ Stays(u)
    PROVE  ParkedInv'
BY DEF ParkedInv, ParkedOK, Stays, Linked

(* The sets of waiting tasks, when they stay as they are.                  *)
LEMMA SetsKept ==
    ASSUME \A u \in Task : Linked(u)' <=> Linked(u),
           \A c \in Client : Linked(c) => op'[c] = op[c]
    PROVE  /\ WaitingWorkers' = WaitingWorkers
           /\ WaitingSubmitters' = WaitingSubmitters
           /\ \A j \in Job : WaitingFor(j)' = WaitingFor(j)
BY TasksApart DEF WaitingWorkers, WaitingSubmitters, WaitingFor
(* The sets of waiting tasks, when the tasks of Q are taken out.           *)
LEMMA SetsWithout ==
    ASSUME NEW Q,
           \A u \in Task : Linked(u)' <=> Linked(u) /\ u \notin Q,
           \A c \in Client : Linked(c) /\ c \notin Q => op'[c] = op[c]
    PROVE  /\ WaitingWorkers' = WaitingWorkers \ Q
           /\ WaitingSubmitters' = WaitingSubmitters \ Q
           /\ \A j \in Job : WaitingFor(j)' = WaitingFor(j) \ Q
BY TasksApart DEF WaitingWorkers, WaitingSubmitters, WaitingFor

LEMMA HoldsOthers ==
    ASSUME NEW q, NEW S, NEW Q, Holds(q, S), S \cap Q = {}
    PROVE  Holds(q, S \ Q)
<1>1. S \ Q = S
  OBVIOUS
<1> QED BY <1>1

(* The jobs' lists and results, when nobody starts or ends waiting for one *)
(* and none is completed.                                                  *)
JobsQuiet ==
    \A j \in Job : /\ job'[j].waiters = job[j].waiters
                   /\ job'[j].result_ready = TRUE => job[j].result_ready = TRUE

LEMMA JobsQuietNext ==
    ASSUME PoolInv, ListsInv, NEW t \in Task, Step(t) \/ (t \in Client /\ Begin(t)),
           ~Cancel(t),
           t \in Client => ~FutureAwait(t) /\ ~FutureDone(t) /\ ~DrainOne(t),
           t \in Worker => ~SetResult(t)
    PROVE  JobsQuiet
<1>0. /\ JobTypeOK /\ TaskTypeOK /\ CallInv /\ shared \subseteq Job
      /\ \A j \in Job : job[j].waiters \in Seq(Client)
      /\ \A c \in Client : op[c].job \in Job => job[op[c].job].state # "none"
      /\ \A j \in Job : job[j].future_count \in Nat
  BY WaitTypes, PoolTypes DEF JobTypeOK, JobHandle, BornInv, Born
<1>1. CASE UNCHANGED job
  BY <1>1 DEF JobsQuiet
<1>2. CASE Submit(t)
  <2>1. PICK j \in Job : job[j].state = "none" /\ job' = [job EXCEPT ![j] = NewJob]
    BY <1>2 DEF Submit
  <2>2. WaitingFor(j) = {}
    BY <1>0, <2>1 DEF WaitingFor
  <2>3. job[j].waiters = << >>
    BY <1>0, <2>2, HoldsEmpty DEF ListsInv
  <2>4. /\ JobsBut(j) /\ job'[j].waiters = << >> /\ job'[j].result_ready = FALSE
    BY <1>0, <2>1, JobMade
  <2> QED BY <2>3, <2>4 DEF JobsBut, JobsQuiet
<1>3. CASE HandleDestroy(t)
  <2>1. PICK j \in Job : job' = [job EXCEPT ![j].destroyed = TRUE]
    BY <1>0, <1>3 DEF HandleDestroy
  <2> QED BY <1>0, <2>1, JobDestroyed DEF JobsBut, JobsQuiet
<1>4. CASE FutureInit(t) \/ (t \in Client /\ FutureDeinit(t))
  <2>1. \E j \in Job : \E n : job' = [job EXCEPT ![j].future_count = n]
    BY <1>0, <1>4, Zenon DEF FutureInit, FutureDeinit, CallInv, ClientOK, Place
  <2> QED BY <1>0, <2>1 DEF JobsQuiet, JobTypeOK, JobHandle
<1>5. CASE t \in Client /\ (QueueFull(t) \/ UnlockAgain(t) \/ SubmitFails(t) \/ FreeJob(t))
  <2>1. job' = [job EXCEPT ![op[t].job].freed = TRUE]
    BY <1>5 DEF QueueFull, UnlockAgain, SubmitFails, FreeJob, Discarded
  <2> QED BY <1>0, <2>1 DEF JobsQuiet, JobTypeOK, JobHandle
<1>6. CASE t \in Worker /\ RunHandler(t)
  <2>1. job' = [job EXCEPT ![hand[t]].state = "running"]
    BY <1>6 DEF RunHandler
  <2> QED BY <1>0, <2>1 DEF JobsQuiet, JobTypeOK, JobHandle
<1> QED BY <1>1, <1>2, <1>3, <1>4, <1>5, <1>6, JobChanges

(* Only a task that waits, or whose deadline passed, is linked.            *)
LEMMA NotLinked ==
    ASSUME PoolInv, ParkedInv, NEW t \in Task, Linked(t)
    PROVE  /\ waiter[t].given = FALSE
           /\ pc[t] \in {"wait", "lock", "locked", "await", "awaited"}
           /\ pc[t] \in {"lock", "locked"}
                => t \in Client /\ op[t].kind = "submit" /\ wait_result[t] # "ok"
           /\ t \in Client => op[t].kind \in {"submit", "wait"}
           /\ pc[t] \in {"await", "awaited"} => t \in Client /\ op[t].kind = "wait"
           /\ t \in Worker => pc[t] = "wait" /\ waiter[t].armed = TRUE
           /\ pc[t] = "wait" /\ t \in Client => op[t].kind = "submit"
BY TasksApart DEF ParkedInv, ParkedOK

(* The other tasks stay where they are, but for a worker that is deleted;  *)
(* it was not linked.                                                      *)
LEMMA OthersStay ==
    ASSUME PoolInv, WaitInv, NEW t \in Task, Step(t) \/ (t \in Client /\ Begin(t)),
           NEW u \in Task, u # t, waiter'[u] = waiter[u]
    PROVE  waiter'[u].enqueued = FALSE \/ Stays(u)
<1>0. TypeOK /\ TaskTypeOK /\ \A v \in Task : waiter[v].enqueued \in BOOLEAN
  BY WaitTypes
<1>1. CASE Alone(t)
  BY <1>1 DEF Alone, Still, Stays
<1>2. CASE t \in Client /\ KillWorker(t)
  <2>1. destroyed
    BY <1>2, PoolTypes DEF KillWorker, PoolInv, LifeInv, StageInv, Destroyer, CallInv,
                           ClientOK, Place
  <2>2. WaitingWorkers = {}
    <3>1. \A w : ~Contains(worker_waiters, w)
      BY <2>1 DEF WaitInv, EmptyInv, Contains
    <3> QED BY <3>1 DEF WaitInv, ListsInv, Holds
  <2>3. CASE u \in Worker
    BY <1>0, <2>2, <2>3 DEF WaitingWorkers, Linked
  <2>4. CASE u \notin Worker
    <3>1. pc'[u] = pc[u]
      BY <1>0, <1>2, <2>4 DEF KillWorker, Goto, TaskTypeOK
    <3> QED BY <1>2, <3>1 DEF KillWorker, Stays
  <2> QED BY <2>3, <2>4
<1> QED BY <1>0, <1>1, <1>2, TasksNext
(* ParkedInv, for a step after which t is not linked.                      *)
LEMMA ParkedLeft ==
    ASSUME PoolInv, WaitInv, NEW t \in Task, Step(t) \/ (t \in Client /\ Begin(t)),
           waiter'[t].enqueued = FALSE,
           \A u \in Task : u # t => waiter'[u].enqueued = FALSE \/ waiter'[u] = waiter[u]
    PROVE  ParkedInv'
<1>1. ParkedOK(t)'
  BY DEF ParkedOK, Linked
<1>2. \A u \in Task : u # t => waiter'[u].enqueued = FALSE \/ Stays(u)
  BY OthersStay
<1> QED BY <1>1, <1>2, ParkedFrame DEF WaitInv

-----------------------------------------------------------------------------
(* The steps that touch no waiter.                                         *)

LEMMA QuietNext ==
    ASSUME PoolInv, WaitInv, NEW t \in Task, Step(t) \/ (t \in Client /\ Begin(t)),
           UNCHANGED waiter, UNCHANGED waitersVars, JobsQuiet,
           ~(t \in Client /\ MarkDestroyed(t)),
           ~BlockTaken(t), ~BlockTimeout(t),
           t \in Client => ~SubmitFails(t) /\ ~FutureDone(t)
    PROVE  WaitInv'
<1>0. /\ TypeOK /\ TaskTypeOK /\ CallInv /\ WaitInv /\ ParkedInv
      /\ (t \in Client => t \notin Worker)
  BY WaitTypes, TasksApart DEF WaitInv
<1>1. Linked(t) => Acquire(t)
  <2> SUFFICES ASSUME Linked(t) PROVE Acquire(t)
    OBVIOUS
  <2>1. /\ pc[t] \in {"wait", "lock", "locked", "await", "awaited"}
        /\ pc[t] \in {"lock", "locked"}
                => t \in Client /\ op[t].kind = "submit" /\ wait_result[t] # "ok"
        /\ pc[t] \in {"await", "awaited"} => t \in Client /\ op[t].kind = "wait"
        /\ t \in Worker => pc[t] = "wait"
        /\ waiter[t].given = FALSE
    BY <1>0, NotLinked
  <2>2. ~(t \in Client /\ Begin(t))
    BY <2>1 DEF Begin, Submit, Cancel, HandleDestroy, FutureInit, QueueDestroy
  <2>3. ~(t \in Worker /\ WorkerStep(t))
    BY <2>1 DEF WorkerStep, WorkerStart, Take, AwaitJob, TakeFails, WorkerStop,
                RunHandler, SkipHandler, LeaveJob, HandlerReturns, SetResult, Taking
  <2>4. ~(t \in Client /\ ClientStep(t))
    BY <2>1
       DEF ClientStep, Enqueue, QueueFull, AwaitSpace, NoSpace, UnlockAgain,
           SubmitFails, FreeJob, FutureReady, FutureAwait, FutureDone, FutureDeinit,
           MarkDestroyed, DrainOne, KillWorker, FreeQueue, Submitting
  <2> QED BY <2>2, <2>3, <2>4 DEF Step
<1>2. \A u \in Task : u # t => waiter'[u].enqueued = FALSE \/ Stays(u)
  BY OthersStay
<1>3. ParkedOK(t)'
  <2>1. CASE Acquire(t)
    <3>1. pc[t] = "lock" /\ pc'[t] = "locked" /\ Linked(t)' = Linked(t)
      BY <1>0, <2>1 DEF Acquire, Goto, TaskTypeOK, Linked
    <3>2. ParkedOK(t) /\ waiter'[t] = waiter[t] /\ op'[t] = op[t]
          /\ wait_result'[t] = wait_result[t]
      BY <1>0, <2>1 DEF Acquire, ParkedInv
    <3> QED BY <3>1, <3>2 DEF ParkedOK
  <2>2. CASE ~Acquire(t)
    BY <1>1, <2>2 DEF ParkedOK, Linked
  <2> QED BY <2>1, <2>2
<1>4. ParkedInv'
  BY <1>0, <1>2, <1>3, ParkedFrame
<1>5. /\ WaitingWorkers' = WaitingWorkers
      /\ WaitingSubmitters' = WaitingSubmitters
      /\ \A j \in Job : WaitingFor(j)' = WaitingFor(j)
  <2>1. \A u \in Task : Linked(u)' <=> Linked(u)
    BY DEF Linked
  <2>2. ASSUME NEW c \in Client, Linked(c)  PROVE op'[c] = op[c]
    <3>1. CASE c = t
      BY <1>1, <2>2, <3>1 DEF Acquire
    <3>2. CASE c # t
      BY <1>0, <3>2, OthersNext
    <3> QED BY <3>1, <3>2
  <2> QED BY <2>1, <2>2, SetsKept
<1>6. ListsInv'
  <2>1. \A j \in Job : job'[j].waiters = job[j].waiters
    BY DEF JobsQuiet
  <2> QED BY <1>5, <2>1 DEF WaitInv, ListsInv, waitersVars
<1>7. EmptyInv'
  <2>1. destroyed' = destroyed
    BY LifeChanges DEF FreeQueue
  <2> QED BY <2>1 DEF WaitInv, EmptyInv, waitersVars, JobsQuiet
<1> QED BY <1>4, <1>6, <1>7 DEF WaitInv
-----------------------------------------------------------------------------
(* The block and its two ends.                                             *)

LEMMA BlockTakenNext ==
    ASSUME PoolInv, WaitInv, NEW t \in Task, BlockTaken(t)
    PROVE  WaitInv'
<1>0. /\ TaskTypeOK /\ ParkedInv /\ waiter \in [Task -> Waiter] /\ Step(t)
  BY WaitTypes DEF WaitInv, Step
<1>1. ~Linked(t)
  BY <1>0, NotLinked DEF BlockTaken
<1>2. /\ waiter' = [waiter EXCEPT ![t] = NoWaiter] /\ op' = op /\ job' = job
      /\ UNCHANGED waitersVars /\ destroyed' = destroyed
  BY DEF BlockTaken, queueVars, jobVars, lifeVars
<1>3. /\ waiter'[t].enqueued = FALSE
      /\ \A u \in Task : u # t => waiter'[u] = waiter[u]
  BY <1>0, <1>2 DEF NoWaiter
<1>4. ParkedInv'
  BY <1>0, <1>3, ParkedLeft
<1>5. \A u \in Task : Linked(u)' <=> Linked(u)
  BY <1>1, <1>3 DEF Linked
<1>6. /\ WaitingWorkers' = WaitingWorkers
      /\ WaitingSubmitters' = WaitingSubmitters
      /\ \A j \in Job : WaitingFor(j)' = WaitingFor(j)
  BY <1>2, <1>5, SetsKept
<1> QED BY <1>2, <1>4, <1>6 DEF WaitInv, ListsInv, EmptyInv, waitersVars

LEMMA BlockTimeoutNext ==
    ASSUME PoolInv, WaitInv, NEW t \in Task, BlockTimeout(t)
    PROVE  WaitInv'
<1>0. /\ TaskTypeOK /\ ParkedInv /\ waiter \in [Task -> Waiter] /\ Step(t) /\ TypeOK
      /\ CallInv /\ waiter[t] \in Waiter
  BY WaitTypes DEF WaitInv, Step
<1>1. /\ waiter' = [waiter EXCEPT ![t] = TimedOut(@)] /\ op' = op /\ job' = job
      /\ UNCHANGED waitersVars /\ destroyed' = destroyed
      /\ wait_result' = [wait_result EXCEPT ![t] = "timeout"]
      /\ pc' = [pc EXCEPT ![t] = IF pc[t] = "wait" THEN "lock" ELSE "awaited"]
      /\ pc[t] \in {"wait", "await"} /\ op[t].mode = "timed"
  BY DEF BlockTimeout, queueVars, jobVars, lifeVars, Goto
<1>2. /\ waiter'[t].enqueued = waiter[t].enqueued
      /\ waiter'[t].given = waiter[t].given
      /\ \A u \in Task : u # t => waiter'[u] = waiter[u]
  BY <1>0, <1>1 DEF TimedOut, Waiter
<1>3. t \notin Worker
  BY <1>0, <1>1 DEF CallInv, WorkerOK, NoOp
<1>4. ParkedOK(t)'
  <2> SUFFICES ASSUME Linked(t)' PROVE ParkedOK(t)'
    BY DEF ParkedOK
  <2>1. Linked(t)
    BY <1>2 DEF Linked
  <2>2. /\ t \in Client /\ waiter[t].given = FALSE
        /\ pc[t] = "wait" => op[t].kind = "submit"
        /\ pc[t] = "await" => op[t].kind = "wait"
    BY <1>0, <1>3, <2>1, NotLinked, JobQueueAssumption
  <2>3. /\ wait_result'[t] = "timeout" /\ op'[t] = op[t]
        /\ pc[t] = "wait" => pc'[t] = "lock"
        /\ pc[t] = "await" => pc'[t] = "awaited"
    BY <1>0, <1>1 DEF TaskTypeOK
  <2> QED BY <1>1, <1>2, <2>2, <2>3 DEF ParkedOK
<1>5. ParkedInv'
  BY <1>0, <1>2, <1>4, OthersStay, ParkedFrame
<1>6. \A u \in Task : Linked(u)' <=> Linked(u)
  BY <1>2 DEF Linked
<1>7. /\ WaitingWorkers' = WaitingWorkers
      /\ WaitingSubmitters' = WaitingSubmitters
      /\ \A j \in Job : WaitingFor(j)' = WaitingFor(j)
  BY <1>1, <1>6, SetsKept
<1> QED BY <1>1, <1>5, <1>7 DEF WaitInv, ListsInv, EmptyInv, waitersVars

(* A task that begins to wait.                                             *)
Parks(t) ==
    /\ waiter' = [waiter EXCEPT ![t] = PreparedWaiter]
    /\ op' = op /\ destroyed' = destroyed

LEMMA ParksEffect ==
    ASSUME PoolInv, WaitInv, NEW t \in Task, Step(t), Parks(t)
    PROVE  /\ Linked(t)' /\ waiter'[t].given = FALSE /\ waiter'[t].armed = TRUE
           /\ \A u \in Task : u # t => waiter'[u] = waiter[u]
           /\ \A u \in Task : u # t => (Linked(u)' <=> Linked(u))
           /\ \A u \in Task : u # t => waiter'[u].enqueued = FALSE \/ Stays(u)
<1>1. /\ Linked(t)' /\ waiter'[t].given = FALSE /\ waiter'[t].armed = TRUE
      /\ \A u \in Task : u # t => waiter'[u] = waiter[u]
  BY WaitTypes DEF Parks, PreparedWaiter, Linked
<1> QED BY <1>1, OthersStay DEF Linked

LEMMA AwaitSpaceNext ==
    ASSUME PoolInv, WaitInv, NEW t \in Client, AwaitSpace(t)
    PROVE  WaitInv'
<1>0. /\ TaskTypeOK /\ ParkedInv /\ Step(t) /\ t \in Task /\ t \notin Worker
      /\ submit_waiters \in Seq(Client)
  BY WaitTypes, TasksApart DEF WaitInv, Step, ClientStep
<1>1. /\ Parks(t) /\ job' = job /\ worker_waiters' = worker_waiters
      /\ submit_waiters' = Append(submit_waiters, t) /\ ~destroyed
      /\ op[t].kind = "submit" /\ pc[t] = "locked" /\ wait_result[t] = "ok"
      /\ pc' = [pc EXCEPT ![t] = "wait"]
  BY DEF AwaitSpace, Parks, lifeVars, jobVars, Submitting, Goto
<1>2. ~Linked(t)
  BY <1>0, <1>1, NotLinked
<1>3. /\ Linked(t)' /\ waiter'[t].given = FALSE
      /\ \A u \in Task : u # t => (Linked(u)' <=> Linked(u))
      /\ \A u \in Task : u # t => waiter'[u].enqueued = FALSE \/ Stays(u)
  BY <1>0, <1>1, ParksEffect
<1>4. op' = op /\ pc'[t] = "wait" /\ destroyed' = destroyed
  BY <1>0, <1>1 DEF Parks, TaskTypeOK
<1>5. ParkedOK(t)'
  BY <1>1, <1>3, <1>4 DEF ParkedOK
<1>6. ParkedInv'
  BY <1>0, <1>3, <1>5, ParkedFrame
<1>7. /\ WaitingWorkers' = WaitingWorkers
      /\ WaitingSubmitters' = WaitingSubmitters \cup {t}
      /\ \A j \in Job : WaitingFor(j)' = WaitingFor(j)
  BY <1>0, <1>1, <1>3, <1>4, TasksApart
     DEF WaitingWorkers, WaitingSubmitters, WaitingFor
<1>8. Holds(submit_waiters', WaitingSubmitters \cup {t})
  <2>1. t \notin WaitingSubmitters
    BY <1>2 DEF WaitingSubmitters
  <2> QED BY <1>0, <1>1, <2>1, HoldsAppend DEF WaitInv, ListsInv
<1> QED BY <1>1, <1>4, <1>6, <1>7, <1>8 DEF WaitInv, ListsInv, EmptyInv

LEMMA AwaitJobNext ==
    ASSUME PoolInv, WaitInv, NEW t \in Worker, AwaitJob(t)
    PROVE  WaitInv'
<1>0. /\ TaskTypeOK /\ ParkedInv /\ Step(t) /\ t \in Task /\ t \notin Client
      /\ worker_waiters \in Seq(Worker)
  BY WaitTypes, TasksApart DEF WaitInv, Step, WorkerStep
<1>1. /\ Parks(t) /\ job' = job /\ submit_waiters' = submit_waiters
      /\ worker_waiters' = Append(worker_waiters, t) /\ ~destroyed
      /\ pc[t] = "locked" /\ pc' = [pc EXCEPT ![t] = "wait"]
  BY DEF AwaitJob, Parks, lifeVars, jobVars, Taking, Goto
<1>2. ~Linked(t)
  BY <1>0, <1>1, NotLinked
<1>3. /\ Linked(t)' /\ waiter'[t].given = FALSE /\ waiter'[t].armed = TRUE
      /\ \A u \in Task : u # t => (Linked(u)' <=> Linked(u))
      /\ \A u \in Task : u # t => waiter'[u].enqueued = FALSE \/ Stays(u)
  BY <1>0, <1>1, ParksEffect
<1>4. op' = op /\ pc'[t] = "wait" /\ destroyed' = destroyed
  BY <1>0, <1>1 DEF Parks, TaskTypeOK
<1>5. ParkedOK(t)'
  BY <1>1, <1>3, <1>4 DEF ParkedOK
<1>6. ParkedInv'
  BY <1>0, <1>3, <1>5, ParkedFrame
<1>7. /\ WaitingWorkers' = WaitingWorkers \cup {t}
      /\ WaitingSubmitters' = WaitingSubmitters
      /\ \A j \in Job : WaitingFor(j)' = WaitingFor(j)
  BY <1>0, <1>3, <1>4, TasksApart
     DEF WaitingWorkers, WaitingSubmitters, WaitingFor
<1>8. Holds(worker_waiters', WaitingWorkers \cup {t})
  <2>1. t \notin WaitingWorkers
    BY <1>2 DEF WaitingWorkers
  <2> QED BY <1>0, <1>1, <2>1, HoldsAppend DEF WaitInv, ListsInv
<1> QED BY <1>1, <1>4, <1>6, <1>7, <1>8 DEF WaitInv, ListsInv, EmptyInv

LEMMA FutureAwaitNext ==
    ASSUME PoolInv, WaitInv, NEW t \in Client, FutureAwait(t)
    PROVE  WaitInv'
<1>0. /\ TaskTypeOK /\ JobTypeOK /\ ParkedInv /\ Step(t) /\ t \in Task /\ t \notin Worker
      /\ CallInv /\ \A i \in Job : job[i].waiters \in Seq(Client)
  BY WaitTypes, TasksApart DEF WaitInv, Step, ClientStep
<1>1. PICK j \in Job : j = op[t].job /\ op[t].kind = "wait"
  BY <1>0 DEF FutureAwait, CallInv, ClientOK, Place
<1>2. /\ Parks(t) /\ UNCHANGED waitersVars /\ ~job[j].result_ready
      /\ job' = [job EXCEPT ![j].waiters = Append(@, t)]
      /\ pc[t] = "future" /\ pc' = [pc EXCEPT ![t] = "await"]
  BY <1>1 DEF FutureAwait, Parks, queueVars, lifeVars, Goto
<1>3. ~Linked(t)
  BY <1>0, <1>2, NotLinked
<1>4. /\ Linked(t)' /\ waiter'[t].given = FALSE
      /\ \A u \in Task : u # t => (Linked(u)' <=> Linked(u))
      /\ \A u \in Task : u # t => waiter'[u].enqueued = FALSE \/ Stays(u)
  BY <1>0, <1>2, ParksEffect
<1>5. op' = op /\ pc'[t] = "await" /\ destroyed' = destroyed
  BY <1>0, <1>2 DEF Parks, TaskTypeOK
<1>6. ParkedOK(t)'
  BY <1>1, <1>4, <1>5 DEF ParkedOK
<1>7. ParkedInv'
  BY <1>0, <1>4, <1>6, ParkedFrame
<1>8. /\ WaitingWorkers' = WaitingWorkers
      /\ WaitingSubmitters' = WaitingSubmitters
      /\ \A i \in Job : i # j => WaitingFor(i)' = WaitingFor(i)
      /\ WaitingFor(j)' = WaitingFor(j) \cup {t}
  BY <1>0, <1>1, <1>4, <1>5, TasksApart
     DEF WaitingWorkers, WaitingSubmitters, WaitingFor
<1>9. /\ Append(job[j].waiters, t) \in Seq(Client)
      /\ Holds(Append(job[j].waiters, t), WaitingFor(j) \cup {t})
  <2>1. t \notin WaitingFor(j)
    BY <1>3 DEF WaitingFor
  <2> QED BY <1>0, <2>1, HoldsAppend DEF WaitInv, ListsInv
<1>10. /\ JobsBut(j) /\ job'[j].waiters = Append(job[j].waiters, t)
       /\ job'[j].result_ready = job[j].result_ready
  <2>1. job' = [job EXCEPT ![j].waiters = Append(job[j].waiters, t)]
    BY <1>2
  <2> QED BY <1>0, <1>9, <2>1, JobAwaited
<1>11. ListsInv'
  BY <1>2, <1>8, <1>9, <1>10 DEF WaitInv, ListsInv, JobsBut, waitersVars
<1>12. EmptyInv'
  BY <1>2, <1>5, <1>10 DEF WaitInv, EmptyInv, JobsBut, waitersVars
<1> QED BY <1>7, <1>11, <1>12 DEF WaitInv
-----------------------------------------------------------------------------
(* A task takes itself out after its deadline.                             *)

LEMMA LeavesEffect ==
    ASSUME PoolInv, WaitInv, NEW t \in Task, Step(t),
           waiter' = [waiter EXCEPT ![t] = NoWaiter]
    PROVE  /\ ParkedInv'
           /\ WaitingWorkers' = WaitingWorkers \ {t}
           /\ WaitingSubmitters' = WaitingSubmitters \ {t}
           /\ \A j \in Job : WaitingFor(j)' = WaitingFor(j) \ {t}
<1>0. TypeOK /\ waiter \in [Task -> Waiter]
  BY WaitTypes
<1>1. /\ waiter'[t].enqueued = FALSE
      /\ \A u \in Task : u # t => waiter'[u] = waiter[u]
  BY <1>0 DEF NoWaiter
<1>2. ParkedInv'
  BY <1>1, ParkedLeft
<1>3. \A u \in Task : Linked(u)' <=> Linked(u) /\ u \notin {t}
  BY <1>1 DEF Linked
<1>4. \A c \in Client : Linked(c) /\ c \notin {t} => op'[c] = op[c]
  BY <1>0, OthersNext
<1> QED BY <1>2, <1>3, <1>4, SetsWithout

LEMMA SubmitFailsNext ==
    ASSUME PoolInv, WaitInv, NEW t \in Client, SubmitFails(t)
    PROVE  WaitInv'
<1>0. /\ Step(t) /\ t \in Task /\ t \notin Worker /\ ListsInv /\ EmptyInv
      /\ submit_waiters \in Seq(Client) /\ waiter[t].enqueued \in BOOLEAN
  BY WaitTypes, TasksApart DEF WaitInv, Step, ClientStep
<1>1. /\ waiter' = [waiter EXCEPT ![t] = NoWaiter] /\ worker_waiters' = worker_waiters
      /\ submit_waiters' \in UnlinkedSubmitter(t) /\ destroyed' = destroyed
      /\ op[t].kind = "submit" /\ pc[t] = "locked"
  BY DEF SubmitFails, lifeVars
<1>2. JobsQuiet
  <2>1. /\ ~Cancel(t) /\ ~FutureAwait(t) /\ ~FutureDone(t) /\ ~DrainOne(t)
    BY <1>1 DEF Cancel, FutureAwait, FutureDone, DrainOne
  <2> QED BY <1>0, <2>1, JobsQuietNext
<1>3. /\ ParkedInv'
      /\ WaitingWorkers' = WaitingWorkers \ {t}
      /\ WaitingSubmitters' = WaitingSubmitters \ {t}
      /\ \A j \in Job : WaitingFor(j)' = WaitingFor(j) \ {t}
  BY <1>0, <1>1, LeavesEffect
<1>4. /\ WaitingWorkers \ {t} = WaitingWorkers
      /\ \A j \in Job : WaitingFor(j) \ {t} = WaitingFor(j)
  BY <1>0, <1>1 DEF WaitingWorkers, WaitingFor
<1>5. Holds(submit_waiters', WaitingSubmitters \ {t})
  <2>1. CASE Linked(t)
    <3>1. t \in WaitingSubmitters
      BY <1>1, <2>1 DEF WaitingSubmitters
    <3>2. Contains(submit_waiters, t)
      BY <1>0, <3>1 DEF ListsInv, Holds
    <3>3. submit_waiters' \in Unlinked(submit_waiters, t)
      BY <1>1, <2>1, <3>2 DEF UnlinkedSubmitter, Linked
    <3> QED BY <1>0, <3>1, <3>3, HoldsUnlinked DEF ListsInv
  <2>2. CASE ~Linked(t)
    <3>1. submit_waiters' = submit_waiters
      BY <1>0, <1>1, <2>2 DEF UnlinkedSubmitter, Linked
    <3>2. WaitingSubmitters \ {t} = WaitingSubmitters
      BY <2>2 DEF WaitingSubmitters
    <3> QED BY <1>0, <3>1, <3>2 DEF ListsInv
  <2> QED BY <2>1, <2>2
<1>6. ListsInv'
  BY <1>0, <1>1, <1>2, <1>3, <1>4, <1>5 DEF ListsInv, JobsQuiet
<1>7. EmptyInv'
  <2>1. ASSUME destroyed  PROVE submit_waiters' = << >>
    <3>1. submit_waiters = << >>
      BY <1>0, <2>1 DEF EmptyInv
    <3>2. ~Contains(submit_waiters, t)
      BY <3>1 DEF Contains
    <3> QED BY <1>1, <3>1, <3>2 DEF UnlinkedSubmitter
  <2> QED BY <1>0, <1>1, <1>2, <2>1 DEF EmptyInv, JobsQuiet
<1> QED BY <1>3, <1>6, <1>7 DEF WaitInv

LEMMA FutureDoneNext ==
    ASSUME PoolInv, WaitInv, NEW t \in Client, FutureDone(t)
    PROVE  WaitInv'
<1>0. /\ Step(t) /\ t \in Task /\ t \notin Worker /\ ListsInv /\ EmptyInv /\ CallInv
      /\ JobTypeOK /\ \A i \in Job : job[i].waiters \in Seq(Client)
      /\ waiter[t].enqueued \in BOOLEAN
  BY WaitTypes, TasksApart DEF WaitInv, Step, ClientStep
<1>1. PICK j \in Job : j = op[t].job /\ op[t].kind = "wait"
  BY <1>0 DEF FutureDone, CallInv, ClientOK, Place
<1>2. /\ waiter' = [waiter EXCEPT ![t] = NoWaiter] /\ UNCHANGED waitersVars
      /\ destroyed' = destroyed
      /\ IF waiter[t].enqueued
         THEN \E q \in Unlinked(job[j].waiters, t) :
                job' = [job EXCEPT ![j].waiters = q]
         ELSE job' = job
  BY <1>1 DEF FutureDone, queueVars, lifeVars
<1>3. /\ ParkedInv'
      /\ WaitingWorkers' = WaitingWorkers \ {t}
      /\ WaitingSubmitters' = WaitingSubmitters \ {t}
      /\ \A i \in Job : WaitingFor(i)' = WaitingFor(i) \ {t}
  BY <1>0, <1>2, LeavesEffect
<1>4. /\ WaitingWorkers \ {t} = WaitingWorkers
      /\ WaitingSubmitters \ {t} = WaitingSubmitters
      /\ \A i \in Job : i # j => WaitingFor(i) \ {t} = WaitingFor(i)
  BY <1>0, <1>1 DEF WaitingWorkers, WaitingSubmitters, WaitingFor
<1>5. CASE ~Linked(t)
  <2>1. job' = job
    BY <1>0, <1>2, <1>5 DEF Linked
  <2>2. WaitingFor(j) \ {t} = WaitingFor(j)
    BY <1>5 DEF WaitingFor
  <2> QED
    BY <1>0, <1>2, <1>3, <1>4, <2>1, <2>2
       DEF WaitInv, ListsInv, EmptyInv, waitersVars
<1>6. CASE Linked(t)
  <2>1. t \in WaitingFor(j)
    BY <1>1, <1>6 DEF WaitingFor
  <2>2. PICK q \in Unlinked(job[j].waiters, t) : job' = [job EXCEPT ![j].waiters = q]
    BY <1>2, <1>6 DEF Linked
  <2>3. q \in Seq(Client) /\ Holds(q, WaitingFor(j) \ {t})
    BY <1>0, <2>1, HoldsUnlinked DEF ListsInv
  <2>4. /\ JobsBut(j) /\ job'[j].waiters = q
        /\ job'[j].result_ready = job[j].result_ready
    BY <1>0, <2>2, <2>3, JobAwaited
  <2>5. ListsInv'
    BY <1>0, <1>2, <1>3, <1>4, <2>3, <2>4 DEF ListsInv, JobsBut, waitersVars
  <2>6. job[j].result_ready = TRUE => FALSE
    <3>1. Contains(job[j].waiters, t)
      BY <1>0, <2>1 DEF ListsInv, Holds
    <3> QED BY <1>0, <3>1 DEF EmptyInv, Contains
  <2>7. EmptyInv'
    BY <1>0, <1>2, <2>4, <2>6 DEF EmptyInv, JobsBut, waitersVars
  <2> QED BY <1>3, <2>5, <2>7 DEF WaitInv
<1> QED BY <1>5, <1>6

-----------------------------------------------------------------------------
(* The head of one of the queue's lists is woken.                          *)

LEMMA WakeHeadEffect ==
    ASSUME PoolInv, WaitInv, NEW t \in Task, Step(t), ~Linked(t), waiter[t].enqueued \in BOOLEAN,
           NEW q, WakeHead(q), Head(q) \in Task, Linked(Head(q))
    PROVE  /\ ParkedInv'
           /\ WaitingWorkers' = WaitingWorkers \ {Head(q)}
           /\ WaitingSubmitters' = WaitingSubmitters \ {Head(q)}
           /\ \A j \in Job : WaitingFor(j)' = WaitingFor(j) \ {Head(q)}
<1> DEFINE h == Head(q)
<1>0. TypeOK /\ waiter \in [Task -> Waiter]
  BY WaitTypes
<1>1. /\ waiter'[h].enqueued = FALSE
      /\ \A u \in Task : u # h => waiter'[u] = waiter[u]
  BY <1>0 DEF WakeHead, Woken
<1>2. ParkedInv'
  <2>1. waiter'[t].enqueued = FALSE
    BY <1>1 DEF Linked
  <2>2. \A u \in Task : u # t => waiter'[u].enqueued = FALSE \/ waiter'[u] = waiter[u]
    BY <1>1
  <2> QED BY <2>1, <2>2, ParkedLeft
<1>3. \A u \in Task : Linked(u)' <=> Linked(u) /\ u \notin {h}
  BY <1>1 DEF Linked
<1>4. \A c \in Client : Linked(c) /\ c \notin {h} => op'[c] = op[c]
  BY <1>0, OthersNext
<1> QED BY <1>2, <1>3, <1>4, SetsWithout

LEMMA EnqueueNext ==
    ASSUME PoolInv, WaitInv, NEW t \in Client, Enqueue(t)
    PROVE  WaitInv'
<1>0. /\ Step(t) /\ t \in Task /\ t \notin Worker /\ ListsInv /\ EmptyInv /\ ParkedInv
      /\ worker_waiters \in Seq(Worker) /\ waiter[t].enqueued \in BOOLEAN
  BY WaitTypes, TasksApart DEF WaitInv, Step, ClientStep
<1>1. /\ WakeWorker /\ submit_waiters' = submit_waiters /\ job' = job
      /\ destroyed' = destroyed /\ pc[t] = "locked" /\ wait_result[t] = "ok"
  BY DEF Enqueue, lifeVars, Submitting
<1>2. ~Linked(t)
  BY <1>0, <1>1, NotLinked
<1>3. CASE worker_waiters = << >> /\ UNCHANGED <<worker_waiters, waiter>>
  <2>1. /\ ~MarkDestroyed(t) /\ ~BlockTaken(t) /\ ~BlockTimeout(t) /\ ~SubmitFails(t)
        /\ ~FutureDone(t)
    BY <1>1 DEF Enqueue, Submitting, MarkDestroyed, BlockTaken, BlockTimeout,
                SubmitFails, FutureDone
  <2>2. JobsQuiet
    BY <1>1 DEF JobsQuiet
  <2> QED BY <1>0, <1>1, <1>3, <2>1, <2>2, QuietNext DEF waitersVars
<1>4. CASE WakeHead(worker_waiters) /\ worker_waiters' = Tail(worker_waiters)
  <2> DEFINE h == Head(worker_waiters)
  <2>1. /\ h \in WaitingWorkers
        /\ Holds(Tail(worker_waiters), WaitingWorkers \ {h})
    BY <1>0, <1>4, HoldsTail DEF WakeHead, ListsInv
  <2>2. h \in Worker /\ h \in Task /\ h \notin Client /\ Linked(h)
    BY <2>1, TasksApart DEF WaitingWorkers
  <2>3. /\ ParkedInv'
        /\ WaitingWorkers' = WaitingWorkers \ {h}
        /\ WaitingSubmitters' = WaitingSubmitters \ {h}
        /\ \A j \in Job : WaitingFor(j)' = WaitingFor(j) \ {h}
    BY <1>0, <1>2, <1>4, <2>2, WakeHeadEffect
  <2>4. /\ WaitingSubmitters \ {h} = WaitingSubmitters
        /\ \A j \in Job : WaitingFor(j) \ {h} = WaitingFor(j)
    BY <2>2 DEF WaitingSubmitters, WaitingFor
  <2>5. destroyed => FALSE
    BY <1>0, <1>4 DEF EmptyInv, WakeHead
  <2> QED BY <1>0, <1>1, <1>4, <2>1, <2>3, <2>4, <2>5 DEF WaitInv, ListsInv, EmptyInv
<1> QED BY <1>1, <1>3, <1>4 DEF WakeWorker

LEMMA TakeNext ==
    ASSUME PoolInv, WaitInv, NEW t \in Worker, Take(t)
    PROVE  WaitInv'
<1>0. /\ Step(t) /\ t \in Task /\ t \notin Client /\ ListsInv /\ EmptyInv /\ ParkedInv
      /\ submit_waiters \in Seq(Client) /\ waiter[t].enqueued \in BOOLEAN
  BY WaitTypes, TasksApart DEF WaitInv, Step, WorkerStep
<1>1. /\ WakeSubmitter /\ worker_waiters' = worker_waiters /\ job' = job
      /\ destroyed' = destroyed /\ pc[t] = "locked"
  BY DEF Take, lifeVars, jobVars, Taking
<1>2. ~Linked(t)
  BY <1>0, <1>1, NotLinked
<1>3. CASE submit_waiters = << >> /\ UNCHANGED <<submit_waiters, waiter>>
  <2>1. ~BlockTaken(t) /\ ~BlockTimeout(t)
    BY <1>1 DEF BlockTaken, BlockTimeout
  <2>2. JobsQuiet
    BY <1>1 DEF JobsQuiet
  <2> QED BY <1>0, <1>1, <1>3, <2>1, <2>2, QuietNext DEF waitersVars
<1>4. CASE WakeHead(submit_waiters) /\ submit_waiters' = Tail(submit_waiters)
  <2> DEFINE h == Head(submit_waiters)
  <2>1. /\ h \in WaitingSubmitters
        /\ Holds(Tail(submit_waiters), WaitingSubmitters \ {h})
    BY <1>0, <1>4, HoldsTail DEF WakeHead, ListsInv
  <2>2. h \in Client /\ h \in Task /\ h \notin Worker /\ Linked(h) /\ op[h].kind = "submit"
    BY <2>1, TasksApart DEF WaitingSubmitters
  <2>3. /\ ParkedInv'
        /\ WaitingWorkers' = WaitingWorkers \ {h}
        /\ WaitingSubmitters' = WaitingSubmitters \ {h}
        /\ \A j \in Job : WaitingFor(j)' = WaitingFor(j) \ {h}
    BY <1>0, <1>2, <1>4, <2>2, WakeHeadEffect
  <2>4. /\ WaitingWorkers \ {h} = WaitingWorkers
        /\ \A j \in Job : WaitingFor(j) \ {h} = WaitingFor(j)
    BY <2>2 DEF WaitingWorkers, WaitingFor
  <2>5. destroyed => FALSE
    BY <1>0, <1>4 DEF EmptyInv, WakeHead
  <2> QED BY <1>0, <1>1, <1>4, <2>1, <2>3, <2>4, <2>5 DEF WaitInv, ListsInv, EmptyInv
<1> QED BY <1>1, <1>3, <1>4 DEF WakeSubmitter
-----------------------------------------------------------------------------
(* Everybody in a list is woken.                                           *)

LEMMA WokenUnlinks ==
    ASSUME NEW w, NEW r
    PROVE  Woken(w, r).enqueued = FALSE
BY DEF Woken

LEMMA CompletedNext ==
    ASSUME PoolInv, WaitInv, NEW t \in Task, Step(t) \/ (t \in Client /\ Begin(t)),
           NEW j \in Job, NEW s \in {"success", "error", "cancelled"},
           job' = Completed(j, s), waiter' = WokenFor(j), op' = op,
           UNCHANGED waitersVars, destroyed' = destroyed, ~Linked(t)
    PROVE  WaitInv'
<1>0. /\ ListsInv /\ EmptyInv /\ JobTypeOK /\ waiter \in [Task -> Waiter]
      /\ \A i \in Job : job[i].waiters \in Seq(Client)
      /\ \A i \in Job : job[i].result_ready \in BOOLEAN /\ job[i].destroyed \in BOOLEAN
      /\ job[j].destroyed = TRUE => job[j].result_ready = TRUE
      /\ waiter[t].enqueued \in BOOLEAN
  BY WaitTypes, PoolTypes DEF WaitInv, PoolInv, JobInv
<1>1. \A u \in Task : IF u \in WaitingFor(j) THEN waiter'[u].enqueued = FALSE
                                             ELSE waiter'[u] = waiter[u]
  <2>1. Holds(job[j].waiters, WaitingFor(j))
    BY <1>0 DEF ListsInv
  <2>2. waiter' = WokenAll(waiter, job[j].waiters, "ok")
    BY DEF WokenFor
  <2>3. ASSUME NEW u \in Task
        PROVE  /\ u \in WaitingFor(j) => waiter'[u].enqueued = FALSE
               /\ u \notin WaitingFor(j) => waiter'[u] = waiter[u]
    <3>1. Contains(job[j].waiters, u) <=> u \in WaitingFor(j)
      BY <2>1 DEF Holds
    <3>2. waiter'[u] = IF Contains(job[j].waiters, u) THEN Woken(waiter[u], "ok")
                                                    ELSE waiter[u]
      BY <2>2 DEF WokenAll
    <3> QED BY <3>1, <3>2, WokenUnlinks
  <2> QED BY <2>3
<1>2. ParkedInv'
  <2>1. waiter'[t].enqueued = FALSE
    BY <1>0, <1>1 DEF Linked
  <2> QED BY <1>1, <2>1, ParkedLeft
<1>3. /\ WaitingWorkers' = WaitingWorkers \ WaitingFor(j)
      /\ WaitingSubmitters' = WaitingSubmitters \ WaitingFor(j)
      /\ \A i \in Job : WaitingFor(i)' = WaitingFor(i) \ WaitingFor(j)
  <2>1. \A u \in Task : Linked(u)' <=> Linked(u) /\ u \notin WaitingFor(j)
    BY <1>1 DEF Linked
  <2> QED BY <2>1, SetsWithout
<1>4. /\ WaitingWorkers \ WaitingFor(j) = WaitingWorkers
      /\ WaitingSubmitters \ WaitingFor(j) = WaitingSubmitters
      /\ \A i \in Job : i # j => WaitingFor(i) \ WaitingFor(j) = WaitingFor(i)
      /\ WaitingFor(j) \ WaitingFor(j) = {}
  BY TasksApart DEF WaitingWorkers, WaitingSubmitters, WaitingFor
<1>5. CASE job[j].result_ready = TRUE
  <2>1. job' = job
    BY <1>5, JobCompletedBefore
  <2>2. job[j].waiters = << >>
    BY <1>0, <1>5 DEF EmptyInv
  <2>3. ListsInv'
    BY <1>0, <1>3, <1>4, <2>1, <2>2, HoldsNobody DEF ListsInv, waitersVars
  <2> QED BY <1>0, <1>2, <2>1, <2>3 DEF WaitInv, EmptyInv, waitersVars
<1>6. CASE job[j].result_ready = FALSE
  <2>1. /\ JobsBut(j) /\ job'[j].waiters = << >> /\ job'[j].result_ready = TRUE
    BY <1>0, <1>6, JobCompleted
  <2>2. ListsInv'
    BY <1>0, <1>3, <1>4, <2>1, HoldsNobody DEF ListsInv, JobsBut, waitersVars
  <2> QED BY <1>0, <1>2, <2>1, <2>2 DEF WaitInv, EmptyInv, JobsBut, waitersVars
<1> QED BY <1>0, <1>5, <1>6

LEMMA CancelNext ==
    ASSUME PoolInv, WaitInv, NEW t \in Client, Cancel(t)
    PROVE  WaitInv'
<1>0. /\ shared \subseteq Job /\ ParkedInv /\ t \in Task /\ Begin(t)
  BY PoolTypes, TasksApart DEF WaitInv, Begin
<1>1. PICK j \in shared : job' = Completed(j, "cancelled") /\ waiter' = WokenFor(j)
  BY DEF Cancel
<1>2. /\ op' = op /\ UNCHANGED waitersVars /\ destroyed' = destroyed /\ pc[t] = "idle"
  BY DEF Cancel, queueVars, lifeVars
<1>3. ~Linked(t)
  BY <1>0, <1>2, NotLinked
<1> QED BY <1>0, <1>1, <1>2, <1>3, CompletedNext

LEMMA DrainOneNext ==
    ASSUME PoolInv, WaitInv, NEW t \in Client, DrainOne(t)
    PROVE  WaitInv'
<1>0. /\ ParkedInv /\ t \in Task /\ Step(t) /\ RingInv /\ RingTypeOK
      /\ Capacity \in Nat \ {0} /\ Accepted \subseteq Job
  BY PoolTypes, TasksApart DEF WaitInv, Step, ClientStep, PoolInv
<1>1. /\ job' = Completed(ring[index], "cancelled") /\ waiter' = WokenFor(ring[index])
      /\ op' = op /\ UNCHANGED waitersVars /\ destroyed' = destroyed /\ pc[t] = "drain"
      /\ pending # 0
  BY DEF DrainOne, queueVars, lifeVars, Drained
<1>2. ring[index] \in Job
  <2>1. 0 \in 0 .. pending - 1 /\ Slot(index, 0, Capacity) = index
    BY <1>0, <1>1 DEF RingTypeOK, Slot
  <2>2. ring[index] # NoJob
    BY <1>0, <2>1 DEF RingInv
  <2> QED BY <1>0, <2>2 DEF RingInv, RingTypeOK
<1>3. ~Linked(t)
  BY <1>0, <1>1, NotLinked
<1> QED BY <1>0, <1>1, <1>2, <1>3, CompletedNext

LEMMA SetResultNext ==
    ASSUME PoolInv, WaitInv, NEW t \in Worker, SetResult(t)
    PROVE  WaitInv'
<1>0. /\ ParkedInv /\ t \in Task /\ Step(t) /\ HandInv /\ Accepted \subseteq Job
  BY PoolTypes, TasksApart DEF WaitInv, Step, WorkerStep, PoolInv
<1>1. PICK s \in {"success", "error"} : job' = Completed(hand[t], s)
  BY DEF SetResult
<1>2. /\ waiter' = WokenFor(hand[t]) /\ pc[t] = "returned"
      /\ op' = op /\ UNCHANGED waitersVars /\ destroyed' = destroyed
  BY DEF SetResult, queueVars, lifeVars
<1>3. hand[t] \in Job
  BY <1>0, <1>2 DEF HandInv
<1>4. ~Linked(t)
  BY <1>0, <1>2, NotLinked
<1> QED BY <1>0, <1>1, <1>2, <1>3, <1>4, CompletedNext

LEMMA MarkDestroyedNext ==
    ASSUME PoolInv, WaitInv, NEW t \in Client, MarkDestroyed(t)
    PROVE  WaitInv'
<1>0. /\ ParkedInv /\ ListsInv /\ EmptyInv /\ t \in Task /\ Step(t)
      /\ waiter \in [Task -> Waiter] /\ waiter[t].enqueued \in BOOLEAN
      /\ "destroyed" \in WaitResult
  BY WaitTypes, TasksApart DEF WaitInv, Step, ClientStep, WaitResult
<1>1. /\ op' = op /\ job' = job
      /\ submit_waiters' = << >> /\ worker_waiters' = << >>
      /\ op[t].kind = "queue_destroy"
      /\ waiter' = WokenAll(WokenAll(waiter, submit_waiters, "destroyed"),
                            worker_waiters, "destroyed")
  BY DEF MarkDestroyed, jobVars
<1> DEFINE Q == WaitingSubmitters \cup WaitingWorkers
           w == WokenAll(waiter, submit_waiters, "destroyed")
<1>2. \A u \in Task : IF u \in Q THEN waiter'[u].enqueued = FALSE
                                 ELSE waiter'[u] = waiter[u]
  <2>1. \A u \in Task : IF u \in WaitingSubmitters THEN w[u].enqueued = FALSE
                                                   ELSE w[u] = waiter[u]
    <3>1. Holds(submit_waiters, WaitingSubmitters)
      BY <1>0 DEF ListsInv
    <3>2. ASSUME NEW u \in Task
          PROVE  /\ u \in WaitingSubmitters => w[u].enqueued = FALSE
                 /\ u \notin WaitingSubmitters => w[u] = waiter[u]
      <4>1. Contains(submit_waiters, u) <=> u \in WaitingSubmitters
        BY <3>1 DEF Holds
      <4>2. w[u] = IF Contains(submit_waiters, u) THEN Woken(waiter[u], "destroyed")
                                                ELSE waiter[u]
        BY DEF WokenAll, w
      <4> QED BY <4>1, <4>2, WokenUnlinks
    <3> QED BY <3>2
  <2> HIDE DEF w
  <2>2. \A u \in Task : IF u \in WaitingWorkers THEN waiter'[u].enqueued = FALSE
                                                ELSE waiter'[u] = w[u]
    <3>1. Holds(worker_waiters, WaitingWorkers)
      BY <1>0 DEF ListsInv
    <3>2. waiter' = WokenAll(w, worker_waiters, "destroyed")
      BY <1>1 DEF w
    <3>3. ASSUME NEW u \in Task
          PROVE  /\ u \in WaitingWorkers => waiter'[u].enqueued = FALSE
                 /\ u \notin WaitingWorkers => waiter'[u] = w[u]
      <4>1. Contains(worker_waiters, u) <=> u \in WaitingWorkers
        BY <3>1 DEF Holds
      <4>2. waiter'[u] = IF Contains(worker_waiters, u) THEN Woken(w[u], "destroyed")
                                                      ELSE w[u]
        BY <3>2 DEF WokenAll
      <4> QED BY <4>1, <4>2, WokenUnlinks
    <3> QED BY <3>3
  <2> QED BY <2>1, <2>2
<1>3. ParkedInv'
  <2>1. ~Linked(t)
    BY <1>0, <1>1, NotLinked
  <2>2. waiter'[t].enqueued = FALSE
    BY <1>0, <1>2, <2>1 DEF Linked
  <2> QED BY <1>0, <1>2, <2>2, ParkedLeft
<1>4. /\ WaitingWorkers' = WaitingWorkers \ Q
      /\ WaitingSubmitters' = WaitingSubmitters \ Q
      /\ \A i \in Job : WaitingFor(i)' = WaitingFor(i) \ Q
  <2>1. \A u \in Task : Linked(u)' <=> Linked(u) /\ u \notin Q
    BY <1>2 DEF Linked
  <2> HIDE DEF Q
  <2> QED BY <1>1, <2>1, SetsWithout
<1>5. /\ WaitingWorkers \ Q = {} /\ WaitingSubmitters \ Q = {}
      /\ \A i \in Job : WaitingFor(i) \ Q = WaitingFor(i)
  BY TasksApart DEF WaitingWorkers, WaitingSubmitters, WaitingFor
<1>6. ListsInv'
  BY <1>0, <1>1, <1>4, <1>5, HoldsNobody DEF ListsInv
<1>7. EmptyInv'
  BY <1>0, <1>1 DEF EmptyInv
<1> QED BY <1>3, <1>6, <1>7 DEF WaitInv

-----------------------------------------------------------------------------
(* The theorem.                                                            *)

LEMMA WaitInvNext ==
    ASSUME PoolInv, WaitInv, NEW t \in Task, Step(t) \/ (t \in Client /\ Begin(t))
    PROVE  WaitInv'
<1>0. ListsInv /\ TypeOK
  BY WaitTypes DEF WaitInv
<1>1. CASE BlockTaken(t) \/ BlockTimeout(t)
  BY <1>1, BlockTakenNext, BlockTimeoutNext
<1>2. CASE t \in Client /\ (Cancel(t) \/ Enqueue(t) \/ AwaitSpace(t) \/ SubmitFails(t)
                             \/ FutureAwait(t) \/ FutureDone(t) \/ MarkDestroyed(t)
                             \/ DrainOne(t))
  BY <1>2, CancelNext, EnqueueNext, AwaitSpaceNext, SubmitFailsNext, FutureAwaitNext,
     FutureDoneNext, MarkDestroyedNext, DrainOneNext
<1>3. CASE t \in Worker /\ (Take(t) \/ AwaitJob(t) \/ SetResult(t))
  BY <1>3, TakeNext, AwaitJobNext, SetResultNext
<1>4. ASSUME ~BlockTaken(t), ~BlockTimeout(t),
             t \in Client => ~(Cancel(t) \/ Enqueue(t) \/ AwaitSpace(t) \/ SubmitFails(t)
                               \/ FutureAwait(t) \/ FutureDone(t) \/ MarkDestroyed(t)
                               \/ DrainOne(t)),
             t \in Worker => ~(Take(t) \/ AwaitJob(t) \/ SetResult(t))
      PROVE  WaitInv'
  <2>1. ~Cancel(t)
    <3>1. t \in Worker => pc[t] # "idle"
      BY PoolTypes DEF CallInv, WorkerOK
    <3> QED BY <1>4, <3>1, JobQueueAssumption DEF Cancel
  <2>2. UNCHANGED waiter /\ UNCHANGED waitersVars
    BY <1>4, <2>1, WaiterChanges, ListChanges
  <2>3. JobsQuiet
    BY <1>0, <1>4, <2>1, JobsQuietNext
  <2> QED BY <1>4, <2>2, <2>3, QuietNext
<1> QED BY <1>1, <1>2, <1>3, <1>4

LEMMA WaitInvInit ==
    ASSUME Init
    PROVE  WaitInv
<1>1. \A t \in Task : waiter[t] = NoWaiter
  BY DEF Init
<1>2. WaitingWorkers = {} /\ WaitingSubmitters = {} /\ \A j \in Job : WaitingFor(j) = {}
  BY <1>1, TasksApart
     DEF NoWaiter, Linked, WaitingWorkers, WaitingSubmitters, WaitingFor
<1>3. \A j \in Job : job[j].waiters = << >>
  BY DEF Init, Unborn, NewJob
<1>4. ListsInv
  BY <1>2, <1>3, HoldsNobody DEF Init, ListsInv
<1>5. ParkedInv
  BY <1>1 DEF NoWaiter, Linked, ParkedInv, ParkedOK
<1> QED BY <1>3, <1>4, <1>5 DEF Init, EmptyInv, WaitInv

LEMMA WaitInvShows ==
    ASSUME PoolInv, WaitInv
    PROVE  WaitListsMatch
<1>0. /\ ListsInv /\ ParkedInv /\ CallInv
      /\ \A w \in Worker : w \in Task /\ w \notin Client
      /\ \A c \in Client : c \in Task /\ c \notin Worker
  BY WaitTypes, TasksApart DEF WaitInv
<1>1. \A q \in {worker_waiters, submit_waiters} \cup {job[j].waiters : j \in Job} :
          IsInjective(q)
  BY <1>0 DEF ListsInv, Holds
<1>2. ASSUME NEW w \in Worker, Contains(worker_waiters, w)
      PROVE  pc[w] = "wait" /\ waiter[w].armed
  <2>1. Linked(w)
    BY <1>0, <1>2 DEF ListsInv, Holds, WaitingWorkers
  <2> QED BY <1>0, <2>1 DEF ParkedInv, ParkedOK
<1>3. ASSUME NEW c \in Client
      PROVE  /\ Contains(submit_waiters, c)
                   => op[c].kind = "submit" /\ waiter[c].enqueued
             /\ \A j \in Job : Contains(job[j].waiters, c)
                   => op[c].kind = "wait" /\ op[c].job = j /\ waiter[c].enqueued
             /\ waiter[c].enqueued
                   => \/ Contains(submit_waiters, c)
                      \/ op[c].job # NoJob /\ Contains(job[op[c].job].waiters, c)
  <2>1. Contains(submit_waiters, c) => op[c].kind = "submit" /\ waiter[c].enqueued
    BY <1>0 DEF ListsInv, Holds, WaitingSubmitters, Linked
  <2>2. ASSUME NEW j \in Job, Contains(job[j].waiters, c)
        PROVE  op[c].kind = "wait" /\ op[c].job = j /\ waiter[c].enqueued
    BY <1>0, <2>2 DEF ListsInv, Holds, WaitingFor, Linked
  <2>3. ASSUME waiter[c].enqueued
        PROVE  \/ Contains(submit_waiters, c)
               \/ op[c].job # NoJob /\ Contains(job[op[c].job].waiters, c)
    <3>1. Linked(c)
      BY <1>0, <2>3, WaitTypes DEF Linked
    <3>2. op[c].kind \in {"submit", "wait"}
      BY <1>0, <3>1, NotLinked
    <3>3. CASE op[c].kind = "submit"
      BY <1>0, <3>1, <3>3 DEF ListsInv, Holds, WaitingSubmitters
    <3>4. CASE op[c].kind = "wait"
      <4>1. op[c].job \in Job /\ op[c].job # NoJob
        BY <1>0, <3>4, JobQueueAssumption DEF CallInv, ClientOK
      <4>2. c \in WaitingFor(op[c].job)
        BY <3>1, <3>4 DEF WaitingFor
      <4> QED BY <1>0, <4>1, <4>2 DEF ListsInv, Holds
    <3> QED BY <3>2, <3>3, <3>4
  <2> QED BY <2>1, <2>2, <2>3
<1> QED BY <1>1, <1>2, <1>3 DEF WaitListsMatch

(* The lists of waiting workers, of waiting submitters and of the futures  *)
(* that wait for a job hold exactly the tasks that wait there, each once:  *)
(* whatever wakes, timeouts, cancels and the destroy of the queue come in  *)
(* between, no list leads to a stack frame that is gone, and no task that  *)
(* waits is missing in its list.                                           *)
THEOREM WaitListsInvariance == Spec => []WaitListsMatch
<1>1. Init => WaitInv
  BY WaitInvInit
<1>2. PoolInv /\ WaitInv /\ [Next]_vars => WaitInv'
  <2> SUFFICES ASSUME PoolInv, WaitInv, [Next]_vars PROVE WaitInv'
    OBVIOUS
  <2>1. CASE UNCHANGED vars
    BY <2>1
       DEF vars, queueVars, waitersVars, lifeVars, jobVars, taskVars, WaitInv, ListsInv,
           ParkedInv, ParkedOK, EmptyInv, WaitingWorkers, WaitingSubmitters,
           WaitingFor, Linked
  <2> QED BY <2>1, WaitInvNext, NextActs
<1>3. PoolInv /\ WaitInv => WaitListsMatch
  BY WaitInvShows
<1> QED BY <1>1, <1>2, <1>3, PoolInvSpec, PTL DEF Spec
=============================================================================
