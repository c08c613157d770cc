----------------------------- MODULE JobContext -----------------------------
(***************************************************************************)
(* Job contexts: who holds one, and how one ends (kernel/core/job/jctx.c,  *)
(* with the calls of m_job_core.c, m_job_worker.c and m_job_event.c that   *)
(* use it).  A context is made with its job handle and counted: the handle *)
(* has one reference, a worker one while the handler runs, a field access  *)
(* one while it copies, and m_job_handle_destroy one more while the        *)
(* destroy listeners run in the context of the job that goes.  Whoever     *)
(* gives back the last one runs the destructors of the TLS slots, tears    *)
(* down the job's heap and frees the context, outside every lock.          *)
(*                                                                         *)
(* Waits, futures and the ring are in JobQueue, the heap in RegionHeap. Of *)
(* the fields nothing is kept but that they are accessed in a live         *)
(* context. Callers keep two rules that the code leaves to them: a handle  *)
(* is used only until it is freed, and one whose job was cancelled is      *)
(* destroyed only when no worker is at it (JobQueue has a run without).    *)
(***************************************************************************)
EXTENDS Integers, Sequences, FiniteSets

CONSTANTS
    Task,           \* workers and clients
    Worker,         \* the tasks of it that run jobs
    Job,
    Value,          \* what handlers and listeners put in the TLS slot
    Listener,       \* the destroy listeners that subscribe
    NoJob, NoValue  \* no member of Job, and none of Value

VARIABLES
    handle,         \* job -> "none", "live", "freed", or "lost": see SubmitFails
    job,            \* job -> cancelled, result_ready, destroyed, taken
    refs,           \* job -> the references counted in its context
    ctx,            \* job -> "none", "live" or "freed"
    slot,           \* job -> the value in its TLS slot
    heap,           \* job -> whether its context has a heap
    listeners,      \* the destroy listeners, the last subscribed first
    current,        \* task -> the job whose context is current
    pc,             \* task -> what it does
    op,             \* task -> the job its call is about
    prev,           \* task -> the context to restore after the listeners
    running,        \* task -> the job it runs
    walk,           \* task -> the listeners it has yet to call
    dying,          \* value -> a destructor call is due, and by whom
    finished,       \* value -> how often its destructor has run, NotSet before
    due,            \* job -> the listeners there were when it was destroyed
    told            \* job -> the listeners told of its end, in order

objects == <<handle, job, refs, ctx, slot, heap>>
tasks   == <<current, pc, op, prev, running, walk>>
vars    == <<objects, listeners, tasks, dying, finished, due, told>>

Nobody == "nobody"
NotSet == -1

(* Tasks are finitely many, and NULL is no job, value or task.             *)
Configured ==
    /\ IsFiniteSet(Task) /\ Nobody \notin Task
    /\ NoJob \notin Job /\ NoValue \notin Value

Goto(t, where) == pc' = [pc EXCEPT ![t] = where]

NothingDies(t) == \A v \in Value : dying[v] # t

(* A task that is between calls: a client, or a handler.                   *)
Free(t) == pc[t] = "idle" /\ NothingDies(t)

Init ==
    /\ handle = [j \in Job |-> "none"]
    /\ job = [j \in Job |-> [cancelled |-> FALSE, ready |-> FALSE,
                             destroyed |-> FALSE, taken |-> FALSE]]
    /\ refs = [j \in Job |-> 0]
    /\ ctx = [j \in Job |-> "none"]
    /\ slot = [j \in Job |-> NoValue]
    /\ heap = [j \in Job |-> FALSE]
    /\ listeners = << >>
    /\ current = [t \in Task |-> NoJob]
    /\ pc = [t \in Task |-> "idle"]
    /\ op = [t \in Task |-> NoJob]
    /\ prev = [t \in Task |-> NoJob]
    /\ running = [t \in Task |-> NoJob]
    /\ walk = [t \in Task |-> << >>]
    /\ dying = [v \in Value |-> Nobody]
    /\ finished = [v \in Value |-> NotSet]
    /\ due = [j \in Job |-> {}]
    /\ told = [j \in Job |-> << >>]

-----------------------------------------------------------------------------
(* Submitting.                                                             *)

(* _m_job_handle_create, jctx_create; the job comes into the ring.         *)
Submit(t, j) ==
    /\ Free(t)
    /\ handle[j] = "none"
    /\ handle' = [handle EXCEPT ![j] = "live"]
    /\ ctx' = [ctx EXCEPT ![j] = "live"]
    /\ refs' = [refs EXCEPT ![j] = 1]
    /\ UNCHANGED <<job, slot, heap, listeners, tasks, dying, finished, due, told>>

(* No slot of the ring is had: the handle is freed, its context is not.    *)
SubmitFails(t, j) ==
    /\ Free(t)
    /\ handle[j] = "none"
    /\ handle' = [handle EXCEPT ![j] = "lost"]
    /\ ctx' = [ctx EXCEPT ![j] = "live"]
    /\ refs' = [refs EXCEPT ![j] = 1]
    /\ UNCHANGED <<job, slot, heap, listeners, tasks, dying, finished, due, told>>

(* m_job_cancel *)
Cancel(t, j) ==
    /\ Free(t)
    /\ handle[j] = "live"
    /\ ~job[j].ready /\ ~job[j].destroyed
    /\ job' = [job EXCEPT ![j].cancelled = TRUE, ![j].ready = TRUE]
    /\ UNCHANGED <<handle, refs, ctx, slot, heap, listeners, tasks, dying, finished, due, told>>

-----------------------------------------------------------------------------
(* Running (m_job_worker_entry).                                           *)

(* A job is taken from the ring.                                           *)
Take(w, j) ==
    /\ Free(w) /\ running[w] = NoJob
    /\ handle[j] = "live" /\ ~job[j].taken
    /\ job' = [job EXCEPT ![j].taken = TRUE]
    /\ running' = [running EXCEPT ![w] = j]
    /\ Goto(w, "taken")
    /\ UNCHANGED <<handle, refs, ctx, slot, heap, listeners, current, op, prev, walk,
                   dying, finished, due, told>>

(* Cancelled meanwhile: the worker is through with it.                     *)
SkipRun(w) ==
    /\ pc[w] = "taken"
    /\ job[running[w]].ready
    /\ running' = [running EXCEPT ![w] = NoJob]
    /\ Goto(w, "idle")
    /\ UNCHANGED <<objects, listeners, current, op, prev, walk, dying, finished, due, told>>

StartRun(w) ==
    /\ pc[w] = "taken"
    /\ ~job[running[w]].ready
    /\ Goto(w, "acquire")
    /\ UNCHANGED <<objects, listeners, current, op, prev, running, walk, dying, finished, due, told>>

(* Mutant: the worker takes no reference of its own.                       *)
AcquireNot(w) ==
    /\ pc[w] = "acquire"
    /\ current' = [current EXCEPT ![w] = running[w]]
    /\ Goto(w, "idle")
    /\ UNCHANGED <<objects, listeners, op, prev, running, walk, dying, finished, due, told>>

(* jctx_acquire and jctx_set_current; then the handler runs.               *)
Acquire(w) ==
    /\ pc[w] = "acquire"
    /\ refs' = [refs EXCEPT ![running[w]] = @ + 1]
    /\ current' = [current EXCEPT ![w] = running[w]]
    /\ Goto(w, "idle")
    /\ UNCHANGED <<handle, job, ctx, slot, heap, listeners, op, prev, running, walk,
                   dying, finished, due, told>>

(* The handler ends, its result is recorded unless the job was cancelled.  *)
EndRun(w) ==
    /\ Free(w) /\ running[w] # NoJob
    /\ job' = [job EXCEPT ![running[w]].ready = TRUE]
    /\ Goto(w, "detach")
    /\ UNCHANGED <<handle, refs, ctx, slot, heap, listeners, current, op, prev, running, walk,
                   dying, finished, due, told>>

(* jctx_set_current(NULL)                                                  *)
Detach(w) ==
    /\ pc[w] = "detach"
    /\ current' = [current EXCEPT ![w] = NoJob]
    /\ op' = [op EXCEPT ![w] = running[w]]
    /\ running' = [running EXCEPT ![w] = NoJob]
    /\ Goto(w, "release")
    /\ UNCHANGED <<objects, listeners, prev, walk, dying, finished, due, told>>

-----------------------------------------------------------------------------
(* jctx_release.                                                           *)

(* What follows: nothing, or the rest of m_job_handle_destroy, which gives *)
(* back its own reference and then, with the context taken off the task if *)
(* it is the current one, the handle's.                                    *)
Releasing(t) == pc[t] \in {"release", "release_own", "release_handle"}

AfterRelease(t) ==
    CASE pc[t] \in {"release", "end"}         -> "idle"
      [] pc[t] \in {"release_own", "end_own"} -> "release_handle"
      [] OTHER                               -> "free_handle"

Continue(t) ==
    /\ Goto(t, AfterRelease(t))
    /\ op' = IF AfterRelease(t) = "idle" THEN [op EXCEPT ![t] = NoJob] ELSE op

OffCurrent(t) ==
    current' = IF pc[t] = "release_handle" /\ current[t] = op[t]
               THEN [current EXCEPT ![t] = NoJob] ELSE current

LastOne(j) == refs[j] = 1

ReleaseOne(t) ==
    /\ Releasing(t)
    /\ ~LastOne(op[t])
    /\ refs' = [refs EXCEPT ![op[t]] = IF @ = 0 THEN 0 ELSE @ - 1]
    /\ Continue(t)
    /\ OffCurrent(t)
    /\ UNCHANGED <<handle, job, ctx, slot, heap, listeners, prev, running, walk,
                   dying, finished, due, told>>

(* A value leaves its slot for the task that will run its destructor.      *)
TakenFrom(j, t) ==
    [v \in Value |-> IF slot[j] = v THEN t ELSE dying[v]]

ReleaseLast(t) ==
    LET j == op[t]
    IN  /\ Releasing(t)
        /\ LastOne(j)
        /\ refs' = [refs EXCEPT ![j] = 0]
        /\ dying' = TakenFrom(j, t)
        /\ slot' = [slot EXCEPT ![j] = NoValue]
        /\ OffCurrent(t)
        /\ Goto(t, CASE pc[t] = "release"     -> "end"
                     [] pc[t] = "release_own" -> "end_own"
                     [] OTHER                 -> "end_handle")
        /\ UNCHANGED <<handle, job, ctx, heap, listeners, op, prev, running, walk,
                       finished, due, told>>

(* One destructor at a time, of a value replaced or left behind.           *)
Destruct(t, v) ==
    /\ dying[v] = t
    /\ finished' = [finished EXCEPT ![v] = @ + 1]
    /\ dying' = [dying EXCEPT ![v] = Nobody]
    /\ UNCHANGED <<objects, listeners, tasks, due, told>>

(* m_alloc_teardown_job_ctx, and the context is freed.                     *)
EndContext(t) ==
    /\ pc[t] \in {"end", "end_own", "end_handle"}
    /\ NothingDies(t)
    /\ heap' = [heap EXCEPT ![op[t]] = FALSE]
    /\ ctx' = [ctx EXCEPT ![op[t]] = "freed"]
    /\ Continue(t)
    /\ UNCHANGED <<handle, job, refs, slot, listeners, current, prev, running, walk,
                   dying, finished, due, told>>

-----------------------------------------------------------------------------
(* What handlers and listeners do in the current context.                  *)

InContext(t) == current[t] # NoJob /\ pc[t] \in {"idle", "walk"} /\ NothingDies(t)

(* jctx_tls_set: the value it replaces is destroyed after the lock.        *)
TlsSet(t, v) ==
    /\ InContext(t)
    /\ finished[v] = NotSet
    /\ finished' = [finished EXCEPT ![v] = 0]
    /\ slot' = [slot EXCEPT ![current[t]] = v]
    /\ dying' = TakenFrom(current[t], t)
    /\ UNCHANGED <<handle, job, refs, ctx, heap, listeners, tasks, due, told>>

(* The first allocation builds the heap (m_alloc_ensure_heap).             *)
BuildHeap(t) ==
    /\ InContext(t)
    /\ ~heap[current[t]]
    /\ heap' = [heap EXCEPT ![current[t]] = TRUE]
    /\ UNCHANGED <<handle, job, refs, ctx, slot, listeners, tasks, dying, finished, due, told>>

(* m_job_field_get and m_job_field_set: the reference is taken while the   *)
(* handle is locked, the field accessed after, and the reference given     *)
(* back.                                                                   *)
FieldAccess(t, j) ==
    /\ Free(t)
    /\ handle[j] = "live"
    /\ ~job[j].destroyed
    /\ refs' = [refs EXCEPT ![j] = @ + 1]
    /\ op' = [op EXCEPT ![t] = j]
    /\ Goto(t, "field")
    /\ UNCHANGED <<handle, job, ctx, slot, heap, listeners, current, prev, running, walk,
                   dying, finished, due, told>>

FieldDone(t) ==
    /\ pc[t] = "field"
    /\ Goto(t, "release")
    /\ UNCHANGED <<objects, listeners, current, op, prev, running, walk, dying, finished, due, told>>

-----------------------------------------------------------------------------
(* Destroy listeners and the end of a handle.                              *)

(* m_job_subscribe_destroy *)
Subscribe(t, l) ==
    /\ Free(t)
    /\ \A i \in DOMAIN listeners : listeners[i] # l
    /\ listeners' = <<l>> \o listeners
    /\ UNCHANGED <<objects, tasks, dying, finished, due, told>>

NotRun(j) == \A w \in Task : running[w] # j

(* m_job_handle_destroy, with its refusals left out: a handle that is      *)
(* destroyed or has no result stays as it is.                              *)
Destroy(t, j) ==
    /\ Free(t)
    /\ handle[j] = "live"
    /\ ~job[j].destroyed /\ job[j].ready
    /\ job[j].cancelled => job[j].taken /\ NotRun(j)
    /\ job' = [job EXCEPT ![j].destroyed = TRUE]
    /\ due' = [due EXCEPT ![j] = {listeners[i] : i \in DOMAIN listeners}]
    /\ op' = [op EXCEPT ![t] = j]
    /\ Goto(t, "destroy")
    /\ UNCHANGED <<handle, refs, ctx, slot, heap, listeners, current, prev, running, walk,
                   dying, finished, told>>

(* The job that goes becomes the current one.                              *)
EnterContext(t) ==
    /\ pc[t] = "destroy"
    /\ prev' = [prev EXCEPT ![t] = current[t]]
    /\ refs' = [refs EXCEPT ![op[t]] = @ + 1]
    /\ current' = [current EXCEPT ![t] = op[t]]
    /\ Goto(t, "notify")
    /\ UNCHANGED <<handle, job, ctx, slot, heap, listeners, op, running, walk, dying, finished, due, told>>

(* _m_job_notify_destroyed reads the head of the list, ...                 *)
NotifyBegin(t) ==
    /\ pc[t] = "notify"
    /\ walk' = [walk EXCEPT ![t] = listeners]
    /\ Goto(t, "walk")
    /\ UNCHANGED <<objects, listeners, current, op, prev, running, dying, finished, due, told>>

(* ... and leaves the lock for each callback, its successor already read.  *)
NotifyOne(t) ==
    /\ pc[t] = "walk" /\ NothingDies(t)
    /\ walk[t] # << >>
    /\ told' = [told EXCEPT ![op[t]] = Append(@, Head(walk[t]))]
    /\ walk' = [walk EXCEPT ![t] = Tail(@)]
    /\ UNCHANGED <<objects, listeners, current, pc, op, prev, running, dying, finished, due>>

LeaveContext(t) ==
    /\ pc[t] = "walk" /\ NothingDies(t)
    /\ walk[t] = << >>
    /\ current' = [current EXCEPT ![t] = prev[t]]
    /\ prev' = [prev EXCEPT ![t] = NoJob]
    /\ Goto(t, "release_own")
    /\ UNCHANGED <<objects, listeners, op, running, walk, dying, finished, due, told>>

FreeHandle(t) ==
    /\ pc[t] = "free_handle"
    /\ handle' = [handle EXCEPT ![op[t]] = "freed"]
    /\ op' = [op EXCEPT ![t] = NoJob]
    /\ Goto(t, "idle")
    /\ UNCHANGED <<job, refs, ctx, slot, heap, listeners, current, prev, running, walk,
                   dying, finished, due, told>>

-----------------------------------------------------------------------------
Step(t) ==
    \/ SkipRun(t) \/ StartRun(t) \/ Acquire(t) \/ Detach(t)
    \/ ReleaseOne(t) \/ ReleaseLast(t) \/ EndContext(t)
    \/ FieldDone(t)
    \/ EnterContext(t) \/ NotifyBegin(t) \/ NotifyOne(t) \/ LeaveContext(t)
    \/ FreeHandle(t)
    \/ \E v \in Value : Destruct(t, v)

Call(t) ==
    \/ BuildHeap(t)
    \/ \E v \in Value : TlsSet(t, v)
    \/ \E l \in Listener : Subscribe(t, l)
    \/ \E j \in Job :
          \/ Submit(t, j) \/ SubmitFails(t, j) \/ Cancel(t, j)
          \/ FieldAccess(t, j) \/ Destroy(t, j)
    \/ t \in Worker /\ (EndRun(t) \/ \E j \in Job : Take(t, j))

Next == \E t \in Task : Step(t) \/ Call(t)

Spec == Init /\ [][Next]_vars

-----------------------------------------------------------------------------
(* Every variable has its type.                                            *)
TypeOK ==
    /\ handle \in [Job -> {"none", "live", "freed", "lost"}]
    /\ job \in [Job -> [cancelled : BOOLEAN, ready : BOOLEAN,
                        destroyed : BOOLEAN, taken : BOOLEAN]]
    /\ refs \in [Job -> Nat]
    /\ ctx \in [Job -> {"none", "live", "freed"}]
    /\ slot \in [Job -> Value \cup {NoValue}]
    /\ heap \in [Job -> BOOLEAN]
    /\ listeners \in Seq(Listener)
    /\ current \in [Task -> Job \cup {NoJob}]
    /\ pc \in [Task -> {"idle", "taken", "acquire", "detach", "field", "destroy", "notify",
                       "walk", "release", "release_own", "release_handle", "end", "end_own",
                       "end_handle", "free_handle"}]
    /\ op \in [Task -> Job \cup {NoJob}]
    /\ prev \in [Task -> Job \cup {NoJob}]
    /\ running \in [Task -> Job \cup {NoJob}]
    /\ walk \in [Task -> Seq(Listener)]
    /\ dying \in [Value -> Task \cup {Nobody}]
    /\ finished \in [Value -> {NotSet} \cup Nat]
    /\ due \in [Job -> SUBSET Listener]
    /\ told \in [Job -> Seq(Listener)]

(* A context lives as long as anything leads to it: its handle, a task     *)
(* whose current one it is, a worker about to take its reference, and      *)
(* every call that is under way in it.                                     *)
ContextAlive ==
    /\ \A j \in Job : handle[j] \in {"live", "lost"} /\ ctx[j] # "live"
          => \E t \in Task : op[t] = j /\ pc[t] = "free_handle"
    /\ \A t \in Task :
          /\ current[t] # NoJob => ctx[current[t]] = "live"
          /\ running[t] # NoJob => ctx[running[t]] = "live"
          /\ pc[t] \notin {"idle", "free_handle"} /\ op[t] # NoJob => ctx[op[t]] = "live"

(* Its count is the number of those who have a reference.                  *)
RefsCounted ==
    \A j \in Job :
        LET kept    == handle[j] \in {"live", "lost"}
                          /\ ~\E t \in Task : op[t] = j /\ pc[t] \in {"end_handle", "free_handle"}
            workers == {w \in Task : running[w] = j /\ pc[w] \notin {"taken", "acquire"}}
            calls   == {t \in Task : op[t] = j /\ pc[t] \in
                          {"field", "notify", "walk", "release", "release_own"}}
        IN  refs[j] = (IF kept THEN 1 ELSE 0) + Cardinality(workers) + Cardinality(calls)

(* The destructor of a value runs once: a value that was set is in one     *)
(* slot, or due to be destroyed by one task, until it is. When a context   *)
(* is freed its slot is empty and its heap torn down.                      *)
DestructorsOnce ==
    /\ \A v \in Value :
          LET places == {j \in Job : slot[j] = v} \cup {t \in Task : dying[v] = t}
          IN  /\ finished[v] \in {NotSet, 0, 1}
              /\ Cardinality(places) = IF finished[v] = 0 THEN 1 ELSE 0
    /\ \A j \in Job : ctx[j] # "live" => slot[j] = NoValue /\ ~heap[j]

(* A listener that was subscribed when the job was destroyed has been told *)
(* when the handle is freed, none is told twice, and all are told in the   *)
(* context of the job.                                                     *)
ListenersTold ==
    /\ \A j \in Job :
          /\ handle[j] = "freed" => \A l \in due[j] : \E i \in DOMAIN told[j] : told[j][i] = l
          /\ \A i, k \in DOMAIN told[j] : told[j][i] = told[j][k] => i = k
    /\ \A t \in Task : pc[t] = "walk" => current[t] = op[t]

(* Contexts, their values and their listeners, through every interleaving. *)
ContextsSound == ContextAlive /\ RefsCounted /\ DestructorsOnce /\ ListenersTold
=============================================================================
