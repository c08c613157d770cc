------------------------------ MODULE JobsProofs ------------------------------
(***************************************************************************)
(* Proofs about what a job owns, and what the scheduler and the timers do  *)
(* below it (the modules MCJobs composes):                                 *)
(*   JobContext    - for every number of tasks, jobs, values and destroy   *)
(*                   listeners, ContextsSound: the four promises of a      *)
(*                   context;                                              *)
(*   SchedRegistry - for every number of clients, tasks and ids,           *)
(*                   TasksSound: the registry has the metadata that live,  *)
(*                   and one takes each of them out;                       *)
(*   TimerQueue    - for every number of tasks and timers, all deadlines,  *)
(*                   TimersSound: a timer ends once, in order and in time; *)
(*   SchedSleep    - for every size of a word, a tick and a number of      *)
(*                   ticks, SleepsSound: a sleep is not too short and not  *)
(*                   too long;                                             *)
(*   RegionHeap    - for every size of a word, a header and a region, and  *)
(*                   all requests, HeapSound: blocks, free list and        *)
(*                   pointers agree, in a heap of one region.              *)
(*                                                                         *)
(* The invariant of JobContext comes in layers, each proved with the ones  *)
(* before it:                                                              *)
(*   TypeInv   - types, and what a task has in hand at each place;         *)
(*   JobInv    - how far a job is, who runs it and who destroys it;        *)
(*   CountInv  - the reference count, and who frees the context;           *)
(*   ValueInv  - where a value is, and that a slot without references is   *)
(*               empty;                                                    *)
(*   ListenInv - what the walk through the listeners has still to tell.    *)
(* The other modules are instances here, each with variables of its own,   *)
(* also in the place of those named as one of JobContext's.                *)
(***************************************************************************)
EXTENDS JobContext, SequenceLemmas, FiniteSetTheorems, WellFoundedInduction

-----------------------------------------------------------------------------
(* Types, and what a task has in hand.                                     *)

TaskOK(t) ==
    /\ pc[t] \in {"idle", "taken", "acquire", "detach"} <=> op[t] = NoJob
    /\ pc[t] \in {"taken", "acquire", "detach"} => running[t] # NoJob
    /\ pc[t] \in {"taken", "acquire"} => current[t] = NoJob
    /\ pc[t] \in {"notify", "walk"} => current[t] = op[t] /\ prev[t] \in {running[t], NoJob}
    /\ pc[t] \notin {"notify", "walk"} => current[t] \in {running[t], NoJob} /\ prev[t] = NoJob

ObjectType ==
    /\ handle \in [Job -> {"none", "live", "freed", "lost"}]
    /\ job \in [Job -> [cancelled : BOOLEAN, ready : BOOLEAN,
                        destroyed : BOOLEAN, taken : BOOLEAN]]
    /\ refs \in [Job -> Nat]
    /\ ctx \in [Job -> {"none", "live", "freed"}]
    /\ slot \in [Job -> Value \cup {NoValue}]
    /\ heap \in [Job -> BOOLEAN]
    /\ dying \in [Value -> Task \cup {Nobody}]
    /\ finished \in [Value -> {NotSet} \cup Nat]

ListType ==
    /\ listeners \in Seq(Listener)
    /\ walk \in [Task -> Seq(Listener)]
    /\ due \in [Job -> SUBSET Listener]
    /\ told \in [Job -> Seq(Listener)]

TaskType ==
    /\ current \in [Task -> Job \cup {NoJob}]
    /\ pc \in [Task -> {"idle", "taken", "acquire", "detach", "field", "destroy", "notify",
                       "walk", "release", "release_own", "release_handle", "end", "end_own",
                       "end_handle", "free_handle"}]
    /\ op \in [Task -> Job \cup {NoJob}]
    /\ prev \in [Task -> Job \cup {NoJob}]
    /\ running \in [Task -> Job \cup {NoJob}]

TypeInv == TypeOK /\ \A t \in Task : TaskOK(t)

TypeParts == ObjectType /\ ListType /\ TaskType

(* A step is a step of one task.                                           *)
Stays(t) ==
    \A u \in Task \ {t} :
        /\ pc'[u] = pc[u] /\ op'[u] = op[u] /\ running'[u] = running[u]
        /\ current'[u] = current[u] /\ prev'[u] = prev[u]

WalkStays(t) == \A u \in Task \ {t} : walk'[u] = walk[u]

Moves(t) == Step(t) \/ Call(t)

(* What a step does to the tasks: the others stay where they are.          *)
LEMMA TaskMoves ==
    ASSUME NEW t \in Task, Configured, TaskType, TaskOK(t), Moves(t)
    PROVE  TaskType' /\ Stays(t) /\ TaskOK(t)'
<1>1. CASE SkipRun(t)
  BY <1>1 DEF SkipRun, Goto, TaskType, TaskOK, Stays, Configured, objects, tasks, vars
<1>2. CASE StartRun(t)
  BY <1>2 DEF StartRun, Goto, TaskType, TaskOK, Stays, Configured, objects, tasks, vars
<1>3. CASE Acquire(t)
  BY <1>3 DEF Acquire, Goto, TaskType, TaskOK, Stays, Configured, objects, tasks, vars
<1>4. CASE Detach(t)
  BY <1>4 DEF Detach, Goto, TaskType, TaskOK, Stays, Configured, objects, tasks, vars
<1>5. CASE ReleaseOne(t)
  BY <1>5 DEF ReleaseOne, Releasing, Continue, AfterRelease, OffCurrent, Goto, TaskType,
              TaskOK, Stays, Configured, objects, tasks, vars
<1>6. CASE ReleaseLast(t)
  BY <1>6 DEF ReleaseLast, Releasing, OffCurrent, Goto, TakenFrom, TaskType, TaskOK,
              Stays, Configured, objects, tasks, vars
<1>7. CASE EndContext(t)
  BY <1>7 DEF EndContext, Continue, AfterRelease, Goto, TaskType, TaskOK, Stays,
              Configured, objects, tasks, vars
<1>8. CASE FieldDone(t)
  BY <1>8 DEF FieldDone, Goto, TaskType, TaskOK, Stays, Configured, objects, tasks, vars
<1>9. CASE EnterContext(t)
  BY <1>9 DEF EnterContext, Goto, TaskType, TaskOK, Stays, Configured, objects, tasks,
              vars
<1>10. CASE NotifyBegin(t)
  BY <1>10 DEF NotifyBegin, Goto, TaskType, TaskOK, Stays, Configured, objects, tasks,
               vars
<1>11. CASE NotifyOne(t)
  BY <1>11 DEF NotifyOne, TaskType, TaskOK, Stays, Configured, objects, tasks, vars
<1>12. CASE LeaveContext(t)
  BY <1>12 DEF LeaveContext, Goto, TaskType, TaskOK, Stays, Configured, objects, tasks,
               vars
<1>13. CASE FreeHandle(t)
  BY <1>13 DEF FreeHandle, Goto, TaskType, TaskOK, Stays, Configured, objects, tasks,
               vars
<1>14. CASE BuildHeap(t)
  BY <1>14 DEF BuildHeap, InContext, TaskType, TaskOK, Stays, Configured, objects,
               tasks, vars
<1>15. CASE EndRun(t)
  BY <1>15 DEF EndRun, Goto, Free, TaskType, TaskOK, Stays, Configured, objects, tasks,
               vars
<1>16. ASSUME NEW v \in Value, Destruct(t, v)
      PROVE  TaskType' /\ Stays(t) /\ TaskOK(t)'
  BY <1>16 DEF Destruct, TaskType, TaskOK, Stays, Configured, objects, tasks, vars
<1>17. ASSUME NEW v \in Value, TlsSet(t, v)
      PROVE  TaskType' /\ Stays(t) /\ TaskOK(t)'
  BY <1>17 DEF TlsSet, TakenFrom, InContext, TaskType, TaskOK, Stays, Configured,
               objects, tasks, vars
<1>18. ASSUME NEW l \in Listener, Subscribe(t, l)
      PROVE  TaskType' /\ Stays(t) /\ TaskOK(t)'
  BY <1>18 DEF Subscribe, Free, TaskType, TaskOK, Stays, Configured, objects, tasks,
               vars
<1>19. ASSUME NEW j \in Job, Submit(t, j)
      PROVE  TaskType' /\ Stays(t) /\ TaskOK(t)'
  BY <1>19 DEF Submit, Free, TaskType, TaskOK, Stays, Configured, objects, tasks, vars
<1>20. ASSUME NEW j \in Job, SubmitFails(t, j)
      PROVE  TaskType' /\ Stays(t) /\ TaskOK(t)'
  BY <1>20 DEF SubmitFails, Free, TaskType, TaskOK, Stays, Configured, objects, tasks,
               vars
<1>21. ASSUME NEW j \in Job, Cancel(t, j)
      PROVE  TaskType' /\ Stays(t) /\ TaskOK(t)'
  BY <1>21 DEF Cancel, Free, TaskType, TaskOK, Stays, Configured, objects, tasks, vars
<1>22. ASSUME NEW j \in Job, FieldAccess(t, j)
      PROVE  TaskType' /\ Stays(t) /\ TaskOK(t)'
  BY <1>22 DEF FieldAccess, Goto, Free, TaskType, TaskOK, Stays, Configured, objects,
               tasks, vars
<1>23. ASSUME NEW j \in Job, Destroy(t, j)
      PROVE  TaskType' /\ Stays(t) /\ TaskOK(t)'
  BY <1>23 DEF Destroy, Goto, Free, TaskType, TaskOK, Stays, Configured, objects, tasks,
               vars
<1>24. ASSUME NEW j \in Job, Take(t, j)
      PROVE  TaskType' /\ Stays(t) /\ TaskOK(t)'
  BY <1>24 DEF Take, Goto, Free, TaskType, TaskOK, Stays, Configured, objects, tasks,
               vars
<1> QED BY <1>1, <1>2, <1>3, <1>4, <1>5, <1>6, <1>7, <1>8, <1>9, <1>10, <1>11, <1>12,
           <1>13, <1>14, <1>15, <1>16, <1>17, <1>18, <1>19, <1>20, <1>21, <1>22, <1>23,
           <1>24 DEF Moves, Step, Call

(* What a step does to the lists of listeners.                             *)
LEMMA ListMoves ==
    ASSUME NEW t \in Task, ListType, Moves(t)
    PROVE  ListType' /\ WalkStays(t)
<1>1. CASE SkipRun(t)
  BY <1>1 DEF SkipRun, Goto, ListType, WalkStays, objects, tasks
<1>2. CASE StartRun(t)
  BY <1>2 DEF StartRun, Goto, ListType, WalkStays, objects, tasks
<1>3. CASE Acquire(t)
  BY <1>3 DEF Acquire, Goto, ListType, WalkStays, objects, tasks
<1>4. CASE Detach(t)
  BY <1>4 DEF Detach, Goto, ListType, WalkStays, objects, tasks
<1>5. CASE ReleaseOne(t)
  BY <1>5 DEF ReleaseOne, Releasing, Continue, AfterRelease, OffCurrent, Goto, ListType,
              WalkStays, objects, tasks
<1>6. CASE ReleaseLast(t)
  BY <1>6 DEF ReleaseLast, Releasing, OffCurrent, Goto, TakenFrom, ListType, WalkStays,
              objects, tasks
<1>7. CASE EndContext(t)
  BY <1>7 DEF EndContext, Continue, AfterRelease, Goto, ListType, WalkStays, objects,
              tasks
<1>8. CASE FieldDone(t)
  BY <1>8 DEF FieldDone, Goto, ListType, WalkStays, objects, tasks
<1>9. CASE EnterContext(t)
  BY <1>9 DEF EnterContext, Goto, ListType, WalkStays, objects, tasks
<1>10. CASE NotifyBegin(t)
  BY <1>10 DEF NotifyBegin, Goto, ListType, WalkStays, objects, tasks
<1>11. CASE NotifyOne(t)
  <2>1. Head(walk[t]) \in Listener /\ Tail(walk[t]) \in Seq(Listener)
    BY <1>11 DEF NotifyOne, ListType
  <2>2. \A q \in Seq(Listener) : Append(q, Head(walk[t])) \in Seq(Listener)
    BY <2>1
  <2> QED BY <1>11, <2>1, <2>2 DEF NotifyOne, ListType, WalkStays
<1>12. CASE LeaveContext(t)
  BY <1>12 DEF LeaveContext, Goto, ListType, WalkStays, objects, tasks
<1>13. CASE FreeHandle(t)
  BY <1>13 DEF FreeHandle, Goto, ListType, WalkStays, objects, tasks
<1>14. CASE BuildHeap(t)
  BY <1>14 DEF BuildHeap, InContext, ListType, WalkStays, objects, tasks
<1>15. CASE EndRun(t)
  BY <1>15 DEF EndRun, Goto, Free, ListType, WalkStays, objects, tasks
<1>16. ASSUME NEW v \in Value, Destruct(t, v)
      PROVE  ListType' /\ WalkStays(t)
  BY <1>16 DEF Destruct, ListType, WalkStays, objects, tasks
<1>17. ASSUME NEW v \in Value, TlsSet(t, v)
      PROVE  ListType' /\ WalkStays(t)
  BY <1>17 DEF TlsSet, TakenFrom, InContext, ListType, WalkStays, objects, tasks
<1>18. ASSUME NEW l \in Listener, Subscribe(t, l)
      PROVE  ListType' /\ WalkStays(t)
  BY <1>18 DEF Subscribe, Free, ListType, WalkStays, objects, tasks
<1>19. ASSUME NEW j \in Job, Submit(t, j)
      PROVE  ListType' /\ WalkStays(t)
  BY <1>19 DEF Submit, Free, ListType, WalkStays, objects, tasks
<1>20. ASSUME NEW j \in Job, SubmitFails(t, j)
      PROVE  ListType' /\ WalkStays(t)
  BY <1>20 DEF SubmitFails, Free, ListType, WalkStays, objects, tasks
<1>21. ASSUME NEW j \in Job, Cancel(t, j)
      PROVE  ListType' /\ WalkStays(t)
  BY <1>21 DEF Cancel, Free, ListType, WalkStays, objects, tasks
<1>22. ASSUME NEW j \in Job, FieldAccess(t, j)
      PROVE  ListType' /\ WalkStays(t)
  BY <1>22 DEF FieldAccess, Goto, Free, ListType, WalkStays, objects, tasks
<1>23. ASSUME NEW j \in Job, Destroy(t, j)
      PROVE  ListType' /\ WalkStays(t)
  BY <1>23 DEF Destroy, Goto, Free, ListType, WalkStays, objects, tasks
<1>24. ASSUME NEW j \in Job, Take(t, j)
      PROVE  ListType' /\ WalkStays(t)
  BY <1>24 DEF Take, Goto, Free, ListType, WalkStays, objects, tasks
<1> QED BY <1>1, <1>2, <1>3, <1>4, <1>5, <1>6, <1>7, <1>8, <1>9, <1>10, <1>11, <1>12,
           <1>13, <1>14, <1>15, <1>16, <1>17, <1>18, <1>19, <1>20, <1>21, <1>22, <1>23,
           <1>24 DEF Moves, Step, Call

JobRecord == [cancelled : BOOLEAN, ready : BOOLEAN, destroyed : BOOLEAN, taken : BOOLEAN]

(* The flags of a job are set one at a time.                               *)
LEMMA JobRecordSet ==
    ASSUME NEW r \in [Job -> JobRecord], NEW j \in Job
    PROVE  /\ [r EXCEPT ![j].ready = TRUE] \in [Job -> JobRecord]
           /\ [r EXCEPT ![j].destroyed = TRUE] \in [Job -> JobRecord]
BY DEF JobRecord

(* What a step does to jobs, contexts and values.                          *)
LEMMA ObjectMoves ==
    ASSUME NEW t \in Task, Configured, ObjectType, TaskType, TaskOK(t), Moves(t)
    PROVE  ObjectType'
<1>1. CASE SkipRun(t)
  BY <1>1 DEF SkipRun, Goto, ObjectType, TaskType, TaskOK, Configured, objects, tasks
<1>2. CASE StartRun(t)
  BY <1>2 DEF StartRun, Goto, ObjectType, TaskType, TaskOK, Configured, objects, tasks
<1>3. CASE Acquire(t)
  <2>1. running[t] \in Job
    BY <1>3 DEF Acquire, Goto, TaskType, TaskOK
  <2>2. refs[running[t]] + 1 \in Nat
    BY <2>1 DEF ObjectType
  <2>3. refs' = [refs EXCEPT ![running[t]] = refs[running[t]] + 1]
    BY <1>3 DEF Acquire
  <2>4. refs' \in [Job -> Nat]
    BY <2>1, <2>2, <2>3 DEF ObjectType
  <2> QED BY <1>3, <2>4 DEF Acquire, ObjectType
<1>4. CASE Detach(t)
  BY <1>4 DEF Detach, Goto, ObjectType, TaskType, TaskOK, Configured, objects, tasks
<1>5. CASE ReleaseOne(t)
  <2>1. op[t] \in Job
    BY <1>5 DEF ReleaseOne, Releasing, TaskType, TaskOK
  <2>2. (IF refs[op[t]] = 0 THEN 0 ELSE refs[op[t]] - 1) \in Nat
    BY <2>1 DEF ObjectType
  <2>3. refs' = [refs EXCEPT ![op[t]] = (IF refs[op[t]] = 0 THEN 0 ELSE refs[op[t]] - 1)]
    BY <1>5 DEF ReleaseOne
  <2>4. refs' \in [Job -> Nat]
    BY <2>1, <2>2, <2>3 DEF ObjectType
  <2> QED BY <1>5, <2>4 DEF ReleaseOne, ObjectType
<1>6. CASE ReleaseLast(t)
  BY <1>6 DEF ReleaseLast, Releasing, OffCurrent, Goto, TakenFrom, ObjectType, TaskType,
              TaskOK, Configured, objects, tasks
<1>7. CASE EndContext(t)
  BY <1>7 DEF EndContext, Continue, AfterRelease, Goto, ObjectType, TaskType, TaskOK,
              Configured, objects, tasks
<1>8. CASE FieldDone(t)
  BY <1>8 DEF FieldDone, Goto, ObjectType, TaskType, TaskOK, Configured, objects, tasks
<1>9. CASE EnterContext(t)
  <2>1. op[t] \in Job
    BY <1>9 DEF EnterContext, Goto, TaskType, TaskOK
  <2>2. refs[op[t]] + 1 \in Nat
    BY <2>1 DEF ObjectType
  <2>3. refs' = [refs EXCEPT ![op[t]] = refs[op[t]] + 1]
    BY <1>9 DEF EnterContext
  <2>4. refs' \in [Job -> Nat]
    BY <2>1, <2>2, <2>3 DEF ObjectType
  <2> QED BY <1>9, <2>4 DEF EnterContext, ObjectType
<1>10. CASE NotifyBegin(t)
  BY <1>10 DEF NotifyBegin, Goto, ObjectType, TaskType, TaskOK, Configured, objects,
               tasks
<1>11. CASE NotifyOne(t)
  BY <1>11 DEF NotifyOne, ObjectType, TaskType, TaskOK, Configured, objects, tasks
<1>12. CASE LeaveContext(t)
  BY <1>12 DEF LeaveContext, Goto, ObjectType, TaskType, TaskOK, Configured, objects,
               tasks
<1>13. CASE FreeHandle(t)
  BY <1>13 DEF FreeHandle, Goto, ObjectType, TaskType, TaskOK, Configured, objects,
               tasks
<1>14. CASE BuildHeap(t)
  BY <1>14 DEF BuildHeap, InContext, ObjectType, TaskType, TaskOK, Configured, objects,
               tasks
<1>15. CASE EndRun(t)
  <2>1. running[t] \in Job /\ job' = [job EXCEPT ![running[t]].ready = TRUE]
    BY <1>15 DEF EndRun, TaskType
  <2>2. job' \in [Job -> JobRecord]
    BY <2>1, JobRecordSet DEF ObjectType, JobRecord
  <2> QED BY <1>15, <2>2 DEF EndRun, ObjectType, JobRecord
<1>16. ASSUME NEW v \in Value, Destruct(t, v)
      PROVE  ObjectType'
  <2>1. finished[v] + 1 \in Nat /\ finished' = [finished EXCEPT ![v] = finished[v] + 1]
    BY <1>16 DEF Destruct, ObjectType, NotSet
  <2>2. finished' \in [Value -> {NotSet} \cup Nat]
    BY <1>16, <2>1 DEF ObjectType
  <2> QED BY <1>16, <2>2 DEF Destruct, ObjectType, objects
<1>17. ASSUME NEW v \in Value, TlsSet(t, v)
      PROVE  ObjectType'
  BY <1>17 DEF TlsSet, TakenFrom, InContext, ObjectType, TaskType, TaskOK, Configured,
               objects, tasks
<1>18. ASSUME NEW l \in Listener, Subscribe(t, l)
      PROVE  ObjectType'
  BY <1>18 DEF Subscribe, Free, ObjectType, TaskType, TaskOK, Configured, objects, tasks
<1>19. ASSUME NEW j \in Job, Submit(t, j)
      PROVE  ObjectType'
  BY <1>19 DEF Submit, Free, ObjectType, TaskType, TaskOK, Configured, objects, tasks
<1>20. ASSUME NEW j \in Job, SubmitFails(t, j)
      PROVE  ObjectType'
  BY <1>20 DEF SubmitFails, Free, ObjectType, TaskType, TaskOK, Configured, objects,
               tasks
<1>21. ASSUME NEW j \in Job, Cancel(t, j)
      PROVE  ObjectType'
  BY <1>21 DEF Cancel, Free, ObjectType, TaskType, TaskOK, Configured, objects, tasks
<1>22. ASSUME NEW j \in Job, FieldAccess(t, j)
      PROVE  ObjectType'
  <2>1. refs[j] + 1 \in Nat /\ refs' = [refs EXCEPT ![j] = refs[j] + 1]
    BY <1>22 DEF FieldAccess, ObjectType
  <2>2. refs' \in [Job -> Nat]
    BY <1>22, <2>1 DEF ObjectType
  <2> QED BY <1>22, <2>2 DEF FieldAccess, ObjectType
<1>23. ASSUME NEW j \in Job, Destroy(t, j)
      PROVE  ObjectType'
  <2>1. job' \in [Job -> JobRecord]
    BY <1>23, JobRecordSet DEF Destroy, ObjectType, JobRecord
  <2> QED BY <1>23, <2>1 DEF Destroy, ObjectType, JobRecord
<1>24. ASSUME NEW j \in Job, Take(t, j)
      PROVE  ObjectType'
  BY <1>24 DEF Take, Goto, Free, ObjectType, TaskType, TaskOK, Configured, objects,
               tasks
<1> QED BY <1>1, <1>2, <1>3, <1>4, <1>5, <1>6, <1>7, <1>8, <1>9, <1>10, <1>11, <1>12,
           <1>13, <1>14, <1>15, <1>16, <1>17, <1>18, <1>19, <1>20, <1>21, <1>22, <1>23,
           <1>24 DEF Moves, Step, Call

(* Types are kept, and every task but t stays where it is.                 *)
LEMMA TypeNext ==
    ASSUME Configured, TypeInv, NEW t \in Task, Moves(t)
    PROVE  TypeInv' /\ Stays(t) /\ WalkStays(t) /\ TypeParts /\ TypeParts'
<1>1. TypeParts /\ TaskOK(t)
  BY DEF TypeInv, TypeOK, TypeParts, TaskType, ListType, ObjectType
<1>2. TypeParts'
  BY <1>1, TaskMoves, ListMoves, ObjectMoves DEF TypeParts
<1>3. Stays(t) /\ WalkStays(t) /\ TaskOK(t)'
  BY <1>1, TaskMoves, ListMoves DEF TypeParts
<1>4. TypeOK'
  BY <1>2 DEF TypeOK, TypeParts, TaskType, ListType, ObjectType
<1>5. ASSUME NEW u \in Task PROVE TaskOK(u)'
  <2>1. CASE u = t
    BY <1>3, <2>1
  <2>2. CASE u # t
    BY <1>3, <2>2 DEF Stays, TaskOK, TypeInv
  <2> QED BY <2>1, <2>2
<1> QED BY <1>1, <1>2, <1>3, <1>4, <1>5 DEF TypeInv

-----------------------------------------------------------------------------
(* How far a job is.                                                       *)

Destroys(t) == pc[t] \in {"destroy", "notify", "walk", "release_own", "end_own",
                          "release_handle", "end_handle", "free_handle"}

(* A result is there when the job was cancelled or a worker is through     *)
(* with it; a handle is destroyed after that.                              *)
JobOK(j) ==
    /\ handle[j] \in {"none", "lost"} => ~job[j].ready /\ ~job[j].taken
    /\ job[j].ready => job[j].cancelled \/ job[j].taken
    /\ job[j].destroyed => job[j].ready /\ job[j].taken
    /\ handle[j] = "freed" => job[j].destroyed

(* While the handler runs nobody destroys its job.                         *)
RunOK(t) ==
    running[t] # NoJob =>
        /\ handle[running[t]] \in {"live", "freed"} /\ job[running[t]].taken
        /\ pc[t] # "detach" =>
              /\ handle[running[t]] = "live" /\ ~job[running[t]].destroyed
              /\ job[running[t]].ready => job[running[t]].cancelled

OpOK(t) ==
    op[t] # NoJob =>
        /\ handle[op[t]] \in {"live", "freed"}
        /\ Destroys(t) => handle[op[t]] = "live" /\ job[op[t]].destroyed

OneRuns ==
    \A t, u \in Task : running[t] # NoJob /\ running[t] = running[u] => t = u

OneDestroys ==
    \A t, u \in Task : Destroys(t) /\ Destroys(u) /\ op[t] = op[u] => t = u

JobInv ==
    /\ \A j \in Job : JobOK(j)
    /\ \A t \in Task : RunOK(t) /\ OpOK(t)
    /\ OneRuns /\ OneDestroys

(* Most steps of a task change nothing of this but to let a job go.        *)
JobSame(t) ==
    /\ UNCHANGED <<handle, job>>
    /\ running'[t] \in {running[t], NoJob} /\ op'[t] \in {op[t], NoJob}
    /\ Destroys(t)' => Destroys(t) /\ op'[t] = op[t]
    /\ pc[t] = "detach" => pc'[t] = "detach" \/ running'[t] = NoJob

(* A step that leaves the jobs alone keeps their invariant.                *)
LEMMA JobStays ==
    ASSUME TypeInv, JobInv, NEW t \in Task, Stays(t), TypeParts, TypeParts', JobSame(t)
    PROVE  JobInv'
<1>1. /\ \A u \in Task : running'[u] \in {running[u], NoJob} /\ op'[u] \in {op[u], NoJob}
      /\ \A u \in Task : Destroys(u)' => Destroys(u) /\ op'[u] = op[u]
      /\ \A u \in Task : pc[u] = "detach" => pc'[u] = "detach" \/ running'[u] = NoJob
  BY DEF Stays, JobSame, Destroys
<1>2. \A j \in Job : JobOK(j)'
  BY DEF JobSame, JobInv, JobOK
<1>3. \A u \in Task : RunOK(u)'
  BY <1>1 DEF JobSame, JobInv, RunOK
<1>4. \A u \in Task : OpOK(u)'
  BY <1>1 DEF JobSame, JobInv, OpOK
<1>5. OneRuns' /\ OneDestroys'
  BY <1>1 DEF JobInv, OneRuns, OneDestroys
<1> QED BY <1>2, <1>3, <1>4, <1>5 DEF JobInv

(* The steps that do more.                                                 *)
JobSteps(t) ==
    \/ Detach(t) \/ FreeHandle(t) \/ EndRun(t)
    \/ \E j \in Job : \/ Submit(t, j) \/ SubmitFails(t, j) \/ Cancel(t, j)
                      \/ FieldAccess(t, j) \/ Destroy(t, j) \/ Take(t, j)

(* Which steps do leave them alone.                                        *)
LEMMA JobSteady ==
    ASSUME NEW t \in Task, TypeParts, Moves(t), ~JobSteps(t)
    PROVE  JobSame(t)
<1>1. CASE SkipRun(t)
  BY <1>1 DEF SkipRun, Goto, JobSame, Destroys, TypeParts, TaskType, objects, tasks
<1>2. CASE StartRun(t)
  BY <1>2 DEF StartRun, Goto, JobSame, Destroys, TypeParts, TaskType, objects, tasks
<1>3. CASE Acquire(t)
  BY <1>3 DEF Acquire, Goto, JobSame, Destroys, TypeParts, TaskType, objects, tasks
<1>4. CASE ReleaseOne(t)
  BY <1>4 DEF ReleaseOne, Releasing, Continue, AfterRelease, OffCurrent, Goto, JobSame,
              Destroys, TypeParts, TaskType, objects, tasks
<1>5. CASE ReleaseLast(t)
  BY <1>5 DEF ReleaseLast, Releasing, OffCurrent, Goto, TakenFrom, JobSame, Destroys,
              TypeParts, TaskType, objects, tasks
<1>6. CASE EndContext(t)
  BY <1>6 DEF EndContext, Continue, AfterRelease, Goto, JobSame, Destroys, TypeParts,
              TaskType, objects, tasks
<1>7. CASE FieldDone(t)
  BY <1>7 DEF FieldDone, Goto, JobSame, Destroys, TypeParts, TaskType, objects, tasks
<1>8. CASE EnterContext(t)
  BY <1>8 DEF EnterContext, Goto, JobSame, Destroys, TypeParts, TaskType, objects, tasks
<1>9. CASE NotifyBegin(t)
  BY <1>9 DEF NotifyBegin, Goto, JobSame, Destroys, TypeParts, TaskType, objects, tasks
<1>10. CASE NotifyOne(t)
  BY <1>10 DEF NotifyOne, JobSame, Destroys, TypeParts, TaskType, objects, tasks
<1>11. CASE LeaveContext(t)
  BY <1>11 DEF LeaveContext, Goto, JobSame, Destroys, TypeParts, TaskType, objects,
               tasks
<1>12. CASE BuildHeap(t)
  BY <1>12 DEF BuildHeap, InContext, JobSame, Destroys, TypeParts, TaskType, objects,
               tasks
<1>13. ASSUME NEW v \in Value, Destruct(t, v) PROVE JobSame(t)
  BY <1>13 DEF Destruct, JobSame, Destroys, TypeParts, TaskType, objects, tasks
<1>14. ASSUME NEW v \in Value, TlsSet(t, v) PROVE JobSame(t)
  BY <1>14 DEF TlsSet, TakenFrom, InContext, JobSame, Destroys, TypeParts, TaskType,
               objects, tasks
<1>15. ASSUME NEW l \in Listener, Subscribe(t, l) PROVE JobSame(t)
  BY <1>15 DEF Subscribe, Free, JobSame, Destroys, TypeParts, TaskType, objects, tasks
<1> QED BY <1>1, <1>2, <1>3, <1>4, <1>5, <1>6, <1>7, <1>8, <1>9, <1>10, <1>11, <1>12,
           <1>13, <1>14, <1>15 DEF Moves, Step, Call, JobSteps

(* The other steps, one by one.                                            *)
LEMMA JobChanges ==
    ASSUME Configured, TypeInv, JobInv, NEW t \in Task, Stays(t), TypeParts, JobSteps(t)
    PROVE  JobInv'
<1>0. /\ handle = [k \in Job |-> handle[k]]
      /\ job \in [Job -> [cancelled : BOOLEAN, ready : BOOLEAN,
                         destroyed : BOOLEAN, taken : BOOLEAN]]
      /\ pc = [u \in Task |-> pc[u]] /\ op = [u \in Task |-> op[u]]
      /\ running = [u \in Task |-> running[u]]
      /\ op[t] \in Job \cup {NoJob} /\ running[t] \in Job \cup {NoJob} /\ NoJob \notin Job
      /\ pc[t] \in {"idle", "taken", "acquire", "detach"} <=> op[t] = NoJob
      /\ pc[t] = "detach" => running[t] # NoJob
  BY DEF Configured, TypeInv, TaskOK, TypeParts, ObjectType, TaskType
<1>a. ASSUME NEW u \in Task
      PROVE  /\ running[u] \in Job \cup {NoJob} /\ op[u] \in Job \cup {NoJob} /\ NoJob \notin Job
             /\ RunOK(u) /\ OpOK(u)
             /\ u # t => pc'[u] = pc[u] /\ op'[u] = op[u] /\ running'[u] = running[u]
  BY DEF Configured, TypeParts, TaskType, Stays, JobInv
<1>b. \A k \in Job : JobOK(k)
  BY DEF JobInv
<1>1. CASE Detach(t)
  <2>1. /\ pc[t] = "detach" /\ running[t] \in Job
        /\ UNCHANGED <<handle, job>>
        /\ running'[t] = NoJob /\ op'[t] = running[t] /\ pc'[t] = "release"
        /\ \A k \in Job : k # running[t] => handle'[k] = handle[k] /\ job'[k] = job[k]
    BY <1>0, <1>1 DEF Detach, Goto, objects, tasks
  <2>2. ASSUME NEW k \in Job PROVE JobOK(k)'
    <3>1. JobOK(k) /\ RunOK(t) /\ OpOK(t)
      BY <1>a, <1>b
    <3> QED BY <2>1, <3>1 DEF JobOK, RunOK, OpOK, Destroys
  <2>3. ASSUME NEW u \in Task PROVE RunOK(u)'
    <3>1. /\ running[u] \in Job \cup {NoJob} /\ RunOK(u)
          /\ u # t => pc'[u] = pc[u] /\ running'[u] = running[u]
          /\ running[u] # NoJob /\ running[u] = running[t] => u = t
      BY <1>a DEF JobInv, OneRuns
    <3>2. /\ running[u] \in Job => JobOK(running[u])
          /\ JobOK(running[t]) /\ OpOK(t)
      BY <1>a, <1>b, <2>1
    <3>3. CASE u = t
      BY <2>1, <3>1, <3>2, <3>3 DEF RunOK, JobOK
    <3>4. CASE u # t
      BY <2>1, <3>1, <3>2, <3>4 DEF RunOK, JobOK, OpOK, Destroys
    <3> QED BY <3>3, <3>4
  <2>4. ASSUME NEW u \in Task PROVE OpOK(u)'
    <3>1. /\ op[u] \in Job \cup {NoJob} /\ OpOK(u)
          /\ u # t => pc'[u] = pc[u] /\ op'[u] = op[u]
      BY <1>a
    <3>2. Destroys(u) /\ Destroys(t) /\ op[u] = op[t] => u = t
      BY DEF JobInv, OneDestroys
    <3>3. CASE u = t
      BY <1>a, <2>1, <3>1, <3>3 DEF RunOK, OpOK, Destroys
    <3>4. CASE u # t
      BY <2>1, <3>1, <3>2, <3>4 DEF OpOK, Destroys
    <3> QED BY <3>3, <3>4
  <2>5. OneRuns'
    <3>1. \A u \in Task : running'[u] \in {running[u], NoJob}
      BY <1>a, <2>1
    <3> QED BY <3>1 DEF OneRuns, JobInv
  <2>6. OneDestroys'
    <3>1. \A u \in Task : Destroys(u)' => Destroys(u) /\ op'[u] = op[u]
      BY <1>a, <2>1 DEF Destroys
    <3> QED BY <3>1 DEF OneDestroys, JobInv
  <2> QED BY <2>2, <2>3, <2>4, <2>5, <2>6 DEF JobInv
<1>2. CASE FreeHandle(t)
  <2>1. /\ pc[t] = "free_handle" /\ op[t] \in Job
        /\ handle'[op[t]] = "freed" /\ job' = job
        /\ running'[t] = running[t] /\ op'[t] = NoJob /\ pc'[t] = "idle"
        /\ \A k \in Job : k # op[t] => handle'[k] = handle[k] /\ job'[k] = job[k]
    BY <1>0, <1>2 DEF FreeHandle, Goto, objects, tasks
  <2>2. ASSUME NEW k \in Job PROVE JobOK(k)'
    <3>1. JobOK(k) /\ RunOK(t) /\ OpOK(t)
      BY <1>a, <1>b
    <3>2. job[op[t]].destroyed
      <4>1. op[t] # NoJob /\ Destroys(t)
        BY <1>0, <2>1 DEF Destroys
      <4> QED BY <3>1, <4>1 DEF OpOK
    <3> QED BY <2>1, <3>1, <3>2 DEF JobOK
  <2>3. ASSUME NEW u \in Task PROVE RunOK(u)'
    <3>1. /\ running[u] \in Job \cup {NoJob} /\ RunOK(u)
          /\ u # t => pc'[u] = pc[u] /\ running'[u] = running[u]
          /\ running[u] # NoJob /\ running[u] = running[t] => u = t
      BY <1>a DEF JobInv, OneRuns
    <3>2. /\ running[u] \in Job => JobOK(running[u])
          /\ JobOK(op[t]) /\ OpOK(t)
      BY <1>a, <1>b, <2>1
    <3>3. CASE u = t
      <4>1. op[t] # NoJob /\ Destroys(t)
        BY <1>0, <2>1 DEF Destroys
      <4>2. job[op[t]].destroyed
        BY <3>2, <4>1 DEF OpOK
      <4>3. running[t] # op[t]
        BY <2>1, <3>1, <3>3, <4>1, <4>2 DEF RunOK
      <4> QED BY <2>1, <3>1, <3>3, <4>3 DEF RunOK
    <3>4. CASE u # t
      BY <2>1, <3>1, <3>2, <3>4 DEF RunOK, JobOK, OpOK, Destroys
    <3> QED BY <3>3, <3>4
  <2>4. ASSUME NEW u \in Task PROVE OpOK(u)'
    <3>1. /\ op[u] \in Job \cup {NoJob} /\ OpOK(u)
          /\ u # t => pc'[u] = pc[u] /\ op'[u] = op[u]
      BY <1>a
    <3>2. Destroys(u) /\ Destroys(t) /\ op[u] = op[t] => u = t
      BY DEF JobInv, OneDestroys
    <3>3. CASE u = t
      BY <1>a, <2>1, <3>1, <3>3 DEF RunOK, OpOK, Destroys
    <3>4. CASE u # t
      BY <2>1, <3>1, <3>2, <3>4 DEF OpOK, Destroys
    <3> QED BY <3>3, <3>4
  <2>5. OneRuns'
    <3>1. \A u \in Task : running'[u] \in {running[u], NoJob}
      BY <1>a, <2>1
    <3> QED BY <3>1 DEF OneRuns, JobInv
  <2>6. OneDestroys'
    <3>1. \A u \in Task : Destroys(u)' => Destroys(u) /\ op'[u] = op[u]
      BY <1>a, <2>1 DEF Destroys
    <3> QED BY <3>1 DEF OneDestroys, JobInv
  <2> QED BY <2>2, <2>3, <2>4, <2>5, <2>6 DEF JobInv
<1>3. CASE EndRun(t)
  <2>1. /\ pc[t] = "idle" /\ op[t] = NoJob /\ running[t] \in Job
        /\ handle' = handle /\ job'[running[t]].ready = TRUE
        /\ job'[running[t]].cancelled = job[running[t]].cancelled
        /\ job'[running[t]].destroyed = job[running[t]].destroyed
        /\ job'[running[t]].taken = job[running[t]].taken
        /\ running'[t] = running[t] /\ op'[t] = NoJob /\ pc'[t] = "detach"
        /\ \A k \in Job : k # running[t] => handle'[k] = handle[k] /\ job'[k] = job[k]
    BY <1>0, <1>3 DEF EndRun, Goto, Free, objects, tasks
  <2>2. ASSUME NEW k \in Job PROVE JobOK(k)'
    <3>1. JobOK(k) /\ RunOK(t) /\ OpOK(t)
      BY <1>a, <1>b
    <3>2. job[running[t]].taken
      BY <1>0, <2>1, <3>1 DEF RunOK
    <3> QED BY <2>1, <3>1, <3>2 DEF JobOK
  <2>3. ASSUME NEW u \in Task PROVE RunOK(u)'
    <3>1. /\ running[u] \in Job \cup {NoJob} /\ RunOK(u)
          /\ u # t => pc'[u] = pc[u] /\ running'[u] = running[u]
          /\ running[u] # NoJob /\ running[u] = running[t] => u = t
      BY <1>a DEF JobInv, OneRuns
    <3>2. /\ running[u] \in Job => JobOK(running[u])
          /\ JobOK(running[t]) /\ OpOK(t)
      BY <1>a, <1>b, <2>1
    <3>3. CASE u = t
      BY <2>1, <3>1, <3>2, <3>3 DEF RunOK, JobOK
    <3>4. CASE u # t
      BY <2>1, <3>1, <3>2, <3>4 DEF RunOK, JobOK, OpOK, Destroys
    <3> QED BY <3>3, <3>4
  <2>4. ASSUME NEW u \in Task PROVE OpOK(u)'
    <3>1. /\ op[u] \in Job \cup {NoJob} /\ OpOK(u)
          /\ u # t => pc'[u] = pc[u] /\ op'[u] = op[u]
      BY <1>a
    <3>2. Destroys(u) /\ Destroys(t) /\ op[u] = op[t] => u = t
      BY DEF JobInv, OneDestroys
    <3>3. CASE u = t
      BY <1>a, <2>1, <3>1, <3>3 DEF RunOK, OpOK, Destroys
    <3>4. CASE u # t
      BY <2>1, <3>1, <3>2, <3>4 DEF OpOK, Destroys
    <3> QED BY <3>3, <3>4
  <2>5. OneRuns'
    <3>1. \A u \in Task : running'[u] \in {running[u], NoJob}
      BY <1>a, <2>1
    <3> QED BY <3>1 DEF OneRuns, JobInv
  <2>6. OneDestroys'
    <3>1. \A u \in Task : Destroys(u)' => Destroys(u) /\ op'[u] = op[u]
      BY <1>a, <2>1 DEF Destroys
    <3> QED BY <3>1 DEF OneDestroys, JobInv
  <2> QED BY <2>2, <2>3, <2>4, <2>5, <2>6 DEF JobInv
<1>4. ASSUME NEW j \in Job, Submit(t, j) PROVE JobInv'
  <2>1. /\ pc[t] = "idle" /\ op[t] = NoJob /\ handle[j] = "none"
        /\ handle'[j] = "live" /\ job' = job
        /\ running'[t] = running[t] /\ op'[t] = op[t] /\ pc'[t] = pc[t]
        /\ \A k \in Job : k # j => handle'[k] = handle[k] /\ job'[k] = job[k]
    BY <1>0, <1>4 DEF Submit, Free, objects, tasks
  <2>2. ASSUME NEW k \in Job PROVE JobOK(k)'
    <3>1. JobOK(k) /\ RunOK(t) /\ OpOK(t)
      BY <1>a, <1>b
    <3> QED BY <2>1, <3>1 DEF JobOK, RunOK, OpOK, Destroys
  <2>3. ASSUME NEW u \in Task PROVE RunOK(u)'
    <3>1. /\ running[u] \in Job \cup {NoJob} /\ RunOK(u)
          /\ u # t => pc'[u] = pc[u] /\ running'[u] = running[u]
          /\ running[u] # NoJob /\ running[u] = running[t] => u = t
      BY <1>a DEF JobInv, OneRuns
    <3>2. /\ running[u] \in Job => JobOK(running[u])
          /\ JobOK(j) /\ OpOK(t)
      BY <1>a, <1>b, <2>1
    <3>3. CASE u = t
      BY <2>1, <3>1, <3>2, <3>3 DEF RunOK, JobOK
    <3>4. CASE u # t
      BY <2>1, <3>1, <3>2, <3>4 DEF RunOK, JobOK, OpOK, Destroys
    <3> QED BY <3>3, <3>4
  <2>4. ASSUME NEW u \in Task PROVE OpOK(u)'
    <3>1. /\ op[u] \in Job \cup {NoJob} /\ OpOK(u)
          /\ u # t => pc'[u] = pc[u] /\ op'[u] = op[u]
      BY <1>a
    <3>2. Destroys(u) /\ Destroys(t) /\ op[u] = op[t] => u = t
      BY DEF JobInv, OneDestroys
    <3>3. CASE u = t
      BY <1>a, <2>1, <3>1, <3>3 DEF RunOK, OpOK, Destroys
    <3>4. CASE u # t
      BY <2>1, <3>1, <3>2, <3>4 DEF OpOK, Destroys
    <3> QED BY <3>3, <3>4
  <2>5. OneRuns'
    <3>1. \A u \in Task : running'[u] \in {running[u], NoJob}
      BY <1>a, <2>1
    <3> QED BY <3>1 DEF OneRuns, JobInv
  <2>6. OneDestroys'
    <3>1. \A u \in Task : Destroys(u)' => Destroys(u) /\ op'[u] = op[u]
      BY <1>a, <2>1 DEF Destroys
    <3> QED BY <3>1 DEF OneDestroys, JobInv
  <2> QED BY <2>2, <2>3, <2>4, <2>5, <2>6 DEF JobInv
<1>5. ASSUME NEW j \in Job, SubmitFails(t, j) PROVE JobInv'
  <2>1. /\ pc[t] = "idle" /\ op[t] = NoJob /\ handle[j] = "none"
        /\ handle'[j] = "lost" /\ job' = job
        /\ running'[t] = running[t] /\ op'[t] = op[t] /\ pc'[t] = pc[t]
        /\ \A k \in Job : k # j => handle'[k] = handle[k] /\ job'[k] = job[k]
    BY <1>0, <1>5 DEF SubmitFails, Free, objects, tasks
  <2>2. ASSUME NEW k \in Job PROVE JobOK(k)'
    <3>1. JobOK(k) /\ RunOK(t) /\ OpOK(t)
      BY <1>a, <1>b
    <3> QED BY <2>1, <3>1 DEF JobOK, RunOK, OpOK, Destroys
  <2>3. ASSUME NEW u \in Task PROVE RunOK(u)'
    <3>1. /\ running[u] \in Job \cup {NoJob} /\ RunOK(u)
          /\ u # t => pc'[u] = pc[u] /\ running'[u] = running[u]
          /\ running[u] # NoJob /\ running[u] = running[t] => u = t
      BY <1>a DEF JobInv, OneRuns
    <3>2. /\ running[u] \in Job => JobOK(running[u])
          /\ JobOK(j) /\ OpOK(t)
      BY <1>a, <1>b, <2>1
    <3>3. CASE u = t
      BY <2>1, <3>1, <3>2, <3>3 DEF RunOK, JobOK
    <3>4. CASE u # t
      BY <2>1, <3>1, <3>2, <3>4 DEF RunOK, JobOK, OpOK, Destroys
    <3> QED BY <3>3, <3>4
  <2>4. ASSUME NEW u \in Task PROVE OpOK(u)'
    <3>1. /\ op[u] \in Job \cup {NoJob} /\ OpOK(u)
          /\ u # t => pc'[u] = pc[u] /\ op'[u] = op[u]
      BY <1>a
    <3>2. Destroys(u) /\ Destroys(t) /\ op[u] = op[t] => u = t
      BY DEF JobInv, OneDestroys
    <3>3. CASE u = t
      BY <1>a, <2>1, <3>1, <3>3 DEF RunOK, OpOK, Destroys
    <3>4. CASE u # t
      BY <2>1, <3>1, <3>2, <3>4 DEF OpOK, Destroys
    <3> QED BY <3>3, <3>4
  <2>5. OneRuns'
    <3>1. \A u \in Task : running'[u] \in {running[u], NoJob}
      BY <1>a, <2>1
    <3> QED BY <3>1 DEF OneRuns, JobInv
  <2>6. OneDestroys'
    <3>1. \A u \in Task : Destroys(u)' => Destroys(u) /\ op'[u] = op[u]
      BY <1>a, <2>1 DEF Destroys
    <3> QED BY <3>1 DEF OneDestroys, JobInv
  <2> QED BY <2>2, <2>3, <2>4, <2>5, <2>6 DEF JobInv
<1>6. ASSUME NEW j \in Job, Cancel(t, j) PROVE JobInv'
  <2>1. /\ pc[t] = "idle" /\ op[t] = NoJob /\ handle[j] = "live"
        /\ ~job[j].ready /\ ~job[j].destroyed
        /\ handle' = handle /\ job'[j].ready = TRUE /\ job'[j].cancelled = TRUE
        /\ job'[j].destroyed = job[j].destroyed /\ job'[j].taken = job[j].taken
        /\ running'[t] = running[t] /\ op'[t] = op[t] /\ pc'[t] = pc[t]
        /\ \A k \in Job : k # j => handle'[k] = handle[k] /\ job'[k] = job[k]
    BY <1>0, <1>6 DEF Cancel, Free, objects, tasks
  <2>2. ASSUME NEW k \in Job PROVE JobOK(k)'
    <3>1. JobOK(k) /\ RunOK(t) /\ OpOK(t)
      BY <1>a, <1>b
    <3> QED BY <2>1, <3>1 DEF JobOK, RunOK, OpOK, Destroys
  <2>3. ASSUME NEW u \in Task PROVE RunOK(u)'
    <3>1. /\ running[u] \in Job \cup {NoJob} /\ RunOK(u)
          /\ u # t => pc'[u] = pc[u] /\ running'[u] = running[u]
          /\ running[u] # NoJob /\ running[u] = running[t] => u = t
      BY <1>a DEF JobInv, OneRuns
    <3>2. /\ running[u] \in Job => JobOK(running[u])
          /\ JobOK(j) /\ OpOK(t)
      BY <1>a, <1>b, <2>1
    <3>3. CASE u = t
      BY <2>1, <3>1, <3>2, <3>3 DEF RunOK, JobOK
    <3>4. CASE u # t
      BY <2>1, <3>1, <3>2, <3>4 DEF RunOK, JobOK, OpOK, Destroys
    <3> QED BY <3>3, <3>4
  <2>4. ASSUME NEW u \in Task PROVE OpOK(u)'
    <3>1. /\ op[u] \in Job \cup {NoJob} /\ OpOK(u)
          /\ u # t => pc'[u] = pc[u] /\ op'[u] = op[u]
      BY <1>a
    <3>2. Destroys(u) /\ Destroys(t) /\ op[u] = op[t] => u = t
      BY DEF JobInv, OneDestroys
    <3>3. CASE u = t
      BY <1>a, <2>1, <3>1, <3>3 DEF RunOK, OpOK, Destroys
    <3>4. CASE u # t
      BY <2>1, <3>1, <3>2, <3>4 DEF OpOK, Destroys
    <3> QED BY <3>3, <3>4
  <2>5. OneRuns'
    <3>1. \A u \in Task : running'[u] \in {running[u], NoJob}
      BY <1>a, <2>1
    <3> QED BY <3>1 DEF OneRuns, JobInv
  <2>6. OneDestroys'
    <3>1. \A u \in Task : Destroys(u)' => Destroys(u) /\ op'[u] = op[u]
      BY <1>a, <2>1 DEF Destroys
    <3> QED BY <3>1 DEF OneDestroys, JobInv
  <2> QED BY <2>2, <2>3, <2>4, <2>5, <2>6 DEF JobInv
<1>7. ASSUME NEW j \in Job, FieldAccess(t, j) PROVE JobInv'
  <2>1. /\ pc[t] = "idle" /\ op[t] = NoJob /\ handle[j] = "live" /\ ~job[j].destroyed
        /\ UNCHANGED <<handle, job>>
        /\ running'[t] = running[t] /\ op'[t] = j /\ pc'[t] = "field"
        /\ \A k \in Job : k # j => handle'[k] = handle[k] /\ job'[k] = job[k]
    BY <1>0, <1>7 DEF FieldAccess, Goto, Free, objects, tasks
  <2>2. ASSUME NEW k \in Job PROVE JobOK(k)'
    <3>1. JobOK(k) /\ RunOK(t) /\ OpOK(t)
      BY <1>a, <1>b
    <3> QED BY <2>1, <3>1 DEF JobOK, RunOK, OpOK, Destroys
  <2>3. ASSUME NEW u \in Task PROVE RunOK(u)'
    <3>1. /\ running[u] \in Job \cup {NoJob} /\ RunOK(u)
          /\ u # t => pc'[u] = pc[u] /\ running'[u] = running[u]
          /\ running[u] # NoJob /\ running[u] = running[t] => u = t
      BY <1>a DEF JobInv, OneRuns
    <3>2. /\ running[u] \in Job => JobOK(running[u])
          /\ JobOK(j) /\ OpOK(t)
      BY <1>a, <1>b, <2>1
    <3>3. CASE u = t
      BY <2>1, <3>1, <3>2, <3>3 DEF RunOK, JobOK
    <3>4. CASE u # t
      BY <2>1, <3>1, <3>2, <3>4 DEF RunOK, JobOK, OpOK, Destroys
    <3> QED BY <3>3, <3>4
  <2>4. ASSUME NEW u \in Task PROVE OpOK(u)'
    <3>1. /\ op[u] \in Job \cup {NoJob} /\ OpOK(u)
          /\ u # t => pc'[u] = pc[u] /\ op'[u] = op[u]
      BY <1>a
    <3>2. Destroys(u) /\ Destroys(t) /\ op[u] = op[t] => u = t
      BY DEF JobInv, OneDestroys
    <3>3. CASE u = t
      BY <1>a, <2>1, <3>1, <3>3 DEF RunOK, OpOK, Destroys
    <3>4. CASE u # t
      BY <2>1, <3>1, <3>2, <3>4 DEF OpOK, Destroys
    <3> QED BY <3>3, <3>4
  <2>5. OneRuns'
    <3>1. \A u \in Task : running'[u] \in {running[u], NoJob}
      BY <1>a, <2>1
    <3> QED BY <3>1 DEF OneRuns, JobInv
  <2>6. OneDestroys'
    <3>1. \A u \in Task : Destroys(u)' => Destroys(u) /\ op'[u] = op[u]
      BY <1>a, <2>1 DEF Destroys
    <3> QED BY <3>1 DEF OneDestroys, JobInv
  <2> QED BY <2>2, <2>3, <2>4, <2>5, <2>6 DEF JobInv
<1>8. ASSUME NEW j \in Job, Destroy(t, j) PROVE JobInv'
  <2>1. /\ pc[t] = "idle" /\ op[t] = NoJob /\ handle[j] = "live"
        /\ ~job[j].destroyed /\ job[j].ready
        /\ job[j].cancelled => job[j].taken /\ \A w \in Task : running[w] # j
        /\ handle' = handle /\ job'[j].destroyed = TRUE
        /\ job'[j].cancelled = job[j].cancelled
        /\ job'[j].ready = job[j].ready
        /\ job'[j].taken = job[j].taken
        /\ running'[t] = running[t] /\ op'[t] = j /\ pc'[t] = "destroy"
        /\ \A k \in Job : k # j => handle'[k] = handle[k] /\ job'[k] = job[k]
    BY <1>0, <1>8 DEF Destroy, Goto, Free, NotRun, objects, tasks
  <2>2. ASSUME NEW k \in Job PROVE JobOK(k)'
    <3>1. JobOK(k) /\ RunOK(t) /\ OpOK(t)
      BY <1>a, <1>b
    <3> QED BY <2>1, <3>1 DEF JobOK, RunOK, OpOK, Destroys
  <2>3. ASSUME NEW u \in Task PROVE RunOK(u)'
    <3>1. /\ running[u] \in Job \cup {NoJob} /\ RunOK(u)
          /\ u # t => pc'[u] = pc[u] /\ running'[u] = running[u]
          /\ running[u] # NoJob /\ running[u] = running[t] => u = t
      BY <1>a DEF JobInv, OneRuns
    <3>2. /\ running[u] \in Job => JobOK(running[u])
          /\ JobOK(j) /\ OpOK(t)
      BY <1>a, <1>b, <2>1
    <3>3. CASE u = t
      BY <2>1, <3>1, <3>2, <3>3 DEF RunOK, JobOK
    <3>4. CASE u # t
      BY <2>1, <3>1, <3>2, <3>4 DEF RunOK, JobOK, OpOK, Destroys
    <3> QED BY <3>3, <3>4
  <2>4. ASSUME NEW u \in Task PROVE OpOK(u)'
    <3>1. /\ op[u] \in Job \cup {NoJob} /\ OpOK(u)
          /\ u # t => pc'[u] = pc[u] /\ op'[u] = op[u]
      BY <1>a
    <3>2. Destroys(u) /\ Destroys(t) /\ op[u] = op[t] => u = t
      BY DEF JobInv, OneDestroys
    <3>3. CASE u = t
      BY <1>a, <2>1, <3>1, <3>3 DEF RunOK, OpOK, Destroys
    <3>4. CASE u # t
      BY <2>1, <3>1, <3>2, <3>4 DEF OpOK, Destroys
    <3> QED BY <3>3, <3>4
  <2>5. OneRuns'
    <3>1. \A u \in Task : running'[u] \in {running[u], NoJob}
      BY <1>a, <2>1
    <3> QED BY <3>1 DEF OneRuns, JobInv
  <2>6. OneDestroys'
    <3>1. \A u \in Task : Destroys(u)' /\ u # t => Destroys(u) /\ op'[u] = op[u] /\ op[u] # j
      BY <1>a, <2>1 DEF Destroys, OpOK
    <3> QED BY <2>1, <3>1 DEF OneDestroys, JobInv
  <2> QED BY <2>2, <2>3, <2>4, <2>5, <2>6 DEF JobInv
<1>9. ASSUME NEW j \in Job, Take(t, j) PROVE JobInv'
  <2>1. /\ pc[t] = "idle" /\ op[t] = NoJob /\ running[t] = NoJob
        /\ handle[j] = "live" /\ ~job[j].taken
        /\ handle' = handle /\ job'[j].taken = TRUE
        /\ job'[j].cancelled = job[j].cancelled
        /\ job'[j].ready = job[j].ready
        /\ job'[j].destroyed = job[j].destroyed
        /\ running'[t] = j /\ op'[t] = NoJob /\ pc'[t] = "taken"
        /\ \A k \in Job : k # j => handle'[k] = handle[k] /\ job'[k] = job[k]
    BY <1>0, <1>9 DEF Take, Goto, Free, objects, tasks
  <2>2. ASSUME NEW k \in Job PROVE JobOK(k)'
    <3>1. JobOK(k) /\ RunOK(t) /\ OpOK(t)
      BY <1>a, <1>b
    <3> QED BY <2>1, <3>1 DEF JobOK, RunOK, OpOK, Destroys
  <2>3. ASSUME NEW u \in Task PROVE RunOK(u)'
    <3>1. /\ running[u] \in Job \cup {NoJob} /\ RunOK(u)
          /\ u # t => pc'[u] = pc[u] /\ running'[u] = running[u]
          /\ running[u] # NoJob /\ running[u] = running[t] => u = t
      BY <1>a DEF JobInv, OneRuns
    <3>2. /\ running[u] \in Job => JobOK(running[u])
          /\ JobOK(j) /\ OpOK(t)
      BY <1>a, <1>b, <2>1
    <3>3. CASE u = t
      BY <2>1, <3>1, <3>2, <3>3 DEF RunOK, JobOK
    <3>4. CASE u # t
      BY <2>1, <3>1, <3>2, <3>4 DEF RunOK, JobOK, OpOK, Destroys
    <3> QED BY <3>3, <3>4
  <2>4. ASSUME NEW u \in Task PROVE OpOK(u)'
    <3>1. /\ op[u] \in Job \cup {NoJob} /\ OpOK(u)
          /\ u # t => pc'[u] = pc[u] /\ op'[u] = op[u]
      BY <1>a
    <3>2. Destroys(u) /\ Destroys(t) /\ op[u] = op[t] => u = t
      BY DEF JobInv, OneDestroys
    <3>3. CASE u = t
      BY <1>a, <2>1, <3>1, <3>3 DEF RunOK, OpOK, Destroys
    <3>4. CASE u # t
      BY <2>1, <3>1, <3>2, <3>4 DEF OpOK, Destroys
    <3> QED BY <3>3, <3>4
  <2>5. OneRuns'
    <3>1. \A u \in Task : u # t => running'[u] = running[u] /\ running[u] # j
      BY <1>a, <2>1 DEF RunOK
    <3> QED BY <2>1, <3>1 DEF OneRuns, JobInv
  <2>6. OneDestroys'
    <3>1. \A u \in Task : Destroys(u)' => Destroys(u) /\ op'[u] = op[u]
      BY <1>a, <2>1 DEF Destroys
    <3> QED BY <3>1 DEF OneDestroys, JobInv
  <2> QED BY <2>2, <2>3, <2>4, <2>5, <2>6 DEF JobInv
<1> QED BY <1>1, <1>2, <1>3, <1>4, <1>5, <1>6, <1>7, <1>8, <1>9 DEF JobSteps

LEMMA JobNext ==
    ASSUME Configured, TypeInv, JobInv, NEW t \in Task, Moves(t)
    PROVE  JobInv'
BY TypeNext, JobSteady, JobStays, JobChanges

-----------------------------------------------------------------------------
(* References.                                                             *)

Works(t, j) == running[t] = j /\ pc[t] \notin {"taken", "acquire"}
Holds(t, j) == op[t] = j /\ pc[t] \in {"field", "notify", "walk", "release", "release_own"}
Drops(t, j) == op[t] = j /\ pc[t] \in {"end_handle", "free_handle"}
Ends(t, j)  == op[t] = j /\ pc[t] \in {"end", "end_own", "end_handle"}

Kept(j) == handle[j] \in {"live", "lost"} /\ ~\E t \in Task : Drops(t, j)

One(b) == IF b THEN 1 ELSE 0

Workers(j) == {t \in Task : Works(t, j)}
Holders(j) == {t \in Task : Holds(t, j)}

Counted ==
    \A j \in Job :
        refs[j] = One(Kept(j)) + Cardinality(Workers(j)) + Cardinality(Holders(j))

(* Whoever frees a context is alone, and the count is zero.                *)
EndOK ==
    /\ \A j \in Job : refs[j] # 0 => ctx[j] = "live"
    /\ \A j \in Job : handle[j] = "none" => refs[j] = 0 /\ ctx[j] = "none"
    /\ \A t \in Task : \A j \in Job : Ends(t, j) => refs[j] = 0 /\ ctx[j] = "live"
    /\ \A t, u \in Task : \A j \in Job : Ends(t, j) /\ Ends(u, j) => t = u

CountInv == Counted /\ EndOK


(* Others than t that have dropped the reference of the handle.            *)
OthersDrop(t, j) == \E u \in Task \ {t} : Drops(u, j)

(* What a step of t changes in the three counts is what it changes for t.  *)
LEMMA CountsMove ==
    ASSUME Configured, NEW t \in Task, Stays(t), NEW j \in Job
    PROVE  /\ Cardinality(Workers(j)) \in Nat /\ Cardinality(Holders(j)) \in Nat
           /\ Cardinality(Workers(j))'
                 = Cardinality(Workers(j)) + One(Works(t, j)') - One(Works(t, j))
           /\ Cardinality(Holders(j))'
                 = Cardinality(Holders(j)) + One(Holds(t, j)') - One(Holds(t, j))
           /\ Kept(j) <=> handle[j] \in {"live", "lost"} /\ ~Drops(t, j) /\ ~OthersDrop(t, j)
           /\ Kept(j)' <=> handle'[j] \in {"live", "lost"} /\ ~Drops(t, j)' /\ ~OthersDrop(t, j)
<1>1. /\ IsFiniteSet(Workers(j)) /\ IsFiniteSet(Holders(j))
  BY FS_Subset DEF Configured, Workers, Holders
<1>2. /\ Workers(j) \ {t} = Workers(j)' \ {t}
      /\ t \in Workers(j) <=> Works(t, j)
      /\ t \in Workers(j)' <=> Works(t, j)'
  BY DEF Workers, Works, Stays
<1>3. /\ Holders(j) \ {t} = Holders(j)' \ {t}
      /\ t \in Holders(j) <=> Holds(t, j)
      /\ t \in Holders(j)' <=> Holds(t, j)'
  BY DEF Holders, Holds, Stays
<1>4. PICK W : W = Workers(j)'
  OBVIOUS
<1>5. PICK H : H = Holders(j)'
  OBVIOUS
<1>6. Cardinality(Workers(j)) \in Nat
      /\ Cardinality(W) = Cardinality(Workers(j)) + One(Works(t, j)') - One(Works(t, j))
  <2>1. Workers(j) \ {t} = W \ {t}
    BY <1>2, <1>4
  <2>2. /\ Cardinality(Workers(j)) \in Nat
        /\ Cardinality(W) = Cardinality(Workers(j)) + (IF t \in W THEN 1 ELSE 0)
                              - (IF t \in Workers(j) THEN 1 ELSE 0)
    BY <1>1, <2>1, CountChange
  <2> QED BY <1>2, <1>4, <2>2 DEF One
<1>7. Cardinality(Holders(j)) \in Nat
      /\ Cardinality(H) = Cardinality(Holders(j)) + One(Holds(t, j)') - One(Holds(t, j))
  <2>1. Holders(j) \ {t} = H \ {t}
    BY <1>3, <1>5
  <2>2. /\ Cardinality(Holders(j)) \in Nat
        /\ Cardinality(H) = Cardinality(Holders(j)) + (IF t \in H THEN 1 ELSE 0)
                              - (IF t \in Holders(j) THEN 1 ELSE 0)
    BY <1>1, <2>1, CountChange
  <2> QED BY <1>3, <1>5, <2>2 DEF One
<1>8. Kept(j) <=> handle[j] \in {"live", "lost"} /\ ~Drops(t, j) /\ ~OthersDrop(t, j)
  BY DEF Kept, OthersDrop
<1>9. Kept(j)' <=> handle'[j] \in {"live", "lost"} /\ ~Drops(t, j)' /\ ~OthersDrop(t, j)
  <2>1. \A u \in Task \ {t} : Drops(u, j)' <=> Drops(u, j)
    BY DEF Drops, Stays
  <2> QED BY <2>1 DEF Kept, OthersDrop
<1> QED BY <1>4, <1>5, <1>6, <1>7, <1>8, <1>9

(* Whoever has a reference is counted.                                     *)
LEMMA Referenced ==
    ASSUME Configured, TypeInv, Counted, NEW j \in Job
    PROVE  /\ \A t \in Task : Works(t, j) \/ Holds(t, j) => refs[j] >= 1
           /\ Kept(j) => refs[j] >= 1
           /\ refs[j] \in Nat
<1>1. IsFiniteSet(Workers(j)) /\ IsFiniteSet(Holders(j))
  BY FS_Subset DEF Configured, Workers, Holders
<1>2. Cardinality(Workers(j)) \in Nat /\ Cardinality(Holders(j)) \in Nat
  BY <1>1, FS_CardinalityType
<1>3. refs[j] = One(Kept(j)) + Cardinality(Workers(j)) + Cardinality(Holders(j))
  BY DEF Counted
<1>4. Kept(j) => refs[j] >= 1
  BY <1>2, <1>3 DEF One
<1>5. refs[j] >= Cardinality(Workers(j)) /\ refs[j] >= Cardinality(Holders(j)) /\ refs[j] \in Nat
  BY <1>2, <1>3 DEF One
<1>6. ASSUME NEW t \in Task, Works(t, j) PROVE Cardinality(Workers(j)) >= 1
  <2>1. t \in Workers(j) \ {}
    BY <1>6 DEF Workers
  <2>2. Cardinality({}) = 0
    BY FS_EmptySet
  <2> QED BY <1>1, <1>2, <2>1, <2>2, CountGains
<1>7. ASSUME NEW t \in Task, Holds(t, j) PROVE Cardinality(Holders(j)) >= 1
  <2>1. t \in Holders(j) \ {}
    BY <1>7 DEF Holders
  <2>2. Cardinality({}) = 0
    BY FS_EmptySet
  <2> QED BY <1>1, <1>2, <2>1, <2>2, CountGains
<1> QED BY <1>2, <1>4, <1>5, <1>6, <1>7

(* The handle has its reference while nobody destroys it, and while the    *)
(* task that does has yet to give it back.                                 *)
LEMMA HandleKeeps ==
    ASSUME JobInv, NEW j \in Job, handle[j] = "live", NoJob \notin Job
    PROVE  /\ ~job[j].destroyed => Kept(j)
           /\ \A t \in Task : op[t] = j /\ Destroys(t) /\ ~Drops(t, j) => Kept(j)
           /\ \A t \in Task : op[t] = j /\ Destroys(t) => ~OthersDrop(t, j)
<1>1. \A t \in Task : Drops(t, j) => Destroys(t) /\ op[t] = j
  BY DEF Drops, Destroys
<1>2. \A t \in Task : Destroys(t) /\ op[t] = j => job[j].destroyed
  BY DEF JobInv, OpOK
<1>3. \A t, u \in Task : Destroys(t) /\ Destroys(u) /\ op[t] = j /\ op[u] = j => t = u
  BY DEF JobInv, OneDestroys
<1> QED BY <1>1, <1>2, <1>3 DEF Kept, OthersDrop

(* Most steps give and take no reference, and end no context.              *)
RefSame(t) ==
    /\ UNCHANGED <<handle, refs, ctx>>
    /\ \A j \in Job : /\ Works(t, j)' <=> Works(t, j)
                      /\ Holds(t, j)' <=> Holds(t, j)
                      /\ Drops(t, j)' <=> Drops(t, j)
                      /\ Ends(t, j)' <=> Ends(t, j)

(* A step that moves no reference keeps the count.                         *)
LEMMA CountStays ==
    ASSUME Configured, CountInv, NEW t \in Task, Stays(t), RefSame(t)
    PROVE  CountInv'
<1>1. ASSUME NEW j \in Job
      PROVE  (refs[j] = One(Kept(j)) + Cardinality(Workers(j)) + Cardinality(Holders(j)))'
  <2>1. refs[j] = One(Kept(j)) + Cardinality(Workers(j)) + Cardinality(Holders(j))
    BY DEF CountInv, Counted
  <2>2. Kept(j)' <=> Kept(j)
    BY CountsMove DEF RefSame
  <2>3. /\ Cardinality(Workers(j))' = Cardinality(Workers(j))
        /\ Cardinality(Holders(j))' = Cardinality(Holders(j))
    BY CountsMove DEF RefSame, One
  <2> QED BY <2>1, <2>2, <2>3 DEF RefSame, One
<1>2. \A u \in Task : \A j \in Job : Ends(u, j)' <=> Ends(u, j)
  BY DEF RefSame, Stays, Ends
<1>3. EndOK'
  BY <1>2 DEF CountInv, EndOK, RefSame
<1> QED BY <1>1, <1>3 DEF CountInv, Counted

RefSteps(t) ==
    \/ Acquire(t) \/ Detach(t) \/ ReleaseOne(t) \/ ReleaseLast(t) \/ EndContext(t)
    \/ EnterContext(t) \/ FreeHandle(t)
    \/ \E j \in Job : Submit(t, j) \/ SubmitFails(t, j) \/ FieldAccess(t, j)

(* Which steps move no reference.                                          *)
LEMMA RefSteady ==
    ASSUME Configured, NEW t \in Task, TypeParts, TaskOK(t), Moves(t), ~RefSteps(t)
    PROVE  RefSame(t)
<1>1. CASE SkipRun(t)
  BY <1>1 DEF SkipRun, Goto, RefSame, Works, Holds, Drops, Ends, TaskOK, Configured,
              TypeParts, TaskType, objects, tasks
<1>2. CASE StartRun(t)
  BY <1>2 DEF StartRun, Goto, RefSame, Works, Holds, Drops, Ends, TaskOK, Configured,
              TypeParts, TaskType, objects, tasks
<1>3. CASE EndRun(t)
  BY <1>3 DEF EndRun, Goto, Free, RefSame, Works, Holds, Drops, Ends, TaskOK,
              Configured, TypeParts, TaskType, objects, tasks
<1>4. CASE FieldDone(t)
  BY <1>4 DEF FieldDone, Goto, RefSame, Works, Holds, Drops, Ends, TaskOK, Configured,
              TypeParts, TaskType, objects, tasks
<1>5. CASE NotifyBegin(t)
  BY <1>5 DEF NotifyBegin, Goto, RefSame, Works, Holds, Drops, Ends, TaskOK, Configured,
              TypeParts, TaskType, objects, tasks
<1>6. CASE NotifyOne(t)
  BY <1>6 DEF NotifyOne, RefSame, Works, Holds, Drops, Ends, TaskOK, Configured,
              TypeParts, TaskType, objects, tasks
<1>7. CASE LeaveContext(t)
  BY <1>7 DEF LeaveContext, Goto, RefSame, Works, Holds, Drops, Ends, TaskOK,
              Configured, TypeParts, TaskType, objects, tasks
<1>8. CASE BuildHeap(t)
  BY <1>8 DEF BuildHeap, InContext, RefSame, Works, Holds, Drops, Ends, TaskOK,
              Configured, TypeParts, TaskType, objects, tasks
<1>9. ASSUME NEW v \in Value, Destruct(t, v) PROVE RefSame(t)
  BY <1>9 DEF Destruct, RefSame, Works, Holds, Drops, Ends, TaskOK, Configured,
              TypeParts, TaskType, objects, tasks
<1>10. ASSUME NEW v \in Value, TlsSet(t, v) PROVE RefSame(t)
  BY <1>10 DEF TlsSet, TakenFrom, InContext, RefSame, Works, Holds, Drops, Ends, TaskOK,
               Configured, TypeParts, TaskType, objects, tasks
<1>11. ASSUME NEW l \in Listener, Subscribe(t, l) PROVE RefSame(t)
  BY <1>11 DEF Subscribe, Free, RefSame, Works, Holds, Drops, Ends, TaskOK, Configured,
               TypeParts, TaskType, objects, tasks
<1>12. ASSUME NEW j \in Job, Cancel(t, j) PROVE RefSame(t)
  BY <1>12 DEF Cancel, Free, RefSame, Works, Holds, Drops, Ends, TaskOK, Configured,
               TypeParts, TaskType, objects, tasks
<1>13. ASSUME NEW j \in Job, Destroy(t, j) PROVE RefSame(t)
  BY <1>13 DEF Destroy, Goto, Free, RefSame, Works, Holds, Drops, Ends, TaskOK,
               Configured, TypeParts, TaskType, objects, tasks
<1>14. ASSUME NEW j \in Job, Take(t, j) PROVE RefSame(t)
  BY <1>14 DEF Take, Goto, Free, RefSame, Works, Holds, Drops, Ends, TaskOK, Configured,
               TypeParts, TaskType, objects, tasks
<1> QED BY <1>1, <1>2, <1>3, <1>4, <1>5, <1>6, <1>7, <1>8, <1>9, <1>10, <1>11, <1>12,
           <1>13, <1>14 DEF Moves, Step, Call, RefSteps


(* The others are about one job.                                           *)
Apart(t, j) ==
    \A k \in Job \ {j} :
        /\ refs'[k] = refs[k] /\ ctx'[k] = ctx[k] /\ handle'[k] = handle[k]
        /\ Works(t, k)' <=> Works(t, k)
        /\ Holds(t, k)' <=> Holds(t, k)
        /\ Drops(t, k)' <=> Drops(t, k)
        /\ Ends(t, k)' <=> Ends(t, k)

Balance(t, j) ==
    refs'[j] + One(Kept(j)) + One(Works(t, j)) + One(Holds(t, j))
        = refs[j] + One(Kept(j)') + One(Works(t, j)') + One(Holds(t, j)')

OthersEnd(t, j) == \E u \in Task \ {t} : Ends(u, j)

EndOf(t, j) ==
    /\ refs'[j] # 0 => ctx'[j] = "live"
    /\ handle'[j] # "none"
    /\ Ends(t, j)' => refs'[j] = 0 /\ ctx'[j] = "live" /\ ~OthersEnd(t, j)
    /\ OthersEnd(t, j) => refs'[j] = 0 /\ ctx'[j] = "live"

(* A step that moves references to one job, and counts them, keeps it too. *)
LEMMA CountOne ==
    ASSUME Configured, CountInv, NEW t \in Task, Stays(t), NEW j \in Job, Apart(t, j),
           refs'[j] \in Int, Balance(t, j), EndOf(t, j)
    PROVE  CountInv'
<1>1. ASSUME NEW k \in Job
      PROVE  (refs[k] = One(Kept(k)) + Cardinality(Workers(k)) + Cardinality(Holders(k)))'
  <2>1. refs[k] = One(Kept(k)) + Cardinality(Workers(k)) + Cardinality(Holders(k))
    BY DEF CountInv, Counted
  <2>2. /\ Cardinality(Workers(k)) \in Nat /\ Cardinality(Holders(k)) \in Nat
        /\ Cardinality(Workers(k))'
              = Cardinality(Workers(k)) + One(Works(t, k)') - One(Works(t, k))
        /\ Cardinality(Holders(k))'
              = Cardinality(Holders(k)) + One(Holds(t, k)') - One(Holds(t, k))
    BY CountsMove
  <2>3. CASE k = j
    BY <2>1, <2>2, <2>3 DEF Balance, One
  <2>4. CASE k # j
    <3>1. Kept(k)' <=> Kept(k)
      BY <2>4, CountsMove DEF Apart
    <3>2. One(Kept(k)') = One(Kept(k)) /\ One(Kept(k)) \in Nat
      BY <3>1 DEF One
    <3>3. One(Works(t, k)') = One(Works(t, k)) /\ One(Works(t, k)) \in Nat
      BY <2>4 DEF One, Apart
    <3>4. One(Holds(t, k)') = One(Holds(t, k)) /\ One(Holds(t, k)) \in Nat
      BY <2>4 DEF One, Apart
    <3>5. refs'[k] = refs[k]
      BY <2>4 DEF Apart
    <3> QED BY <2>1, <2>2, <3>2, <3>3, <3>4, <3>5
  <2> QED BY <2>3, <2>4
<1>2. \A u \in Task \ {t} : \A k \in Job : Ends(u, k)' <=> Ends(u, k)
  BY DEF Stays, Ends
<1>3. \A k \in Job : /\ refs'[k] # 0 => ctx'[k] = "live"
                     /\ handle'[k] = "none" => refs'[k] = 0 /\ ctx'[k] = "none"
  BY DEF CountInv, EndOK, Apart, EndOf
<1>4. ASSUME NEW u \in Task, NEW k \in Job, Ends(u, k)'
      PROVE  refs'[k] = 0 /\ ctx'[k] = "live"
  <2>1. CASE k # j
    BY <1>2, <1>4, <2>1 DEF Apart, CountInv, EndOK
  <2>2. CASE k = j
    BY <1>2, <1>4, <2>2 DEF EndOf, OthersEnd
  <2> QED BY <2>1, <2>2
<1>5. ASSUME NEW u \in Task, NEW w \in Task, NEW k \in Job, Ends(u, k)', Ends(w, k)'
      PROVE  u = w
  <2>1. CASE k # j
    <3>1. Ends(u, k) /\ Ends(w, k)
      BY <1>2, <1>5, <2>1 DEF Apart
    <3> QED BY <3>1 DEF CountInv, EndOK
  <2>2. CASE k = j
    <3>1. CASE u = t \/ w = t
      BY <1>2, <1>5, <2>2, <3>1 DEF EndOf, OthersEnd
    <3>2. CASE u # t /\ w # t
      BY <1>2, <1>5, <3>2 DEF CountInv, EndOK
    <3> QED BY <3>1, <3>2
  <2> QED BY <2>1, <2>2
<1> QED BY <1>1, <1>3, <1>4, <1>5 DEF CountInv, Counted, EndOK

(* A reference that is counted keeps the context from its end.             *)
LEMMA LiveWhileCounted ==
    ASSUME CountInv, NEW t \in Task, NEW j \in Job, refs[j] # 0
    PROVE  ctx[j] = "live" /\ ~OthersEnd(t, j) /\ handle[j] # "none"
BY DEF CountInv, EndOK, OthersEnd

(* The steps that move references, one by one.                             *)
LEMMA CountChanges ==
    ASSUME Configured, TypeInv, JobInv, CountInv, NEW t \in Task, Stays(t), TypeParts,
           RefSteps(t)
    PROVE  CountInv'
<1>0. /\ NoJob \notin Job /\ TaskOK(t)
      /\ op[t] \in Job \cup {NoJob} /\ running[t] \in Job \cup {NoJob}
      /\ pc = [u \in Task |-> pc[u]] /\ op = [u \in Task |-> op[u]]
      /\ running = [u \in Task |-> running[u]]
      /\ handle = [j \in Job |-> handle[j]] /\ ctx = [j \in Job |-> ctx[j]]
      /\ refs \in [Job -> Nat]
  BY DEF Configured, TypeInv, TypeParts, TaskType, ObjectType
<1>1. CASE Acquire(t)
  <2>0. running[t] \in Job
    BY <1>0, <1>1 DEF Acquire, TaskOK
  <2>1. PICK j \in Job : j = running[t]
    BY <2>0
  <2>3. /\ ~Works(t, j) /\ Works(t, j)'
        /\ op[t] = NoJob /\ op'[t] = NoJob
        /\ refs'[j] = refs[j] + 1 /\ UNCHANGED <<handle, ctx>>
        /\ \A k \in Job : k # j => refs'[k] = refs[k]
        /\ pc[t] = "acquire" /\ running'[t] = running[t] /\ pc'[t] = "idle"
    BY <1>0, <1>1, <2>1 DEF Acquire, Goto, TaskOK, Works
  <2>2. Apart(t, j)
    BY <2>1, <1>0, <2>3 DEF Apart, Works, Holds, Drops, Ends
  <2>4. Kept(j)
    <3>1. handle[j] = "live" /\ ~job[j].destroyed
      BY <1>0, <2>1, <2>3 DEF JobInv, RunOK
    <3> QED BY <1>0, <2>1, <3>1, HandleKeeps
  <2>5. refs[j] >= 1 /\ refs[j] \in Nat /\ ctx[j] = "live" /\ ~OthersEnd(t, j) /\ handle[j] # "none"
    BY <1>0, <2>1, <2>4, Referenced, LiveWhileCounted DEF CountInv
  <2>6. Kept(j)' <=> handle'[j] \in {"live", "lost"} /\ ~Drops(t, j)' /\ ~OthersDrop(t, j)
    BY <2>1, CountsMove
  <2>7. Kept(j) <=> handle[j] \in {"live", "lost"} /\ ~Drops(t, j) /\ ~OthersDrop(t, j)
    BY <2>1, CountsMove
  <2>8. Balance(t, j) /\ refs'[j] \in Int
    <3>1. ~Drops(t, j)' /\ ~Holds(t, j) /\ ~Holds(t, j)'
      BY <1>0, <2>1, <2>3 DEF Drops, Holds
    <3> QED BY <2>1, <2>3, <2>4, <2>5, <2>6, <2>7, <3>1 DEF Balance, One
  <2>9. EndOf(t, j)
    <3>1. ~Ends(t, j)'
      BY <1>0, <2>1, <2>3 DEF Ends
    <3> QED BY <2>1, <2>3, <2>5, <3>1 DEF EndOf
  <2> QED BY <1>0, <2>1, <2>2, <2>8, <2>9, CountOne

<1>2. CASE Detach(t)
  <2>0. running[t] \in Job
    BY <1>0, <1>2 DEF Detach, TaskOK
  <2>1. PICK j \in Job : j = running[t]
    BY <2>0
  <2>3. /\ pc[t] = "detach" /\ pc'[t] = "release" /\ op[t] = NoJob /\ op'[t] = running[t]
        /\ running'[t] = NoJob
        /\ UNCHANGED <<handle, ctx, refs>>
    BY <1>0, <1>2, <2>1 DEF Detach, Goto, TaskOK, objects
  <2>2. Apart(t, j)
    BY <2>1, <1>0, <2>3 DEF Apart, Works, Holds, Drops, Ends
  <2>4. Works(t, j)
    BY <2>1, <2>3 DEF Works
  <2>5. refs[j] >= 1 /\ refs[j] \in Nat /\ ctx[j] = "live" /\ ~OthersEnd(t, j) /\ handle[j] # "none"
    BY <1>0, <2>1, <2>4, Referenced, LiveWhileCounted DEF CountInv
  <2>6. Kept(j)' <=> handle'[j] \in {"live", "lost"} /\ ~Drops(t, j)' /\ ~OthersDrop(t, j)
    BY <2>1, CountsMove
  <2>7. Kept(j) <=> handle[j] \in {"live", "lost"} /\ ~Drops(t, j) /\ ~OthersDrop(t, j)
    BY <2>1, CountsMove
  <2>8. Balance(t, j) /\ refs'[j] \in Int
    <3>1. /\ ~Drops(t, j)' /\ ~Drops(t, j) /\ ~Holds(t, j)
      BY <1>0, <2>1, <2>3 DEF Drops, Holds
    <3>2. Holds(t, j)' /\ ~Works(t, j)'
      BY <1>0, <2>1, <2>3 DEF Works, Holds
    <3>3. Kept(j)' <=> Kept(j)
      BY <2>1, <2>3, <2>6, <2>7, <3>1
    <3> QED BY <2>1, <2>3, <2>4, <2>5, <3>1, <3>2, <3>3 DEF Balance, One
  <2>9. EndOf(t, j)
    <3>1. ~Ends(t, j)'
      BY <1>0, <2>1, <2>3 DEF Ends
    <3> QED BY <2>1, <2>3, <2>5, <3>1 DEF EndOf
  <2> QED BY <1>0, <2>1, <2>2, <2>8, <2>9, CountOne

<1>3. CASE EnterContext(t)
  <2>0. op[t] \in Job
    BY <1>0, <1>3 DEF EnterContext, TaskOK
  <2>1. PICK j \in Job : j = op[t]
    BY <2>0
  <2>3. /\ pc[t] = "destroy" /\ pc'[t] = "notify" /\ op'[t] = op[t] /\ running'[t] = running[t]
        /\ refs'[j] = refs[j] + 1 /\ UNCHANGED <<handle, ctx>>
        /\ \A k \in Job : k # j => refs'[k] = refs[k]
    BY <1>0, <1>3, <2>1 DEF EnterContext, Goto
  <2>2. Apart(t, j)
    BY <2>1, <1>0, <2>3 DEF Apart, Works, Holds, Drops, Ends
  <2>4. Kept(j)
    <3>1. Destroys(t) /\ ~Drops(t, j)
      BY <2>1, <2>3 DEF Destroys, Drops
    <3>2. handle[j] = "live"
      BY <1>0, <2>1, <3>1 DEF JobInv, OpOK
    <3> QED BY <1>0, <2>1, <3>1, <3>2, HandleKeeps
  <2>5. refs[j] >= 1 /\ refs[j] \in Nat /\ ctx[j] = "live" /\ ~OthersEnd(t, j) /\ handle[j] # "none"
    BY <1>0, <2>1, <2>4, Referenced, LiveWhileCounted DEF CountInv
  <2>6. Kept(j)' <=> handle'[j] \in {"live", "lost"} /\ ~Drops(t, j)' /\ ~OthersDrop(t, j)
    BY <2>1, CountsMove
  <2>7. Kept(j) <=> handle[j] \in {"live", "lost"} /\ ~Drops(t, j) /\ ~OthersDrop(t, j)
    BY <2>1, CountsMove
  <2>8. Balance(t, j) /\ refs'[j] \in Int
    <3>1. /\ ~Drops(t, j)' /\ ~Holds(t, j) /\ Holds(t, j)'
      BY <1>0, <2>1, <2>3 DEF Drops, Holds
    <3>2. Works(t, j)' <=> Works(t, j)
      BY <2>1, <2>3 DEF Works
    <3> QED BY <2>1, <2>3, <2>4, <2>5, <2>6, <2>7, <3>1, <3>2 DEF Balance, One
  <2>9. EndOf(t, j)
    <3>1. ~Ends(t, j)'
      BY <1>0, <2>1, <2>3 DEF Ends
    <3> QED BY <2>1, <2>3, <2>5, <3>1 DEF EndOf
  <2> QED BY <1>0, <2>1, <2>2, <2>8, <2>9, CountOne

<1>4. CASE FreeHandle(t)
  <2>0. op[t] \in Job
    BY <1>0, <1>4 DEF FreeHandle, TaskOK
  <2>1. PICK j \in Job : j = op[t]
    BY <2>0
  <2>3. /\ pc[t] = "free_handle" /\ pc'[t] = "idle" /\ op'[t] = NoJob /\ running'[t] = running[t]
        /\ UNCHANGED <<refs, ctx>> /\ handle'[j] = "freed"
        /\ \A k \in Job : k # j => handle'[k] = handle[k]
    BY <1>0, <1>4, <2>1 DEF FreeHandle, Goto
  <2>2. Apart(t, j)
    BY <2>1, <1>0, <2>3 DEF Apart, Works, Holds, Drops, Ends
  <2>4. ~Kept(j) /\ ~Kept(j)'
    BY <2>1, <2>3 DEF Kept, Drops
  <2>8. Balance(t, j) /\ refs'[j] \in Int
    <3>1. ~Holds(t, j) /\ ~Holds(t, j)' /\ refs[j] \in Nat
      BY <1>0, <2>1, <2>3 DEF Holds
    <3>2. Works(t, j)' <=> Works(t, j)
      BY <2>1, <2>3 DEF Works
    <3>a. One(Works(t, j)') = One(Works(t, j)) /\ One(Works(t, j)) \in Nat
      BY <3>2 DEF One
    <3>b. /\ One(Kept(j)) = 0 /\ One(Kept(j)') = 0
          /\ One(Holds(t, j)) = 0 /\ One(Holds(t, j)') = 0
      BY <2>1, <2>4, <3>1 DEF One
    <3> QED BY <2>1, <2>3, <3>1, <3>a, <3>b DEF Balance
  <2>9. EndOf(t, j)
    <3>1. ~Ends(t, j)'
      BY <1>0, <2>1, <2>3 DEF Ends
    <3> QED BY <2>1, <2>3, <3>1 DEF EndOf, CountInv, EndOK, OthersEnd
  <2> QED BY <1>0, <2>1, <2>2, <2>8, <2>9, CountOne

<1>5. ASSUME NEW j \in Job, Submit(t, j) PROVE CountInv'
  <2>1. j \in Job
    OBVIOUS
  <2>3. /\ pc[t] = "idle" /\ handle[j] = "none" /\ op[t] = NoJob
        /\ refs'[j] = 1 /\ ctx'[j] = "live" /\ handle'[j] = "live"
        /\ UNCHANGED <<pc, op, running>>
        /\ \A k \in Job : k # j => refs'[k] = refs[k] /\ ctx'[k] = ctx[k] /\ handle'[k] = handle[k]
    BY <1>0, <1>5 DEF Submit, Free, TaskOK, tasks
  <2>2. Apart(t, j)
    BY <2>1, <2>3 DEF Apart, Works, Holds, Drops, Ends
  <2>4. refs[j] = 0 /\ ctx[j] = "none"
    BY <2>1, <2>3 DEF CountInv, EndOK
  <2>5. ~OthersEnd(t, j)
    BY <2>1, <2>4 DEF CountInv, EndOK, OthersEnd
  <2>6. /\ ~Drops(t, j) /\ ~Drops(t, j)' /\ ~Holds(t, j) /\ ~Holds(t, j)' /\ ~Ends(t, j)'
    BY <2>1, <1>0, <2>3 DEF Drops, Holds, Ends
  <2>7. ~OthersDrop(t, j)
    <3>1. \A u \in Task : op[u] = j => handle[j] # "none"
      BY <1>0 DEF JobInv, OpOK
    <3> QED BY <2>1, <2>3, <3>1 DEF OthersDrop, Drops
  <2>8. Balance(t, j) /\ refs'[j] \in Int
    <3>1. Works(t, j)' <=> Works(t, j)
      BY <2>1, <2>3 DEF Works
    <3>2. Kept(j)' /\ ~Kept(j)
      BY <2>1, <2>3, <2>6, <2>7, CountsMove
    <3> QED BY <2>1, <2>3, <2>4, <3>1, <3>2, <2>6 DEF Balance, One
  <2>9. EndOf(t, j)
    BY <2>1, <2>3, <2>5, <2>6 DEF EndOf
  <2> QED BY <1>0, <2>1, <2>2, <2>8, <2>9, CountOne

<1>6. ASSUME NEW j \in Job, SubmitFails(t, j) PROVE CountInv'
  <2>1. j \in Job
    OBVIOUS
  <2>3. /\ pc[t] = "idle" /\ handle[j] = "none" /\ op[t] = NoJob
        /\ refs'[j] = 1 /\ ctx'[j] = "live" /\ handle'[j] = "lost"
        /\ UNCHANGED <<pc, op, running>>
        /\ \A k \in Job : k # j => refs'[k] = refs[k] /\ ctx'[k] = ctx[k] /\ handle'[k] = handle[k]
    BY <1>0, <1>6 DEF SubmitFails, Free, TaskOK, tasks
  <2>2. Apart(t, j)
    BY <2>1, <2>3 DEF Apart, Works, Holds, Drops, Ends
  <2>4. refs[j] = 0 /\ ctx[j] = "none"
    BY <2>1, <2>3 DEF CountInv, EndOK
  <2>5. ~OthersEnd(t, j)
    BY <2>1, <2>4 DEF CountInv, EndOK, OthersEnd
  <2>6. /\ ~Drops(t, j) /\ ~Drops(t, j)' /\ ~Holds(t, j) /\ ~Holds(t, j)' /\ ~Ends(t, j)'
    BY <2>1, <1>0, <2>3 DEF Drops, Holds, Ends
  <2>7. ~OthersDrop(t, j)
    <3>1. \A u \in Task : op[u] = j => handle[j] # "none"
      BY <1>0 DEF JobInv, OpOK
    <3> QED BY <2>1, <2>3, <3>1 DEF OthersDrop, Drops
  <2>8. Balance(t, j) /\ refs'[j] \in Int
    <3>1. Works(t, j)' <=> Works(t, j)
      BY <2>1, <2>3 DEF Works
    <3>2. Kept(j)' /\ ~Kept(j)
      BY <2>1, <2>3, <2>6, <2>7, CountsMove
    <3> QED BY <2>1, <2>3, <2>4, <3>1, <3>2, <2>6 DEF Balance, One
  <2>9. EndOf(t, j)
    BY <2>1, <2>3, <2>5, <2>6 DEF EndOf
  <2> QED BY <1>0, <2>1, <2>2, <2>8, <2>9, CountOne

<1>7. ASSUME NEW j \in Job, FieldAccess(t, j) PROVE CountInv'
  <2>1. j \in Job
    OBVIOUS
  <2>3. /\ pc[t] = "idle" /\ pc'[t] = "field" /\ op[t] = NoJob /\ op'[t] = j
        /\ handle[j] = "live" /\ ~job[j].destroyed
        /\ refs'[j] = refs[j] + 1 /\ UNCHANGED <<handle, ctx, running>>
        /\ \A k \in Job : k # j => refs'[k] = refs[k]
    BY <1>0, <1>7 DEF FieldAccess, Free, Goto, TaskOK
  <2>2. Apart(t, j)
    BY <2>1, <1>0, <2>3 DEF Apart, Works, Holds, Drops, Ends
  <2>4. Kept(j)
    BY <2>1, <1>0, <2>3, HandleKeeps
  <2>5. refs[j] >= 1 /\ refs[j] \in Nat /\ ctx[j] = "live" /\ ~OthersEnd(t, j) /\ handle[j] # "none"
    BY <1>0, <2>1, <2>4, Referenced, LiveWhileCounted DEF CountInv
  <2>6. Kept(j)' <=> handle'[j] \in {"live", "lost"} /\ ~Drops(t, j)' /\ ~OthersDrop(t, j)
    BY <2>1, CountsMove
  <2>7. Kept(j) <=> handle[j] \in {"live", "lost"} /\ ~Drops(t, j) /\ ~OthersDrop(t, j)
    BY <2>1, CountsMove
  <2>8. Balance(t, j) /\ refs'[j] \in Int
    <3>1. /\ ~Drops(t, j)' /\ ~Holds(t, j) /\ Holds(t, j)'
      BY <1>0, <2>1, <2>3 DEF Drops, Holds
    <3>2. Works(t, j)' <=> Works(t, j)
      BY <2>1, <2>3 DEF Works
    <3> QED BY <2>1, <2>3, <2>4, <2>5, <2>6, <2>7, <3>1, <3>2 DEF Balance, One
  <2>9. EndOf(t, j)
    <3>1. ~Ends(t, j)'
      BY <1>0, <2>1, <2>3 DEF Ends
    <3> QED BY <2>1, <2>3, <2>5, <3>1 DEF EndOf
  <2> QED BY <1>0, <2>1, <2>2, <2>8, <2>9, CountOne

<1>8. CASE ReleaseOne(t)
  <2>0. op[t] \in Job
    BY <1>0, <1>8 DEF ReleaseOne, Releasing, TaskOK
  <2>1. PICK j \in Job : j = op[t]
    BY <2>0
  <2>3. /\ Releasing(t) /\ running'[t] = running[t] /\ UNCHANGED <<handle, ctx>>
        /\ \A k \in Job : k # j => refs'[k] = refs[k]
        /\ refs[j] # 1
        /\ refs'[j] = IF refs[j] = 0 THEN 0 ELSE refs[j] - 1
        /\ pc[t] = "release" => pc'[t] = "idle" /\ op'[t] = NoJob
        /\ pc[t] = "release_own" => pc'[t] = "release_handle" /\ op'[t] = op[t]
        /\ pc[t] = "release_handle" => pc'[t] = "free_handle" /\ op'[t] = op[t]
    BY <1>0, <1>8, <2>1 DEF ReleaseOne, Goto, Continue, AfterRelease, LastOne, Releasing
  <2>2. Apart(t, j)
    BY <2>1, <1>0, <2>3 DEF Apart, Works, Holds, Drops, Ends, Releasing
  <2>a. /\ Works(t, j) <=> running[t] = op[t]
        /\ Works(t, j)' <=> Works(t, j)
        /\ ~Drops(t, j)
    BY <2>1, <2>3 DEF Works, Releasing, Drops
  <2>b. ASSUME pc[t] = "release_handle"
        PROVE  ~Holds(t, j)' /\ ~Holds(t, j) /\ Kept(j) /\ ~Kept(j)'
    <3>1. ~Holds(t, j) /\ ~Holds(t, j)' /\ Drops(t, j)'
      BY <2>1, <2>3, <2>b DEF Holds, Drops
    <3>2. Kept(j) /\ ~Kept(j)'
      <4>1. Destroys(t)
        BY <2>1, <2>b DEF Destroys
      <4>2. handle[j] = "live"
        BY <1>0, <2>1, <4>1 DEF JobInv, OpOK
      <4>3. Kept(j)
        BY <1>0, <2>1, <2>a, <4>1, <4>2, HandleKeeps
      <4> QED BY <2>1, <3>1, <4>3, CountsMove
    <3> QED BY <3>1, <3>2
  <2>c. ASSUME pc[t] \in {"release", "release_own"}
        PROVE  ~Holds(t, j)' /\ Holds(t, j) /\ (Kept(j)' <=> Kept(j))
    <3>1. Holds(t, j) /\ ~Holds(t, j)' /\ ~Drops(t, j)'
      BY <1>0, <2>1, <2>3, <2>c DEF Holds, Drops
    <3>2. Kept(j)' <=> Kept(j)
      BY <2>1, <2>3, <2>a, <3>1, CountsMove
    <3> QED BY <3>1, <3>2
  <2>4. /\ ~Holds(t, j)'
        /\ \/ (~Holds(t, j) /\ Kept(j) /\ ~Kept(j)')
           \/ (Holds(t, j) /\ (Kept(j)' <=> Kept(j)))
    <3>1. pc[t] = "release_handle" \/ pc[t] \in {"release", "release_own"}
      BY <2>1, <2>3 DEF Releasing
    <3> QED BY <2>1, <2>b, <2>c, <3>1
  <2>5. /\ refs[j] >= 1 /\ refs[j] \in Nat /\ ctx[j] = "live"
        /\ ~OthersEnd(t, j) /\ handle[j] # "none"
    BY <1>0, <2>1, <2>4, Referenced, LiveWhileCounted DEF CountInv
  <2>6. ~Ends(t, j)'
    BY <1>0, <2>1, <2>3 DEF Ends, Releasing
  <2>8. Balance(t, j) /\ refs'[j] \in Int
    <3>a. One(Works(t, j)') = One(Works(t, j)) /\ One(Works(t, j)) \in Nat
      BY <2>1, <2>a DEF One
    <3>b. One(Kept(j)) + One(Holds(t, j)) = One(Kept(j)') + One(Holds(t, j)') + 1
      BY <2>1, <2>4 DEF One
    <3>c. /\ One(Kept(j)) \in Nat /\ One(Kept(j)') \in Nat
          /\ One(Holds(t, j)) \in Nat /\ One(Holds(t, j)') \in Nat
      BY DEF One
    <3>d. refs'[j] = refs[j] - 1
      BY <2>1, <2>3, <2>5
    <3> QED BY <2>1, <2>5, <3>a, <3>b, <3>c, <3>d DEF Balance
  <2>9. EndOf(t, j)
    BY <2>1, <2>3, <2>5, <2>6 DEF EndOf
  <2> QED BY <1>0, <2>1, <2>2, <2>8, <2>9, CountOne

<1>9. CASE ReleaseLast(t)
  <2>0. op[t] \in Job
    BY <1>0, <1>9 DEF ReleaseLast, Releasing, TaskOK
  <2>1. PICK j \in Job : j = op[t]
    BY <2>0
  <2>3. /\ Releasing(t) /\ running'[t] = running[t] /\ UNCHANGED <<handle, ctx>>
        /\ \A k \in Job : k # j => refs'[k] = refs[k]
        /\ refs[j] = 1 /\ refs'[j] = 0 /\ op'[t] = op[t]
        /\ pc[t] = "release" => pc'[t] = "end"
        /\ pc[t] = "release_own" => pc'[t] = "end_own"
        /\ pc[t] = "release_handle" => pc'[t] = "end_handle"
    BY <1>0, <1>9, <2>1 DEF ReleaseLast, Goto, Continue, AfterRelease, LastOne,
                            Releasing
  <2>2. Apart(t, j)
    BY <2>1, <1>0, <2>3 DEF Apart, Works, Holds, Drops, Ends, Releasing
  <2>a. /\ Works(t, j) <=> running[t] = op[t]
        /\ Works(t, j)' <=> Works(t, j)
        /\ ~Drops(t, j)
    BY <2>1, <2>3 DEF Works, Releasing, Drops
  <2>b. ASSUME pc[t] = "release_handle"
        PROVE  ~Holds(t, j)' /\ ~Holds(t, j) /\ Kept(j) /\ ~Kept(j)'
    <3>1. ~Holds(t, j) /\ ~Holds(t, j)' /\ Drops(t, j)'
      BY <2>1, <2>3, <2>b DEF Holds, Drops
    <3>2. Kept(j) /\ ~Kept(j)'
      <4>1. Destroys(t)
        BY <2>1, <2>b DEF Destroys
      <4>2. handle[j] = "live"
        BY <1>0, <2>1, <4>1 DEF JobInv, OpOK
      <4>3. Kept(j)
        BY <1>0, <2>1, <2>a, <4>1, <4>2, HandleKeeps
      <4> QED BY <2>1, <3>1, <4>3, CountsMove
    <3> QED BY <3>1, <3>2
  <2>c. ASSUME pc[t] \in {"release", "release_own"}
        PROVE  ~Holds(t, j)' /\ Holds(t, j) /\ (Kept(j)' <=> Kept(j))
    <3>1. Holds(t, j) /\ ~Holds(t, j)' /\ ~Drops(t, j)'
      BY <1>0, <2>1, <2>3, <2>c DEF Holds, Drops
    <3>2. Kept(j)' <=> Kept(j)
      BY <2>1, <2>3, <2>a, <3>1, CountsMove
    <3> QED BY <3>1, <3>2
  <2>4. /\ ~Holds(t, j)'
        /\ \/ (~Holds(t, j) /\ Kept(j) /\ ~Kept(j)')
           \/ (Holds(t, j) /\ (Kept(j)' <=> Kept(j)))
    <3>1. pc[t] = "release_handle" \/ pc[t] \in {"release", "release_own"}
      BY <2>1, <2>3 DEF Releasing
    <3> QED BY <2>1, <2>b, <2>c, <3>1
  <2>5. /\ refs[j] >= 1 /\ refs[j] \in Nat /\ ctx[j] = "live"
        /\ ~OthersEnd(t, j) /\ handle[j] # "none"
    BY <1>0, <2>1, <2>4, Referenced, LiveWhileCounted DEF CountInv
  <2>8. Balance(t, j) /\ refs'[j] \in Int
    <3>a. One(Works(t, j)') = One(Works(t, j)) /\ One(Works(t, j)) \in Nat
      BY <2>1, <2>a DEF One
    <3>b. One(Kept(j)) + One(Holds(t, j)) = One(Kept(j)') + One(Holds(t, j)') + 1
      BY <2>1, <2>4 DEF One
    <3>c. /\ One(Kept(j)) \in Nat /\ One(Kept(j)') \in Nat
          /\ One(Holds(t, j)) \in Nat /\ One(Holds(t, j)') \in Nat
      BY DEF One
    <3>d. refs'[j] = refs[j] - 1
      BY <2>1, <2>3, <2>5
    <3> QED BY <2>1, <2>5, <3>a, <3>b, <3>c, <3>d DEF Balance
  <2>9. EndOf(t, j)
    BY <2>1, <2>3, <2>5 DEF EndOf
  <2> QED BY <1>0, <2>1, <2>2, <2>8, <2>9, CountOne

<1>10. CASE EndContext(t)
  <2>0. op[t] \in Job
    BY <1>0, <1>10 DEF EndContext, TaskOK
  <2>1. PICK j \in Job : j = op[t]
    BY <2>0
  <2>3. /\ pc[t] \in {"end", "end_own", "end_handle"} /\ running'[t] = running[t]
        /\ UNCHANGED <<handle, refs>> /\ ctx'[j] = "freed"
        /\ \A k \in Job : k # j => ctx'[k] = ctx[k]
        /\ pc[t] = "end" => pc'[t] = "idle" /\ op'[t] = NoJob
        /\ pc[t] = "end_own" => pc'[t] = "release_handle" /\ op'[t] = op[t]
        /\ pc[t] = "end_handle" => pc'[t] = "free_handle" /\ op'[t] = op[t]
    BY <1>0, <1>10, <2>1 DEF EndContext, Goto, Continue, AfterRelease
  <2>2. Apart(t, j)
    BY <2>1, <1>0, <2>3 DEF Apart, Works, Holds, Drops, Ends
  <2>4. Ends(t, j) /\ refs[j] = 0
    BY <2>1, <2>3 DEF Ends, CountInv, EndOK
  <2>5. ~OthersEnd(t, j) /\ handle[j] # "none"
    <3>1. ctx[j] = "live"
      BY <2>1, <2>4 DEF CountInv, EndOK
    <3> QED BY <2>1, <2>4, <3>1 DEF CountInv, EndOK, OthersEnd
  <2>6. /\ ~Ends(t, j)' /\ (Drops(t, j)' <=> Drops(t, j))
        /\ (Works(t, j)' <=> Works(t, j))
        /\ ~Holds(t, j) /\ ~Holds(t, j)'
    BY <1>0, <2>1, <2>3 DEF Ends, Drops, Works, Holds
  <2>7. Kept(j)' <=> Kept(j)
    BY <2>1, <2>3, <2>6, CountsMove
  <2>8. Balance(t, j) /\ refs'[j] \in Int
    <3>a. One(Works(t, j)') = One(Works(t, j)) /\ One(Works(t, j)) \in Nat
      BY <2>1, <2>6 DEF One
    <3>b. One(Kept(j)') = One(Kept(j)) /\ One(Kept(j)) \in Nat
      BY <2>1, <2>7 DEF One
    <3>c. One(Holds(t, j)) = 0 /\ One(Holds(t, j)') = 0
      BY <2>1, <2>6 DEF One
    <3> QED BY <2>1, <2>3, <2>4, <3>a, <3>b, <3>c DEF Balance
  <2>9. EndOf(t, j)
    BY <2>1, <2>3, <2>4, <2>5, <2>6 DEF EndOf
  <2> QED BY <1>0, <2>1, <2>2, <2>8, <2>9, CountOne

<1> QED BY <1>1, <1>2, <1>3, <1>4, <1>5, <1>6, <1>7, <1>8, <1>9, <1>10 DEF RefSteps

LEMMA CountNext ==
    ASSUME Configured, TypeInv, JobInv, CountInv, NEW t \in Task, Moves(t)
    PROVE  CountInv'
<1>1. Stays(t) /\ TypeParts /\ TaskOK(t)
  BY TypeNext DEF TypeInv
<1> QED BY <1>1, RefSteady, CountStays, CountChanges
-----------------------------------------------------------------------------
(* Values.                                                                 *)

ValueOK(v) ==
    /\ finished[v] \in {NotSet, 0, 1}
    /\ finished[v] # 0 => dying[v] = Nobody
    /\ dying[v] # Nobody => \A j \in Job : slot[j] # v
    /\ finished[v] = 0 => dying[v] # Nobody \/ \E j \in Job : slot[j] = v
    /\ finished[v] # 0 => \A j \in Job : slot[j] # v
    /\ \A j, k \in Job : slot[j] = v /\ slot[k] = v => j = k

ValueInv ==
    /\ \A v \in Value : ValueOK(v)
    /\ \A j \in Job : refs[j] = 0 => slot[j] = NoValue
    /\ \A j \in Job : ctx[j] # "live" => ~heap[j]


(* Most steps leave the values alone, and let no context go.               *)
ValueSame ==
    /\ UNCHANGED <<slot, heap, dying, finished>>
    /\ \A j \in Job : /\ refs'[j] = 0 => refs[j] = 0
                      /\ ctx'[j] # "live" => ctx[j] # "live"

ValueSteps(t) ==
    \/ ReleaseLast(t) \/ EndContext(t) \/ BuildHeap(t)
    \/ \E v \in Value : Destruct(t, v) \/ TlsSet(t, v)

(* Which steps leave the slots and the values alone.                       *)
LEMMA ValueSteady ==
    ASSUME NEW t \in Task, TypeParts, TypeInv, Configured, Moves(t), ~ValueSteps(t)
    PROVE  ValueSame
<1>1. CASE SkipRun(t)
  BY <1>1 DEF SkipRun, Goto, ValueSame, TypeInv, TaskOK, Configured, TypeParts,
              TaskType, ObjectType, objects, tasks
<1>2. CASE StartRun(t)
  BY <1>2 DEF StartRun, Goto, ValueSame, TypeInv, TaskOK, Configured, TypeParts,
              TaskType, ObjectType, objects, tasks
<1>3. CASE Acquire(t)
  BY <1>3 DEF Acquire, Goto, ValueSame, TypeInv, TaskOK, Configured, TypeParts,
              TaskType, ObjectType, objects, tasks
<1>4. CASE Detach(t)
  BY <1>4 DEF Detach, Goto, ValueSame, TypeInv, TaskOK, Configured, TypeParts, TaskType,
              ObjectType, objects, tasks
<1>5. CASE ReleaseOne(t)
  <2>1. op[t] \in Job
    BY <1>5 DEF ReleaseOne, Releasing, TypeInv, TaskOK, TypeParts, TaskType
  <2>2. /\ \A j \in Job : refs'[j] = IF j # op[t] THEN refs[j]
                             ELSE IF refs[j] = 0 THEN 0 ELSE refs[j] - 1
        /\ refs[op[t]] # 1 /\ refs[op[t]] \in Nat
        /\ UNCHANGED <<slot, heap, dying, finished, ctx>>
    BY <1>5, <2>1 DEF ReleaseOne, LastOne, TypeParts, ObjectType
  <2>3. \A j \in Job : refs'[j] = 0 => refs[j] = 0
    BY <2>2
  <2> QED BY <2>2, <2>3 DEF ValueSame
<1>6. CASE FieldDone(t)
  BY <1>6 DEF FieldDone, Goto, ValueSame, TypeInv, TaskOK, Configured, TypeParts,
              TaskType, ObjectType, objects, tasks
<1>7. CASE EnterContext(t)
  BY <1>7 DEF EnterContext, Goto, ValueSame, TypeInv, TaskOK, Configured, TypeParts,
              TaskType, ObjectType, objects, tasks
<1>8. CASE NotifyBegin(t)
  BY <1>8 DEF NotifyBegin, Goto, ValueSame, TypeInv, TaskOK, Configured, TypeParts,
              TaskType, ObjectType, objects, tasks
<1>9. CASE NotifyOne(t)
  BY <1>9 DEF NotifyOne, ValueSame, TypeInv, TaskOK, Configured, TypeParts, TaskType,
              ObjectType, objects, tasks
<1>10. CASE LeaveContext(t)
  BY <1>10 DEF LeaveContext, Goto, ValueSame, TypeInv, TaskOK, Configured, TypeParts,
               TaskType, ObjectType, objects, tasks
<1>11. CASE FreeHandle(t)
  BY <1>11 DEF FreeHandle, Goto, ValueSame, TypeInv, TaskOK, Configured, TypeParts,
               TaskType, ObjectType, objects, tasks
<1>12. CASE EndRun(t)
  BY <1>12 DEF EndRun, Goto, Free, ValueSame, TypeInv, TaskOK, Configured, TypeParts,
               TaskType, ObjectType, objects, tasks
<1>13. ASSUME NEW l \in Listener, Subscribe(t, l) PROVE ValueSame
  BY <1>13 DEF Subscribe, Free, ValueSame, TypeInv, TaskOK, Configured, TypeParts,
               TaskType, ObjectType, objects, tasks
<1>14. ASSUME NEW j \in Job, Submit(t, j) PROVE ValueSame
  BY <1>14 DEF Submit, Free, ValueSame, TypeInv, TaskOK, Configured, TypeParts,
               TaskType, ObjectType, objects, tasks
<1>15. ASSUME NEW j \in Job, SubmitFails(t, j) PROVE ValueSame
  BY <1>15 DEF SubmitFails, Free, ValueSame, TypeInv, TaskOK, Configured, TypeParts,
               TaskType, ObjectType, objects, tasks
<1>16. ASSUME NEW j \in Job, Cancel(t, j) PROVE ValueSame
  BY <1>16 DEF Cancel, Free, ValueSame, TypeInv, TaskOK, Configured, TypeParts,
               TaskType, ObjectType, objects, tasks
<1>17. ASSUME NEW j \in Job, FieldAccess(t, j) PROVE ValueSame
  BY <1>17 DEF FieldAccess, Goto, Free, ValueSame, TypeInv, TaskOK, Configured,
               TypeParts, TaskType, ObjectType, objects, tasks
<1>18. ASSUME NEW j \in Job, Destroy(t, j) PROVE ValueSame
  BY <1>18 DEF Destroy, Goto, Free, ValueSame, TypeInv, TaskOK, Configured, TypeParts,
               TaskType, ObjectType, objects, tasks
<1>19. ASSUME NEW j \in Job, Take(t, j) PROVE ValueSame
  BY <1>19 DEF Take, Goto, Free, ValueSame, TypeInv, TaskOK, Configured, TypeParts,
               TaskType, ObjectType, objects, tasks
<1> QED BY <1>1, <1>2, <1>3, <1>4, <1>5, <1>6, <1>7, <1>8, <1>9, <1>10, <1>11, <1>12,
           <1>13, <1>14, <1>15, <1>16, <1>17, <1>18, <1>19
           DEF Moves, Step, Call, ValueSteps

(* Who is in a context has a reference to it.                              *)
LEMMA InContextCounted ==
    ASSUME Configured, TypeInv, CountInv, TypeParts, NEW t \in Task, InContext(t)
    PROVE  current[t] \in Job /\ refs[current[t]] # 0 /\ ctx[current[t]] = "live"
<1>1. current[t] \in Job
  BY DEF InContext, TypeParts, TaskType
<1>2. PICK j \in Job : j = current[t]
  BY <1>1
<1>3. Works(t, j) \/ Holds(t, j)
  BY <1>2 DEF InContext, Works, Holds, TypeInv, TaskOK
<1>4. refs[j] # 0
  BY <1>3, Referenced DEF CountInv
<1> QED BY <1>2, <1>4 DEF CountInv, EndOK

(* A value that leaves its slot is due to be destroyed; another may come.  *)
LEMMA SlotChanges ==
    ASSUME Configured, ValueInv, TypeParts, NEW t \in Task, NEW j \in Job,
           NEW x \in Value \cup {NoValue}, x # NoValue => finished[x] = NotSet,
           slot' = [slot EXCEPT ![j] = x], dying' = TakenFrom(j, t),
           \A v \in Value : finished'[v] = IF v = x THEN 0 ELSE finished[v]
    PROVE  \A v \in Value : ValueOK(v)'
<1>1. ASSUME NEW v \in Value PROVE ValueOK(v)'
  <2>1. /\ \A k \in Job : slot'[k] = IF k = j THEN x ELSE slot[k]
        /\ dying'[v] = IF slot[j] = v THEN t ELSE dying[v]
        /\ finished'[v] = IF v = x THEN 0 ELSE finished[v]
        /\ t # Nobody /\ NoValue # v
    BY DEF TakenFrom, TypeParts, ObjectType, Configured
  <2>2. ValueOK(v)
    BY DEF ValueInv
  <2>3. CASE v = x
    BY <2>1, <2>2, <2>3 DEF ValueOK, NotSet
  <2>4. CASE v # x /\ slot[j] = v
    BY <2>1, <2>2, <2>4 DEF ValueOK, NotSet
  <2>5. CASE v # x /\ slot[j] # v
    BY <2>1, <2>2, <2>5 DEF ValueOK, NotSet
  <2> QED BY <2>3, <2>4, <2>5
<1> QED BY <1>1

(* The slot of a context is empty when its last reference goes.            *)
LEMMA ValueNext ==
    ASSUME Configured, TypeInv, CountInv, CountInv', ValueInv, NEW t \in Task, Moves(t)
    PROVE  ValueInv'
<1>0. TypeParts /\ TypeInv'
  BY TypeNext
<1>1. CASE ~ValueSteps(t)
  <2>1. ValueSame
    BY <1>0, <1>1, ValueSteady
  <2> QED BY <2>1 DEF ValueSame, ValueInv, ValueOK
<1>2. CASE ReleaseLast(t)
  <2>1. op[t] \in Job
    BY <1>0, <1>2 DEF ReleaseLast, Releasing, TypeInv, TaskOK, TypeParts, TaskType
  <2>2. PICK j \in Job : j = op[t]
    BY <2>1
  <2>3. /\ slot' = [slot EXCEPT ![j] = NoValue] /\ dying' = TakenFrom(j, t)
        /\ refs' = [refs EXCEPT ![j] = 0] /\ UNCHANGED <<finished, heap, ctx>>
    BY <1>2, <2>2 DEF ReleaseLast
  <2>4. \A v \in Value : finished'[v] = IF v = NoValue THEN 0 ELSE finished[v]
    BY <2>3 DEF Configured
  <2>5. \A v \in Value : ValueOK(v)'
    BY <1>0, <2>3, <2>4, SlotChanges
  <2>6. \A k \in Job : refs'[k] = 0 => slot'[k] = NoValue
    BY <1>0, <2>3 DEF ValueInv, TypeParts, ObjectType
  <2> QED BY <2>3, <2>5, <2>6 DEF ValueInv
<1>3. CASE EndContext(t)
  <2>1. UNCHANGED <<slot, dying, finished, refs>>
    BY <1>3 DEF EndContext
  <2>2. op[t] \in Job
    BY <1>0, <1>3 DEF EndContext, TypeInv, TaskOK, TypeParts, TaskType
  <2>3. \A k \in Job : ctx'[k] # "live" => ~heap'[k]
    BY <1>0, <1>3, <2>2 DEF EndContext, ValueInv, TypeParts, ObjectType
  <2> QED BY <2>1, <2>3 DEF ValueInv, ValueOK
<1>4. CASE BuildHeap(t)
  <2>1. UNCHANGED <<slot, dying, finished, refs, ctx>>
    BY <1>4 DEF BuildHeap
  <2>2. current[t] \in Job /\ ctx[current[t]] = "live"
    BY <1>0, <1>4, InContextCounted DEF BuildHeap
  <2>3. \A k \in Job : ctx'[k] # "live" => ~heap'[k]
    BY <1>0, <1>4, <2>1, <2>2 DEF BuildHeap, ValueInv, TypeParts, ObjectType
  <2> QED BY <2>1, <2>3 DEF ValueInv, ValueOK
<1>5. ASSUME NEW v \in Value, Destruct(t, v) PROVE ValueInv'
  <2>1. /\ UNCHANGED <<slot, refs, ctx, heap>> /\ dying[v] = t /\ t # Nobody
        /\ \A w \in Value : dying'[w] = IF w = v THEN Nobody ELSE dying[w]
        /\ \A w \in Value : finished'[w] = IF w = v THEN finished[v] + 1 ELSE finished[w]
    BY <1>0, <1>5 DEF Destruct, objects, TypeParts, ObjectType, Configured
  <2>2. ASSUME NEW w \in Value PROVE ValueOK(w)'
    <3>1. ValueOK(w)
      BY DEF ValueInv
    <3>2. CASE w = v
      <4>1. finished[v] = 0
        BY <2>1, <3>1, <3>2 DEF ValueOK
      <4>2. finished'[v] = 1 /\ dying'[v] = Nobody
        BY <2>1, <4>1
      <4> QED BY <2>1, <3>1, <3>2, <4>2 DEF ValueOK, NotSet
    <3>3. CASE w # v
      BY <2>1, <3>1, <3>3 DEF ValueOK
    <3> QED BY <3>2, <3>3
  <2> QED BY <2>1, <2>2 DEF ValueInv
<1>6. ASSUME NEW v \in Value, TlsSet(t, v) PROVE ValueInv'
  <2>1. current[t] \in Job /\ refs[current[t]] # 0
    BY <1>0, <1>6, InContextCounted DEF TlsSet
  <2>2. PICK j \in Job : j = current[t]
    BY <2>1
  <2>3. /\ slot' = [slot EXCEPT ![j] = v] /\ dying' = TakenFrom(j, t)
        /\ finished' = [finished EXCEPT ![v] = 0] /\ finished[v] = NotSet
        /\ UNCHANGED <<refs, heap, ctx>>
    BY <1>6, <2>2 DEF TlsSet
  <2>4. \A w \in Value : finished'[w] = IF w = v THEN 0 ELSE finished[w]
    BY <1>0, <2>3 DEF TypeParts, ObjectType
  <2>5. \A w \in Value : ValueOK(w)'
    BY <1>0, <2>3, <2>4, SlotChanges
  <2>6. \A k \in Job : refs'[k] = 0 => slot'[k] = NoValue
    BY <1>0, <2>1, <2>2, <2>3 DEF ValueInv, TypeParts, ObjectType
  <2> QED BY <2>3, <2>5, <2>6 DEF ValueInv
<1> QED BY <1>1, <1>2, <1>3, <1>4, <1>5, <1>6 DEF ValueSteps

-----------------------------------------------------------------------------
(* Listeners.                                                              *)

(* What a task that destroys has told and has still to tell.               *)
ListenOK(t) ==
    /\ pc[t] \in {"destroy", "notify"} =>
          told[op[t]] = << >> /\ \A l \in due[op[t]] : Contains(listeners, l)
    /\ pc[t] = "walk" =>
          /\ IsInjective(walk[t])
          /\ \A l \in Listener : ~(Contains(told[op[t]], l) /\ Contains(walk[t], l))
          /\ \A l \in due[op[t]] : Contains(told[op[t]], l) \/ Contains(walk[t], l)
    /\ pc[t] \in {"release_own", "end_own", "release_handle", "end_handle", "free_handle"} =>
          \A l \in due[op[t]] : Contains(told[op[t]], l)

ListenInv ==
    /\ IsInjective(listeners)
    /\ \A t \in Task : ListenOK(t)
    /\ \A j \in Job :
          /\ ~job[j].destroyed => told[j] = << >>
          /\ IsInjective(told[j])
          /\ handle[j] = "freed" => \A l \in due[j] : Contains(told[j], l)

(* Most steps leave the listeners alone.                                   *)
Before(l) == l \in {"destroy", "notify"}
After(l)  == l \in {"release_own", "end_own", "release_handle", "end_handle", "free_handle"}

ListenSame(t) ==
    /\ UNCHANGED <<listeners, due, told, walk>>
    /\ \A j \in Job : /\ job'[j].destroyed = job[j].destroyed
                      /\ handle'[j] = "freed" => handle[j] = "freed"
    /\ Before(pc'[t]) => Before(pc[t]) /\ op'[t] = op[t]
    /\ pc'[t] = "walk" => pc[t] = "walk" /\ op'[t] = op[t]
    /\ After(pc'[t]) => After(pc[t]) /\ op'[t] = op[t]

ListenSteps(t) ==
    \/ NotifyBegin(t) \/ NotifyOne(t) \/ LeaveContext(t) \/ FreeHandle(t)
    \/ \E l \in Listener : Subscribe(t, l)
    \/ \E j \in Job : Destroy(t, j)

(* Which steps leave the listeners alone.                                  *)
LEMMA ListenSteady ==
    ASSUME NEW t \in Task, TypeParts, TaskOK(t), Configured, Moves(t), ~ListenSteps(t)
    PROVE  ListenSame(t)
<1>1. CASE SkipRun(t)
  BY <1>1 DEF SkipRun, Goto, ListenSame, Before, After, TaskOK, Configured, TypeParts,
              TaskType, ObjectType, ListType, objects, tasks
<1>2. CASE StartRun(t)
  BY <1>2 DEF StartRun, Goto, ListenSame, Before, After, TaskOK, Configured, TypeParts,
              TaskType, ObjectType, ListType, objects, tasks
<1>3. CASE Acquire(t)
  BY <1>3 DEF Acquire, Goto, ListenSame, Before, After, TaskOK, Configured, TypeParts,
              TaskType, ObjectType, ListType, objects, tasks
<1>4. CASE Detach(t)
  BY <1>4 DEF Detach, Goto, ListenSame, Before, After, TaskOK, Configured, TypeParts,
              TaskType, ObjectType, ListType, objects, tasks
<1>5. CASE ReleaseOne(t)
  BY <1>5 DEF ReleaseOne, Releasing, Continue, AfterRelease, OffCurrent, Goto,
              ListenSame, Before, After, TaskOK, Configured, TypeParts, TaskType,
              ObjectType, ListType, objects, tasks
<1>6. CASE ReleaseLast(t)
  BY <1>6 DEF ReleaseLast, Releasing, OffCurrent, Goto, TakenFrom, ListenSame, Before,
              After, TaskOK, Configured, TypeParts, TaskType, ObjectType, ListType,
              objects, tasks
<1>7. CASE EndContext(t)
  BY <1>7 DEF EndContext, Continue, AfterRelease, Goto, ListenSame, Before, After,
              TaskOK, Configured, TypeParts, TaskType, ObjectType, ListType, objects,
              tasks
<1>8. CASE EndRun(t)
  BY <1>8 DEF EndRun, Goto, Free, ListenSame, Before, After, TaskOK, Configured,
              TypeParts, TaskType, ObjectType, ListType, objects, tasks
<1>9. CASE FieldDone(t)
  BY <1>9 DEF FieldDone, Goto, ListenSame, Before, After, TaskOK, Configured, TypeParts,
              TaskType, ObjectType, ListType, objects, tasks
<1>10. CASE EnterContext(t)
  BY <1>10 DEF EnterContext, Goto, ListenSame, Before, After, TaskOK, Configured,
               TypeParts, TaskType, ObjectType, ListType, objects, tasks
<1>11. CASE BuildHeap(t)
  BY <1>11 DEF BuildHeap, InContext, ListenSame, Before, After, TaskOK, Configured,
               TypeParts, TaskType, ObjectType, ListType, objects, tasks
<1>12. ASSUME NEW v \in Value, Destruct(t, v) PROVE ListenSame(t)
  BY <1>12 DEF Destruct, ListenSame, Before, After, TaskOK, Configured, TypeParts,
               TaskType, ObjectType, ListType, objects, tasks
<1>13. ASSUME NEW v \in Value, TlsSet(t, v) PROVE ListenSame(t)
  BY <1>13 DEF TlsSet, TakenFrom, InContext, ListenSame, Before, After, TaskOK,
               Configured, TypeParts, TaskType, ObjectType, ListType, objects, tasks
<1>14. ASSUME NEW j \in Job, Submit(t, j) PROVE ListenSame(t)
  BY <1>14 DEF Submit, Free, ListenSame, Before, After, TaskOK, Configured, TypeParts,
               TaskType, ObjectType, ListType, objects, tasks
<1>15. ASSUME NEW j \in Job, SubmitFails(t, j) PROVE ListenSame(t)
  BY <1>15 DEF SubmitFails, Free, ListenSame, Before, After, TaskOK, Configured,
               TypeParts, TaskType, ObjectType, ListType, objects, tasks
<1>16. ASSUME NEW j \in Job, Cancel(t, j) PROVE ListenSame(t)
  BY <1>16 DEF Cancel, Free, ListenSame, Before, After, TaskOK, Configured, TypeParts,
               TaskType, ObjectType, ListType, objects, tasks
<1>17. ASSUME NEW j \in Job, FieldAccess(t, j) PROVE ListenSame(t)
  BY <1>17 DEF FieldAccess, Goto, Free, ListenSame, Before, After, TaskOK, Configured,
               TypeParts, TaskType, ObjectType, ListType, objects, tasks
<1>18. ASSUME NEW j \in Job, Take(t, j) PROVE ListenSame(t)
  BY <1>18 DEF Take, Goto, Free, ListenSame, Before, After, TaskOK, Configured,
               TypeParts, TaskType, ObjectType, ListType, objects, tasks
<1> QED BY <1>1, <1>2, <1>3, <1>4, <1>5, <1>6, <1>7, <1>8, <1>9, <1>10, <1>11, <1>12,
           <1>13, <1>14, <1>15, <1>16, <1>17, <1>18 DEF Moves, Step, Call, ListenSteps

(* They keep what is still to be told.                                     *)
LEMMA ListenStays ==
    ASSUME TypeInv, ListenInv, NEW t \in Task, Stays(t), ListenSame(t)
    PROVE  ListenInv'
<1>1. ASSUME NEW u \in Task PROVE ListenOK(u)'
  <2>1. /\ Before(pc'[u]) => Before(pc[u]) /\ op'[u] = op[u]
        /\ pc'[u] = "walk" => pc[u] = "walk" /\ op'[u] = op[u]
        /\ After(pc'[u]) => After(pc[u]) /\ op'[u] = op[u]
    BY DEF Stays, ListenSame
  <2>2. ListenOK(u) /\ UNCHANGED <<listeners, due, told, walk>>
    BY DEF ListenInv, ListenSame
  <2> QED BY <2>1, <2>2 DEF ListenOK, Before, After
<1>2. ASSUME NEW j \in Job
      PROVE  (/\ ~job[j].destroyed => told[j] = << >>
              /\ IsInjective(told[j])
              /\ handle[j] = "freed" => \A l \in due[j] : Contains(told[j], l))'
  BY DEF ListenInv, ListenSame
<1>3. IsInjective(listeners)'
  BY DEF ListenInv, ListenSame
<1> QED BY <1>1, <1>2, <1>3 DEF ListenInv

(* A listener that subscribes comes first.                                 *)
LEMMA FirstContains ==
    ASSUME NEW S, NEW q \in Seq(S), NEW x \in S
    PROVE  /\ \A y : Contains(<<x>> \o q, y) <=> y = x \/ Contains(q, y)
           /\ IsInjective(q) /\ ~Contains(q, x) => IsInjective(<<x>> \o q)
<1> DEFINE r == <<x>> \o q
<1>1. /\ r \in Seq(S) /\ Len(r) = Len(q) + 1 /\ Len(q) \in Nat
      /\ DOMAIN q = 1 .. Len(q) /\ DOMAIN r = 1 .. Len(q) + 1
      /\ r[1] = x /\ \A i \in 1 .. Len(q) : r[i + 1] = q[i]
  OBVIOUS
<1>2. \A i \in 1 .. Len(q) + 1 : i = 1 \/ (i - 1 \in 1 .. Len(q) /\ r[i] = q[i - 1])
  BY <1>1
<1> HIDE DEF r
<1>3. ASSUME NEW y PROVE Contains(r, y) <=> y = x \/ Contains(q, y)
  <2>1. Contains(r, y) => y = x \/ Contains(q, y)
    BY <1>1, <1>2 DEF Contains
  <2>2. y = x => Contains(r, y)
    BY <1>1 DEF Contains
  <2>3. ASSUME Contains(q, y) PROVE Contains(r, y)
    <3>1. PICK i \in 1 .. Len(q) : q[i] = y
      BY <1>1, <2>3 DEF Contains
    <3>2. i + 1 \in 1 .. Len(r) /\ r[i + 1] = y
      BY <1>1, <3>1
    <3> QED BY <3>2 DEF Contains
  <2> QED BY <2>1, <2>2, <2>3
<1>4. ASSUME IsInjective(q), ~Contains(q, x) PROVE IsInjective(r)
  <2>1. ASSUME NEW i \in DOMAIN r, NEW k \in DOMAIN r, r[i] = r[k] PROVE i = k
    <3>1. /\ i = 1 \/ (i - 1 \in 1 .. Len(q) /\ r[i] = q[i - 1])
          /\ k = 1 \/ (k - 1 \in 1 .. Len(q) /\ r[k] = q[k - 1])
      BY <1>1, <1>2
    <3>2. \A n \in 1 .. Len(q) : q[n] # x
      BY <1>1, <1>4 DEF Contains
    <3>3. CASE i = 1 \/ k = 1
      BY <1>1, <2>1, <3>1, <3>2, <3>3
    <3>4. CASE i # 1 /\ k # 1
      <4>1. i - 1 = k - 1
        BY <1>1, <1>4, <2>1, <3>1, <3>4 DEF IsInjective
      <4> QED BY <1>1, <2>1, <4>1
    <3> QED BY <3>3, <3>4
  <2> QED BY <2>1 DEF IsInjective
<1> QED BY <1>3, <1>4 DEF r

(* The steps that do not: every conjunct, told apart by the job they are   *)
(* about, and the task that destroys it.                                   *)
LEMMA ListenChanges ==
    ASSUME Configured, TypeInv, JobInv, ListenInv, NEW t \in Task, Stays(t), WalkStays(t),
           TypeParts, ListenSteps(t)
    PROVE  ListenInv'
<1>0. /\ NoJob \notin Job /\ TaskOK(t) /\ ListenOK(t)
      /\ op[t] \in Job \cup {NoJob} /\ walk[t] \in Seq(Listener) /\ listeners \in Seq(Listener)
      /\ pc = [u \in Task |-> pc[u]] /\ op = [u \in Task |-> op[u]]
      /\ walk = [u \in Task |-> walk[u]]
      /\ told \in [Job -> Seq(Listener)] /\ due = [j \in Job |-> due[j]]
      /\ handle = [j \in Job |-> handle[j]]
      /\ job \in [Job -> [cancelled : BOOLEAN, ready : BOOLEAN,
                          destroyed : BOOLEAN, taken : BOOLEAN]]
  BY DEF Configured, TypeInv, TypeParts, TaskType, ObjectType, ListType, ListenInv
<1>a. ASSUME NEW u \in Task, u # t
      PROVE  /\ ListenOK(u) /\ op[u] \in Job \cup {NoJob} /\ OpOK(u)
             /\ pc'[u] = pc[u] /\ op'[u] = op[u] /\ walk'[u] = walk[u]
             /\ Destroys(u) /\ Destroys(t) => op[u] # op[t]
             /\ Before(pc[u]) \/ pc[u] = "walk" \/ After(pc[u]) => Destroys(u) /\ op[u] \in Job
  <2>1. Before(pc[u]) \/ pc[u] = "walk" \/ After(pc[u]) => Destroys(u)
    BY DEF Before, After, Destroys
  <2>2. op[u] \in Job \cup {NoJob} /\ TaskOK(u)
    BY DEF TypeInv, TypeParts, TaskType
  <2>3. Destroys(u) => op[u] \in Job
    BY <2>2 DEF Destroys, TaskOK
  <2>4. Destroys(u) /\ Destroys(t) => op[u] # op[t]
    BY <1>a DEF JobInv, OneDestroys
  <2> QED BY <1>a, <2>1, <2>2, <2>3, <2>4 DEF Stays, WalkStays, JobInv, ListenInv
<1>b. ASSUME NEW j \in Job
      PROVE  /\ ~job[j].destroyed => told[j] = << >>
             /\ IsInjective(told[j]) /\ told[j] \in Seq(Listener)
             /\ handle[j] = "freed" => job[j].destroyed /\ \A l \in due[j] : Contains(told[j], l)
  BY <1>0 DEF ListenInv, JobInv, JobOK
<1>c. \A l : ~Contains(<< >>, l)
  BY DEF Contains
<1>1. CASE NotifyBegin(t)
  <2>1. op[t] \in Job
    BY <1>0, <1>1 DEF NotifyBegin, TaskOK
  <2>2. /\ pc[t] = "notify" /\ pc'[t] = "walk" /\ walk'[t] = listeners
        /\ UNCHANGED <<handle, job, listeners, op, due, told>>
    BY <1>0, <1>1 DEF NotifyBegin, Goto, objects
  <2>3. ASSUME NEW u \in Task PROVE ListenOK(u)'
    <3>1. CASE u = t
      <4>1. told[op[t]] = << >> /\ \A l \in due[op[t]] : Contains(listeners, l)
        BY <1>0, <2>2 DEF ListenOK
      <4>2. IsInjective(listeners)
        BY DEF ListenInv
      <4> QED BY <1>c, <2>2, <3>1, <4>1, <4>2 DEF ListenOK
    <3>2. CASE u # t
      BY <1>a, <2>2, <3>2 DEF ListenOK
    <3> QED BY <3>1, <3>2
  <2> QED BY <2>2, <2>3 DEF ListenInv
<1>2. CASE NotifyOne(t)
  <2>0. op[t] \in Job
    BY <1>0, <1>2 DEF NotifyOne, TaskOK
  <2>1. PICK j \in Job : j = op[t]
    BY <2>0
  <2>2. PICK x : x = Head(walk[t])
    OBVIOUS
  <2>3. /\ pc[t] = "walk" /\ walk[t] # << >> /\ walk'[t] = Tail(walk[t])
        /\ told'[j] = Append(told[j], x)
        /\ \A k \in Job : k # j => told'[k] = told[k]
        /\ UNCHANGED <<handle, job, listeners, op, pc, due>>
    BY <1>0, <1>2, <2>1, <2>2 DEF NotifyOne, objects
  <2>4. /\ IsInjective(walk[t]) /\ IsInjective(told[j]) /\ told[j] \in Seq(Listener)
        /\ \A l \in Listener : ~(Contains(told[j], l) /\ Contains(walk[t], l))
        /\ \A l \in due[j] : Contains(told[j], l) \/ Contains(walk[t], l)
    BY <1>0, <1>b, <2>1, <2>3 DEF ListenOK
  <2>5. /\ x \in Listener /\ Contains(walk[t], x) /\ IsInjective(Tail(walk[t]))
        /\ \A l : Contains(Tail(walk[t]), l) => Contains(walk[t], l)
        /\ \A l : Contains(walk[t], l) /\ l # x => Contains(Tail(walk[t]), l)
        /\ ~Contains(Tail(walk[t]), x)
    BY <1>0, <2>2, <2>3, <2>4, TailContains
  <2>6. ~Contains(told[j], x)
    BY <2>4, <2>5
  <2>7. /\ \A l : Contains(told'[j], l) <=> Contains(told[j], l) \/ l = x
        /\ IsInjective(told'[j])
    BY <2>3, <2>4, <2>5, <2>6, AppendContains
  <2>8. ASSUME NEW u \in Task PROVE ListenOK(u)'
    <3>1. CASE u = t
      <4>1. \A l \in Listener : ~(Contains(told'[j], l) /\ Contains(walk'[t], l))
        BY <2>3, <2>4, <2>5, <2>7
      <4>2. \A l \in due[j] : Contains(told'[j], l) \/ Contains(walk'[t], l)
        BY <2>3, <2>4, <2>5, <2>7
      <4> QED BY <2>1, <2>3, <2>5, <3>1, <4>1, <4>2 DEF ListenOK
    <3>2. CASE u # t
      <4>1. Destroys(t)
        BY <2>3 DEF Destroys
      <4>2. Before(pc[u]) \/ pc[u] = "walk" \/ After(pc[u]) => told'[op[u]] = told[op[u]]
        BY <1>a, <2>1, <2>3, <3>2, <4>1
      <4> QED BY <1>a, <2>3, <3>2, <4>2 DEF ListenOK, Before, After
    <3> QED BY <3>1, <3>2
  <2>9. job[j].destroyed /\ handle[j] = "live"
    <3>1. Destroys(t) /\ OpOK(t)
      BY <2>3 DEF Destroys, JobInv
    <3> QED BY <1>0, <2>1, <3>1 DEF OpOK
  <2>10. ASSUME NEW k \in Job
         PROVE  (/\ ~job[k].destroyed => told[k] = << >>
                 /\ IsInjective(told[k])
                 /\ handle[k] = "freed" => \A l \in due[k] : Contains(told[k], l))'
    BY <1>b, <2>3, <2>7, <2>9
  <2> QED BY <2>3, <2>8, <2>10 DEF ListenInv
<1>3. CASE LeaveContext(t)
  <2>1. /\ pc[t] = "walk" /\ pc'[t] = "release_own" /\ walk[t] = << >>
        /\ UNCHANGED <<handle, job, listeners, op, due, told, walk>>
    BY <1>0, <1>3 DEF LeaveContext, Goto, objects
  <2>2. ASSUME NEW u \in Task PROVE ListenOK(u)'
    <3>1. CASE u = t
      BY <1>0, <1>c, <2>1, <3>1 DEF ListenOK
    <3>2. CASE u # t
      BY <1>a, <2>1, <3>2 DEF ListenOK
    <3> QED BY <3>1, <3>2
  <2> QED BY <2>1, <2>2 DEF ListenInv
<1>4. CASE FreeHandle(t)
  <2>0. op[t] \in Job
    BY <1>0, <1>4 DEF FreeHandle, TaskOK
  <2>1. PICK j \in Job : j = op[t]
    BY <2>0
  <2>2. /\ pc[t] = "free_handle" /\ pc'[t] = "idle"
        /\ \A k \in Job : k # j => handle'[k] = handle[k]
        /\ UNCHANGED <<job, listeners, due, told, walk>>
    BY <1>0, <1>4, <2>1 DEF FreeHandle, Goto
  <2>3. \A l \in due[j] : Contains(told[j], l)
    BY <1>0, <2>1, <2>2 DEF ListenOK
  <2>4. ASSUME NEW u \in Task PROVE ListenOK(u)'
    <3>1. CASE u = t
      BY <2>2, <3>1 DEF ListenOK
    <3>2. CASE u # t
      BY <1>a, <2>2, <3>2 DEF ListenOK
    <3> QED BY <3>1, <3>2
  <2>5. ASSUME NEW k \in Job
        PROVE  (/\ ~job[k].destroyed => told[k] = << >>
                /\ IsInjective(told[k])
                /\ handle[k] = "freed" => \A l \in due[k] : Contains(told[k], l))'
    BY <1>b, <2>2, <2>3
  <2> QED BY <2>2, <2>4, <2>5 DEF ListenInv
<1>5. ASSUME NEW x \in Listener, Subscribe(t, x) PROVE ListenInv'
  <2>1. /\ listeners' = <<x>> \o listeners /\ ~Contains(listeners, x)
        /\ UNCHANGED <<handle, job, pc, op, due, told, walk>>
    BY <1>0, <1>5 DEF Subscribe, objects, tasks, Contains
  <2>2. /\ \A l : Contains(listeners', l) <=> l = x \/ Contains(listeners, l)
        /\ IsInjective(listeners')
    <3>1. IsInjective(listeners)
      BY DEF ListenInv
    <3> QED BY <1>0, <2>1, <3>1, FirstContains
  <2>3. ASSUME NEW u \in Task PROVE ListenOK(u)'
    <3>1. ListenOK(u)
      BY DEF ListenInv
    <3> QED BY <2>1, <2>2, <3>1 DEF ListenOK
  <2> QED BY <2>1, <2>2, <2>3 DEF ListenInv
<1>6. ASSUME NEW j \in Job, Destroy(t, j) PROVE ListenInv'
  <2>1. /\ pc'[t] = "destroy" /\ op'[t] = j /\ ~job[j].destroyed /\ job'[j].destroyed = TRUE
        /\ due'[j] = {listeners[i] : i \in DOMAIN listeners} /\ handle[j] = "live"
        /\ \A k \in Job : k # j => job'[k] = job[k] /\ due'[k] = due[k]
        /\ UNCHANGED <<handle, listeners, told, walk>>
    BY <1>0, <1>6 DEF Destroy, Goto
  <2>2. \A l \in due'[j] : Contains(listeners, l)
    <3>1. DOMAIN listeners = 1 .. Len(listeners)
      BY <1>0
    <3>2. ASSUME NEW l \in due'[j] PROVE Contains(listeners, l)
      <4>1. PICK i \in 1 .. Len(listeners) : l = listeners[i]
        BY <2>1, <3>1, <3>2
      <4> QED BY <3>1, <4>1 DEF Contains
    <3> QED BY <3>2
  <2>3. told[j] = << >>
    BY <1>b, <2>1
  <2>4. ASSUME NEW u \in Task PROVE ListenOK(u)'
    <3>1. CASE u = t
      BY <2>1, <2>2, <2>3, <3>1 DEF ListenOK
    <3>2. CASE u # t
      <4>1. Before(pc[u]) \/ pc[u] = "walk" \/ After(pc[u]) => op[u] # j /\ op[u] \in Job
        BY <1>0, <1>a, <2>1, <3>2 DEF OpOK
      <4> QED BY <1>a, <2>1, <3>2, <4>1 DEF ListenOK, Before, After
    <3> QED BY <3>1, <3>2
  <2>5. ASSUME NEW k \in Job
        PROVE  (/\ ~job[k].destroyed => told[k] = << >>
                /\ IsInjective(told[k])
                /\ handle[k] = "freed" => \A l \in due[k] : Contains(told[k], l))'
    BY <1>b, <2>1
  <2>6. IsInjective(listeners)'
    BY <2>1 DEF ListenInv
  <2> QED BY <2>4, <2>5, <2>6 DEF ListenInv
<1> QED BY <1>1, <1>2, <1>3, <1>4, <1>5, <1>6 DEF ListenSteps

LEMMA ListenNext ==
    ASSUME Configured, TypeInv, JobInv, ListenInv, NEW t \in Task, Moves(t)
    PROVE  ListenInv'
<1>1. Stays(t) /\ WalkStays(t) /\ TypeParts
  BY TypeNext
<1>2. TaskOK(t)
  BY DEF TypeInv
<1> QED BY <1>1, <1>2, ListenSteady, ListenStays, ListenChanges

-----------------------------------------------------------------------------
(* The invariant, and what it says of contexts.                            *)

ContextInv == TypeInv /\ JobInv /\ CountInv /\ ValueInv /\ ListenInv

(* The five layers together.                                               *)
LEMMA ContextInit ==
    ASSUME Configured, Init
    PROVE  ContextInv
<1>1. TypeOK /\ \A t \in Task : TaskOK(t)
  BY DEF Init, TypeOK, TaskOK
<1>2. JobInv
  BY DEF Init, JobInv, JobOK, RunOK, OpOK, OneRuns, OneDestroys, Destroys, Configured
<1>3. ASSUME NEW j \in Job PROVE Workers(j) = {} /\ Holders(j) = {} /\ ~Kept(j)
  BY DEF Init, Workers, Works, Holders, Holds, Kept, Configured
<1>4. Counted
  <2>1. ASSUME NEW j \in Job
        PROVE  refs[j] = One(Kept(j)) + Cardinality(Workers(j)) + Cardinality(Holders(j))
    <3>1. Workers(j) = {} /\ Holders(j) = {} /\ One(Kept(j)) = 0 /\ refs[j] = 0
      BY <1>3 DEF Init, One
    <3> QED BY <3>1, FS_EmptySet
  <2> QED BY <2>1 DEF Counted
<1>5. EndOK
  BY DEF Init, EndOK, Ends
<1>6. ValueInv
  BY DEF Init, ValueInv, ValueOK, Configured, NotSet
<1>7. ListenInv
  BY DEF Init, ListenInv, ListenOK, IsInjective
<1> QED BY <1>1, <1>2, <1>4, <1>5, <1>6, <1>7 DEF ContextInv, TypeInv, CountInv

LEMMA ContextNext ==
    ASSUME Configured, ContextInv, [Next]_vars
    PROVE  ContextInv'
<1>1. CASE Next
  <2>1. PICK t \in Task : Moves(t)
    BY <1>1 DEF Next, Moves
  <2>2. TypeInv' /\ JobInv' /\ CountInv' /\ ListenInv'
    BY <2>1, TypeNext, JobNext, CountNext, ListenNext DEF ContextInv
  <2>3. ValueInv'
    BY <2>1, <2>2, ValueNext DEF ContextInv
  <2> QED BY <2>2, <2>3 DEF ContextInv
<1>2. CASE UNCHANGED vars
  <2>1. TypeInv'
    BY <1>2 DEF vars, objects, tasks, ContextInv, TypeInv, TypeOK, TaskOK
  <2>2. JobInv'
    BY <1>2 DEF vars, objects, tasks, ContextInv, JobInv, JobOK, RunOK, OpOK, OneRuns,
                OneDestroys, Destroys
  <2>3. CountInv'
    BY <1>2 DEF vars, objects, tasks, ContextInv, CountInv, Counted, EndOK, Ends,
                Workers,
                Holders, Works, Holds, Kept, Drops
  <2>4. ValueInv'
    BY <1>2 DEF vars, objects, tasks, ContextInv, ValueInv, ValueOK
  <2>5. ListenInv'
    BY <1>2 DEF vars, objects, tasks, ContextInv, ListenInv, ListenOK
  <2> QED BY <2>1, <2>2, <2>3, <2>4, <2>5 DEF ContextInv
<1> QED BY <1>1, <1>2

(* Everything that leads to a context is counted, or holds off its end.    *)
LEMMA AliveFromInv ==
    ASSUME Configured, ContextInv
    PROVE  ContextAlive
<1>1. \A j \in Job : refs[j] # 0 => ctx[j] = "live"
  BY DEF ContextInv, CountInv, EndOK
<1>2. \A j \in Job : /\ Kept(j) => ctx[j] = "live"
                     /\ \A t \in Task : Works(t, j) \/ Holds(t, j) => ctx[j] = "live"
  BY <1>1, Referenced DEF ContextInv, CountInv
<1>3. \A t \in Task : \A j \in Job : Ends(t, j) => ctx[j] = "live"
  BY DEF ContextInv, CountInv, EndOK
<1>4. NoJob \notin Job
  BY DEF Configured
<1>5. ASSUME NEW j \in Job, handle[j] \in {"live", "lost"}, ctx[j] # "live"
      PROVE  \E t \in Task : op[t] = j /\ pc[t] = "free_handle"
  <2>1. PICK t \in Task : Drops(t, j)
    BY <1>2, <1>5 DEF Kept
  <2>2. ~Ends(t, j)
    BY <1>3, <1>5
  <2> QED BY <2>1, <2>2 DEF Drops, Ends
<1>6. ASSUME NEW t \in Task, running[t] # NoJob
      PROVE  ctx[running[t]] = "live"
  <2>1. PICK j \in Job : j = running[t]
    BY <1>6 DEF ContextInv, TypeInv, TypeOK
  <2>2. CASE pc[t] \in {"taken", "acquire"}
    <3>1. handle[j] = "live" /\ ~job[j].destroyed
      BY <1>6, <2>1, <2>2 DEF ContextInv, JobInv, RunOK
    <3> QED BY <1>2, <1>4, <2>1, <3>1, HandleKeeps DEF ContextInv
  <2>3. CASE pc[t] \notin {"taken", "acquire"}
    BY <1>2, <2>1, <2>3 DEF Works
  <2> QED BY <2>2, <2>3
<1>7. ASSUME NEW t \in Task, pc[t] \notin {"idle", "free_handle"}, op[t] # NoJob
      PROVE  ctx[op[t]] = "live"
  <2>1. PICK j \in Job : j = op[t]
    BY <1>7 DEF ContextInv, TypeInv, TypeOK
  <2>2. CASE pc[t] \in {"destroy", "release_handle"}
    <3>1. Destroys(t) /\ ~Drops(t, j)
      BY <2>2 DEF Destroys, Drops
    <3>2. handle[j] = "live"
      BY <1>7, <2>1, <3>1 DEF ContextInv, JobInv, OpOK
    <3> QED BY <1>2, <1>4, <2>1, <3>1, <3>2, HandleKeeps DEF ContextInv
  <2>3. CASE pc[t] \in {"end", "end_own", "end_handle"}
    BY <1>3, <2>1, <2>3 DEF Ends
  <2>4. CASE pc[t] \in {"field", "notify", "walk", "release", "release_own"}
    BY <1>2, <2>1, <2>4 DEF Holds
  <2>5. pc[t] \notin {"taken", "acquire", "detach"}
    BY <1>7 DEF ContextInv, TypeInv, TaskOK
  <2>6. pc[t] \in {"idle", "taken", "acquire", "detach", "field", "destroy", "notify",
                   "walk", "release", "release_own", "release_handle", "end", "end_own",
                   "end_handle", "free_handle"}
    BY DEF ContextInv, TypeInv, TypeOK
  <2> QED BY <1>7, <2>2, <2>3, <2>4, <2>5, <2>6
<1>8. ASSUME NEW t \in Task, current[t] # NoJob
      PROVE  ctx[current[t]] = "live"
  <2>1. CASE pc[t] \in {"notify", "walk"}
    <3>1. current[t] = op[t]
      BY <2>1 DEF ContextInv, TypeInv, TaskOK
    <3> QED BY <1>7, <1>8, <2>1, <3>1
  <2>2. CASE pc[t] \notin {"notify", "walk"}
    <3>1. current[t] = running[t]
      BY <1>8, <2>2 DEF ContextInv, TypeInv, TaskOK
    <3> QED BY <1>6, <1>8, <3>1
  <2> QED BY <2>1, <2>2
<1> QED BY <1>5, <1>6, <1>7, <1>8 DEF ContextAlive

(* A value has one place until its destructor ran, and none after.         *)
LEMMA OnceFromInv ==
    ASSUME Configured, ContextInv
    PROVE  DestructorsOnce
<1>1. ASSUME NEW v \in Value
      PROVE  /\ finished[v] \in {NotSet, 0, 1}
             /\ Cardinality({j \in Job : slot[j] = v} \cup {t \in Task : dying[v] = t})
                   = IF finished[v] = 0 THEN 1 ELSE 0
  <2> DEFINE P == {j \in Job : slot[j] = v} \cup {t \in Task : dying[v] = t}
  <2>1. ValueOK(v) /\ dying[v] \in Task \cup {Nobody} /\ Nobody \notin Task
    BY DEF ContextInv, ValueInv, TypeInv, TypeOK, Configured
  <2>2. CASE finished[v] # 0
    <3>1. P = {}
      BY <2>1, <2>2 DEF ValueOK
    <3> QED BY <2>1, <2>2, <3>1, FS_EmptySet DEF ValueOK
  <2>3. CASE finished[v] = 0 /\ dying[v] # Nobody
    <3>1. P = {dying[v]}
      BY <2>1, <2>3 DEF ValueOK
    <3> QED BY <2>1, <2>3, <3>1, FS_Singleton DEF ValueOK
  <2>4. CASE finished[v] = 0 /\ dying[v] = Nobody
    <3>1. PICK j \in Job : slot[j] = v
      BY <2>1, <2>4 DEF ValueOK
    <3>2. P = {j}
      BY <2>1, <2>4, <3>1 DEF ValueOK
    <3> QED BY <2>1, <2>4, <3>2, FS_Singleton DEF ValueOK
  <2> QED BY <2>2, <2>3, <2>4
<1>2. \A j \in Job : ctx[j] # "live" => slot[j] = NoValue /\ ~heap[j]
  BY DEF ContextInv, CountInv, EndOK, ValueInv
<1> QED BY <1>1, <1>2 DEF DestructorsOnce

(* The four promises follow.                                               *)
LEMMA SoundFromInv ==
    ASSUME Configured, ContextInv
    PROVE  TypeOK /\ ContextsSound
<1>1. RefsCounted
  BY DEF ContextInv, CountInv, Counted, One, Kept, Workers, Holders, Works, Holds,
     Drops,
         RefsCounted
<1>2. ListenersTold
  <2>1. \A j \in Job : told[j] \in Seq(Listener)
    BY DEF ContextInv, TypeInv, TypeOK
  <2>2. ASSUME NEW j \in Job
        PROVE  /\ handle[j] = "freed"
                     => \A l \in due[j] : \E i \in DOMAIN told[j] : told[j][i] = l
               /\ \A i, k \in DOMAIN told[j] : told[j][i] = told[j][k] => i = k
    <3>1. /\ handle[j] = "freed" => \A l \in due[j] : Contains(told[j], l)
          /\ IsInjective(told[j])
      BY DEF ContextInv, ListenInv
    <3>2. DOMAIN told[j] = 1 .. Len(told[j])
      BY <2>1
    <3> QED BY <3>1, <3>2 DEF Contains, IsInjective
  <2>3. \A t \in Task : pc[t] = "walk" => current[t] = op[t]
    BY DEF ContextInv, TypeInv, TaskOK
  <2> QED BY <2>2, <2>3 DEF ListenersTold
<1> QED BY <1>1, <1>2, AliveFromInv, OnceFromInv DEF ContextsSound, ContextInv, TypeInv

(* A context lives as long as anything leads to it, its count is that of   *)
(* its references, the destructor of every value runs once, and every      *)
(* destroy listener is told once: whatever workers and clients do, and in  *)
(* whichever order (jctx.c and its callers).                               *)
THEOREM ContextInvariance ==
    ASSUME Configured
    PROVE  Spec => [](TypeOK /\ ContextsSound)
<1>1. Init => ContextInv
  BY ContextInit
<1>2. ContextInv /\ [Next]_vars => ContextInv'
  BY ContextNext
<1>3. ContextInv => TypeOK /\ ContextsSound
  BY SoundFromInv
<1> QED BY <1>1, <1>2, <1>3, PTL DEF Spec

-----------------------------------------------------------------------------
(* The registry of tasks, whose mutex is nobody's for long: ListInv says   *)
(* what is listed, IdInv that ids are given in turn, and FreedByOne that   *)
(* what is taken out is one's to free.                                     *)

CONSTANTS Client, Meta, NoMeta, NoOne, Ids

VARIABLES
    metas, registry, next_id, sched_lock, exists, suspended, doing, subject, given, halted

Tasks == INSTANCE SchedRegistry WITH pc <- doing

(* The parts of the invariant.                                             *)

MetaRecord == [memory : {"none", "live", "freed"}, id : 0 .. Ids - 1, handle : BOOLEAN,
               finalized : BOOLEAN]

TaskLabel == {"idle", "spawn", "return_id", "delete", "finalize", "free", "leave", "suspend",
          "resume", "created", "run", "update", "end", "gone"}

TaskTypes ==
    /\ metas \in [Meta -> MetaRecord] /\ registry \in Seq(Meta) /\ next_id \in 1 .. Ids - 1
    /\ sched_lock \in Meta \cup {NoOne} /\ exists \subseteq Meta /\ suspended \subseteq exists
    /\ doing \in [Client \cup Meta -> TaskLabel]
    /\ subject \in [Client -> Meta \cup {NoMeta}] /\ given \subseteq 1 .. Ids - 1
    /\ halted \in BOOLEAN

(* A client in a call has some metadata in hand.                           *)
HandInv == \A c \in Client : doing[c] # "idle" => subject[c] \in Meta

NewInv == \A m \in Meta : metas[m].memory = "none" => ~metas[m].finalized

Enlisted(m) == Tasks!Live(m) /\ ~metas[m].finalized

ListInv ==
    /\ IsInjective(registry)
    /\ \A m \in Meta : Contains(registry, m) <=> Enlisted(m)

(* Ids are given in turn, and there are enough of them.                    *)
Made == {m \in Meta : metas[m].memory # "none"}

IdInv ==
    /\ \A m \in Made : metas[m].id \in 1 .. Ids - 1
    /\ \A m, n \in Made : metas[m].id = metas[n].id => m = n
    /\ Made # Meta => /\ next_id = Cardinality(Made) + 1
                      /\ \A m \in Made : metas[m].id < next_id

DataInv == NewInv /\ Tasks!FreedByOne /\ ListInv /\ IdInv

SchedInv == TaskTypes /\ HandInv /\ DataInv

-----------------------------------------------------------------------------
(* The operators the actions are made of.                                  *)

LEMMA MinOfNaturals ==
    ASSUME NEW S \in SUBSET Nat, S # {}
    PROVE  Tasks!Min(S) \in S
BY LeastOfNaturals DEF Tasks!Min

(* What is found is in the registry.                                       *)
LEMMA FoundMeta ==
    ASSUME registry \in Seq(Meta), NEW id, Tasks!Found(id) # NoMeta
    PROVE  Tasks!Found(id) \in Meta /\ Contains(registry, Tasks!Found(id))
<1> DEFINE at == {i \in DOMAIN registry : metas[registry[i]].id = id}
<1>1. DOMAIN registry = 1 .. Len(registry) /\ Len(registry) \in Nat
  OBVIOUS
<1>2. at # {} /\ Tasks!Found(id) = registry[Tasks!Min(at)]
  BY DEF Tasks!Found
<1>3. Tasks!Min(at) \in at
  <2>1. at \in SUBSET Nat
    BY <1>1
  <2> HIDE DEF at
  <2> QED BY <1>2, <2>1, MinOfNaturals
<1>4. PICK i \in 1 .. Len(registry) : Tasks!Found(id) = registry[i]
  BY <1>1, <1>2, <1>3
<1> QED BY <1>1, <1>4 DEF Contains

(* Who is taken out of the registry is not in it, and the others stay.     *)
LEMMA WithoutMeta ==
    ASSUME registry \in Seq(Meta), IsInjective(registry), NEW m \in Meta
    PROVE  /\ Tasks!Without(m) \in Seq(Meta) /\ IsInjective(Tasks!Without(m))
           /\ \A n : Contains(Tasks!Without(m), n) <=> Contains(registry, n) /\ n # m
<1> DEFINE at == {i \in DOMAIN registry : registry[i] = m}
<1>1. DOMAIN registry = 1 .. Len(registry) /\ Len(registry) \in Nat
  OBVIOUS
<1>2. CASE at = {}
  <2>1. ~Contains(registry, m) /\ Tasks!Without(m) = registry
    BY <1>1, <1>2 DEF Contains, Tasks!Without
  <2> QED BY <2>1
<1>3. CASE at # {}
  <2>1. at \in SUBSET Nat
    BY <1>1
  <2>2. Tasks!Min(at) \in at
    <3> HIDE DEF at
    <3> QED BY <1>3, <2>1, MinOfNaturals
  <2>3. Tasks!Without(m) = RemoveAt(registry, Tasks!Min(at))
    BY <1>3 DEF Tasks!Without, Tasks!RemoveAt, RemoveAt
  <2>4. PICK i \in 1 .. Len(registry) : registry[i] = m /\ Tasks!Without(m) = RemoveAt(registry, i)
    BY <1>1, <2>2, <2>3
  <2> QED BY <2>4, RemoveAtContains, RemoveAtIndexed
<1> QED BY <1>2, <1>3

(* Metadata that come into the registry are its head.                      *)
LEMMA HeadMeta ==
    ASSUME registry \in Seq(Meta), NEW m \in Meta
    PROVE  /\ <<m>> \o registry \in Seq(Meta)
           /\ \A n : Contains(<<m>> \o registry, n) <=> Contains(registry, n) \/ n = m
           /\ IsInjective(registry) /\ ~Contains(registry, m)
                 => IsInjective(<<m>> \o registry)
<1> DEFINE q == <<m>> \o registry
<1>1. /\ q \in Seq(Meta) /\ Len(q) = Len(registry) + 1 /\ Len(registry) \in Nat
      /\ q[1] = m /\ \A i \in 2 .. Len(q) : q[i] = registry[i - 1]
      /\ DOMAIN q = 1 .. Len(q) /\ DOMAIN registry = 1 .. Len(registry)
  OBVIOUS
<1>2. ASSUME NEW n PROVE Contains(q, n) <=> Contains(registry, n) \/ n = m
  <2>1. ASSUME Contains(q, n) PROVE Contains(registry, n) \/ n = m
    <3>1. PICK i \in 1 .. Len(q) : q[i] = n
      BY <2>1, <1>1 DEF Contains
    <3>2. CASE i = 1
      BY <3>1, <3>2, <1>1
    <3>3. CASE i # 1
      <4>1. i \in 2 .. Len(q) /\ i - 1 \in 1 .. Len(registry)
        BY <1>1, <3>3
      <4> QED BY <4>1, <3>1, <1>1 DEF Contains
    <3> QED BY <3>2, <3>3
  <2>2. ASSUME Contains(registry, n) PROVE Contains(q, n)
    <3>1. PICK i \in 1 .. Len(registry) : registry[i] = n
      BY <2>2, <1>1 DEF Contains
    <3>2. i + 1 \in 2 .. Len(q) /\ q[i + 1] = registry[(i + 1) - 1] /\ (i + 1) - 1 = i
      BY <1>1
    <3>3. i + 1 \in 1 .. Len(q)
      BY <1>1
    <3> QED BY <3>1, <3>2, <3>3 DEF Contains
  <2>3. n = m => Contains(q, n)
    <3>1. 1 \in 1 .. Len(q)
      BY <1>1
    <3> QED BY <3>1, <1>1 DEF Contains
  <2> QED BY <2>1, <2>2, <2>3
<1>3. ASSUME IsInjective(registry), ~Contains(registry, m) PROVE IsInjective(q)
  <2>1. ASSUME NEW i \in 1 .. Len(q), NEW k \in 1 .. Len(q), q[i] = q[k] PROVE i = k
    <3>1. \A j \in 2 .. Len(q) : j - 1 \in 1 .. Len(registry) /\ q[j] # m
      BY <1>1, <1>3 DEF Contains
    <3>2. CASE i = 1 \/ k = 1
      BY <2>1, <3>1, <3>2, <1>1
    <3>3. CASE i # 1 /\ k # 1
      <4>1. i \in 2 .. Len(q) /\ k \in 2 .. Len(q)
        BY <1>1, <3>3
      <4>2. registry[i - 1] = registry[k - 1]
        BY <4>1, <2>1, <1>1
      <4>3. i - 1 = k - 1
        BY <4>1, <4>2, <3>1, <1>1, <1>3 DEF IsInjective
      <4> QED BY <4>1, <4>3
    <3> QED BY <3>2, <3>3
  <2> QED BY <2>1, <1>1 DEF IsInjective
<1> QED BY <1>1, <1>2, <1>3

-----------------------------------------------------------------------------
(* What a step does to the metadata: mostly nothing that matters here, ... *)

Quiet ==
    /\ registry' = registry /\ next_id' = next_id
    /\ \A n \in Meta : /\ metas'[n].id = metas[n].id /\ metas'[n].memory = metas[n].memory
                       /\ metas'[n].finalized = metas[n].finalized
    /\ \A p \in Client \cup Meta :
          doing'[p] = "free" => /\ doing[p] = "free"
                                /\ p \in Client => subject'[p] = subject[p]

LEMMA QuietData ==
    ASSUME DataInv, Quiet
    PROVE  DataInv'
<1>1. NewInv'
  BY DEF DataInv, NewInv, Quiet
<1>2. \A m \in Meta, p \in Client \cup Meta : Tasks!Frees(p, m)' => Tasks!Frees(p, m)
  BY DEF Quiet, Tasks!Frees
<1>3. Tasks!FreedByOne'
  BY <1>2 DEF DataInv, Quiet, Tasks!FreedByOne, Tasks!Live
<1>4. ListInv'
  BY DEF DataInv, ListInv, Quiet, Enlisted, Tasks!Live
<1>5. Made' = Made /\ Made \subseteq Meta
  BY DEF Made, Quiet
<1>6. IdInv'
  BY <1>5 DEF DataInv, IdInv, Quiet
<1> QED BY <1>1, <1>3, <1>4, <1>6 DEF DataInv

(* ... or they are finalized, which nobody did before, ...                 *)
LEMMA FinalizeData ==
    ASSUME Tasks!Configured, TaskTypes, DataInv, NEW m \in Meta, NEW p \in Client \cup Meta,
           Tasks!Live(m), ~metas[m].finalized, p = m \/ (p \in Client /\ subject[p] = m),
           metas' = [metas EXCEPT ![m].finalized = TRUE], registry' = Tasks!Without(m),
           doing' = [doing EXCEPT ![p] = "free"], next_id' = next_id, subject' = subject
    PROVE  metas' \in [Meta -> MetaRecord] /\ registry' \in Seq(Meta) /\ DataInv'
<1>1. /\ registry \in Seq(Meta) /\ IsInjective(registry)
      /\ metas' \in [Meta -> MetaRecord]
  BY DEF TaskTypes, DataInv, ListInv, MetaRecord
<1>2. /\ metas'[m].finalized /\ Tasks!Live(m)'
      /\ \A n \in Meta \ {m} : metas'[n] = metas[n]
      /\ \A n \in Meta : metas'[n].id = metas[n].id /\ metas'[n].memory = metas[n].memory
  BY DEF TaskTypes, MetaRecord, Tasks!Live
<1>3. NewInv'
  BY <1>2 DEF DataInv, NewInv, Tasks!Live
<1>4. \A q \in Client \cup Meta : ~Tasks!Frees(q, m)
  BY DEF DataInv, Tasks!FreedByOne
<1>5. ASSUME NEW n \in Meta, NEW q \in Client \cup Meta, Tasks!Frees(q, n)'
      PROVE  (q = p /\ n = m) \/ (Tasks!Frees(q, n) /\ n # m)
  <2>1. CASE q = p
    BY <1>5, <2>1 DEF Tasks!Frees, Tasks!Configured
  <2>2. CASE q # p
    <3>1. Tasks!Frees(q, n)
      BY <1>5, <2>2 DEF Tasks!Frees, TaskTypes
    <3> QED BY <3>1, <1>4
  <2> QED BY <2>1, <2>2
<1>6. Tasks!FreedByOne'
  BY <1>2, <1>5 DEF DataInv, Tasks!FreedByOne, Tasks!Live
<1>7. ListInv'
  BY <1>1, <1>2, WithoutMeta DEF DataInv, ListInv, Enlisted, Tasks!Live
<1>8. Made' = Made /\ Made \subseteq Meta
  BY <1>2 DEF Made
<1>9. IdInv'
  BY <1>2, <1>8 DEF DataInv, IdInv
<1> QED BY <1>1, <1>3, <1>6, <1>7, <1>9, WithoutMeta DEF DataInv

(* ... or freed by the one who did.                                        *)
LEMMA FreeData ==
    ASSUME Tasks!Configured, TaskTypes, DataInv, NEW m \in Meta, NEW p \in Client \cup Meta,
           Tasks!Frees(p, m), NEW l \in TaskLabel \ {"free"},
           metas' = [metas EXCEPT ![m].memory = "freed"],
           doing' = [doing EXCEPT ![p] = l], registry' = registry, next_id' = next_id,
           \A c \in Client \ {p} : subject'[c] = subject[c]
    PROVE  metas' \in [Meta -> MetaRecord] /\ DataInv'
<1>1. Tasks!Live(m) /\ metas[m].finalized /\ \A q \in Client \cup Meta : Tasks!Frees(q, m) => q = p
  BY DEF DataInv, Tasks!FreedByOne
<1>2. metas' \in [Meta -> MetaRecord]
  BY DEF TaskTypes, MetaRecord
<1>3. /\ metas'[m].memory = "freed" /\ metas'[m].finalized
      /\ \A n \in Meta \ {m} : metas'[n] = metas[n]
      /\ \A n \in Meta : metas'[n].id = metas[n].id
  BY <1>1 DEF TaskTypes, MetaRecord
<1>4. NewInv'
  BY <1>3 DEF DataInv, NewInv
<1>5. \A n \in Meta, q \in Client \cup Meta :
          Tasks!Frees(q, n)' => Tasks!Frees(q, n) /\ q # p
  BY DEF Tasks!Frees, TaskTypes
<1>6. Tasks!FreedByOne'
  BY <1>1, <1>3, <1>5 DEF DataInv, Tasks!FreedByOne, Tasks!Live
<1>7. ListInv'
  BY <1>1, <1>3 DEF DataInv, ListInv, Enlisted, Tasks!Live
<1>8. Made' = Made /\ Made \subseteq Meta
  BY <1>1, <1>3 DEF Made, Tasks!Live
<1>9. IdInv'
  BY <1>3, <1>8 DEF DataInv, IdInv
<1> QED BY <1>2, <1>4, <1>6, <1>7, <1>9 DEF DataInv

(* The ids of the tasks that are made are all different, and there is one  *)
(* left for the next.                                                      *)
LEMMA NextIdType ==
    ASSUME Tasks!Configured, TaskTypes
    PROVE  /\ Tasks!NextId \in 1 .. Ids - 1
           /\ next_id + 1 < Ids => Tasks!NextId = next_id + 1
<1>1. Ids \in Nat /\ Ids > 1 /\ next_id \in 1 .. Ids - 1
  BY DEF Tasks!Configured, TaskTypes
<1>2. CASE next_id + 1 = Ids
  <2>1. (next_id + 1) % Ids = 0
    BY <1>1, <1>2
  <2> QED BY <1>1, <1>2, <2>1 DEF Tasks!NextId
<1>3. CASE next_id + 1 < Ids
  <2>1. (next_id + 1) % Ids = next_id + 1
    BY <1>1, <1>3
  <2> QED BY <1>1, <1>3, <2>1 DEF Tasks!NextId
<1> QED BY <1>1, <1>2, <1>3

LEMMA CreateKeeps ==
    ASSUME Tasks!Configured, SchedInv, NEW c \in Client, NEW m \in Meta, Tasks!Create(c, m)
    PROVE  SchedInv'
<1> USE DEF SchedInv, DataInv
<1>1. /\ metas' = [metas EXCEPT ![m].memory = "live", ![m].id = next_id]
      /\ metas[m].memory = "none" /\ registry' = <<m>> \o registry /\ next_id' = Tasks!NextId
      /\ subject' = [subject EXCEPT ![c] = m] /\ doing' = [doing EXCEPT ![c] = "spawn"]
      /\ UNCHANGED <<sched_lock, exists, suspended, given, halted>> /\ doing[c] = "idle"
  BY DEF Tasks!Create, Tasks!Goto, Tasks!taskVars, Tasks!Idle, Tasks!At
<1>2. /\ metas'[m].memory = "live" /\ metas'[m].id = next_id
      /\ metas'[m].finalized = metas[m].finalized /\ ~metas[m].finalized
      /\ \A n \in Meta \ {m} : metas'[n] = metas[n]
  BY <1>1 DEF TaskTypes, MetaRecord, NewInv
<1>3. TaskTypes'
  <2>1. next_id \in 0 .. Ids - 1
    BY DEF TaskTypes, Tasks!Configured
  <2>2. metas' \in [Meta -> MetaRecord]
    BY <1>1, <2>1 DEF TaskTypes, MetaRecord
  <2> QED BY <1>1, <2>2, HeadMeta, NextIdType DEF TaskTypes, TaskLabel
<1>4. ListInv'
  <2>1. ~Contains(registry, m)
    BY <1>1 DEF ListInv, Enlisted, Tasks!Live
  <2>2. IsInjective(registry')
    BY <1>1, <2>1, HeadMeta DEF TaskTypes, ListInv
  <2>3. ASSUME NEW n \in Meta
        PROVE  (Contains(registry, n) <=> Enlisted(n))'
    BY <1>1, <1>2, HeadMeta DEF TaskTypes, ListInv, Enlisted, Tasks!Live
  <2> QED BY <2>2, <2>3 DEF ListInv
<1>5. IdInv'
  <2>1. Made' = Made \cup {m} /\ m \notin Made /\ Made \subseteq Meta
    BY <1>1, <1>2 DEF Made
  <2>2. next_id = Cardinality(Made) + 1 /\ \A n \in Made : metas[n].id < next_id
    BY <2>1 DEF IdInv
  <2>3. \A n \in Made : metas'[n].id = metas[n].id
    BY <1>2, <2>1
  <2>4. \A n \in Made : metas[n].id \in 1 .. Ids - 1
    BY DEF IdInv
  <2>5. next_id \in 1 .. Ids - 1 /\ Ids \in Nat
    BY DEF TaskTypes, Tasks!Configured
  <2>6. \A n \in Made' : metas'[n].id \in 1 .. Ids - 1
    BY <1>2, <2>1, <2>3, <2>4, <2>5
  <2>7. ASSUME NEW n \in Made', NEW k \in Made', metas'[n].id = metas'[k].id PROVE n = k
    BY <1>2, <2>1, <2>2, <2>3, <2>4, <2>5, <2>7 DEF IdInv
  <2>8. ASSUME Made' # Meta
        PROVE  next_id' = Cardinality(Made') + 1 /\ \A n \in Made' : metas'[n].id < next_id'
    <3>1. IsFiniteSet(Meta) /\ Cardinality(Meta) < Ids
      BY DEF Tasks!Configured, Tasks!IsFiniteSet, IsFiniteSet, Tasks!Cardinality, Cardinality
    <3>2. IsFiniteSet(Made) /\ Cardinality(Made) \in Nat
      BY <2>1, <3>1, FS_Subset, FS_CardinalityType
    <3>3. Cardinality(Made') = Cardinality(Made) + 1
      BY <2>1, <3>2, FS_AddElement
    <3>4. Cardinality(Made') < Cardinality(Meta) /\ Cardinality(Meta) \in Nat
      <4>1. Made' \in SUBSET Meta
        BY <2>1
      <4>2. Cardinality(Made') <= Cardinality(Meta) /\ Cardinality(Made') # Cardinality(Meta)
        BY <2>8, <3>1, <4>1, FS_Subset
      <4> QED BY <3>1, <3>2, <3>3, <4>2, FS_CardinalityType
    <3>5. next_id' = next_id + 1
      BY <1>1, <2>2, <2>5, <3>1, <3>2, <3>3, <3>4, NextIdType
    <3>6. \A n \in Made' : metas'[n].id <= next_id
      BY <1>2, <2>1, <2>2, <2>3, <2>4, <2>5
    <3> QED BY <2>2, <2>5, <2>6, <3>2, <3>3, <3>5, <3>6
  <2> QED BY <2>6, <2>7, <2>8 DEF IdInv
<1>6. NewInv'
  BY <1>2 DEF NewInv
<1>7. HandInv'
  BY <1>1 DEF HandInv, TaskTypes, Tasks!Configured
<1>8. Tasks!FreedByOne'
  <2>1. \A q \in Client \cup Meta : ~Tasks!Frees(q, m)
    BY <1>1 DEF Tasks!FreedByOne, Tasks!Live
  <2>2. \A n \in Meta, q \in Client \cup Meta :
            Tasks!Frees(q, n)' => Tasks!Frees(q, n) /\ n # m
    BY <1>1, <2>1 DEF Tasks!Frees, TaskTypes
  <2> QED BY <1>2, <2>2 DEF Tasks!FreedByOne, Tasks!Live
<1> QED BY <1>3, <1>4, <1>5, <1>6, <1>7, <1>8

-----------------------------------------------------------------------------
(* Clients.                                                                *)

ClientActs(c) ==
    \/ \E m \in Meta : Tasks!Create(c, m)
    \/ \E id \in given :
          \/ Tasks!Destroy(c, id)
          \/ Tasks!Seek(c, id, "suspend")
          \/ Tasks!Seek(c, id, "resume")
    \/ Tasks!Spawn(c) \/ Tasks!SpawnFails(c) \/ Tasks!ReturnId(c)
    \/ Tasks!Delete(c) \/ Tasks!Finalize(c) \/ Tasks!FreeMeta(c) \/ Tasks!Tell(c)

LEMMA ClientNext ==
    ASSUME Tasks!Configured, SchedInv, NEW c \in Client, ClientActs(c)
    PROVE  SchedInv'
<1> USE DEF SchedInv, Tasks!At, Tasks!Idle, Tasks!Goto, Tasks!taskVars
<1>0. /\ Client \cap Meta = {} /\ doing \in [Client \cup Meta -> TaskLabel]
      /\ subject \in [Client -> Meta \cup {NoMeta}] /\ metas \in [Meta -> MetaRecord]
      /\ doing[c] # "idle" => subject[c] \in Meta
  BY DEF Tasks!Configured, TaskTypes, HandInv
<1>1. ASSUME NEW m \in Meta, Tasks!Create(c, m) PROVE SchedInv'
  BY <1>1, CreateKeeps
<1>2. ASSUME NEW m \in Meta, NEW l \in TaskLabel \ {"free", "idle"},
             doing' = [doing EXCEPT ![c] = l], subject' = [subject EXCEPT ![c] = m],
             UNCHANGED <<metas, registry, next_id, sched_lock, exists, suspended, given, halted>>
      PROVE  SchedInv'
  <2>1. TaskTypes'
    BY <1>0, <1>2 DEF TaskTypes
  <2>2. HandInv'
    BY <1>0, <1>2 DEF HandInv
  <2>3. Quiet
    BY <1>0, <1>2 DEF Quiet
  <2> QED BY <2>1, <2>2, <2>3, QuietData
<1>3. ASSUME NEW id, Tasks!Destroy(c, id) PROVE SchedInv'
  <2>1. PICK m \in Meta : m = Tasks!Found(id)
    BY <1>3, FoundMeta DEF Tasks!Destroy, TaskTypes
  <2>2. /\ subject' = [subject EXCEPT ![c] = m]
        /\ doing' = [doing EXCEPT ![c] = IF metas[m].handle THEN "delete" ELSE "finalize"]
        /\ UNCHANGED <<metas, registry, next_id, sched_lock, exists, suspended, given, halted>>
    BY <1>3, <2>1 DEF Tasks!Destroy
  <2>3. (IF metas[m].handle THEN "delete" ELSE "finalize") \in TaskLabel \ {"free", "idle"}
    BY DEF TaskLabel
  <2> QED BY <1>2, <2>2, <2>3
<1>4. ASSUME NEW id, NEW l \in {"suspend", "resume"}, Tasks!Seek(c, id, l) PROVE SchedInv'
  <2>1. PICK m \in Meta : m = Tasks!Found(id)
    BY <1>4, FoundMeta DEF Tasks!Seek, TaskTypes
  <2>2. /\ subject' = [subject EXCEPT ![c] = m] /\ doing' = [doing EXCEPT ![c] = l]
        /\ UNCHANGED <<metas, registry, next_id, sched_lock, exists, suspended, given, halted>>
    BY <1>4, <2>1 DEF Tasks!Seek
  <2>3. l \in TaskLabel \ {"free", "idle"}
    BY DEF TaskLabel
  <2> QED BY <1>2, <2>2, <2>3
<1>5. CASE Tasks!Spawn(c)
  <2>1. TaskTypes'
    BY <1>0, <1>5 DEF Tasks!Spawn, TaskTypes, TaskLabel
  <2>2. HandInv'
    BY <1>0, <1>5 DEF Tasks!Spawn, HandInv
  <2>3. Quiet
    BY <1>0, <1>5 DEF Tasks!Spawn, Quiet
  <2> QED BY <2>1, <2>2, <2>3, QuietData
<1>6. CASE Tasks!SpawnFails(c)
  <2>1. TaskTypes'
    BY <1>0, <1>6 DEF Tasks!SpawnFails, TaskTypes, TaskLabel
  <2>2. HandInv'
    BY <1>0, <1>6 DEF Tasks!SpawnFails, HandInv
  <2>3. Quiet
    BY <1>0, <1>6 DEF Tasks!SpawnFails, Quiet
  <2> QED BY <2>1, <2>2, <2>3, QuietData
<1>7. CASE Tasks!ReturnId(c)
  <2>1. subject[c] \in Made
    BY <1>0, <1>7 DEF Tasks!ReturnId, Made, Tasks!Live
  <2>2. metas[subject[c]].id \in 1 .. Ids - 1
    BY <2>1 DEF DataInv, IdInv
  <2>3. TaskTypes'
    BY <1>0, <1>7, <2>2 DEF Tasks!ReturnId, TaskTypes, TaskLabel
  <2>4. HandInv'
    BY <1>0, <1>7 DEF Tasks!ReturnId, HandInv
  <2>5. Quiet
    BY <1>0, <1>7 DEF Tasks!ReturnId, Quiet
  <2> QED BY <2>3, <2>4, <2>5, QuietData
<1>8. CASE Tasks!Delete(c)
  <2>1. TaskTypes'
    BY <1>0, <1>8 DEF Tasks!Delete, TaskTypes, TaskLabel
  <2>2. HandInv'
    BY <1>0, <1>8 DEF Tasks!Delete, HandInv
  <2>3. Quiet
    BY <1>0, <1>8 DEF Tasks!Delete, Quiet
  <2> QED BY <2>1, <2>2, <2>3, QuietData
<1>9. CASE Tasks!Finalize(c)
  <2>1. subject[c] \in Meta /\ Tasks!Live(subject[c])
    BY <1>0, <1>9 DEF Tasks!Finalize
  <2>2. CASE metas[subject[c]].finalized
    <3>1. /\ doing' = [doing EXCEPT ![c] = "leave"]
          /\ UNCHANGED <<metas, registry, next_id, sched_lock, exists, suspended, subject, given,
                         halted>>
      BY <1>9, <2>2 DEF Tasks!Finalize, Tasks!Finalized
    <3>2. subject' = [subject EXCEPT ![c] = subject[c]] /\ "leave" \in TaskLabel \ {"free", "idle"}
      BY <1>0, <3>1 DEF TaskLabel
    <3> QED BY <1>2, <2>1, <3>1, <3>2
  <2>3. CASE ~metas[subject[c]].finalized
    <3>1. /\ metas' = [metas EXCEPT ![subject[c]].finalized = TRUE]
          /\ registry' = Tasks!Without(subject[c]) /\ doing' = [doing EXCEPT ![c] = "free"]
          /\ UNCHANGED <<next_id, sched_lock, exists, suspended, subject, given, halted>>
      BY <1>9, <2>3 DEF Tasks!Finalize, Tasks!Finalized
    <3>2. metas' \in [Meta -> MetaRecord] /\ registry' \in Seq(Meta) /\ DataInv'
      BY <2>1, <2>3, <3>1, FinalizeData
    <3>3. HandInv'
      BY <2>1, <3>1, <1>0 DEF HandInv
    <3>4. TaskTypes'
      BY <1>0, <3>1, <3>2 DEF TaskTypes, TaskLabel
    <3> QED BY <3>2, <3>3, <3>4
  <2> QED BY <2>2, <2>3
<1>10. CASE Tasks!FreeMeta(c)
  <2>1. /\ subject[c] \in Meta /\ doing' = [doing EXCEPT ![c] = "idle"]
        /\ subject' = [subject EXCEPT ![c] = NoMeta]
        /\ UNCHANGED <<registry, next_id, sched_lock, exists, suspended, given, halted>>
    BY <1>0, <1>10 DEF Tasks!FreeMeta
  <2>2. HandInv'
    BY <1>0, <2>1 DEF HandInv
  <2>3. CASE doing[c] = "free"
    <3>1. metas' = [metas EXCEPT ![subject[c]].memory = "freed"] /\ Tasks!Frees(c, subject[c])
      BY <1>10, <2>3 DEF Tasks!FreeMeta, Tasks!Frees
    <3>2. /\ "idle" \in TaskLabel \ {"free"} /\ \A d \in Client \ {c} : subject'[d] = subject[d]
      BY <1>0, <2>1 DEF TaskLabel
    <3>3. metas' \in [Meta -> MetaRecord] /\ DataInv'
      BY <2>1, <3>1, <3>2, FreeData
    <3>4. TaskTypes'
      BY <1>0, <2>1, <3>3 DEF TaskTypes, TaskLabel
    <3> QED BY <2>2, <3>3, <3>4
  <2>4. CASE doing[c] # "free"
    <3>1. metas' = metas
      BY <1>10, <2>4 DEF Tasks!FreeMeta
    <3>2. Quiet
      BY <1>0, <2>1, <3>1 DEF Quiet
    <3>3. TaskTypes'
      BY <1>0, <2>1, <3>1 DEF TaskTypes, TaskLabel
    <3> QED BY <2>2, <3>2, <3>3, QuietData
  <2> QED BY <2>3, <2>4
<1>11. CASE Tasks!Tell(c)
  <2>1. TaskTypes'
    BY <1>0, <1>11 DEF Tasks!Tell, TaskTypes, TaskLabel
  <2>2. HandInv'
    BY <1>0, <1>11 DEF Tasks!Tell, HandInv
  <2>3. Quiet
    BY <1>0, <1>11 DEF Tasks!Tell, Quiet
  <2> QED BY <2>1, <2>2, <2>3, QuietData
<1> QED
  BY <1>1, <1>3, <1>4, <1>5, <1>6, <1>7, <1>8, <1>9, <1>10, <1>11 DEF ClientActs

-----------------------------------------------------------------------------
(* Tasks.                                                                  *)

TaskActs(m) ==
    \/ Tasks!Start(m) \/ Tasks!Lock(m) \/ Tasks!Update(m)
    \/ Tasks!End(m) \/ Tasks!FinalizeSelf(m) \/ Tasks!FreeSelf(m) \/ Tasks!Leave(m)

LEMMA TaskNext ==
    ASSUME Tasks!Configured, SchedInv, NEW m \in Meta, TaskActs(m)
    PROVE  SchedInv'
<1> USE DEF SchedInv, Tasks!MayRun, Tasks!Goto, Tasks!taskVars
<1>0. /\ Client \cap Meta = {} /\ doing \in [Client \cup Meta -> TaskLabel]
      /\ metas \in [Meta -> MetaRecord]
  BY DEF Tasks!Configured, TaskTypes
<1>1. HandInv'
  <2>1. subject' = subject /\ \A c \in Client : doing'[c] = doing[c]
    BY <1>0 DEF TaskActs, Tasks!Start, Tasks!Lock, Tasks!Update, Tasks!End,
                Tasks!FinalizeSelf, Tasks!Finalized, Tasks!FreeSelf, Tasks!Leave
  <2> QED BY <2>1 DEF HandInv
<1>2. CASE Tasks!Start(m)
  <2>1. metas' = [metas EXCEPT ![m].handle = TRUE]
    BY <1>2 DEF Tasks!Start
  <2>2. metas' \in [Meta -> MetaRecord]
    BY <1>0, <2>1 DEF MetaRecord
  <2>3. TaskTypes'
    BY <1>2, <2>2 DEF Tasks!Start, TaskTypes, TaskLabel
  <2>4. Quiet
    BY <1>0, <1>2, <2>1 DEF Tasks!Start, Quiet, MetaRecord
  <2> QED BY <1>1, <2>3, <2>4, QuietData
<1>3. CASE Tasks!Lock(m)
  <2>1. TaskTypes'
    BY <1>3 DEF Tasks!Lock, TaskTypes, TaskLabel
  <2>2. Quiet
    BY <1>0, <1>3 DEF Tasks!Lock, Quiet
  <2> QED BY <1>1, <2>1, <2>2, QuietData
<1>4. CASE Tasks!Update(m)
  <2>1. TaskTypes'
    BY <1>4 DEF Tasks!Update, TaskTypes, TaskLabel
  <2>2. Quiet
    BY <1>0, <1>4 DEF Tasks!Update, Quiet
  <2> QED BY <1>1, <2>1, <2>2, QuietData
<1>5. CASE Tasks!End(m)
  <2>1. TaskTypes'
    BY <1>5 DEF Tasks!End, TaskTypes, TaskLabel
  <2>2. Quiet
    BY <1>0, <1>5 DEF Tasks!End, Quiet
  <2> QED BY <1>1, <2>1, <2>2, QuietData
<1>6. CASE Tasks!FinalizeSelf(m)
  <2>1. CASE metas[m].finalized
    <3>1. /\ doing' = [doing EXCEPT ![m] = "leave"] /\ sched_lock' = NoOne
          /\ UNCHANGED <<metas, registry, next_id, exists, suspended, subject, given, halted>>
      BY <1>6, <2>1 DEF Tasks!FinalizeSelf, Tasks!Finalized
    <3>2. TaskTypes'
      BY <3>1 DEF TaskTypes, TaskLabel
    <3>3. Quiet
      BY <1>0, <3>1 DEF Quiet
    <3> QED BY <1>1, <3>2, <3>3, QuietData
  <2>2. CASE ~metas[m].finalized
    <3>1. /\ metas' = [metas EXCEPT ![m].finalized = TRUE] /\ registry' = Tasks!Without(m)
          /\ doing' = [doing EXCEPT ![m] = "free"] /\ sched_lock' = NoOne /\ Tasks!Live(m)
          /\ UNCHANGED <<next_id, exists, suspended, subject, given, halted>>
      BY <1>6, <2>2 DEF Tasks!FinalizeSelf, Tasks!Finalized
    <3>2. metas' \in [Meta -> MetaRecord] /\ registry' \in Seq(Meta) /\ DataInv'
      BY <2>2, <3>1, FinalizeData
    <3>3. TaskTypes'
      BY <3>1, <3>2 DEF TaskTypes, TaskLabel
    <3> QED BY <1>1, <3>2, <3>3
  <2> QED BY <2>1, <2>2
<1>7. CASE Tasks!FreeSelf(m)
  <2>1. /\ metas' = [metas EXCEPT ![m].memory = "freed"] /\ Tasks!Frees(m, m)
        /\ doing' = [doing EXCEPT ![m] = "leave"] /\ "leave" \in TaskLabel \ {"free"}
        /\ UNCHANGED <<registry, next_id, sched_lock, exists, suspended, subject, given, halted>>
    BY <1>7 DEF Tasks!FreeSelf, Tasks!Frees, TaskLabel
  <2>2. metas' \in [Meta -> MetaRecord] /\ DataInv'
    BY <2>1, FreeData
  <2>3. TaskTypes'
    BY <2>1, <2>2 DEF TaskTypes, TaskLabel
  <2> QED BY <1>1, <2>2, <2>3
<1>8. CASE Tasks!Leave(m)
  <2>1. TaskTypes'
    BY <1>8 DEF Tasks!Leave, TaskTypes, TaskLabel
  <2>2. Quiet
    BY <1>0, <1>8 DEF Tasks!Leave, Quiet
  <2> QED BY <1>1, <2>1, <2>2, QuietData
<1> QED BY <1>2, <1>3, <1>4, <1>5, <1>6, <1>7, <1>8 DEF TaskActs

-----------------------------------------------------------------------------
(* The theorem.                                                            *)

LEMMA SchedInit ==
    ASSUME Tasks!Configured, Tasks!Init
    PROVE  SchedInv
<1>1. /\ \A m \in Meta : metas[m] = [memory |-> "none", id |-> 0, handle |-> FALSE,
                                     finalized |-> FALSE]
      /\ \A p \in Client \cup Meta : doing[p] = "idle"
      /\ \A c \in Client : subject[c] = NoMeta
      /\ registry = << >> /\ next_id = 1 /\ sched_lock = NoOne /\ exists = {} /\ suspended = {}
      /\ given = {} /\ halted = FALSE /\ Ids \in Nat /\ Ids > 1
  BY DEF Tasks!Init, Tasks!Configured
<1>2. TaskTypes
  <2>1. metas \in [Meta -> MetaRecord]
    BY <1>1 DEF Tasks!Init, MetaRecord
  <2>2. doing \in [Client \cup Meta -> TaskLabel]
    BY DEF Tasks!Init, TaskLabel
  <2>3. subject \in [Client -> Meta \cup {NoMeta}]
    BY DEF Tasks!Init
  <2>4. registry \in Seq(Meta)
    BY <1>1
  <2>5. halted \in BOOLEAN
    BY <1>1
  <2>6. next_id \in 1 .. Ids - 1 /\ given \subseteq 1 .. Ids - 1
    BY <1>1
  <2>7. sched_lock \in Meta \cup {NoOne} /\ exists \subseteq Meta /\ suspended \subseteq exists
    BY <1>1
  <2> QED BY <2>1, <2>2, <2>3, <2>4, <2>5, <2>6, <2>7 DEF TaskTypes
<1>3. HandInv /\ NewInv
  BY <1>1 DEF HandInv, NewInv
<1>4. Tasks!FreedByOne
  BY <1>1 DEF Tasks!FreedByOne, Tasks!Frees
<1>5. ListInv
  BY <1>1 DEF ListInv, IsInjective, Contains, Enlisted, Tasks!Live
<1>6. Made = {}
  BY <1>1 DEF Made
<1>7. IdInv
  BY <1>1, <1>6, FS_EmptySet DEF IdInv
<1> QED BY <1>2, <1>3, <1>4, <1>5, <1>7 DEF SchedInv, DataInv

LEMMA SchedNext ==
    ASSUME Tasks!Configured, SchedInv, [Tasks!Next]_(Tasks!vars)
    PROVE  SchedInv'
<1>1. ASSUME NEW c \in Client, ClientActs(c) PROVE SchedInv'
  BY <1>1, ClientNext
<1>2. ASSUME NEW m \in Meta, TaskActs(m) PROVE SchedInv'
  BY <1>2, TaskNext
<1>3. ASSUME UNCHANGED <<metas, registry, next_id, sched_lock, exists, suspended, doing, subject,
                         given>>, halted' \in BOOLEAN
      PROVE  SchedInv'
  <2>1. TaskTypes' /\ HandInv'
    BY <1>3 DEF SchedInv, TaskTypes, HandInv
  <2>2. Quiet
    BY <1>3 DEF Quiet
  <2> QED BY <2>1, <2>2, QuietData DEF SchedInv
<1>4. CASE Tasks!Halt
  BY <1>3, <1>4 DEF Tasks!Halt, Tasks!taskVars
<1>5. CASE UNCHANGED Tasks!vars
  BY <1>3, <1>5 DEF Tasks!vars, Tasks!taskVars, SchedInv, TaskTypes
<1> QED BY <1>1, <1>2, <1>4, <1>5 DEF Tasks!Next, ClientActs, TaskActs

LEMMA SchedSound ==
    ASSUME Tasks!Configured, SchedInv
    PROVE  Tasks!TypeOK /\ Tasks!TasksSound
<1>1. Tasks!TypeOK
  BY DEF SchedInv, TaskTypes, Tasks!TypeOK, MetaRecord, TaskLabel
<1>2. Tasks!RegistryExact
  <2>1. ToSet(registry) = {m \in Meta : Tasks!Live(m) /\ ~metas[m].finalized}
    BY DEF SchedInv, DataInv, TaskTypes, ListInv, Enlisted, Contains, ToSet
  <2>2. \A i, k \in DOMAIN registry :
            metas[registry[i]].id = metas[registry[k]].id => i = k
    BY DEF SchedInv, DataInv, TaskTypes, ListInv, Enlisted, IdInv, Contains, IsInjective,
           Tasks!Live, Made
  <2> QED BY <2>1, <2>2 DEF Tasks!RegistryExact, Tasks!ToSet, ToSet
<1> QED BY <1>1, <1>2 DEF Tasks!TasksSound, SchedInv, DataInv

(* TasksSound: whatever clients and tasks do, the registry lists exactly   *)
(* the metadata that live and are not finalized, under ids of their own,   *)
(* and of all who come to finalize the same metadata one goes on to free   *)
(* them.                                                                   *)
THEOREM TasksInvariance ==
    ASSUME Tasks!Configured
    PROVE  Tasks!Spec => [](Tasks!TypeOK /\ Tasks!TasksSound)
<1>1. Tasks!Init => SchedInv
  BY SchedInit
<1>2. SchedInv /\ [Tasks!Next]_(Tasks!vars) => SchedInv'
  BY SchedNext
<1>3. SchedInv => Tasks!TypeOK /\ Tasks!TasksSound
  BY SchedSound
<1> QED BY <1>1, <1>2, <1>3, PTL DEF Tasks!Spec

-----------------------------------------------------------------------------
(* The queue of timers: ReadyInv says what a task that processes it has in *)
(* hand, EndInv how far each timer is and that no sequence holds it twice, *)
(* and OrderInv that of any two timers in the queue the one in front is to *)
(* be called first.                                                        *)

CONSTANTS Timer, NoTimer, Deadlines, MaxTime

VARIABLES clock, queue, deadline, memory, order, now, ready, stage, calls, withdrawn

Timers == INSTANCE TimerQueue WITH pc <- stage

(* The parts of the invariant.                                             *)

Due(e) == deadline[e] <= clock

TimerTypes ==
    /\ clock \in 0 .. MaxTime /\ queue \in Seq(Timer) /\ order \in Seq(Timer)
    /\ deadline \in [Timer -> 0 .. MaxTime + 1]
    /\ \A e \in Timer : deadline[e] \in Deadlines \cup {0, Timers!Infinite}
    /\ memory \in [Timer -> {"none", "live", "freed"}]
    /\ now \in [Task -> {Timers!NotNow} \cup 0 .. MaxTime]
    /\ ready \in [Task -> Timer \cup {NoTimer}]
    /\ stage \in [Task -> {"idle", "take", "call", "callback"}]
    /\ calls \in Seq(Timer) /\ withdrawn \subseteq Timer

(* What a task that processes the queue has in hand.                       *)
ReadyInv ==
    /\ \A t \in Task : /\ ready[t] # NoTimer <=> stage[t] \in {"call", "callback"}
                       /\ now[t] <= clock
                       /\ ready[t] # NoTimer => Due(ready[t])
    /\ \A t, u \in Task : ready[t] = ready[u] /\ t # u => ready[t] = NoTimer

Called(e)  == Contains(calls, e)
Queued(e)  == Contains(queue, e)
Taken(e)   == \E t \in Task : ready[t] = e

(* How far a timer is.                                                     *)
TimerOK(e) ==
    /\ memory[e] = "none" <=> ~Contains(order, e)
    /\ memory[e] = "none" => ~Queued(e) /\ ~Called(e) /\ ~Taken(e) /\ e \notin withdrawn
    /\ memory[e] = "live" => (Queued(e) <=> ~Taken(e)) /\ e \notin withdrawn
    /\ memory[e] = "live" => (Called(e) <=> \E t \in Task : ready[t] = e /\ stage[t] = "callback")
    /\ memory[e] = "freed" => ~Queued(e) /\ ~Taken(e) /\ (Called(e) <=> e \notin withdrawn)
    /\ Called(e) => Due(e)

EndInv ==
    /\ IsInjective(queue) /\ IsInjective(order) /\ IsInjective(calls)
    /\ \A e \in Timer : TimerOK(e)

(* Timer e belongs before timer f, by their deadlines and the order they   *)
(* were scheduled in.                                                      *)
First(by, in, e, f) ==
    \/ by[e] # Timers!Infinite /\ by[e] < by[f]
    \/ by[e] = by[f] /\ Timers!Place(in, e) < Timers!Place(in, f)

OrderInv ==
    \A i, k \in 1 .. Len(queue) : i < k => First(deadline, order, queue[i], queue[k])

TimerInv == TimerTypes /\ ReadyInv /\ EndInv /\ OrderInv

-----------------------------------------------------------------------------
(* Insertion into a sequence.                                              *)

LEMMA InsertAtIndexed ==
    ASSUME NEW S, NEW q \in Seq(S), NEW i \in 1 .. Len(q), NEW e \in S
    PROVE  /\ Timers!InsertAt(q, i, e) \in Seq(S)
           /\ Len(Timers!InsertAt(q, i, e)) = Len(q) + 1
           /\ \A j \in 1 .. Len(q) + 1 :
                Timers!InsertAt(q, i, e)[j] = IF j < i THEN q[j] ELSE IF j = i THEN e ELSE q[j - 1]
<1> DEFINE a == SubSeq(q, 1, i - 1)
           b == SubSeq(q, i, Len(q))
<1>1. /\ Len(q) \in Nat /\ a \in Seq(S) /\ Len(a) = i - 1 /\ \A j \in 1 .. i - 1 : a[j] = q[j]
      /\ b \in Seq(S) /\ Len(b) = Len(q) - i + 1
      /\ \A j \in 1 .. Len(q) - i + 1 : b[j] = q[i + j - 1]
  OBVIOUS
<1> HIDE DEF a, b
<1>2. Timers!InsertAt(q, i, e) = a \o <<e>> \o b
  BY DEF Timers!InsertAt, a, b
<1>3. /\ a \o <<e>> \in Seq(S) /\ Len(a \o <<e>>) = i
      /\ \A j \in 1 .. i : (a \o <<e>>)[j] = IF j < i THEN q[j] ELSE e
  BY <1>1
<1> DEFINE c == a \o <<e>>
<1> HIDE DEF c
<1>4. c \in Seq(S) /\ Len(c) = i /\ \A j \in 1 .. i : c[j] = IF j < i THEN q[j] ELSE e
  BY <1>3 DEF c
<1>5. /\ c \o b \in Seq(S) /\ Len(c \o b) = Len(q) + 1
      /\ \A j \in 1 .. Len(q) + 1 : (c \o b)[j] = IF j <= i THEN c[j] ELSE b[j - i]
  <2>1. Len(c) = i /\ Len(c) + Len(b) = Len(q) + 1
    BY <1>1, <1>4
  <2>2. /\ c \o b \in Seq(S) /\ Len(c \o b) = Len(c) + Len(b)
        /\ \A j \in 1 .. Len(c) + Len(b) :
              (c \o b)[j] = IF j <= Len(c) THEN c[j] ELSE b[j - Len(c)]
    BY <1>1, <1>4, ConcatProperties
  <2> QED BY <2>1, <2>2
<1>6. ASSUME NEW j \in 1 .. Len(q) + 1
      PROVE  (c \o b)[j] = IF j < i THEN q[j] ELSE IF j = i THEN e ELSE q[j - 1]
  <2>1. CASE j <= i
    BY <1>4, <1>5, <2>1
  <2>2. CASE j > i
    <3>1. j - i \in 1 .. Len(q) - i + 1 /\ i + (j - i) - 1 = j - 1
      BY <2>2
    <3>2. (c \o b)[j] = b[j - i] /\ b[j - i] = q[i + (j - i) - 1]
      BY <1>1, <1>5, <2>2, <3>1
    <3> QED BY <2>2, <3>1, <3>2
  <2>3. j <= i \/ j > i
    BY <1>1
  <2> QED BY <2>1, <2>2, <2>3
<1> QED BY <1>2, <1>5, <1>6 DEF c

(* What is inserted is in the queue, once, and the others stay.            *)
LEMMA SplitContains ==
    ASSUME NEW S, NEW q \in Seq(S), NEW i \in 1 .. Len(q) + 1, NEW e \in S, NEW r \in Seq(S),
           Len(r) = Len(q) + 1,
           \A j \in 1 .. Len(q) + 1 :
                r[j] = IF j < i THEN q[j] ELSE IF j = i THEN e ELSE q[j - 1]
    PROVE  /\ \A x : Contains(r, x) <=> Contains(q, x) \/ x = e
           /\ IsInjective(q) /\ ~Contains(q, e) => IsInjective(r)
<1>1. ASSUME NEW x, Contains(r, x) PROVE Contains(q, x) \/ x = e
  <2>1. PICK j \in 1 .. Len(q) + 1 : r[j] = x
    BY <1>1 DEF Contains
  <2>2. CASE j < i
    BY <2>1, <2>2 DEF Contains
  <2>3. CASE j > i
    <3>1. j - 1 \in 1 .. Len(q)
      BY <2>3
    <3> QED BY <2>1, <2>3, <3>1 DEF Contains
  <2> QED BY <2>1, <2>2, <2>3
<1>2. ASSUME NEW x, Contains(q, x) PROVE Contains(r, x)
  <2>1. PICK j \in 1 .. Len(q) : q[j] = x
    BY <1>2 DEF Contains
  <2>2. CASE j < i
    BY <2>1, <2>2 DEF Contains
  <2>3. CASE j >= i
    <3>1. j + 1 \in 1 .. Len(q) + 1 /\ r[j + 1] = q[(j + 1) - 1] /\ (j + 1) - 1 = j
      BY <2>3
    <3> QED BY <2>1, <3>1 DEF Contains
  <2> QED BY <2>2, <2>3
<1>3. Contains(r, e)
  <2>1. i \in 1 .. Len(r) /\ r[i] = e
    OBVIOUS
  <2> QED BY <2>1 DEF Contains
<1>4. ASSUME IsInjective(q), ~Contains(q, e) PROVE IsInjective(r)
  <2>1. ASSUME NEW j \in 1 .. Len(r), NEW k \in 1 .. Len(r), r[j] = r[k], j < k PROVE FALSE
    <3>1. \A l \in 1 .. Len(q) : q[l] # e
      BY <1>4 DEF Contains
    <3>2. \A l, m \in 1 .. Len(q) : q[l] = q[m] => l = m
      BY <1>4 DEF IsInjective
    <3>3. CASE k < i
      BY <2>1, <3>2, <3>3
    <3>4. CASE k = i
      BY <2>1, <3>1, <3>4
    <3>5. CASE k > i
      <4>1. k - 1 \in 1 .. Len(q) /\ r[k] = q[k - 1]
        BY <2>1, <3>5
      <4>2. CASE j > i
        <5>1. j - 1 \in 1 .. Len(q) /\ r[j] = q[j - 1]
          BY <2>1, <4>2
        <5>2. j - 1 = k - 1
          BY <2>1, <3>2, <4>1, <5>1
        <5> QED BY <2>1, <5>2
      <4>3. CASE j = i
        BY <2>1, <3>1, <4>1, <4>3
      <4>4. CASE j < i
        <5>1. j \in 1 .. Len(q) /\ r[j] = q[j]
          BY <4>4
        <5>2. j = k - 1
          BY <2>1, <3>2, <4>1, <5>1
        <5> QED BY <3>5, <4>4, <5>2
      <4> QED BY <4>2, <4>3, <4>4
    <3> QED BY <3>3, <3>4, <3>5
  <2>2. \A j, k \in 1 .. Len(r) : r[j] = r[k] => ~(j < k) /\ ~(k < j)
    BY <2>1
  <2> QED BY <2>2 DEF IsInjective
<1> QED BY <1>1, <1>2, <1>3, <1>4

-----------------------------------------------------------------------------
(* Places in the order of scheduling.                                      *)

LEMMA PlaceAt ==
    ASSUME NEW S, NEW s \in Seq(S), IsInjective(s), NEW i \in 1 .. Len(s)
    PROVE  Timers!Place(s, s[i]) = i
<1>1. \A k \in DOMAIN s : s[k] = s[i] => k = i
  BY DEF IsInjective
<1> QED BY <1>1 DEF Timers!Place

(* Who is scheduled comes after all that were, whose places stay.          *)
LEMMA PlaceAppend ==
    ASSUME NEW S, NEW s \in Seq(S), IsInjective(s), NEW e \in S, ~Contains(s, e)
    PROVE  /\ Timers!Place(Append(s, e), e) = Len(s) + 1
           /\ \A x : Contains(s, x) => /\ Timers!Place(Append(s, e), x) = Timers!Place(s, x)
                                       /\ Timers!Place(s, x) \in 1 .. Len(s)
<1>1. /\ Append(s, e) \in Seq(S) /\ Len(Append(s, e)) = Len(s) + 1
      /\ Append(s, e)[Len(s) + 1] = e
      /\ \A i \in 1 .. Len(s) : Append(s, e)[i] = s[i]
  OBVIOUS
<1>2. IsInjective(Append(s, e))
  BY AppendContains
<1>3. Timers!Place(Append(s, e), e) = Len(s) + 1
  <2>1. Len(s) + 1 \in 1 .. Len(Append(s, e))
    BY <1>1
  <2> QED BY <1>1, <1>2, <2>1, PlaceAt
<1>4. ASSUME NEW x, Contains(s, x)
      PROVE  Timers!Place(Append(s, e), x) = Timers!Place(s, x) /\ Timers!Place(s, x) \in 1 .. Len(s)
  <2>1. PICK i \in 1 .. Len(s) : s[i] = x
    BY <1>4 DEF Contains
  <2>2. Timers!Place(s, x) = i
    BY <2>1, PlaceAt
  <2>3. Timers!Place(Append(s, e), x) = i
    <3>1. i \in 1 .. Len(Append(s, e)) /\ Append(s, e)[i] = x
      BY <1>1, <2>1
    <3> QED BY <1>1, <1>2, <3>1, PlaceAt
  <2> QED BY <2>2, <2>3
<1> QED BY <1>3, <1>4

-----------------------------------------------------------------------------
(* The order of the queue.                                                 *)

(* Who leaves the queue leaves the others in order.                        *)
LEMMA OrderShrinks ==
    ASSUME TimerTypes, OrderInv, UNCHANGED <<deadline, order>>, NEW n \in 1 .. Len(queue),
           queue' = RemoveAt(queue, n)
    PROVE  OrderInv'
<1>1. Len(queue) \in Nat /\ queue \in Seq(Timer)
  BY DEF TimerTypes
<1>2. /\ Len(queue') = Len(queue) - 1
      /\ \A j \in 1 .. Len(queue) - 1 : queue'[j] = IF j < n THEN queue[j] ELSE queue[j + 1]
  BY <1>1, RemoveAtIndexed
<1>3. ASSUME NEW i \in 1 .. Len(queue'), NEW k \in 1 .. Len(queue'), i < k
      PROVE  First(deadline, order, queue'[i], queue'[k])
  <2>1. PICK j \in 1 .. Len(queue), l \in 1 .. Len(queue) :
            j < l /\ queue'[i] = queue[j] /\ queue'[k] = queue[l]
    <3>1. CASE k < n
      BY <1>1, <1>2, <1>3, <3>1
    <3>2. CASE i < n /\ ~(k < n)
      <4>1. i < k + 1 /\ k + 1 \in 1 .. Len(queue) /\ i \in 1 .. Len(queue)
        BY <1>1, <1>2, <1>3
      <4> QED BY <1>1, <1>2, <3>2, <4>1
    <3>3. CASE ~(i < n)
      <4>1. i + 1 < k + 1 /\ k + 1 \in 1 .. Len(queue) /\ i + 1 \in 1 .. Len(queue) /\ ~(k < n)
        BY <1>1, <1>2, <1>3, <3>3
      <4> QED BY <1>1, <1>2, <3>3, <4>1
    <3> QED BY <3>1, <3>2, <3>3
  <2> QED BY <2>1 DEF OrderInv
<1> QED BY <1>3 DEF OrderInv

(* Where the scan of the queue ends.                                       *)
LEMMA InsertedAt ==
    ASSUME TimerTypes, NEW e \in Timer, NEW d
    PROVE  \E p \in 1 .. Len(queue) + 1 :
              /\ Timers!Inserted(e, d) \in Seq(Timer) /\ Len(Timers!Inserted(e, d)) = Len(queue) + 1
              /\ \A j \in 1 .. Len(queue) + 1 :
                    Timers!Inserted(e, d)[j] = IF j < p THEN queue[j] ELSE
                                        IF j = p THEN e ELSE queue[j - 1]
              /\ \A j \in 1 .. p - 1 : ~Timers!Before(d, deadline[queue[j]])
              /\ p <= Len(queue) => Timers!Before(d, deadline[queue[p]])
<1> DEFINE later == {i \in DOMAIN queue : Timers!Before(d, deadline[queue[i]])}
<1>1. /\ Len(queue) \in Nat /\ queue \in Seq(Timer) /\ DOMAIN queue = 1 .. Len(queue)
      /\ later \in SUBSET Nat
  BY DEF TimerTypes
<1>2. CASE later = {}
  <2>1. Timers!Inserted(e, d) = Append(queue, e)
    BY <1>2 DEF Timers!Inserted
  <2>2. /\ Append(queue, e) \in Seq(Timer) /\ Len(Append(queue, e)) = Len(queue) + 1
        /\ \A j \in 1 .. Len(queue) + 1 :
              Append(queue, e)[j] = IF j < Len(queue) + 1 THEN queue[j] ELSE e
    BY <1>1
  <2>3. Len(queue) + 1 \in 1 .. Len(queue) + 1 /\ ~(Len(queue) + 1 <= Len(queue))
    BY <1>1
  <2>4. \A j \in 1 .. Len(queue) : ~Timers!Before(d, deadline[queue[j]])
    BY <1>1, <1>2
  <2>5. (Len(queue) + 1) - 1 = Len(queue)
    BY <1>1
  <2>6. \A j \in 1 .. Len(queue) + 1 :
            Append(queue, e)[j] = IF j < Len(queue) + 1 THEN queue[j] ELSE
                                  IF j = Len(queue) + 1 THEN e ELSE queue[j - 1]
    BY <1>1, <2>2
  <2> QED BY <2>1, <2>2, <2>3, <2>4, <2>5, <2>6
<1>3. CASE later # {}
  <2> DEFINE p == Timers!Min(later)
  <2>1. PICK m \in later : \A j \in later : m <= j
    <3> HIDE DEF later
    <3> QED BY <1>1, <1>3, LeastOfNaturals
  <2>2. p \in later /\ \A j \in later : p <= j
    <3> HIDE DEF later
    <3> QED BY <2>1 DEF Timers!Min
  <2>3. Timers!Inserted(e, d) = Timers!InsertAt(queue, p, e)
    BY <1>3 DEF Timers!Inserted
  <2> HIDE DEF p
  <2>4. p \in 1 .. Len(queue) /\ Timers!Before(d, deadline[queue[p]])
    BY <1>1, <2>2
  <2>5. \A j \in 1 .. p - 1 : ~Timers!Before(d, deadline[queue[j]])
    <3>1. ASSUME NEW j \in 1 .. p - 1, Timers!Before(d, deadline[queue[j]]) PROVE FALSE
      <4>1. j \in 1 .. Len(queue) /\ j < p
        BY <1>1, <2>4
      <4>2. j \in later
        BY <1>1, <3>1, <4>1
      <4>3. p <= j
        <5> HIDE DEF later
        <5> QED BY <2>2, <4>2
      <4> QED BY <2>4, <4>1, <4>3
    <3> QED BY <3>1
  <2>6. /\ Timers!InsertAt(queue, p, e) \in Seq(Timer) /\ Len(Timers!InsertAt(queue, p, e)) = Len(queue) + 1
        /\ \A j \in 1 .. Len(queue) + 1 :
              Timers!InsertAt(queue, p, e)[j] = IF j < p THEN queue[j] ELSE
                                         IF j = p THEN e ELSE queue[j - 1]
    <3>1. queue \in Seq(Timer) /\ p \in 1 .. Len(queue)
      BY <1>1, <2>4
    <3> QED BY <3>1, InsertAtIndexed
  <2>7. p \in 1 .. Len(queue) + 1
    BY <1>1, <2>4
  <2> QED BY <2>3, <2>4, <2>5, <2>6, <2>7
<1> QED BY <1>2, <1>3

LEMMA InsertedContains ==
    ASSUME TimerTypes, NEW e \in Timer, NEW d
    PROVE  /\ Timers!Inserted(e, d) \in Seq(Timer)
           /\ \A x : Contains(Timers!Inserted(e, d), x) <=> Contains(queue, x) \/ x = e
           /\ IsInjective(queue) /\ ~Contains(queue, e) => IsInjective(Timers!Inserted(e, d))
<1> DEFINE r == Timers!Inserted(e, d)
<1>1. PICK p \in 1 .. Len(queue) + 1 :
          /\ r \in Seq(Timer) /\ Len(r) = Len(queue) + 1
          /\ \A j \in 1 .. Len(queue) + 1 :
                r[j] = IF j < p THEN queue[j] ELSE IF j = p THEN e ELSE queue[j - 1]
  BY InsertedAt
<1>2. queue \in Seq(Timer)
  BY DEF TimerTypes
<1> HIDE DEF r
<1>3. /\ \A x : Contains(r, x) <=> Contains(queue, x) \/ x = e
      /\ IsInjective(queue) /\ ~Contains(queue, e) => IsInjective(r)
  BY <1>1, <1>2, SplitContains
<1> QED BY <1>1, <1>3 DEF r

(* Who is scheduled comes behind all that are not later, and before those  *)
(* that are.                                                               *)
LEMMA OrderGrows ==
    ASSUME Timers!Configured, TimerInv, NEW e \in Timer, NEW d \in Deadlines \cup {Timers!Infinite},
           memory[e] = "none", queue' = Timers!Inserted(e, d),
           deadline' = [deadline EXCEPT ![e] = d], order' = Append(order, e)
    PROVE  OrderInv'
<1>1. /\ Len(queue) \in Nat /\ queue \in Seq(Timer) /\ order \in Seq(Timer)
      /\ IsInjective(order) /\ ~Contains(order, e) /\ MaxTime \in Nat /\ d \in 0 .. MaxTime + 1
  BY DEF TimerInv, TimerTypes, EndInv, TimerOK, Timers!Configured, Timers!Infinite
<1>2. \A i \in 1 .. Len(queue) :
          queue[i] \in Timer /\ queue[i] # e /\ Contains(order, queue[i])
  <2>1. ASSUME NEW i \in 1 .. Len(queue)
        PROVE  queue[i] \in Timer /\ queue[i] # e /\ Contains(order, queue[i])
    <3>1. queue[i] \in Timer /\ Queued(queue[i])
      BY <1>1 DEF Queued, Contains
    <3>2. memory[queue[i]] # "none"
      BY <3>1 DEF TimerInv, EndInv, TimerOK
    <3> QED BY <3>1, <3>2 DEF TimerInv, EndInv, TimerOK
  <2> QED BY <2>1
<1>3. \A i \in 1 .. Len(queue) :
          /\ deadline'[queue[i]] = deadline[queue[i]]
          /\ deadline[queue[i]] \in 0 .. MaxTime + 1
          /\ Timers!Place(order', queue[i]) = Timers!Place(order, queue[i])
          /\ Timers!Place(order, queue[i]) \in 1 .. Len(order)
  BY <1>1, <1>2, PlaceAppend DEF TimerInv, TimerTypes
<1>4. deadline'[e] = d /\ Timers!Place(order', e) = Len(order) + 1 /\ Len(order) \in Nat
  BY <1>1, PlaceAppend DEF TimerInv, TimerTypes
<1>5. PICK p \in 1 .. Len(queue) + 1 :
          /\ queue' \in Seq(Timer) /\ Len(queue') = Len(queue) + 1
          /\ \A j \in 1 .. Len(queue) + 1 :
                queue'[j] = IF j < p THEN queue[j] ELSE IF j = p THEN e ELSE queue[j - 1]
          /\ \A j \in 1 .. p - 1 : ~Timers!Before(d, deadline[queue[j]])
          /\ p <= Len(queue) => Timers!Before(d, deadline[queue[p]])
  BY InsertedAt DEF TimerInv
<1>6. ASSUME NEW i \in 1 .. Len(queue), NEW k \in 1 .. Len(queue), i < k
      PROVE  /\ First(deadline, order, queue[i], queue[k])
             /\ First(deadline', order', queue[i], queue[k])
  BY <1>3, <1>6 DEF TimerInv, OrderInv, First
<1>7. ASSUME NEW i \in 1 .. p - 1 PROVE First(deadline', order', queue[i], e)
  <2>1. i \in 1 .. Len(queue) /\ ~Timers!Before(d, deadline[queue[i]])
    BY <1>1, <1>5, <1>7
  <2>2. /\ deadline[queue[i]] \in 0 .. MaxTime + 1 /\ deadline'[queue[i]] = deadline[queue[i]]
        /\ Timers!Place(order', queue[i]) < Timers!Place(order', e)
    BY <1>3, <1>4, <2>1
  <2>3. (deadline[queue[i]] # Timers!Infinite /\ deadline[queue[i]] < d) \/ deadline[queue[i]] = d
    BY <1>1, <2>1, <2>2 DEF Timers!Before, Timers!Infinite
  <2> QED BY <1>4, <2>2, <2>3 DEF First
<1>8. ASSUME NEW k \in p .. Len(queue) PROVE First(deadline', order', e, queue[k])
  <2>1. k \in 1 .. Len(queue) /\ p \in 1 .. Len(queue) /\ Timers!Before(d, deadline[queue[p]])
    BY <1>1, <1>5
  <2>2. Timers!Before(d, deadline[queue[k]])
    <3>1. CASE k = p
      BY <2>1, <3>1
    <3>2. CASE k # p
      <4>1. First(deadline, order, queue[p], queue[k])
        BY <1>6, <2>1, <3>2
      <4> QED BY <1>1, <1>3, <2>1, <4>1 DEF First, Timers!Before, Timers!Infinite
    <3> QED BY <3>1, <3>2
  <2> QED BY <1>3, <1>4, <2>1, <2>2 DEF First, Timers!Before
<1>9. ASSUME NEW i \in 1 .. Len(queue'), NEW k \in 1 .. Len(queue'), i < k
      PROVE  First(deadline', order', queue'[i], queue'[k])
  <2>1. CASE k < p
    <3>1. i \in 1 .. Len(queue) /\ k \in 1 .. Len(queue) /\ queue'[i] = queue[i]
          /\ queue'[k] = queue[k]
      BY <1>1, <1>5, <1>9, <2>1
    <3> QED BY <1>6, <1>9, <3>1
  <2>2. CASE k = p
    <3>1. i \in 1 .. p - 1 /\ queue'[i] = queue[i] /\ queue'[k] = e
      BY <1>1, <1>5, <1>9, <2>2
    <3> QED BY <1>7, <3>1
  <2>3. CASE k > p /\ i = p
    <3>1. k - 1 \in p .. Len(queue) /\ queue'[i] = e /\ queue'[k] = queue[k - 1]
      BY <1>1, <1>5, <1>9, <2>3
    <3> QED BY <1>8, <3>1
  <2>4. CASE k > p /\ i < p
    <3>1. k - 1 \in 1 .. Len(queue) /\ i \in 1 .. Len(queue) /\ i < k - 1
          /\ queue'[i] = queue[i] /\ queue'[k] = queue[k - 1]
      BY <1>1, <1>5, <1>9, <2>4
    <3> QED BY <1>6, <3>1
  <2>5. CASE i > p
    <3>1. k - 1 \in 1 .. Len(queue) /\ i - 1 \in 1 .. Len(queue) /\ i - 1 < k - 1
          /\ queue'[i] = queue[i - 1] /\ queue'[k] = queue[k - 1]
      BY <1>1, <1>5, <1>9, <2>5
    <3> QED BY <1>6, <3>1
  <2>6. k < p \/ k = p \/ (k > p /\ i = p) \/ (k > p /\ i < p) \/ i > p
    BY <1>1, <1>5, <1>9
  <2> QED BY <2>1, <2>2, <2>3, <2>4, <2>5, <2>6
<1> QED BY <1>9 DEF OrderInv

-----------------------------------------------------------------------------
(* The actions.                                                            *)

(* m_timer_queue_schedule                                                  *)
LEMMA ScheduleKeeps ==
    ASSUME Timers!Configured, TimerInv, NEW t \in Task, NEW e \in Timer,
           NEW d \in Deadlines \cup {Timers!Infinite}, Timers!Schedule(t, e, d)
    PROVE  TimerInv'
<1>1. /\ memory[e] = "none" /\ memory' = [memory EXCEPT ![e] = "live"]
      /\ deadline' = [deadline EXCEPT ![e] = d] /\ queue' = Timers!Inserted(e, d)
      /\ order' = Append(order, e)
      /\ UNCHANGED <<clock, now, ready, stage, calls, withdrawn>>
  BY DEF Timers!Schedule
<1>2. /\ queue \in Seq(Timer) /\ order \in Seq(Timer) /\ deadline \in [Timer -> 0 .. MaxTime + 1]
      /\ memory \in [Timer -> {"none", "live", "freed"}] /\ MaxTime \in Nat
      /\ d \in 0 .. MaxTime + 1 /\ calls \in Seq(Timer)
      /\ IsInjective(queue) /\ IsInjective(order) /\ IsInjective(calls)
  BY DEF Timers!Configured, TimerInv, TimerTypes, EndInv, Timers!Infinite
<1>3. ~Contains(queue, e) /\ ~Contains(order, e) /\ ~Called(e) /\ ~Taken(e) /\ e \notin withdrawn
  BY <1>1 DEF TimerInv, EndInv, TimerOK, Queued
<1>4. /\ queue' \in Seq(Timer) /\ IsInjective(queue')
      /\ \A x : Contains(queue', x) <=> Contains(queue, x) \/ x = e
  <2>1. TimerTypes
    BY DEF TimerInv
  <2> QED BY <1>1, <1>2, <1>3, <2>1, InsertedContains
<1>5. /\ order' \in Seq(Timer) /\ IsInjective(order')
      /\ \A x : Contains(order', x) <=> Contains(order, x) \/ x = e
  BY <1>1, <1>2, <1>3, AppendContains
<1>6. TimerTypes'
  BY <1>1, <1>2, <1>4, <1>5 DEF TimerInv, TimerTypes
<1>7. /\ deadline'[e] = d /\ memory'[e] = "live"
      /\ \A f \in Timer \ {e} : deadline'[f] = deadline[f] /\ memory'[f] = memory[f]
  BY <1>1, <1>2
<1>8. ReadyInv'
  <2>1. ASSUME NEW u \in Task, ready[u] # NoTimer
        PROVE  ready[u] \in Timer \ {e}
    BY <1>3, <2>1 DEF TimerInv, TimerTypes, Taken
  <2> QED BY <1>1, <1>7, <2>1 DEF TimerInv, ReadyInv, Due
<1>9. ASSUME NEW f \in Timer PROVE TimerOK(f)'
  <2>1. CASE f = e
    BY <1>1, <1>3, <1>4, <1>5, <1>7, <2>1 DEF TimerOK, Queued, Called, Taken
  <2>2. CASE f # e
    BY <1>1, <1>4, <1>5, <1>7, <2>2 DEF TimerInv, EndInv, TimerOK, Queued, Called, Taken, Due
  <2> QED BY <2>1, <2>2
<1>10. EndInv'
  BY <1>1, <1>2, <1>4, <1>5, <1>9 DEF EndInv
<1>11. OrderInv'
  BY <1>1, OrderGrows
<1> QED BY <1>6, <1>8, <1>10, <1>11 DEF TimerInv

(* m_timer_queue_cancel                                                    *)
LEMMA CancelKeeps ==
    ASSUME Timers!Configured, TimerInv, NEW t \in Task, NEW e \in Timer, Timers!Cancel(t, e)
    PROVE  TimerInv'
<1>1. PICK n \in DOMAIN queue : queue[n] = e /\ queue' = RemoveAt(queue, n)
  BY DEF Timers!Cancel, Timers!RemoveAt, RemoveAt
<1>2. /\ memory' = [memory EXCEPT ![e] = "freed"] /\ withdrawn' = withdrawn \cup {e}
      /\ UNCHANGED <<clock, deadline, order, now, ready, stage, calls>>
  BY DEF Timers!Cancel
<1>3. /\ queue \in Seq(Timer) /\ IsInjective(queue) /\ n \in 1 .. Len(queue)
      /\ memory \in [Timer -> {"none", "live", "freed"}]
  BY <1>1 DEF TimerInv, TimerTypes, EndInv
<1>4. /\ queue' \in Seq(Timer) /\ IsInjective(queue')
      /\ \A x : Contains(queue', x) <=> Contains(queue, x) /\ x # e
  BY <1>1, <1>3, RemoveAtIndexed, RemoveAtContains
<1>5. Queued(e)
  BY <1>1, <1>3 DEF Queued, Contains
<1>6. TimerTypes'
  BY <1>2, <1>3, <1>4 DEF TimerInv, TimerTypes
<1>7. ReadyInv'
  BY <1>2 DEF TimerInv, ReadyInv, Due
<1>8. ASSUME NEW f \in Timer PROVE TimerOK(f)'
  <2>1. CASE f = e
    <3>1. ~Taken(e) /\ ~Called(e) /\ memory[e] = "live" /\ Contains(order, e)
      BY <1>5 DEF TimerInv, EndInv, TimerOK, TimerTypes, Taken
    <3> QED BY <1>2, <1>3, <1>4, <2>1, <3>1 DEF TimerOK, Queued, Called, Taken
  <2>2. CASE f # e
    BY <1>2, <1>3, <1>4, <2>2 DEF TimerInv, EndInv, TimerOK, Queued, Called, Taken, Due
  <2> QED BY <2>1, <2>2
<1>9. EndInv'
  BY <1>2, <1>4, <1>8 DEF TimerInv, EndInv
<1>10. OrderInv'
  BY <1>1, <1>2, <1>3, OrderShrinks DEF TimerInv
<1> QED BY <1>6, <1>7, <1>9, <1>10 DEF TimerInv

(* m_timer_queue_process takes the first timer that has expired, ...       *)
LEMMA TakeKeeps ==
    ASSUME Timers!Configured, TimerInv, NEW t \in Task, Timers!TakeReady(t)
    PROVE  TimerInv'
<1> DEFINE e == Head(queue)
<1>1. /\ stage[t] = "take" /\ queue # << >> /\ deadline[e] <= now[t] /\ queue' = Tail(queue)
      /\ ready' = [ready EXCEPT ![t] = e] /\ stage' = [stage EXCEPT ![t] = "call"]
      /\ UNCHANGED <<clock, deadline, memory, order, now, calls, withdrawn>>
  BY DEF Timers!TakeReady, Timers!Expired, Timers!Goto
<1>2. /\ queue \in Seq(Timer) /\ IsInjective(queue) /\ 1 \in 1 .. Len(queue)
      /\ Tail(queue) = RemoveAt(queue, 1) /\ e = queue[1] /\ e \in Timer
  <2>1. queue \in Seq(Timer) /\ IsInjective(queue)
    BY DEF TimerInv, TimerTypes, EndInv
  <2>2. 1 \in 1 .. Len(queue) /\ e = queue[1] /\ e \in Timer
    BY <1>1, <2>1
  <2>3. Tail(queue) = RemoveAt(queue, 1)
    <3>1. /\ RemoveAt(queue, 1) \in Seq(Timer) /\ Len(RemoveAt(queue, 1)) = Len(queue) - 1
          /\ \A j \in 1 .. Len(queue) - 1 : RemoveAt(queue, 1)[j] = queue[j + 1]
      <4>1. /\ RemoveAt(queue, 1) \in Seq(Timer) /\ Len(RemoveAt(queue, 1)) = Len(queue) - 1
            /\ \A j \in 1 .. Len(queue) - 1 :
                  RemoveAt(queue, 1)[j] = IF j < 1 THEN queue[j] ELSE queue[j + 1]
        BY <2>1, <2>2, RemoveAtIndexed
      <4> QED BY <4>1
    <3>2. /\ Tail(queue) \in Seq(Timer) /\ Len(Tail(queue)) = Len(queue) - 1
          /\ \A j \in 1 .. Len(queue) - 1 : Tail(queue)[j] = queue[j + 1]
      BY <1>1, <2>1
    <3> HIDE DEF e
    <3> QED BY <2>1, <3>1, <3>2, SeqEqual
  <2> QED BY <2>1, <2>2, <2>3
<1> HIDE DEF e
<1>3. /\ queue' \in Seq(Timer) /\ IsInjective(queue')
      /\ \A x : Contains(queue', x) <=> Contains(queue, x) /\ x # e
  <2>1. queue' = RemoveAt(queue, 1) /\ queue \in Seq(Timer) /\ IsInjective(queue)
        /\ 1 \in 1 .. Len(queue) /\ queue[1] = e
    BY <1>1, <1>2
  <2> QED BY <2>1, RemoveAtIndexed, RemoveAtContains
<1>4. Queued(e)
  BY <1>2 DEF Queued, Contains
<1>5. ~Taken(e) /\ ~Called(e) /\ memory[e] = "live" /\ e \notin withdrawn /\ Contains(order, e)
  BY <1>2, <1>4 DEF TimerInv, EndInv, TimerOK, TimerTypes, Taken
<1>6. /\ ready \in [Task -> Timer \cup {NoTimer}]
      /\ stage \in [Task -> {"idle", "take", "call", "callback"}] /\ NoTimer \notin Timer
  BY DEF TimerInv, TimerTypes, Timers!Configured
<1>7. TimerTypes'
  BY <1>1, <1>2, <1>3, <1>6 DEF TimerInv, TimerTypes
<1>8. /\ ready'[t] = e /\ stage'[t] = "call" /\ ready[t] = NoTimer
      /\ \A u \in Task \ {t} : ready'[u] = ready[u] /\ stage'[u] = stage[u] /\ ready[u] # e
  BY <1>1, <1>5, <1>6 DEF TimerInv, ReadyInv, Taken
<1>9. ReadyInv'
  <2>1. deadline[e] <= clock
    <3>1. deadline[e] \in Int /\ now[t] \in Int /\ clock \in Int /\ now[t] <= clock
      BY <1>2 DEF TimerInv, TimerTypes, ReadyInv, Timers!Configured, Timers!NotNow
    <3> QED BY <1>1, <3>1
  <2> QED BY <1>1, <1>2, <1>6, <1>8, <2>1 DEF TimerInv, ReadyInv, Due
<1>10. ASSUME NEW f \in Timer PROVE TimerOK(f)'
  <2>1. CASE f = e
    BY <1>1, <1>3, <1>5, <1>8, <2>1 DEF TimerOK, Queued, Called, Taken
  <2>2. CASE f # e
    <3>1. \A u \in Task : ready'[u] = f <=> ready[u] = f
      BY <1>6, <1>8, <2>2
    <3>2. \A u \in Task : ready[u] = f => stage'[u] = stage[u]
      BY <1>6, <1>8
    <3>3. Taken(f)' <=> Taken(f)
      BY <3>1 DEF Taken
    <3> QED BY <1>1, <1>3, <2>2, <3>1, <3>2, <3>3
            DEF TimerInv, EndInv, TimerOK, Queued, Called, Due
  <2> QED BY <2>1, <2>2
<1>11. EndInv'
  BY <1>1, <1>3, <1>10 DEF TimerInv, EndInv
<1>12. OrderInv'
  BY <1>1, <1>2, OrderShrinks DEF TimerInv
<1> QED BY <1>7, <1>9, <1>11, <1>12 DEF TimerInv

(* ... calls it back, ...                                                  *)
LEMMA CallbackKeeps ==
    ASSUME Timers!Configured, TimerInv, NEW t \in Task, Timers!Callback(t)
    PROVE  TimerInv'
<1> DEFINE e == ready[t]
<1>1. /\ stage[t] = "call" /\ calls' = Append(calls, e) /\ stage' = [stage EXCEPT ![t] = "callback"]
      /\ UNCHANGED <<clock, queue, deadline, memory, order, now, ready, withdrawn>>
  BY DEF Timers!Callback, Timers!Goto
<1>2. /\ e \in Timer /\ stage \in [Task -> {"idle", "take", "call", "callback"}] /\ Due(e)
      /\ \A u \in Task \ {t} : ready[u] # e
      /\ calls \in Seq(Timer) /\ IsInjective(calls)
  BY <1>1 DEF TimerInv, TimerTypes, ReadyInv, EndInv, Timers!Configured
<1> HIDE DEF e
<1>3. stage'[t] = "callback" /\ ready[t] = e /\ \A u \in Task \ {t} : stage'[u] = stage[u]
  BY <1>1, <1>2 DEF e
<1>4. memory[e] = "live" /\ ~Called(e) /\ ~Queued(e)
  BY <1>1, <1>2, <1>3 DEF TimerInv, TimerTypes, EndInv, TimerOK, Taken
<1>5. /\ calls' \in Seq(Timer) /\ IsInjective(calls')
      /\ \A x : Contains(calls', x) <=> Contains(calls, x) \/ x = e
  BY <1>1, <1>2, <1>4, AppendContains DEF Called
<1>6. TimerTypes'
  BY <1>1, <1>2, <1>5 DEF TimerInv, TimerTypes
<1>7. ReadyInv'
  BY <1>1, <1>2, <1>3 DEF TimerInv, ReadyInv, Due, Timers!Configured
<1>8. ASSUME NEW f \in Timer PROVE TimerOK(f)'
  <2>1. CASE f = e
    BY <1>1, <1>2, <1>3, <1>4, <1>5, <2>1
       DEF TimerInv, EndInv, TimerOK, Queued, Called, Taken, Due
  <2>2. CASE f # e
    BY <1>1, <1>3, <1>5, <2>2 DEF TimerInv, EndInv, TimerOK, Queued, Called, Taken, Due
  <2> QED BY <2>1, <2>2
<1>9. EndInv'
  BY <1>1, <1>5, <1>8 DEF TimerInv, EndInv
<1>10. OrderInv'
  BY <1>1 DEF TimerInv, OrderInv
<1> QED BY <1>6, <1>7, <1>9, <1>10 DEF TimerInv

(* ... and frees it.                                                       *)
LEMMA FreeKeeps ==
    ASSUME Timers!Configured, TimerInv, NEW t \in Task, Timers!FreeReady(t)
    PROVE  TimerInv'
<1>0. PICK e \in Timer : e = ready[t]
  BY DEF Timers!FreeReady, TimerInv, TimerTypes, ReadyInv
<1>1. /\ stage[t] = "callback" /\ memory' = [memory EXCEPT ![e] = "freed"]
      /\ ready' = [ready EXCEPT ![t] = NoTimer] /\ stage' = [stage EXCEPT ![t] = "take"]
      /\ UNCHANGED <<clock, queue, deadline, order, now, calls, withdrawn>>
  BY <1>0 DEF Timers!FreeReady, Timers!Goto
<1>2. /\ stage \in [Task -> {"idle", "take", "call", "callback"}]
      /\ ready \in [Task -> Timer \cup {NoTimer}] /\ NoTimer \notin Timer
      /\ memory \in [Timer -> {"none", "live", "freed"}]
      /\ \A u \in Task \ {t} : ready[u] # e
  BY <1>0, <1>1 DEF TimerInv, TimerTypes, ReadyInv, Timers!Configured
<1>3. /\ stage'[t] = "take" /\ ready[t] = e /\ ready'[t] = NoTimer
      /\ \A u \in Task \ {t} : stage'[u] = stage[u] /\ ready'[u] = ready[u]
      /\ memory'[e] = "freed" /\ \A f \in Timer \ {e} : memory'[f] = memory[f]
  BY <1>0, <1>1, <1>2
<1>4. memory[e] = "live" /\ Called(e) /\ ~Queued(e) /\ e \notin withdrawn /\ Contains(order, e)
  BY <1>1, <1>2, <1>3 DEF TimerInv, TimerTypes, EndInv, TimerOK, Taken
<1>5. TimerTypes'
  BY <1>1, <1>2 DEF TimerInv, TimerTypes
<1>6. ReadyInv'
  BY <1>1, <1>2, <1>3 DEF TimerInv, ReadyInv, Due
<1>7. ASSUME NEW f \in Timer PROVE TimerOK(f)'
  <2>1. CASE f = e
    <3>1. ~Taken(e)'
      BY <1>2, <1>3 DEF Taken
    <3>2. Due(e)
      BY <1>2, <1>4 DEF TimerInv, EndInv, TimerOK
    <3> QED BY <1>1, <1>3, <1>4, <2>1, <3>1, <3>2 DEF TimerOK, Queued, Called, Due
  <2>2. CASE f # e
    <3>1. \A u \in Task : ready'[u] = f <=> ready[u] = f
      BY <1>2, <1>3, <2>2
    <3>2. \A u \in Task : ready[u] = f => stage'[u] = stage[u]
      BY <1>3, <2>2
    <3>3. Taken(f)' <=> Taken(f)
      BY <3>1 DEF Taken
    <3> QED BY <1>1, <1>3, <2>2, <3>1, <3>2, <3>3
            DEF TimerInv, EndInv, TimerOK, Queued, Called, Due
  <2> QED BY <2>1, <2>2
<1>8. EndInv'
  BY <1>1, <1>7 DEF TimerInv, EndInv
<1>9. OrderInv'
  BY <1>1 DEF TimerInv, OrderInv
<1> QED BY <1>5, <1>6, <1>8, <1>9 DEF TimerInv

(* What is left to a timer is the same while a call begins or ends, and    *)
(* while time passes.                                                      *)
LEMMA QuietKeeps ==
    ASSUME Timers!Configured, TimerInv, UNCHANGED <<queue, deadline, memory, order, ready, calls, withdrawn>>,
           TimerTypes', clock <= clock',
           \A t \in Task : /\ now'[t] <= clock'
                           /\ stage'[t] = stage[t] \/ {stage[t], stage'[t]} \subseteq {"idle", "take"}
    PROVE  TimerInv'
<1>1. ASSUME NEW e \in Timer, Due(e) PROVE Due(e)'
  BY <1>1 DEF TimerInv, TimerTypes, Due
<1>2. ReadyInv'
  BY <1>1 DEF TimerInv, TimerTypes, ReadyInv
<1>3. ASSUME NEW e \in Timer PROVE TimerOK(e)'
  <2>1. \A t \in Task : stage'[t] = "callback" <=> stage[t] = "callback"
    OBVIOUS
  <2> QED BY <1>1, <2>1 DEF TimerInv, EndInv, TimerOK, Queued, Called, Taken
<1>4. EndInv' /\ OrderInv'
  BY <1>3 DEF TimerInv, EndInv, OrderInv
<1> QED BY <1>2, <1>4 DEF TimerInv

LEMMA TimersStart ==
    ASSUME Timers!Configured, Timers!Init PROVE TimerInv
<1>1. /\ clock = 0 /\ queue = << >> /\ order = << >> /\ calls = << >> /\ withdrawn = {}
      /\ deadline = [e \in Timer |-> 0] /\ memory = [e \in Timer |-> "none"]
      /\ now = [t \in Task |-> Timers!NotNow] /\ ready = [t \in Task |-> NoTimer]
      /\ stage = [t \in Task |-> "idle"] /\ MaxTime \in Nat /\ NoTimer \notin Timer
  BY DEF Timers!Init, Timers!Configured
<1>2. \A x : ~Contains(queue, x) /\ ~Contains(order, x) /\ ~Contains(calls, x)
  BY <1>1 DEF Contains
<1>3. IsInjective(queue) /\ IsInjective(order) /\ IsInjective(calls)
  BY <1>1 DEF IsInjective
<1>4. TimerTypes
  BY <1>1 DEF TimerTypes
<1>5. ReadyInv
  BY <1>1 DEF ReadyInv, Timers!NotNow
<1>6. ASSUME NEW e \in Timer PROVE TimerOK(e)
  <2>1. memory[e] = "none" /\ ~Taken(e)
    BY <1>1 DEF Taken
  <2> QED BY <1>1, <1>2, <2>1 DEF TimerOK, Queued, Called
<1>7. OrderInv
  BY <1>1 DEF OrderInv
<1> QED BY <1>3, <1>4, <1>5, <1>6, <1>7 DEF TimerInv, EndInv

LEMMA TimersStep ==
    ASSUME Timers!Configured, TimerInv, [Timers!Next]_(Timers!vars) PROVE TimerInv'
<1> USE DEF Timers!Configured
<1>1. /\ stage \in [Task -> {"idle", "take", "call", "callback"}] /\ clock \in 0 .. MaxTime
      /\ now \in [Task -> {Timers!NotNow} \cup 0 .. MaxTime] /\ \A t \in Task : now[t] <= clock
  BY DEF TimerInv, TimerTypes, ReadyInv
<1>2. CASE Timers!Tick
  <2>1. TimerTypes'
    BY <1>2 DEF Timers!Tick, TimerInv, TimerTypes
  <2>2. /\ clock <= clock' /\ UNCHANGED <<queue, deadline, memory, order, ready, calls, withdrawn>>
        /\ \A t \in Task : now'[t] <= clock' /\ stage'[t] = stage[t]
    BY <1>1, <1>2 DEF Timers!Tick, Timers!NotNow
  <2> QED BY <2>1, <2>2, QuietKeeps
<1>3. ASSUME NEW t \in Task, Timers!Process(t) PROVE TimerInv'
  <2>1. TimerTypes'
    BY <1>3 DEF Timers!Process, Timers!Goto, TimerInv, TimerTypes
  <2>2. /\ clock <= clock' /\ UNCHANGED <<queue, deadline, memory, order, ready, calls, withdrawn>>
        /\ \A u \in Task : /\ now'[u] <= clock'
                           /\ stage'[u] = stage[u] \/ {stage[u], stage'[u]} \subseteq {"idle", "take"}
    BY <1>1, <1>3 DEF Timers!Process, Timers!Goto
  <2> QED BY <2>1, <2>2, QuietKeeps
<1>4. ASSUME NEW t \in Task, Timers!TakeNone(t) PROVE TimerInv'
  <2>1. TimerTypes'
    BY <1>4 DEF Timers!TakeNone, Timers!Goto, TimerInv, TimerTypes
  <2>2. /\ clock <= clock' /\ UNCHANGED <<queue, deadline, memory, order, ready, calls, withdrawn>>
        /\ \A u \in Task : /\ now'[u] <= clock'
                           /\ stage'[u] = stage[u] \/ {stage[u], stage'[u]} \subseteq {"idle", "take"}
    BY <1>1, <1>4 DEF Timers!TakeNone, Timers!Goto, Timers!NotNow
  <2> QED BY <2>1, <2>2, QuietKeeps
<1>5. CASE UNCHANGED Timers!vars
  <2>1. TimerTypes'
    BY <1>5 DEF Timers!vars, TimerInv, TimerTypes
  <2>2. /\ clock <= clock' /\ UNCHANGED <<queue, deadline, memory, order, ready, calls, withdrawn>>
        /\ \A t \in Task : now'[t] <= clock' /\ stage'[t] = stage[t]
    BY <1>1, <1>5 DEF Timers!vars
  <2> QED BY <2>1, <2>2, QuietKeeps
<1>6. ASSUME NEW t \in Task, NEW e \in Timer,
             (\E d \in Deadlines \cup {Timers!Infinite} : Timers!Schedule(t, e, d)) \/ Timers!Cancel(t, e)
      PROVE  TimerInv'
  BY <1>6, ScheduleKeeps, CancelKeeps
<1> QED BY <1>2, <1>3, <1>4, <1>5, <1>6, TakeKeeps, CallbackKeeps, FreeKeeps DEF Timers!Next

(* What the invariant says of the ends of a timer, of the queue and of the *)
(* time of the calls.                                                      *)
LEMMA TimersAreSound ==
    ASSUME Timers!Configured, TimerInv PROVE Timers!TypeOK /\ Timers!TimersSound
<1>1. Timers!TypeOK
  BY DEF TimerInv, TimerTypes, Timers!TypeOK
<1>2. ASSUME NEW e \in Timer
      PROVE  LET taken == {t \in Task : ready[t] = e}
                 ends  == {i \in DOMAIN calls : calls[i] = e}
             IN  /\ \A i, k \in ends : i = k
                 /\ \A t, u \in taken : t = u
                 /\ ~(ends # {} /\ e \in withdrawn)
                 /\ Contains(queue, e) => ends = {} /\ taken = {} /\ e \notin withdrawn
                 /\ memory[e] = "live" <=> Contains(queue, e) \/ taken # {}
                 /\ memory[e] = "freed" <=> taken = {} /\ (ends # {} \/ e \in withdrawn)
  <2> DEFINE taken == {t \in Task : ready[t] = e}
             ends  == {i \in DOMAIN calls : calls[i] = e}
  <2>1. \A i, k \in ends : i = k
    BY DEF TimerInv, EndInv, IsInjective
  <2>2. \A t, u \in taken : t = u
    BY DEF TimerInv, ReadyInv, Timers!Configured
  <2>3. (taken # {} <=> Taken(e)) /\ (ends # {} <=> Called(e))
    <3>1. calls \in Seq(Timer)
      BY DEF TimerInv, TimerTypes
    <3>2. DOMAIN calls = 1 .. Len(calls)
      BY <3>1
    <3> QED BY <3>2 DEF Taken, Called, Contains
  <2>4. TimerOK(e) /\ memory[e] \in {"none", "live", "freed"}
    BY DEF TimerInv, TimerTypes, EndInv
  <2>5. Called(e) => ~Queued(e)
    BY <2>4 DEF TimerOK, Taken
  <2> HIDE DEF taken, ends
  <2>6. /\ ~(ends # {} /\ e \in withdrawn)
        /\ Contains(queue, e) => ends = {} /\ taken = {} /\ e \notin withdrawn
        /\ memory[e] = "live" <=> Contains(queue, e) \/ taken # {}
        /\ memory[e] = "freed" <=> taken = {} /\ (ends # {} \/ e \in withdrawn)
    <3>1. CASE memory[e] = "none"
      BY <2>3, <2>4, <3>1 DEF TimerOK, Queued
    <3>2. CASE memory[e] = "live"
      BY <2>3, <2>4, <2>5, <3>2 DEF TimerOK, Queued, Taken
    <3>3. CASE memory[e] = "freed"
      BY <2>3, <2>4, <3>3 DEF TimerOK, Queued
    <3> QED BY <2>4, <3>1, <3>2, <3>3
  <2> QED BY <2>1, <2>2, <2>6 DEF taken, ends
<1>3. Timers!QueueOrdered
  <2>1. queue \in Seq(Timer) /\ DOMAIN queue = 1 .. Len(queue)
    BY DEF TimerInv, TimerTypes
  <2> QED BY <2>1 DEF TimerInv, OrderInv, First, Timers!QueueOrdered, Timers!Before
<1>4. Timers!CalledInTime
  <2>1. ASSUME NEW i \in DOMAIN calls PROVE deadline[calls[i]] <= clock
    <3>1. i \in 1 .. Len(calls) /\ calls[i] \in Timer
      BY <2>1 DEF TimerInv, TimerTypes
    <3>2. Called(calls[i])
      BY <3>1 DEF Called, Contains
    <3> QED BY <3>1, <3>2 DEF TimerInv, EndInv, TimerOK, Due
  <2> QED BY <2>1 DEF Timers!CalledInTime
<1> QED BY <1>1, <1>2, <1>3, <1>4
           DEF Timers!TimersSound, Timers!OneEnd, Timers!Contains, Contains

(* Timers end once and in time, whoever schedules, cancels and processes.  *)
THEOREM TimersInvariance ==
    ASSUME Timers!Configured PROVE Timers!Spec => [](Timers!TypeOK /\ Timers!TimersSound)
<1>1. Timers!Init => TimerInv
  BY TimersStart
<1>2. TimerInv /\ [Timers!Next]_(Timers!vars) => TimerInv'
  BY TimersStep
<1>3. TimerInv => Timers!TypeOK /\ Timers!TimersSound
  BY TimersAreSound
<1> QED BY <1>1, <1>2, <1>3, PTL DEF Timers!Spec

-----------------------------------------------------------------------------
(* Sleeping and timed waits: DeltaTicks says what the conversion to ticks  *)
(* rounds to, TakeOK and BlockedOK that this is the end of the wait,       *)
(* wherever in a tick it was begun.                                        *)

CONSTANTS Word, Milli, TickMs, MaxDelay, Deltas

VARIABLES timeout, asked_at, read_at, ticks, took_at

Sleeps == INSTANCE SchedSleep WITH pc <- stage

(* Division by a number of ticks or of microseconds, and its rounding.     *)

LEMMA Division ==
    ASSUME NEW n \in Nat, NEW k \in Nat \ {0}
    PROVE  /\ n \div k \in Nat /\ n % k = n - (n \div k) * k
           /\ (n \div k) * k <= n /\ n < (n \div k) * k + k
           /\ n % k \in Nat /\ n < k => n % k = n
OBVIOUS

LEMMA Multiples ==
    ASSUME NEW a \in Int, NEW b \in Int, NEW k \in Nat \ {0}
    PROVE  /\ a * k \in Int /\ b * k \in Int
           /\ a < b => a * k + k <= b * k
           /\ a <= b => a * k <= b * k
           /\ (a + 1) * k = a * k + k /\ (a - 1) * k = a * k - k
<1>1. a * k \in Int /\ b * k \in Int /\ (a + 1) * k = a * k + k /\ (a - 1) * k = a * k - k
  OBVIOUS
<1>2. a < b => a * k + k <= b * k
  OBVIOUS
<1> QED BY <1>1, <1>2

LEMMA RoundsUp ==
    ASSUME NEW n \in Nat, NEW k \in Nat \ {0}
    PROVE  LET m == (n + k - 1) \div k
           IN  m \in Nat /\ n <= m * k /\ m * k <= n + k - 1
<1>1. n + k - 1 \in Nat
  OBVIOUS
<1>2. /\ (n + k - 1) \div k \in Nat
      /\ ((n + k - 1) \div k) * k <= n + k - 1 /\ n + k - 1 < ((n + k - 1) \div k) * k + k
  BY <1>1, Division
<1> DEFINE m == (n + k - 1) \div k
<1>3. m \in Nat /\ m * k \in Int /\ m * k <= n + k - 1 /\ n + k - 1 < m * k + k
  BY <1>2
<1> HIDE DEF m
<1>4. n <= m * k
  BY <1>3
<1> QED BY <1>3, <1>4 DEF m

(* The longest timeout a TickType_t can hold.                              *)
Longest == (MaxDelay - 1) * Sleeps!Tick

LEMMA Constants ==
    ASSUME Sleeps!Configured
    PROVE  /\ Word \in Nat \ {0} /\ Milli \in Nat \ {0} /\ TickMs \in Nat \ {0}
           /\ MaxDelay \in Nat /\ MaxDelay > 1 /\ MaxTime \in Nat /\ Sleeps!Tick \in Nat \ {0}
           /\ Deltas \subseteq 0 .. Word - 1 /\ Sleeps!Forever = Word - 1
           /\ Milli <= Sleeps!Tick /\ MaxTime + Longest + Sleeps!Tick < Word
           /\ Longest \in Nat
<1>1. /\ Word \in Nat /\ Milli \in Nat \ {0} /\ TickMs \in Nat \ {0}
      /\ MaxDelay \in Nat /\ MaxDelay > 1 /\ MaxTime \in Nat
      /\ Deltas \subseteq 0 .. Word - 1 /\ MaxTime + MaxDelay * Sleeps!Tick < Word
  BY DEF Sleeps!Configured, Sleeps!Forever
<1>2. Sleeps!Tick \in Nat \ {0} /\ Milli <= Sleeps!Tick
  BY <1>1 DEF Sleeps!Tick
<1>3. Longest = MaxDelay * Sleeps!Tick - Sleeps!Tick /\ MaxDelay * Sleeps!Tick \in Int
  BY <1>1, <1>2, Multiples DEF Longest
<1>4. 0 * Sleeps!Tick <= Longest
  BY <1>1, <1>2, Multiples DEF Longest
<1>5. 0 * Sleeps!Tick = 0
  BY <1>2
<1>6. /\ Longest \in Nat /\ Word \in Nat \ {0}
      /\ MaxTime + Longest + Sleeps!Tick < Word
  BY <1>1, <1>2, <1>3, <1>4, <1>5
<1> QED BY <1>1, <1>2, <1>6 DEF Sleeps!Forever

(* m_timer_delta_to_ticks: of the ticks a timeout becomes, all but the     *)
(* last end before it, and the last does not.                              *)
LEMMA DeltaTicks ==
    ASSUME Sleeps!Configured, NEW d \in Nat, d <= Longest
    PROVE  LET n == Sleeps!DeltaToTicks(d)
           IN  /\ n \in 1 .. MaxDelay - 1 /\ d <= n * Sleeps!Tick
               /\ n = 1 \/ (n - 1) * Sleeps!Tick < d
<1> DEFINE ms == (d + Milli - 1) \div Milli
           n  == (ms + TickMs - 1) \div TickMs
<1>1. /\ Word \in Nat \ {0} /\ Milli \in Nat \ {0} /\ TickMs \in Nat \ {0} /\ MaxDelay \in Nat
      /\ MaxDelay > 1 /\ Sleeps!Tick \in Nat \ {0} /\ Milli <= Sleeps!Tick /\ Longest \in Nat
      /\ Longest + Sleeps!Tick < Word /\ Sleeps!Forever = Word - 1
  BY Constants
<1>2. d # Sleeps!Forever /\ d + Milli - 1 \in 0 .. Word - 1
  BY <1>1
<1>3. (d + Milli - 1) % Word = d + Milli - 1
  <2> DEFINE w == d + Milli - 1
  <2>1. w \in Nat /\ w < Word
    BY <1>1, <1>2
  <2> HIDE DEF w
  <2>2. w % Word = w
    BY <1>1, <2>1, Division
  <2> QED BY <2>2 DEF w
<1>4. ms \in Nat /\ d <= ms * Milli /\ ms * Milli <= d + Milli - 1
  BY <1>1, RoundsUp
<1> HIDE DEF ms
<1>5. n \in Nat /\ ms <= n * TickMs /\ n * TickMs <= ms + TickMs - 1
  BY <1>1, <1>4, RoundsUp
<1>6. Sleeps!DeltaToTicks(d) = IF n = 0 THEN 1 ELSE IF n >= MaxDelay THEN MaxDelay - 1 ELSE n
  BY <1>1, <1>2, <1>3, <1>5 DEF Sleeps!DeltaToTicks, ms
<1> HIDE DEF n
<1>7. d <= n * Sleeps!Tick
  <2>1. n * TickMs \in Int /\ ms * Milli <= (n * TickMs) * Milli
    BY <1>1, <1>4, <1>5, Multiples
  <2>2. (n * TickMs) * Milli = n * Sleeps!Tick
    BY <1>1, <1>5 DEF Sleeps!Tick
  <2> QED BY <1>1, <1>4, <1>5, <2>1, <2>2
<1>8. (n - 1) * Sleeps!Tick < d \/ n = 0
  <2>1. (n - 1) * TickMs = n * TickMs - TickMs /\ n * TickMs \in Int
    BY <1>1, <1>5, Multiples
  <2>2. (n - 1) * TickMs <= ms - 1 /\ (n - 1) * TickMs \in Int
    BY <1>1, <1>4, <1>5, <2>1
  <2>3. ((n - 1) * TickMs) * Milli <= (ms - 1) * Milli
    <3> DEFINE a == (n - 1) * TickMs
               b == ms - 1
    <3>1. a \in Int /\ b \in Int /\ a <= b /\ Milli \in Nat \ {0}
      BY <1>1, <1>4, <2>2
    <3> HIDE DEF a, b
    <3>2. a * Milli <= b * Milli
      BY <3>1, Multiples
    <3> QED BY <3>2 DEF a, b
  <2>4. (ms - 1) * Milli = ms * Milli - Milli /\ ms * Milli \in Int
    BY <1>1, <1>4, Multiples
  <2>5. ((n - 1) * TickMs) * Milli = (n - 1) * Sleeps!Tick
    BY <1>1, <1>5 DEF Sleeps!Tick
  <2>6. (n - 1) * Sleeps!Tick <= ms * Milli - Milli
    BY <2>3, <2>4, <2>5
  <2>7. (n - 1) * Sleeps!Tick \in Int
    BY <1>1, <1>5, Multiples
  <2> QED BY <1>1, <1>4, <2>4, <2>6, <2>7
<1>9. n < MaxDelay
  <2>1. ASSUME n >= MaxDelay PROVE FALSE
    <3>1. Longest <= (n - 1) * Sleeps!Tick /\ (n - 1) * Sleeps!Tick \in Int
      BY <1>1, <1>5, <2>1, Multiples DEF Longest
    <3> QED BY <1>1, <1>5, <1>8, <2>1, <3>1
  <2> QED BY <1>1, <1>5, <2>1
<1>10. CASE n = 0
  BY <1>1, <1>6, <1>7, <1>10
<1>11. CASE n # 0
  BY <1>1, <1>5, <1>6, <1>7, <1>8, <1>9, <1>11
<1> QED BY <1>10, <1>11

LEMMA SomeTicks ==
    ASSUME Sleeps!Configured, NEW d \in Nat PROVE Sleeps!DeltaToTicks(d) \in 1 .. MaxDelay
<1> DEFINE ms == ((d + Milli - 1) % Word) \div Milli
           n  == (ms + TickMs - 1) \div TickMs
<1>1. /\ Word \in Nat \ {0} /\ Milli \in Nat \ {0} /\ TickMs \in Nat \ {0}
      /\ MaxDelay \in Nat /\ MaxDelay > 1
  BY Constants
<1>2. (d + Milli - 1) % Word \in Nat
  <2>1. d + Milli - 1 \in Nat
    BY <1>1
  <2> QED BY <1>1, <2>1, Division
<1>3. ms \in Nat
  BY <1>1, <1>2, Division
<1> HIDE DEF ms
<1>4. n \in Nat
  BY <1>1, <1>3, RoundsUp
<1>5. \/ Sleeps!DeltaToTicks(d) = MaxDelay
      \/ Sleeps!DeltaToTicks(d) = IF n = 0 THEN 1 ELSE IF n >= MaxDelay THEN MaxDelay - 1 ELSE n
  BY <1>1, <1>4 DEF Sleeps!DeltaToTicks, ms
<1> HIDE DEF n
<1> QED BY <1>1, <1>4, <1>5

-----------------------------------------------------------------------------
(* The invariant: the times are in order, and the tick the wait will end   *)
(* with, wherever the clock is, comes soon enough after the deadline and   *)
(* not a whole tick before it.                                             *)

Target == asked_at + timeout

EndTick == (clock \div Sleeps!Tick + ticks) * Sleeps!Tick

SleepTypes ==
    /\ clock \in 0 .. MaxTime /\ asked_at \in 0 .. MaxTime
    /\ read_at \in 0 .. MaxTime /\ took_at \in 0 .. MaxTime
    /\ stage \in {"idle", "to_ticks", "take", "blocked"}
    /\ timeout \in Deltas \cup {0} /\ ticks \in 0 .. MaxDelay
    /\ deadline \in [target : 0 .. Word - 1, infinite : BOOLEAN]

(* When the deadline of this timeout was asked for.                        *)
DeadlineOK ==
    stage # "idle" =>
        /\ timeout \in Deltas
        /\ deadline.infinite = (timeout = Sleeps!Forever)
        /\ Sleeps!Held => deadline.target = Target

ReadInOrder ==
    /\ asked_at <= clock /\ read_at <= clock /\ took_at <= clock
    /\ stage = "blocked" => read_at <= took_at

TicksOK ==
    stage \in {"take", "blocked"} =>
        /\ timeout = Sleeps!Forever => ticks = MaxDelay
        /\ Sleeps!Held => ticks < MaxDelay

(* Enough ticks, and none too many, from when the clock was read.          *)
TakeOK ==
    stage = "take" /\ Sleeps!Held =>
        /\ ticks > 0 /\ Target <= read_at + ticks * Sleeps!Tick
        /\ ticks = 1 \/ read_at + (ticks - 1) * Sleeps!Tick < Target

BlockedOK ==
    stage = "blocked" /\ Sleeps!Held =>
        /\ ticks > 0 => /\ Target < EndTick + Sleeps!Tick
                        /\ EndTick <= Sleeps!Later(Target, read_at) + Sleeps!Tick + (took_at - read_at)
        /\ ticks = 0 => Target < clock + Sleeps!Tick

SleepInv == SleepTypes /\ DeadlineOK /\ ReadInOrder /\ TicksOK /\ TakeOK /\ BlockedOK

-----------------------------------------------------------------------------
LEMMA HeldIsFinite ==
    ASSUME Sleeps!Configured, Sleeps!Held PROVE timeout # Sleeps!Forever /\ timeout <= Longest
<1>1. Sleeps!Forever = Word - 1 /\ Longest + 1 < Word /\ Word \in Nat /\ Longest \in Nat
  BY Constants
<1>2. timeout <= Longest
  BY DEF Sleeps!Held, Longest
<1> QED BY <1>1, <1>2

LEMMA SleepKeeps ==
    ASSUME Sleeps!Configured, SleepInv, NEW delta \in Deltas, Sleeps!Sleep(delta) PROVE SleepInv'
<1>1. /\ timeout' = delta /\ asked_at' = clock /\ deadline' = Sleeps!FromRelative(delta)
      /\ stage' = "to_ticks" /\ UNCHANGED <<clock, read_at, ticks, took_at>>
  BY DEF Sleeps!Sleep
<1>2. /\ Word \in Nat \ {0} /\ MaxTime \in Nat /\ Sleeps!Tick \in Nat \ {0}
      /\ Deltas \subseteq 0 .. Word - 1 /\ Sleeps!Forever = Word - 1
      /\ MaxTime + Longest + Sleeps!Tick < Word /\ Longest \in Nat
  BY Constants
<1>3. clock \in 0 .. MaxTime /\ delta \in 0 .. Word - 1
  BY <1>2 DEF SleepInv, SleepTypes
<1>4. (clock + delta) % Word \in 0 .. Word - 1
  BY <1>2, <1>3
<1>5. delta <= Longest => (clock + delta) % Word = clock + delta /\ delta # Sleeps!Forever
  <2> DEFINE w == clock + delta
  <2>1. ASSUME delta <= Longest PROVE w % Word = w /\ delta # Sleeps!Forever
    <3>1. w \in Nat /\ w < Word /\ delta # Sleeps!Forever
      BY <1>2, <1>3, <2>1
    <3> HIDE DEF w
    <3>2. w % Word = w
      BY <1>2, <3>1, Division
    <3> QED BY <3>1, <3>2
  <2> QED BY <2>1
<1>6. /\ deadline' \in [target : 0 .. Word - 1, infinite : BOOLEAN]
      /\ deadline'.infinite = (delta = Sleeps!Forever)
      /\ delta <= Longest => deadline'.target = clock + delta
  <2> DEFINE w == (clock + delta) % Word
  <2>1. /\ w \in 0 .. Word - 1 /\ 0 \in 0 .. Word - 1
        /\ delta <= Longest => w = clock + delta /\ delta # Sleeps!Forever
    BY <1>2, <1>4, <1>5
  <2>2. deadline' = IF delta = Sleeps!Forever THEN [target |-> 0, infinite |-> TRUE]
                                       ELSE [target |-> w, infinite |-> FALSE]
    BY <1>1 DEF Sleeps!FromRelative
  <2> HIDE DEF w
  <2>3. CASE delta = Sleeps!Forever
    BY <2>1, <2>2, <2>3
  <2>4. CASE delta # Sleeps!Forever
    BY <2>1, <2>2, <2>4
  <2> QED BY <2>3, <2>4
<1>7. SleepTypes' /\ ReadInOrder'
  BY <1>1, <1>3, <1>6 DEF SleepInv, SleepTypes, ReadInOrder
<1>8. DeadlineOK'
  BY <1>1, <1>6 DEF DeadlineOK, Sleeps!Held, Target, Longest
<1> QED BY <1>1, <1>7, <1>8 DEF SleepInv, TicksOK, TakeOK, BlockedOK

LEMMA ToTicksKeeps ==
    ASSUME Sleeps!Configured, SleepInv, Sleeps!ToTicks PROVE SleepInv'
<1>1. /\ stage = "to_ticks" /\ read_at' = clock
      /\ stage' = "take" /\ UNCHANGED <<clock, timeout, asked_at, deadline, took_at>>
  BY DEF Sleeps!ToTicks
<1>0. /\ timeout = Sleeps!Forever => ticks' = MaxDelay
      /\ timeout # Sleeps!Forever => ticks' = Sleeps!DeltaToTicks(Sleeps!Remaining)
  <2>1. deadline.infinite = (timeout = Sleeps!Forever)
    BY <1>1 DEF SleepInv, DeadlineOK
  <2>2. ticks' = IF deadline.infinite THEN MaxDelay ELSE Sleeps!DeltaToTicks(Sleeps!Remaining)
    BY DEF Sleeps!ToTicks
  <2>3. ticks' = IF timeout = Sleeps!Forever THEN MaxDelay ELSE Sleeps!DeltaToTicks(Sleeps!Remaining)
    BY <2>1, <2>2, Zenon
  <2> QED BY <2>3
<1>2. /\ Word \in Nat \ {0} /\ MaxTime \in Nat /\ Sleeps!Tick \in Nat \ {0} /\ MaxDelay \in Nat
      /\ MaxDelay > 1 /\ Deltas \subseteq 0 .. Word - 1 /\ Longest \in Nat
  BY Constants
<1>3. /\ clock \in 0 .. MaxTime /\ asked_at \in 0 .. MaxTime /\ deadline.target \in 0 .. Word - 1
      /\ timeout \in 0 .. Word - 1 /\ asked_at <= clock
      /\ Sleeps!Held => deadline.target = asked_at + timeout
  BY <1>1, <1>2 DEF SleepInv, SleepTypes, DeadlineOK, ReadInOrder, Target
<1>4. Sleeps!Remaining \in Nat
  BY <1>3 DEF Sleeps!Remaining
<1>5. ticks' \in 1 .. MaxDelay
  <2>1. Sleeps!DeltaToTicks(Sleeps!Remaining) \in 1 .. MaxDelay
    BY <1>4, SomeTicks
  <2>2. MaxDelay \in 1 .. MaxDelay
    BY <1>2
  <2> QED BY <1>0, <2>1, <2>2
<1>6. ASSUME Sleeps!Held
      PROVE  /\ ticks' \in 1 .. MaxDelay - 1 /\ Target <= clock + ticks' * Sleeps!Tick
             /\ ticks' = 1 \/ clock + (ticks' - 1) * Sleeps!Tick < Target
  <2>1. ticks' = Sleeps!DeltaToTicks(Sleeps!Remaining)
    BY <1>0, <1>6, HeldIsFinite
  <2>2. /\ Sleeps!Remaining <= Longest /\ clock + Sleeps!Remaining >= Target
        /\ Sleeps!Remaining = 0 \/ clock + Sleeps!Remaining = Target
    <3>1. timeout <= Longest /\ deadline.target = asked_at + timeout
      BY <1>3, <1>6, HeldIsFinite
    <3> QED BY <1>2, <1>3, <3>1 DEF Sleeps!Remaining, Target
  <2>3. /\ ticks' \in 1 .. MaxDelay - 1 /\ Sleeps!Remaining <= ticks' * Sleeps!Tick
        /\ ticks' = 1 \/ (ticks' - 1) * Sleeps!Tick < Sleeps!Remaining
    BY <1>4, <2>1, <2>2, DeltaTicks
  <2> DEFINE n == ticks'
  <2>4. /\ n * Sleeps!Tick \in Int /\ (n - 1) * Sleeps!Tick \in Int
        /\ 0 * Sleeps!Tick <= (n - 1) * Sleeps!Tick
    <3>1. n \in Int /\ n - 1 \in Int /\ 0 <= n - 1
      <4>1. n \in 1 .. MaxDelay - 1
        BY <2>3
      <4>2. MaxDelay \in Nat
        BY <1>2
      <4> HIDE DEF n
      <4> QED BY <4>1, <4>2
    <3> HIDE DEF n
    <3> QED BY <1>2, <3>1, Multiples
  <2>5. 0 * Sleeps!Tick = 0
    BY <1>2
  <2> QED BY <1>3, <1>4, <2>2, <2>3, <2>4, <2>5 DEF Target
<1>7. SleepTypes'
  BY <1>1, <1>2, <1>5 DEF SleepInv, SleepTypes
<1>8. (Sleeps!Held' <=> Sleeps!Held) /\ Target' = Target
  BY <1>1 DEF Sleeps!Held, Target
<1>9. DeadlineOK' /\ ReadInOrder'
  BY <1>1, <1>3, <1>8 DEF SleepInv, DeadlineOK, ReadInOrder
<1>10. TicksOK'
  <2>1. Sleeps!Held => ticks' \in 1 .. MaxDelay - 1
    BY <1>6
  <2> QED BY <1>0, <1>1, <1>2, <1>8, <2>1 DEF TicksOK
<1>11. TakeOK' /\ BlockedOK'
  BY <1>1, <1>2, <1>6, <1>8 DEF TakeOK, BlockedOK
<1> QED BY <1>7, <1>8, <1>9, <1>10, <1>11 DEF SleepInv

LEMMA SleepTakeKeeps ==
    ASSUME Sleeps!Configured, SleepInv, Sleeps!Take PROVE SleepInv'
<1>1. /\ stage = "take" /\ took_at' = clock /\ stage' = "blocked"
      /\ UNCHANGED <<clock, timeout, asked_at, deadline, read_at, ticks>>
  BY DEF Sleeps!Take
<1>2. Sleeps!Tick \in Nat \ {0} /\ Deltas \subseteq 0 .. Word - 1
  BY Constants
<1>3. /\ clock \in Nat /\ asked_at \in Nat /\ read_at \in Nat /\ ticks \in Nat
      /\ timeout \in Nat /\ read_at <= clock
  BY <1>1, <1>2 DEF SleepInv, SleepTypes, DeadlineOK, ReadInOrder
<1>4. ASSUME Sleeps!Held
      PROVE  /\ ticks > 0 /\ Target < EndTick + Sleeps!Tick
             /\ EndTick <= Sleeps!Later(Target, read_at) + Sleeps!Tick + (clock - read_at)
  <2> DEFINE b == (clock \div Sleeps!Tick) * Sleeps!Tick
             n == ticks * Sleeps!Tick
             m == (ticks - 1) * Sleeps!Tick
  <2>1. clock \div Sleeps!Tick \in Nat /\ b \in Int /\ b <= clock /\ clock < b + Sleeps!Tick
    BY <1>2, <1>3, Division, Multiples
  <2>2. n \in Int /\ m \in Int /\ n = m + Sleeps!Tick
    BY <1>2, <1>3, Multiples
  <2>3. EndTick = b + n
    BY <1>2, <1>3, <2>1 DEF EndTick
  <2>4. /\ ticks > 0 /\ Target <= read_at + n
        /\ ticks = 1 \/ read_at + m < Target
    BY <1>1, <1>4 DEF SleepInv, TakeOK
  <2>5. ticks = 1 => n = Sleeps!Tick
    BY <1>2
  <2> HIDE DEF b, n, m
  <2>6. Target < EndTick + Sleeps!Tick
    BY <1>2, <1>3, <2>1, <2>2, <2>3, <2>4 DEF Target
  <2>7. /\ Sleeps!Tick \in Nat /\ Target \in Nat /\ b \in Int /\ m \in Int
        /\ Sleeps!Later(Target, read_at) \in Nat
        /\ read_at <= Sleeps!Later(Target, read_at) /\ Target <= Sleeps!Later(Target, read_at)
    BY <1>2, <1>3, <2>1, <2>2 DEF Target, Sleeps!Later
  <2>8. CASE ticks = 1
    BY <1>3, <2>1, <2>3, <2>4, <2>5, <2>6, <2>7, <2>8
  <2>9. CASE read_at + m < Target
    BY <1>3, <2>1, <2>2, <2>3, <2>4, <2>6, <2>7, <2>9
  <2> QED BY <2>4, <2>8, <2>9
<1>5. SleepTypes' /\ DeadlineOK' /\ ReadInOrder' /\ TicksOK'
  BY <1>1 DEF SleepInv, SleepTypes, DeadlineOK, Sleeps!Held, Target, ReadInOrder, TicksOK
<1>6. /\ Sleeps!Held' <=> Sleeps!Held
      /\ Target' = Target /\ EndTick' = EndTick
      /\ Sleeps!Later(Target, read_at)' = Sleeps!Later(Target, read_at)
  BY <1>1 DEF Sleeps!Held, Target, EndTick, Sleeps!Later
<1>7. TakeOK' /\ BlockedOK'
  BY <1>1, <1>3, <1>4, <1>6 DEF TakeOK, BlockedOK
<1> QED BY <1>5, <1>7 DEF SleepInv

(* The tick interrupt comes at the multiples of a tick.                    *)
LEMMA NextTick ==
    ASSUME NEW n \in Nat, NEW k \in Nat \ {0}
    PROVE  /\ (n + 1) % k = 0 => /\ (n + 1) \div k = (n \div k) + 1
                                 /\ n + 1 = ((n \div k) + 1) * k
           /\ (n + 1) % k # 0 => (n + 1) \div k = n \div k
<1> DEFINE a == n \div k
           b == (n + 1) \div k
           r == (n + 1) % k
<1>1. a \in Nat /\ a * k <= n /\ n < a * k + k /\ a * k \in Int
  BY Division, Multiples
<1>2. b \in Nat /\ b * k <= n + 1 /\ n + 1 < b * k + k /\ b * k \in Int /\ r = n + 1 - b * k
  <2> DEFINE m == n + 1
  <2>1. m \in Nat
    OBVIOUS
  <2> HIDE DEF m
  <2>2. /\ m \div k \in Nat /\ (m \div k) * k <= m /\ m < (m \div k) * k + k
        /\ (m \div k) * k \in Int /\ m % k = m - (m \div k) * k
    <3>1. /\ m \div k \in Nat /\ (m \div k) * k <= m /\ m < (m \div k) * k + k
          /\ m % k = m - (m \div k) * k
      BY <2>1, Division
    <3> QED BY <3>1, Multiples
  <2> QED BY <2>2 DEF m
<1> HIDE DEF a, b, r
<1>3. /\ a < b => a * k + k <= b * k
      /\ b < a => b * k + k <= a * k
      /\ a + 1 < b => (a * k + k) + k <= b * k
      /\ (a + 1) * k = a * k + k
  <2>1. (a + 1) * k = a * k + k /\ a + 1 \in Int
    BY <1>1, Multiples
  <2> QED BY <1>1, <1>2, <2>1, Multiples
<1> DEFINE x == a * k
           y == b * k
<1>4. /\ x \in Int /\ y \in Int /\ x <= n /\ n < x + k /\ y <= n + 1 /\ n + 1 < y + k
      /\ r = n + 1 - y
      /\ a < b => x + k <= y
  BY <1>1, <1>2, <1>3
<1>5. (b < a => y + k <= x) /\ (a + 1 < b => x + k + k <= y) /\ (a = b => x = y)
  BY <1>1, <1>2, <1>3
<1> HIDE DEF x, y
<1>6. a \in Nat /\ b \in Nat /\ r \in Nat
  BY <1>1, <1>2, <1>4
<1>7. r = 0 => b = a + 1 /\ y = n + 1 /\ y = x + k
  BY <1>4, <1>5, <1>6
<1>8. r # 0 => b = a
  BY <1>4, <1>5, <1>6
<1> QED BY <1>3, <1>7, <1>8 DEF a, b, r, x, y

LEMMA PassKeeps ==
    ASSUME Sleeps!Configured, SleepInv, Sleeps!Pass PROVE SleepInv'
<1>1. /\ clock < MaxTime /\ clock' = clock + 1
      /\ UNCHANGED <<stage, timeout, asked_at, deadline, read_at, took_at>>
      /\ ticks' = IF stage = "blocked" /\ (clock + 1) % Sleeps!Tick = 0 /\ ticks \in 1 .. MaxDelay - 1
                  THEN ticks - 1 ELSE ticks
  BY DEF Sleeps!Pass
<1>2. Sleeps!Tick \in Nat \ {0} /\ MaxDelay \in Nat /\ MaxTime \in Nat
  BY Constants
<1>3. clock \in Nat /\ ticks \in 0 .. MaxDelay
  BY <1>2 DEF SleepInv, SleepTypes
<1>4. ticks' \in 0 .. MaxDelay /\ (ticks = MaxDelay => ticks' = MaxDelay) /\ ticks' <= ticks
  BY <1>1, <1>2, <1>3
<1>5. SleepTypes'
  BY <1>1, <1>2, <1>3, <1>4 DEF SleepInv, SleepTypes
<1>6. /\ Sleeps!Held' <=> Sleeps!Held
      /\ Target' = Target /\ Sleeps!Later(Target, read_at)' = Sleeps!Later(Target, read_at)
  BY <1>1 DEF Sleeps!Held, Target, Sleeps!Later
<1>7. DeadlineOK'
  BY <1>1, <1>6 DEF SleepInv, DeadlineOK
<1>8. ReadInOrder'
  BY <1>1, <1>3 DEF SleepInv, SleepTypes, ReadInOrder
<1>9. TicksOK'
  BY <1>1, <1>2, <1>3, <1>4, <1>6 DEF SleepInv, TicksOK
<1>10. TakeOK'
  <2>1. stage = "take" => ticks' = ticks
    BY <1>1
  <2> QED BY <1>1, <1>6, <2>1 DEF SleepInv, TakeOK
<1>11. BlockedOK'
  <2>1. SUFFICES ASSUME stage = "blocked", Sleeps!Held
                 PROVE  /\ ticks' > 0 => /\ Target < EndTick' + Sleeps!Tick
                                         /\ EndTick' <= Sleeps!Later(Target, read_at) + Sleeps!Tick
                                                        + (took_at - read_at)
                        /\ ticks' = 0 => Target < clock' + Sleeps!Tick
    BY <1>1, <1>6 DEF BlockedOK
  <2>2. /\ ticks < MaxDelay
        /\ ticks > 0 => /\ Target < EndTick + Sleeps!Tick
                        /\ EndTick <= Sleeps!Later(Target, read_at) + Sleeps!Tick + (took_at - read_at)
        /\ ticks = 0 => Target < clock + Sleeps!Tick
    BY <2>1 DEF SleepInv, TicksOK, BlockedOK
  <2>3. Target \in Nat
    <3>1. timeout \in Nat /\ asked_at \in Nat
      BY <1>2, Constants DEF SleepInv, SleepTypes
    <3> QED BY <3>1 DEF Target
  <2>4. CASE ticks = 0
    <3>1. ticks' = 0
      BY <1>1, <2>4
    <3> QED BY <1>1, <1>2, <1>3, <2>2, <2>3, <2>4, <3>1
  <2>5. CASE ticks > 0 /\ (clock + 1) % Sleeps!Tick = 0
    <3>1. ticks' = ticks - 1
      BY <1>1, <1>2, <1>3, <2>1, <2>2, <2>5
    <3>2. /\ (clock + 1) \div Sleeps!Tick = (clock \div Sleeps!Tick) + 1
          /\ clock + 1 = ((clock \div Sleeps!Tick) + 1) * Sleeps!Tick
      BY <1>2, <1>3, <2>5, NextTick
    <3>3. clock \div Sleeps!Tick \in Nat
      BY <1>2, <1>3, Division
    <3>4. ((clock + 1) \div Sleeps!Tick) + ticks' = (clock \div Sleeps!Tick) + ticks
      BY <1>3, <3>1, <3>2, <3>3
    <3>5. EndTick' = EndTick
      BY <1>1, <3>4 DEF EndTick
    <3>6. ticks = 1 => EndTick = clock'
      BY <1>1, <3>2 DEF EndTick
    <3> QED BY <1>3, <2>2, <2>5, <3>1, <3>5, <3>6
  <2>6. CASE ticks > 0 /\ (clock + 1) % Sleeps!Tick # 0
    <3>1. ticks' = ticks
      BY <1>1, <2>6
    <3>2. (clock + 1) \div Sleeps!Tick = clock \div Sleeps!Tick
      BY <1>2, <1>3, <2>6, NextTick
    <3>3. EndTick' = EndTick
      BY <1>1, <3>1, <3>2 DEF EndTick
    <3> QED BY <2>2, <2>6, <3>1, <3>3
  <2> QED BY <1>3, <2>4, <2>5, <2>6
<1> QED BY <1>5, <1>7, <1>8, <1>9, <1>10, <1>11 DEF SleepInv

LEMMA WakeKeeps ==
    ASSUME Sleeps!Configured, SleepInv, Sleeps!Wake PROVE SleepInv'
<1>1. /\ Word \in Nat \ {0} /\ MaxTime \in Nat
      /\ 0 \in 0 .. Word - 1 /\ 0 \in 0 .. MaxTime
  BY Constants
<1>2. /\ stage' = "idle" /\ deadline' = Sleeps!NoDeadline /\ timeout' = 0 /\ asked_at' = 0
      /\ read_at' = 0 /\ took_at' = 0 /\ UNCHANGED <<clock, ticks>>
  BY DEF Sleeps!Wake
<1>3. SleepTypes'
  BY <1>1, <1>2 DEF SleepInv, SleepTypes, Sleeps!NoDeadline
<1>4. clock \in Nat
  BY <1>1 DEF SleepInv, SleepTypes
<1> QED BY <1>2, <1>3, <1>4 DEF SleepInv, DeadlineOK, ReadInOrder, TicksOK, TakeOK, BlockedOK

LEMMA SleepStart ==
    ASSUME Sleeps!Configured, Sleeps!Init PROVE SleepInv
<1>1. /\ Word \in Nat \ {0} /\ MaxTime \in Nat /\ MaxDelay \in Nat
      /\ 0 \in 0 .. Word - 1 /\ 0 \in 0 .. MaxTime /\ 0 \in 0 .. MaxDelay
  BY Constants
<1>2. SleepTypes
  BY <1>1 DEF Sleeps!Init, SleepTypes, Sleeps!NoDeadline
<1> QED BY <1>2 DEF Sleeps!Init, SleepInv, DeadlineOK, ReadInOrder, TicksOK, TakeOK, BlockedOK

LEMMA SleepStep ==
    ASSUME Sleeps!Configured, SleepInv, [Sleeps!Next]_(Sleeps!vars) PROVE SleepInv'
<1>1. CASE UNCHANGED Sleeps!vars
  BY <1>1
     DEF Sleeps!vars, SleepInv, SleepTypes, DeadlineOK, Sleeps!Held, Target, ReadInOrder,
         TicksOK,
              TakeOK, BlockedOK, EndTick, Sleeps!Later
<1> QED BY <1>1, SleepKeeps, ToTicksKeeps, SleepTakeKeeps, PassKeeps, WakeKeeps DEF Sleeps!Next

(* What the invariant says of a sleep: while the wait has ticks left its   *)
(* end is ahead, and bounded.                                              *)
LEMMA SleepIsSound ==
    ASSUME Sleeps!Configured, SleepInv PROVE Sleeps!TypeOK /\ Sleeps!SleepsSound
<1>1. Sleeps!TypeOK
  BY DEF SleepInv, SleepTypes, Sleeps!TypeOK
<1>2. Sleeps!ForeverIsForever
  BY DEF SleepInv, TicksOK, Sleeps!ForeverIsForever
<1>3. Sleeps!SleepsInTime
  <2>1. SUFFICES ASSUME stage = "blocked", Sleeps!Held
                 PROVE  /\ ticks = 0 => clock + Sleeps!Tick > Target
                        /\ clock >= Sleeps!Later(Target, read_at) + Sleeps!Tick + (took_at - read_at)
                             => ticks = 0
    BY DEF Sleeps!SleepsInTime, Target
  <2>2. Sleeps!Tick \in Nat \ {0} /\ clock \in Nat /\ ticks \in Nat /\ Target \in Nat
    BY Constants DEF SleepInv, SleepTypes, Target
  <2>3. ticks = 0 => Target < clock + Sleeps!Tick
    BY <2>1 DEF SleepInv, BlockedOK
  <2>4. ASSUME clock >= Sleeps!Later(Target, read_at) + Sleeps!Tick + (took_at - read_at), ticks > 0
        PROVE  FALSE
    <3> DEFINE end == Sleeps!Later(Target, read_at) + Sleeps!Tick + (took_at - read_at)
               q   == clock \div Sleeps!Tick
    <3>1. EndTick <= end
      BY <2>1, <2>4 DEF SleepInv, BlockedOK
    <3>2. end \in Int
      <4>1. read_at \in Nat /\ took_at \in Nat
        BY Constants DEF SleepInv, SleepTypes
      <4> QED BY <2>2, <4>1 DEF Sleeps!Later
    <3>3. q \in Nat /\ clock < q * Sleeps!Tick + Sleeps!Tick /\ q * Sleeps!Tick + Sleeps!Tick = (q + 1) * Sleeps!Tick
      BY <2>2, Division, Multiples
    <3>4. (q + 1) * Sleeps!Tick <= (q + ticks) * Sleeps!Tick /\ (q + ticks) * Sleeps!Tick \in Int
      <4>1. q + 1 \in Int /\ q + ticks \in Int /\ q + 1 <= q + ticks
        BY <2>2, <2>4, <3>3
      <4> HIDE DEF q
      <4> QED BY <2>2, <4>1, Multiples
    <3>5. EndTick = (q + ticks) * Sleeps!Tick
      BY DEF EndTick
    <3>6. clock < EndTick
      <4>1. (q + 1) * Sleeps!Tick \in Int
        BY <2>2, <3>3, Multiples
      <4> DEFINE x == (q + 1) * Sleeps!Tick
      <4>2. clock < x /\ x <= EndTick /\ x \in Int /\ EndTick \in Int
        BY <3>3, <3>4, <3>5, <4>1
      <4> HIDE DEF x
      <4> QED BY <2>2, <4>2
    <3>7. EndTick \in Int
      BY <3>4, <3>5
    <3>8. clock >= end
      BY <2>4
    <3> HIDE DEF end
    <3> QED BY <2>2, <3>1, <3>2, <3>6, <3>7, <3>8
  <2> QED BY <2>2, <2>3, <2>4
<1> QED BY <1>1, <1>2, <1>3 DEF Sleeps!SleepsSound

(* A sleep is neither too short nor too long, whatever the size of a tick, *)
(* of a word and of a number of ticks.                                     *)
THEOREM SleepsInvariance ==
    ASSUME Sleeps!Configured PROVE Sleeps!Spec => [](Sleeps!TypeOK /\ Sleeps!SleepsSound)
<1>1. Sleeps!Init => SleepInv
  BY SleepStart
<1>2. SleepInv /\ [Sleeps!Next]_(Sleeps!vars) => SleepInv'
  BY SleepStep
<1>3. SleepInv => Sleeps!TypeOK /\ Sleeps!SleepsSound
  BY SleepIsSound
<1> QED BY <1>1, <1>2, <1>3, PTL DEF Sleeps!Spec

-----------------------------------------------------------------------------
(* The heap of a job. HeapOK is the heap's own invariant; coalescing comes *)
(* to it through heaps with one block too much in hand, whose index is the *)
(* hole. OwnInv ties the blocks to the pointers of the program, and needs  *)
(* of each operation only which blocks it grants or takes (Granted).       *)

CONSTANTS Place, Header, RegionSize, MaxRegions, Bases, Sizes

VARIABLES store, held, asked, moving, cancelled

Heap == INSTANCE RegionHeap WITH heap <- store

-----------------------------------------------------------------------------
(* Lists with a part replaced, and with a member put first or taken out.   *)

(* r is q with the members i .. k replaced by those of new.                *)
Spliced(r, q, i, k, new) ==
    /\ Len(r) = (i - 1) + Len(new) + (Len(q) - k)
    /\ \A j \in 1 .. i - 1 : r[j] = q[j]
    /\ \A j \in 1 .. Len(new) : r[(i - 1) + j] = new[j]
    /\ \A j \in 1 .. Len(q) - k : r[((i - 1) + Len(new)) + j] = q[k + j]

(* ... with x in the place of i;                                           *)
Exchanged(r, q, i, x) ==
    /\ Len(r) = Len(q)
    /\ \A j \in 1 .. Len(q) : r[j] = IF j = i THEN x ELSE q[j]

(* ... with x and y in the place of i;                                     *)
SplitUp(r, q, i, x, y) ==
    /\ Len(r) = Len(q) + 1
    /\ \A j \in 1 .. Len(q) + 1 :
          r[j] = IF j < i THEN q[j] ELSE IF j = i THEN x ELSE
                 IF j = i + 1 THEN y ELSE q[j - 1]

(* ... with x in the place of i and i + 1.                                 *)
PutTogether(r, q, i, x) ==
    /\ Len(r) = Len(q) - 1
    /\ \A j \in 1 .. Len(q) - 1 :
          r[j] = IF j < i THEN q[j] ELSE IF j = i THEN x ELSE q[j + 1]

LEMMA ReplacedMembers ==
    ASSUME NEW S, NEW q \in Seq(S), NEW new \in Seq(S),
           NEW i \in 1 .. Len(q), NEW k \in i .. Len(q)
    PROVE  /\ Heap!Replaced(q, i, k, new) \in Seq(S)
           /\ Spliced(Heap!Replaced(q, i, k, new), q, i, k, new)
<1> DEFINE a == SubSeq(q, 1, i - 1)
           b == SubSeq(q, k + 1, Len(q))
           am == a \o new
<1>1. Len(q) \in Nat /\ i \in Nat /\ k \in Nat /\ i >= 1 /\ k >= i /\ k <= Len(q)
      /\ Len(new) \in Nat
  OBVIOUS
<1>2. a \in Seq(S) /\ Len(a) = i - 1 /\ \A j \in 1 .. i - 1 : a[j] = q[j]
  BY <1>1
<1>3. b \in Seq(S) /\ Len(b) = Len(q) - k
  BY <1>1
<1>4. \A j \in 1 .. Len(q) - k : b[j] = q[k + j]
  BY <1>1
<1>5. Heap!Replaced(q, i, k, new) = am \o b
  BY DEF Heap!Replaced
<1> HIDE DEF a, b
<1>6. /\ am \in Seq(S) /\ Len(am) = Len(a) + Len(new)
      /\ \A j \in 1 .. Len(a) + Len(new) :
            am[j] = IF j <= Len(a) THEN a[j] ELSE new[j - Len(a)]
  BY <1>2, ConcatProperties
<1> HIDE DEF am
<1>7. /\ am \o b \in Seq(S) /\ Len(am \o b) = Len(am) + Len(b)
      /\ \A j \in 1 .. Len(am) + Len(b) :
            (am \o b)[j] = IF j <= Len(am) THEN am[j] ELSE b[j - Len(am)]
  <2>1. am \in Seq(S) /\ b \in Seq(S)
    BY <1>3, <1>6
  <2> QED BY ONLY <2>1, ConcatProperties
<1>8. ASSUME NEW j \in 1 .. i - 1 PROVE (am \o b)[j] = q[j]
  <2>1. j \in 1 .. Len(a) + Len(new) /\ j <= Len(a)
    BY <1>1, <1>2
  <2>2. am[j] = q[j]
    BY <1>2, <1>6, <2>1
  <2>3. j \in 1 .. Len(am) + Len(b) /\ j <= Len(am)
    BY <1>1, <1>3, <1>6, <2>1
  <2> QED BY <1>7, <2>2, <2>3
<1>9. ASSUME NEW j \in 1 .. Len(new) PROVE (am \o b)[(i - 1) + j] = new[j]
  <2> DEFINE n == (i - 1) + j
  <2>1. n \in 1 .. Len(a) + Len(new) /\ ~(n <= Len(a)) /\ n - Len(a) = j
    BY <1>1, <1>2
  <2>2. n \in 1 .. Len(am) + Len(b) /\ n <= Len(am)
    BY <1>1, <1>3, <1>6, <2>1
  <2> HIDE DEF n
  <2>3. am[n] = new[j]
    BY <1>6, <2>1
  <2>4. (am \o b)[n] = new[j]
    BY <1>7, <2>2, <2>3
  <2> QED BY <2>4 DEF n
<1>10. ASSUME NEW j \in 1 .. Len(q) - k
       PROVE  (am \o b)[((i - 1) + Len(new)) + j] = q[k + j]
  <2> DEFINE n == ((i - 1) + Len(new)) + j
  <2>1. n \in 1 .. Len(am) + Len(b) /\ ~(n <= Len(am)) /\ n - Len(am) = j
    BY <1>1, <1>2, <1>3, <1>6
  <2> HIDE DEF n
  <2>2. (am \o b)[n] = q[k + j]
    BY <1>4, <1>7, <2>1
  <2> QED BY <2>2 DEF n
<1>11. Len(am \o b) = (i - 1) + Len(new) + (Len(q) - k)
  BY <1>1, <1>2, <1>3, <1>6, <1>7
<1> QED BY <1>5, <1>7, <1>8, <1>9, <1>10, <1>11 DEF Spliced

LEMMA ReplacedByOne ==
    ASSUME NEW S, NEW q \in Seq(S), NEW i \in 1 .. Len(q), NEW x \in S
    PROVE  /\ Heap!Replaced(q, i, i, <<x>>) \in Seq(S)
           /\ Exchanged(Heap!Replaced(q, i, i, <<x>>), q, i, x)
<1> DEFINE m == <<x>>
           r == Heap!Replaced(q, i, i, m)
<1>1. Len(q) \in Nat /\ i \in Nat /\ i \in 1 .. Len(q) /\ i \in i .. Len(q)
  OBVIOUS
<1>2. m \in Seq(S) /\ Len(m) = 1 /\ m[1] = x
  OBVIOUS
<1> HIDE DEF m
<1>9. /\ r \in Seq(S)
      /\ Len(r) = (i - 1) + Len(m) + (Len(q) - i)
      /\ \A j \in 1 .. i - 1 : r[j] = q[j]
      /\ \A j \in 1 .. Len(m) : r[(i - 1) + j] = m[j]
      /\ \A j \in 1 .. Len(q) - i : r[((i - 1) + Len(m)) + j] = q[i + j]
  <2>1. r \in Seq(S) /\ Spliced(r, q, i, i, m)
    BY <1>1, <1>2, ReplacedMembers
  <2> HIDE DEF r
  <2> QED BY <2>1 DEF Spliced
<1> HIDE DEF r
<1>3. /\ r \in Seq(S) /\ Len(r) = Len(q)
      /\ \A j \in 1 .. i - 1 : r[j] = q[j]
      /\ \A j \in 1 .. 1 : r[(i - 1) + j] = m[j]
      /\ \A j \in 1 .. Len(q) - i : r[((i - 1) + 1) + j] = q[i + j]
  <2>1. Len(r) = Len(q)
    BY <1>1, <1>2, <1>9
  <2>2. \A j \in 1 .. 1 : r[(i - 1) + j] = m[j]
    BY <1>2, <1>9
  <2>3. \A j \in 1 .. Len(q) - i : r[((i - 1) + 1) + j] = q[i + j]
    BY <1>2, <1>9
  <2> QED BY <1>9, <2>1, <2>2, <2>3
<1>4. r[i] = x
  <2>1. 1 \in 1 .. 1 /\ (i - 1) + 1 = i
    BY <1>1
  <2>2. r[(i - 1) + 1] = m[1]
    BY <1>3, <2>1
  <2> QED BY <1>2, <2>1, <2>2
<1>5. ASSUME NEW j \in 1 .. Len(q), j > i PROVE r[j] = q[j]
  <2>1. j - i \in 1 .. Len(q) - i /\ ((i - 1) + 1) + (j - i) = j /\ i + (j - i) = j
    BY <1>1, <1>5
  <2> QED BY <1>3, <2>1
<1>6. \A j \in 1 .. Len(q) : r[j] = IF j = i THEN x ELSE q[j]
  BY <1>1, <1>3, <1>4, <1>5
<1> QED BY <1>3, <1>6 DEF r, m, Exchanged

LEMMA ReplacedByTwo ==
    ASSUME NEW S, NEW q \in Seq(S), NEW i \in 1 .. Len(q), NEW x \in S, NEW y \in S
    PROVE  /\ Heap!Replaced(q, i, i, <<x, y>>) \in Seq(S)
           /\ SplitUp(Heap!Replaced(q, i, i, <<x, y>>), q, i, x, y)
<1> DEFINE m == <<x, y>>
           r == Heap!Replaced(q, i, i, m)
<1>1. Len(q) \in Nat /\ i \in Nat /\ i \in 1 .. Len(q) /\ i \in i .. Len(q)
  OBVIOUS
<1>2. m \in Seq(S) /\ Len(m) = 2 /\ m[1] = x /\ m[2] = y
  OBVIOUS
<1> HIDE DEF m
<1>9. /\ r \in Seq(S)
      /\ Len(r) = (i - 1) + Len(m) + (Len(q) - i)
      /\ \A j \in 1 .. i - 1 : r[j] = q[j]
      /\ \A j \in 1 .. Len(m) : r[(i - 1) + j] = m[j]
      /\ \A j \in 1 .. Len(q) - i : r[((i - 1) + Len(m)) + j] = q[i + j]
  <2>1. r \in Seq(S) /\ Spliced(r, q, i, i, m)
    BY <1>1, <1>2, ReplacedMembers
  <2> HIDE DEF r
  <2> QED BY <2>1 DEF Spliced
<1> HIDE DEF r
<1>3. /\ r \in Seq(S) /\ Len(r) = Len(q) + 1
      /\ \A j \in 1 .. i - 1 : r[j] = q[j]
      /\ \A j \in 1 .. 2 : r[(i - 1) + j] = m[j]
      /\ \A j \in 1 .. Len(q) - i : r[((i - 1) + 2) + j] = q[i + j]
  <2>1. Len(r) = Len(q) + 1
    BY <1>1, <1>2, <1>9
  <2>2. \A j \in 1 .. Len(q) - i : r[((i - 1) + 2) + j] = q[i + j]
    BY <1>2, <1>9
  <2> QED BY <1>2, <1>9, <2>1, <2>2
<1>4. r[i] = x /\ r[i + 1] = y
  <2>1. 1 \in 1 .. 2 /\ 2 \in 1 .. 2 /\ (i - 1) + 1 = i /\ (i - 1) + 2 = i + 1
    BY <1>1
  <2>2. r[(i - 1) + 1] = m[1] /\ r[(i - 1) + 2] = m[2]
    BY <1>3, <2>1
  <2> QED BY <1>2, <2>1, <2>2
<1>5. ASSUME NEW j \in 1 .. Len(q) + 1, j > i + 1 PROVE r[j] = q[j - 1]
  <2> DEFINE n == (j - 1) - i
  <2>1. n \in 1 .. Len(q) - i /\ ((i - 1) + 2) + n = j /\ i + n = j - 1
    BY <1>1, <1>5
  <2> HIDE DEF n
  <2> QED BY <1>3, <2>1
<1>6. \A j \in 1 .. Len(q) + 1 :
         r[j] = IF j < i THEN q[j] ELSE IF j = i THEN x ELSE
                IF j = i + 1 THEN y ELSE q[j - 1]
  BY <1>1, <1>3, <1>4, <1>5
<1> QED BY <1>3, <1>6 DEF r, m, SplitUp

LEMMA TwoReplaced ==
    ASSUME NEW S, NEW q \in Seq(S), NEW i \in 1 .. Len(q) - 1, NEW x \in S
    PROVE  /\ Heap!Replaced(q, i, i + 1, <<x>>) \in Seq(S)
           /\ PutTogether(Heap!Replaced(q, i, i + 1, <<x>>), q, i, x)
<1> DEFINE m == <<x>>
           k == i + 1
           r == Heap!Replaced(q, i, k, m)
<1>1. Len(q) \in Nat /\ i \in Nat /\ i \in 1 .. Len(q) /\ k \in i .. Len(q)
  OBVIOUS
<1>2. m \in Seq(S) /\ Len(m) = 1 /\ m[1] = x
  OBVIOUS
<1> HIDE DEF m
<1> HIDE DEF k
<1>9. /\ r \in Seq(S)
      /\ Len(r) = (i - 1) + Len(m) + (Len(q) - k)
      /\ \A j \in 1 .. i - 1 : r[j] = q[j]
      /\ \A j \in 1 .. Len(m) : r[(i - 1) + j] = m[j]
      /\ \A j \in 1 .. Len(q) - k : r[((i - 1) + Len(m)) + j] = q[k + j]
  <2>1. r \in Seq(S) /\ Spliced(r, q, i, k, m)
    BY <1>1, <1>2, ReplacedMembers
  <2> HIDE DEF r
  <2> QED BY <2>1 DEF Spliced
<1> HIDE DEF r
<1>3. /\ r \in Seq(S) /\ Len(r) = (i - 1) + 1 + (Len(q) - k)
      /\ \A j \in 1 .. i - 1 : r[j] = q[j]
      /\ \A j \in 1 .. 1 : r[(i - 1) + j] = m[j]
      /\ \A j \in 1 .. Len(q) - k : r[((i - 1) + 1) + j] = q[k + j]
  <2>1. Len(r) = (i - 1) + 1 + (Len(q) - k)
    BY <1>2, <1>9
  <2>2. \A j \in 1 .. 1 : r[(i - 1) + j] = m[j]
    BY <1>2, <1>9
  <2>3. \A j \in 1 .. Len(q) - k : r[((i - 1) + 1) + j] = q[k + j]
    BY <1>2, <1>9
  <2> QED BY <1>9, <2>1, <2>2, <2>3
<1> USE DEF k
<1>4. r[i] = x
  <2>1. 1 \in 1 .. 1 /\ (i - 1) + 1 = i
    BY <1>1
  <2>2. r[(i - 1) + 1] = m[1]
    BY <1>3, <2>1
  <2> QED BY <1>2, <2>1, <2>2
<1>5. ASSUME NEW j \in 1 .. Len(q) - 1, j > i PROVE r[j] = q[j + 1]
  <2> DEFINE n == j - i
  <2>1. n \in 1 .. Len(q) - k /\ ((i - 1) + 1) + n = j /\ k + n = j + 1
    BY <1>1, <1>5
  <2> HIDE DEF n, k
  <2> QED BY <1>3, <2>1
<1>6. \A j \in 1 .. Len(q) - 1 :
         r[j] = IF j < i THEN q[j] ELSE IF j = i THEN x ELSE q[j + 1]
  BY <1>1, <1>3, <1>4, <1>5
<1>7. Len(r) = Len(q) - 1
  BY <1>1, <1>3
<1> QED BY <1>3, <1>6, <1>7 DEF r, m, k, PutTogether

LEMMA PrependContains ==
    ASSUME NEW S, NEW q \in Seq(S), NEW x \in S, IsInjective(q), ~Contains(q, x)
    PROVE  /\ <<x>> \o q \in Seq(S) /\ IsInjective(<<x>> \o q)
           /\ \A u : Contains(<<x>> \o q, u) <=> Contains(q, u) \/ u = x
<1> DEFINE m == <<x>>
           r == m \o q
<1>1. m \in Seq(S) /\ Len(m) = 1 /\ m[1] = x /\ Len(q) \in Nat
  OBVIOUS
<1> HIDE DEF m
<1>2. /\ r \in Seq(S) /\ Len(r) = Len(m) + Len(q)
      /\ \A j \in 1 .. Len(m) + Len(q) : r[j] = IF j <= Len(m) THEN m[j] ELSE q[j - Len(m)]
  BY <1>1, ConcatProperties
<1> HIDE DEF r
<1>3. Len(r) = Len(q) + 1 /\ DOMAIN r = 1 .. Len(q) + 1 /\ r[1] = x
  BY <1>1, <1>2
<1>4. \A j \in 1 .. Len(r) : j # 1 => j - 1 \in 1 .. Len(q) /\ r[j] = q[j - 1]
  BY <1>1, <1>2
<1>5. \A j \in 1 .. Len(q) : j + 1 \in 1 .. Len(r) /\ r[j + 1] = q[j]
  BY <1>1, <1>2
<1>6. \A u : Contains(r, u) <=> Contains(q, u) \/ u = x
  <2>1. ASSUME NEW u, Contains(r, u) PROVE Contains(q, u) \/ u = x
    <3>1. PICK j \in 1 .. Len(r) : r[j] = u
      BY <2>1 DEF Contains
    <3> QED BY <1>3, <1>4, <3>1 DEF Contains
  <2>2. ASSUME NEW u, Contains(q, u) PROVE Contains(r, u)
    BY <1>5, <2>2 DEF Contains
  <2>3. Contains(r, x)
    <3>1. 1 \in 1 .. Len(r)
      BY <1>1, <1>3
    <3> QED BY <1>3, <3>1 DEF Contains
  <2> QED BY <2>1, <2>2, <2>3
<1>7. IsInjective(r)
  <2>1. \A j, k \in 1 .. Len(q) : q[j] = q[k] => j = k
    BY DEF IsInjective
  <2>2. \A j \in 1 .. Len(q) : q[j] # x
    BY DEF Contains
  <2>3. ASSUME NEW j \in 1 .. Len(r), NEW k \in 1 .. Len(r), r[j] = r[k] PROVE j = k
    <3>1. CASE j = 1 /\ k = 1
      BY <3>1
    <3>2. CASE j = 1 /\ k # 1
      BY <1>3, <1>4, <2>2, <2>3, <3>2
    <3>3. CASE j # 1 /\ k = 1
      BY <1>3, <1>4, <2>2, <2>3, <3>3
    <3>4. CASE j # 1 /\ k # 1
      <4>1. j - 1 = k - 1
        BY <1>4, <2>1, <2>3, <3>4
      <4> QED BY <4>1
    <3> QED BY <3>1, <3>2, <3>3, <3>4
  <2> QED BY <1>3, <2>3 DEF IsInjective
<1> QED BY <1>2, <1>6, <1>7 DEF m, r

LEMMA WithoutContains ==
    ASSUME NEW S, NEW q \in Seq(S), NEW a, IsInjective(q)
    PROVE  /\ Heap!Without(q, a) \in Seq(S) /\ IsInjective(Heap!Without(q, a))
           /\ \A u : Contains(Heap!Without(q, a), u) <=> Contains(q, u) /\ u # a
<1>1. CASE Contains(q, a)
  <2> DEFINE i == CHOOSE j \in DOMAIN q : q[j] = a
  <2>1. i \in 1 .. Len(q) /\ q[i] = a
    <3>1. \E j \in DOMAIN q : q[j] = a
      BY <1>1 DEF Contains
    <3> QED BY <3>1
  <2>2. Heap!Without(q, a) = RemoveAt(q, i)
    BY <1>1 DEF Heap!Without, Heap!Contains, Contains, Heap!RemoveAt, RemoveAt
  <2> HIDE DEF i
  <2> QED BY <2>1, <2>2, RemoveAtIndexed, RemoveAtContains
<1>2. CASE ~Contains(q, a)
  BY <1>2 DEF Heap!Without, Heap!Contains, Contains
<1> QED BY <1>1, <1>2

-----------------------------------------------------------------------------
(* The parts of the invariant.                                             *)

(* A heap of two regions is not sound: the last block of one is before the *)
(* first of the other in the list, and they are joined over what is        *)
(* between. This is about the heaps of one region.                         *)
OneRegion == MaxRegions <= 1 \/ \A base, other \in Bases : base = other

HeapRecord ==
    [regions : SUBSET Bases, blocks : Seq(Heap!BlockType),
     free : Seq(0 .. Word - 1), used : 0 .. Word - 1]

(* The blocks of B cut the region at base into parts.                      *)
Tiling(B, base) ==
    /\ Len(B) >= 1 /\ B[1].addr = base
    /\ \A i \in 1 .. Len(B) - 1 : B[i + 1].addr = Heap!End(B[i])
    /\ \A i, k \in 1 .. Len(B) : i < k => Heap!End(B[i]) <= B[k].addr
    /\ Heap!End(B[Len(B)]) = base + RegionSize

Tiled(h) ==
    \/ h.regions = {} /\ h.blocks = << >>
    \/ \E base \in Bases : h.regions = {base} /\ Tiling(h.blocks, base)

(* The free list has the free blocks, but for the one at the index hole.   *)
Listed(h, hole) ==
    /\ IsInjective(h.free)
    /\ \A u : Contains(h.free, u) <=>
          \E i \in 1 .. Len(h.blocks) :
              i # hole /\ ~h.blocks[i].allocated /\ h.blocks[i].addr = u

(* No two free blocks are neighbours, but for the one at the hole.         *)
Unjoined(h, hole) ==
    \A i \in 1 .. Len(h.blocks) : Heap!IsFree(h, i) /\ Heap!IsFree(h, i + 1) => hole \in {i, i + 1}

HeapOK(h, hole) == h \in HeapRecord /\ Tiled(h) /\ Listed(h, hole) /\ Unjoined(h, hole)

(* The block at u is allocated, with a payload of z.                       *)
Granted(h, u, z) ==
    \E i \in 1 .. Len(h.blocks) :
        h.blocks[i].allocated /\ h.blocks[i].addr = u /\ h.blocks[i].size = z

Owned(s) == {held[s], moving[s]} \ {Heap!NoPtr}

(* The pointers of the program lead to the blocks that are allocated.      *)
OwnInv ==
    /\ \A s \in Place :
          held[s] # Heap!NoPtr => \E z \in Nat : Granted(store, held[s], z) /\ z >= asked[s]
    /\ \A s \in Place : moving[s] # Heap!NoPtr => \E z \in Nat : Granted(store, moving[s], z)
    /\ \A s \in Place : moving[s] # Heap!NoPtr => held[s] # Heap!NoPtr /\ held[s] # moving[s]
    /\ \A s, t \in Place : s # t => Owned(s) \cap Owned(t) = {}
    /\ \A u, z : Granted(store, u, z) => \E s \in Place : u \in Owned(s)

HeapVarTypes ==
    /\ held \in [Place -> 0 .. Word - 1]
    /\ asked \in [Place -> Sizes \cup {0}]
    /\ moving \in [Place -> 0 .. Word - 1]
    /\ cancelled \in BOOLEAN

HeapInv == HeapOK(store, 0) /\ HeapVarTypes /\ OwnInv

-----------------------------------------------------------------------------
(* What lies where in a region.                                            *)

LEMMA BlockNumbers ==
    ASSUME Heap!Configured, NEW b \in Heap!BlockType
    PROVE  /\ b.addr \in Nat /\ b.size \in Nat /\ Heap!End(b) \in Nat /\ b.allocated \in BOOLEAN
           /\ b.addr < Heap!End(b) /\ Heap!End(b) = b.addr + Header + b.size
BY DEF Heap!Configured, Heap!BlockType, Heap!End

(* Blocks are in their region, and in the order of their addresses.        *)
LEMMA TilesInRegion ==
    ASSUME Heap!Configured, NEW B \in Seq(Heap!BlockType), NEW base \in Bases, Tiling(B, base)
    PROVE  /\ \A i \in 1 .. Len(B) :
                /\ base <= B[i].addr /\ Heap!End(B[i]) <= base + RegionSize
                /\ Heap!End(B[i]) <= Word /\ B[i].addr # Heap!NoPtr
           /\ \A i, k \in 1 .. Len(B) : B[i].addr = B[k].addr => i = k
<1>1. Len(B) \in Nat /\ Len(B) >= 1 /\ base \in Nat /\ base >= 1
  BY DEF Tiling, Heap!Configured, Heap!NoPtr
<1>2. \A i \in 1 .. Len(B) : /\ B[i].addr \in Nat /\ Heap!End(B[i]) \in Nat
                              /\ B[i].addr < Heap!End(B[i])
  BY BlockNumbers
<1>3. \A i, k \in 1 .. Len(B) : i < k => Heap!End(B[i]) <= B[k].addr
  BY DEF Tiling
<1>4. base + RegionSize <= Word /\ RegionSize \in Nat /\ Word \in Nat
  BY DEF Heap!Configured
<1>5. ASSUME NEW i \in 1 .. Len(B)
      PROVE  /\ base <= B[i].addr /\ Heap!End(B[i]) <= base + RegionSize
             /\ Heap!End(B[i]) <= Word /\ B[i].addr # Heap!NoPtr
  <2>1. base <= B[i].addr
    <3>1. B[1].addr = base /\ 1 \in 1 .. Len(B)
      BY <1>1 DEF Tiling
    <3>2. CASE i = 1
      BY <1>1, <3>1, <3>2
    <3>3. CASE i # 1
      <4>1. Heap!End(B[1]) <= B[i].addr
        BY <1>1, <1>3, <3>1, <3>3
      <4> QED BY <1>1, <1>2, <3>1, <4>1
    <3> QED BY <3>2, <3>3
  <2>2. Heap!End(B[i]) <= base + RegionSize
    <3>1. Heap!End(B[Len(B)]) = base + RegionSize /\ Len(B) \in 1 .. Len(B)
      BY <1>1 DEF Tiling
    <3>2. CASE i = Len(B)
      BY <1>1, <1>4, <3>1, <3>2
    <3>3. CASE i # Len(B)
      <4>1. Heap!End(B[i]) <= B[Len(B)].addr
        BY <1>1, <1>3, <3>1, <3>3
      <4> QED BY <1>1, <1>2, <1>4, <3>1, <4>1
    <3> QED BY <3>2, <3>3
  <2> QED BY <1>1, <1>2, <1>4, <2>1, <2>2 DEF Heap!NoPtr
<1>6. ASSUME NEW i \in 1 .. Len(B), NEW k \in 1 .. Len(B), i < k PROVE B[i].addr # B[k].addr
  BY <1>2, <1>3, <1>6
<1>7. ASSUME NEW i \in 1 .. Len(B), NEW k \in 1 .. Len(B), B[i].addr = B[k].addr PROVE i = k
  BY <1>1, <1>6, <1>7
<1> QED BY <1>5, <1>7

LEMMA AddressesDiffer ==
    ASSUME Heap!Configured, NEW h \in HeapRecord, Tiled(h)
    PROVE  /\ \A i, k \in 1 .. Len(h.blocks) : h.blocks[i].addr = h.blocks[k].addr => i = k
           /\ \A i \in 1 .. Len(h.blocks) : /\ h.blocks[i] \in Heap!BlockType
                                             /\ h.blocks[i].addr # Heap!NoPtr
                                             /\ Heap!IndexOf(h, h.blocks[i].addr) = i
<1>1. h.blocks \in Seq(Heap!BlockType) /\ DOMAIN h.blocks = 1 .. Len(h.blocks)
  BY DEF HeapRecord
<1>2. \A i \in 1 .. Len(h.blocks) : h.blocks[i] \in Heap!BlockType
  BY <1>1
<1>3. /\ \A i, k \in 1 .. Len(h.blocks) : h.blocks[i].addr = h.blocks[k].addr => i = k
      /\ \A i \in 1 .. Len(h.blocks) : h.blocks[i].addr # Heap!NoPtr
  <2>1. CASE h.blocks = << >>
    BY <2>1
  <2>2. CASE \E base \in Bases : Tiling(h.blocks, base)
    BY <1>1, <2>2, TilesInRegion
  <2> QED BY <2>1, <2>2 DEF Tiled
<1>4. ASSUME NEW i \in 1 .. Len(h.blocks) PROVE Heap!IndexOf(h, h.blocks[i].addr) = i
  <2>1. \E k \in DOMAIN h.blocks : h.blocks[k].addr = h.blocks[i].addr
    BY <1>1
  <2>2. /\ Heap!IndexOf(h, h.blocks[i].addr) \in DOMAIN h.blocks
        /\ h.blocks[Heap!IndexOf(h, h.blocks[i].addr)].addr = h.blocks[i].addr
    BY <2>1 DEF Heap!IndexOf
  <2> QED BY <1>1, <1>3, <2>2
<1> QED BY <1>2, <1>3, <1>4

(* Blocks that take the place of others leave the region tiled.            *)
LEMMA TilesSame ==
    ASSUME Heap!Configured,
           NEW B \in Seq(Heap!BlockType), NEW C \in Seq(Heap!BlockType), NEW base \in Bases,
           Tiling(B, base), Len(C) = Len(B),
           \A i \in 1 .. Len(B) : C[i].addr = B[i].addr /\ C[i].size = B[i].size
    PROVE  Tiling(C, base)
<1>1. \A i \in 1 .. Len(B) : Heap!End(C[i]) = Heap!End(B[i]) /\ C[i].addr = B[i].addr
  BY DEF Heap!End
<1>2. Len(B) \in Nat /\ Len(B) >= 1 /\ 1 \in 1 .. Len(B) /\ Len(B) \in 1 .. Len(B)
      /\ \A i \in 1 .. Len(B) - 1 : i \in 1 .. Len(B) /\ i + 1 \in 1 .. Len(B)
  BY DEF Tiling
<1> QED BY <1>1, <1>2 DEF Tiling

LEMMA TilesSplit ==
    ASSUME Heap!Configured, NEW B \in Seq(Heap!BlockType), NEW base \in Bases, Tiling(B, base),
           NEW i \in 1 .. Len(B), NEW g \in Heap!BlockType, NEW r \in Heap!BlockType,
           g.addr = B[i].addr, Heap!End(g) = r.addr, Heap!End(r) = Heap!End(B[i])
    PROVE  Tiling(Heap!Replaced(B, i, i, <<g, r>>), base)
<1> DEFINE C == Heap!Replaced(B, i, i, <<g, r>>)
<1>1. /\ C \in Seq(Heap!BlockType) /\ Len(C) = Len(B) + 1
      /\ \A j \in 1 .. Len(B) + 1 :
            C[j] = IF j < i THEN B[j] ELSE IF j = i THEN g ELSE
                   IF j = i + 1 THEN r ELSE B[j - 1]
  <2>1. C \in Seq(Heap!BlockType) /\ SplitUp(C, B, i, g, r)
    BY ReplacedByTwo
  <2> HIDE DEF C
  <2> QED BY <2>1 DEF SplitUp
<1> HIDE DEF C
<1>2. /\ Len(B) \in Nat /\ Len(B) >= 1 /\ i \in Nat /\ i >= 1 /\ i <= Len(B)
      /\ B[1].addr = base /\ Heap!End(B[Len(B)]) = base + RegionSize
      /\ \A j \in 1 .. Len(B) - 1 : B[j + 1].addr = Heap!End(B[j])
      /\ \A j, k \in 1 .. Len(B) : j < k => Heap!End(B[j]) <= B[k].addr
  <2>1. /\ Len(B) >= 1 /\ B[1].addr = base /\ Heap!End(B[Len(B)]) = base + RegionSize
        /\ \A j \in 1 .. Len(B) - 1 : B[j + 1].addr = Heap!End(B[j])
        /\ \A j, k \in 1 .. Len(B) : j < k => Heap!End(B[j]) <= B[k].addr
    BY DEF Tiling
  <2>2. Len(B) \in Nat
    OBVIOUS
  <2> QED BY <2>1, <2>2
<1>3. /\ g.addr \in Nat /\ Heap!End(g) \in Nat /\ Heap!End(r) \in Nat /\ r.addr \in Nat
      /\ g.addr < Heap!End(g) /\ r.addr < Heap!End(r)
      /\ \A j \in 1 .. Len(B) : B[j].addr \in Nat /\ Heap!End(B[j]) \in Nat
  BY BlockNumbers
<1>4. /\ \A j \in 1 .. i - 1 : C[j] = B[j]
      /\ C[i] = g /\ C[i + 1] = r
      /\ \A j \in i + 2 .. Len(B) + 1 : C[j] = B[j - 1]
  BY <1>1, <1>2
<1>5. C[1].addr = base /\ Heap!End(C[Len(C)]) = base + RegionSize
  <2>1. C[1].addr = B[1].addr
    BY <1>2, <1>4
  <2>2. Heap!End(C[Len(C)]) = Heap!End(B[Len(B)])
    <3>1. CASE i = Len(B)
      BY <1>1, <1>4, <3>1
    <3>2. CASE i # Len(B)
      <4>1. C[Len(B) + 1] = B[(Len(B) + 1) - 1] /\ (Len(B) + 1) - 1 = Len(B)
        BY <1>2, <1>4, <3>2
      <4> QED BY <1>1, <4>1
    <3> QED BY <3>1, <3>2
  <2> QED BY <1>2, <2>1, <2>2
<1>6. ASSUME NEW j \in 1 .. Len(C) - 1 PROVE C[j + 1].addr = Heap!End(C[j])
  <2>1. CASE j < i - 1
    <3>1. C[j] = B[j] /\ C[j + 1] = B[j + 1] /\ j \in 1 .. Len(B) - 1
      BY <1>1, <1>2, <1>4, <2>1
    <3> QED BY <1>2, <3>1
  <2>2. CASE j = i - 1
    <3>1. C[j] = B[j] /\ C[j + 1] = g /\ j \in 1 .. Len(B) - 1 /\ j + 1 = i
      BY <1>1, <1>2, <1>4, <2>2
    <3> QED BY <1>2, <3>1
  <2>3. CASE j = i
    BY <1>4, <2>3
  <2>4. CASE j = i + 1
    <3>1. C[j] = r /\ C[j + 1] = B[(j + 1) - 1] /\ i \in 1 .. Len(B) - 1 /\ (j + 1) - 1 = i + 1
      BY <1>1, <1>2, <1>4, <2>4
    <3> QED BY <1>2, <3>1
  <2>5. CASE j > i + 1
    <3>1. /\ C[j] = B[j - 1] /\ C[j + 1] = B[(j + 1) - 1] /\ j - 1 \in 1 .. Len(B) - 1
          /\ (j + 1) - 1 = (j - 1) + 1
      BY <1>1, <1>2, <1>4, <2>5
    <3> QED BY <1>2, <3>1
  <2> QED BY <1>2, <2>1, <2>2, <2>3, <2>4, <2>5
<1>7. ASSUME NEW j \in 1 .. Len(C), NEW k \in 1 .. Len(C), j < k PROVE Heap!End(C[j]) <= C[k].addr
  <2>1. CASE k < i
    <3>1. C[j] = B[j] /\ C[k] = B[k] /\ j \in 1 .. Len(B) /\ k \in 1 .. Len(B)
      BY <1>1, <1>2, <1>4, <1>7, <2>1
    <3> QED BY <1>2, <1>7, <3>1
  <2>2. CASE k = i
    <3>1. C[j] = B[j] /\ j \in 1 .. Len(B) /\ j < i /\ C[k] = g
      BY <1>1, <1>2, <1>4, <1>7, <2>2
    <3> QED BY <1>2, <3>1
  <2>3. CASE k = i + 1
    <3>1. CASE j = i
      BY <1>3, <1>4, <2>3, <3>1
    <3>2. CASE j # i
      <4>1. C[j] = B[j] /\ j \in 1 .. Len(B) /\ j < i /\ C[k] = r
        BY <1>1, <1>2, <1>4, <1>7, <2>3, <3>2
      <4>2. Heap!End(B[j]) <= B[i].addr
        BY <1>2, <4>1
      <4> QED BY <1>3, <4>1, <4>2
    <3> QED BY <3>1, <3>2
  <2>4. CASE k > i + 1
    <3>1. C[k] = B[k - 1] /\ k - 1 \in 1 .. Len(B) /\ k - 1 > i
      BY <1>1, <1>2, <1>4, <2>4
    <3>2. Heap!End(B[i]) <= B[k - 1].addr
      BY <1>2, <3>1
    <3>3. CASE j < i
      <4>1. C[j] = B[j] /\ j \in 1 .. Len(B) /\ j < k - 1
        BY <1>1, <1>2, <1>4, <3>1, <3>3
      <4> QED BY <1>2, <3>1, <4>1
    <3>4. CASE j = i
      <4>1. C[j] = g /\ C[k] = B[k - 1]
        BY <1>4, <3>1, <3>4
      <4>2. Heap!End(g) < Heap!End(B[i]) /\ Heap!End(B[i]) \in Nat /\ B[k - 1].addr \in Nat
        BY <1>3, <3>1
      <4> QED BY <1>3, <3>2, <4>1, <4>2
    <3>5. CASE j = i + 1
      BY <1>4, <3>1, <3>2, <3>5
    <3>6. CASE j > i + 1
      <4>1. C[j] = B[j - 1] /\ j - 1 \in 1 .. Len(B) /\ j - 1 < k - 1
        BY <1>1, <1>2, <1>4, <1>7, <3>6
      <4> QED BY <1>2, <3>1, <4>1
    <3> QED BY <1>2, <3>3, <3>4, <3>5, <3>6
  <2> QED BY <1>2, <2>1, <2>2, <2>3, <2>4
<1>8. Len(C) >= 1
  BY <1>1, <1>2
<1> QED BY <1>5, <1>6, <1>7, <1>8 DEF C, Tiling

LEMMA TilesJoined ==
    ASSUME Heap!Configured, NEW B \in Seq(Heap!BlockType), NEW base \in Bases, Tiling(B, base),
           NEW i \in 1 .. Len(B) - 1, NEW m \in Heap!BlockType,
           m.addr = B[i].addr, Heap!End(m) = Heap!End(B[i + 1])
    PROVE  Tiling(Heap!Replaced(B, i, i + 1, <<m>>), base)
<1> DEFINE C == Heap!Replaced(B, i, i + 1, <<m>>)
<1>1. /\ C \in Seq(Heap!BlockType) /\ Len(C) = Len(B) - 1
      /\ \A j \in 1 .. Len(B) - 1 :
            C[j] = IF j < i THEN B[j] ELSE IF j = i THEN m ELSE B[j + 1]
  <2>1. C \in Seq(Heap!BlockType) /\ PutTogether(C, B, i, m)
    BY TwoReplaced
  <2> HIDE DEF C
  <2> QED BY <2>1 DEF PutTogether
<1> HIDE DEF C
<1>2. /\ Len(B) \in Nat /\ i \in Nat /\ i >= 1 /\ i <= Len(B) - 1
      /\ B[1].addr = base /\ Heap!End(B[Len(B)]) = base + RegionSize
      /\ \A j \in 1 .. Len(B) - 1 : B[j + 1].addr = Heap!End(B[j])
      /\ \A j, k \in 1 .. Len(B) : j < k => Heap!End(B[j]) <= B[k].addr
  <2>1. /\ Len(B) >= 1 /\ B[1].addr = base /\ Heap!End(B[Len(B)]) = base + RegionSize
        /\ \A j \in 1 .. Len(B) - 1 : B[j + 1].addr = Heap!End(B[j])
        /\ \A j, k \in 1 .. Len(B) : j < k => Heap!End(B[j]) <= B[k].addr
    BY DEF Tiling
  <2>2. Len(B) \in Nat
    OBVIOUS
  <2> QED BY <2>1, <2>2
<1>3. /\ m.addr \in Nat /\ Heap!End(m) \in Nat
      /\ \A j \in 1 .. Len(B) : B[j].addr \in Nat /\ Heap!End(B[j]) \in Nat
  BY BlockNumbers
<1>4. /\ \A j \in 1 .. i - 1 : C[j] = B[j]
      /\ C[i] = m
      /\ \A j \in i + 1 .. Len(B) - 1 : C[j] = B[j + 1]
  BY <1>1, <1>2
<1>5. C[1].addr = base /\ Heap!End(C[Len(C)]) = base + RegionSize
  <2>1. C[1].addr = B[1].addr
    BY <1>2, <1>4
  <2>2. Heap!End(C[Len(C)]) = Heap!End(B[Len(B)])
    <3>1. CASE i = Len(B) - 1
      BY <1>1, <1>2, <1>4, <3>1
    <3>2. CASE i # Len(B) - 1
      <4>1. C[Len(B) - 1] = B[(Len(B) - 1) + 1] /\ (Len(B) - 1) + 1 = Len(B)
        BY <1>2, <1>4, <3>2
      <4> QED BY <1>1, <4>1
    <3> QED BY <3>1, <3>2
  <2> QED BY <1>2, <2>1, <2>2
<1>6. ASSUME NEW j \in 1 .. Len(C) - 1 PROVE C[j + 1].addr = Heap!End(C[j])
  <2>1. CASE j < i - 1
    <3>1. C[j] = B[j] /\ C[j + 1] = B[j + 1] /\ j \in 1 .. Len(B) - 1
      BY <1>1, <1>2, <1>4, <2>1
    <3> QED BY <1>2, <3>1
  <2>2. CASE j = i - 1
    <3>1. C[j] = B[j] /\ C[j + 1] = m /\ j \in 1 .. Len(B) - 1 /\ j + 1 = i
      BY <1>1, <1>2, <1>4, <2>2
    <3> QED BY <1>2, <3>1
  <2>3. CASE j = i
    <3>1. C[j] = m /\ C[j + 1] = B[(j + 1) + 1] /\ i + 1 \in 1 .. Len(B) - 1
      BY <1>1, <1>2, <1>4, <2>3
    <3> QED BY <1>2, <2>3, <3>1
  <2>4. CASE j > i
    <3>1. C[j] = B[j + 1] /\ C[j + 1] = B[(j + 1) + 1] /\ j + 1 \in 1 .. Len(B) - 1
      BY <1>1, <1>2, <1>4, <2>4
    <3> QED BY <1>2, <3>1
  <2> QED BY <1>2, <2>1, <2>2, <2>3, <2>4
<1>7. ASSUME NEW j \in 1 .. Len(C), NEW k \in 1 .. Len(C), j < k PROVE Heap!End(C[j]) <= C[k].addr
  <2>1. CASE k < i
    <3>1. C[j] = B[j] /\ C[k] = B[k] /\ j \in 1 .. Len(B) /\ k \in 1 .. Len(B)
      BY <1>1, <1>2, <1>4, <1>7, <2>1
    <3> QED BY <1>2, <1>7, <3>1
  <2>2. CASE k = i
    <3>1. C[j] = B[j] /\ j \in 1 .. Len(B) /\ j < i /\ C[k] = m /\ i \in 1 .. Len(B)
      BY <1>1, <1>2, <1>4, <1>7, <2>2
    <3> QED BY <1>2, <3>1
  <2>3. CASE k > i
    <3>1. C[k] = B[k + 1] /\ k + 1 \in 1 .. Len(B) /\ i + 1 \in 1 .. Len(B) /\ i + 1 < k + 1
      BY <1>1, <1>2, <1>4, <2>3
    <3>2. Heap!End(B[i + 1]) <= B[k + 1].addr
      BY <1>2, <3>1
    <3>3. CASE j < i
      <4>1. C[j] = B[j] /\ j \in 1 .. Len(B) /\ j < k + 1
        BY <1>1, <1>2, <1>4, <1>7, <3>3
      <4> QED BY <1>2, <3>1, <4>1
    <3>4. CASE j = i
      BY <1>3, <1>4, <3>1, <3>2, <3>4
    <3>5. CASE j > i
      <4>1. C[j] = B[j + 1] /\ j + 1 \in 1 .. Len(B) /\ j + 1 < k + 1
        BY <1>1, <1>2, <1>4, <1>7, <3>5
      <4> QED BY <1>2, <3>1, <4>1
    <3> QED BY <1>2, <3>3, <3>4, <3>5
  <2> QED BY <1>2, <2>1, <2>2, <2>3
<1>8. Len(C) >= 1
  BY <1>1, <1>2
<1> QED BY <1>5, <1>6, <1>7, <1>8 DEF C, Tiling

-----------------------------------------------------------------------------
(* What malloc does to a heap.                                             *)

LEMMA FreeIndexes ==
    ASSUME NEW h \in HeapRecord
    PROVE  /\ h.blocks \in Seq(Heap!BlockType) /\ h.free \in Seq(0 .. Word - 1)
           /\ \A i : Heap!IsFree(h, i) <=> i \in 1 .. Len(h.blocks) /\ ~h.blocks[i].allocated
BY DEF HeapRecord, Heap!IsFree

(* find_fit_block finds a free block that is large enough.                 *)
LEMMA FitFound ==
    ASSUME Heap!Configured, NEW h, HeapOK(h, 0), NEW n \in Nat, Heap!Fit(h, n) # Heap!NoPtr
    PROVE  \E i \in 1 .. Len(h.blocks) :
              ~h.blocks[i].allocated /\ h.blocks[i].addr = Heap!Fit(h, n) /\ h.blocks[i].size >= n
<1> DEFINE fits == {j \in DOMAIN h.free : Heap!BlockAt(h, h.free[j]).size >= n}
<1>1. h \in HeapRecord /\ Tiled(h) /\ Listed(h, 0) /\ h.free \in Seq(0 .. Word - 1)
  BY FreeIndexes DEF HeapOK
<1>2. fits # {} /\ Heap!Fit(h, n) = h.free[CHOOSE j \in fits : \A k \in fits : j <= k]
  BY DEF Heap!Fit
<1>3. fits \subseteq Nat
  BY <1>1
<1>4. \E j \in fits : \A k \in fits : j <= k
  BY <1>2, <1>3, LeastOfNaturals
<1>5. PICK j \in fits : Heap!Fit(h, n) = h.free[j]
  BY <1>2, <1>4
<1>6. /\ j \in 1 .. Len(h.free) /\ Heap!BlockAt(h, Heap!Fit(h, n)).size >= n
  BY <1>1, <1>5
<1>7. Contains(h.free, Heap!Fit(h, n))
  BY <1>5, <1>6 DEF Contains
<1>8. PICK i \in 1 .. Len(h.blocks) : ~h.blocks[i].allocated /\ h.blocks[i].addr = Heap!Fit(h, n)
  BY <1>1, <1>7 DEF Listed
<1>9. Heap!BlockAt(h, Heap!Fit(h, n)) = h.blocks[i]
  BY <1>1, <1>8, AddressesDiffer DEF Heap!BlockAt
<1> QED BY <1>6, <1>8, <1>9

LEMMA TakenWhole ==
    ASSUME Heap!Configured, NEW h, HeapOK(h, 0),
           NEW i \in 1 .. Len(h.blocks), ~h.blocks[i].allocated,
           NEW g \in Heap!BlockType, g.addr = h.blocks[i].addr, g.size = h.blocks[i].size,
           g.allocated,
           NEW t \in HeapRecord, t.regions = h.regions,
           t.blocks = Heap!Replaced(h.blocks, i, i, <<g>>),
           t.free = Heap!Without(h.free, g.addr)
    PROVE  /\ HeapOK(t, 0)
           /\ \A u, z : Granted(t, u, z) <=> Granted(h, u, z) \/ (u = g.addr /\ z = g.size)
<1> DEFINE B == h.blocks
           C == t.blocks
<1>1. h \in HeapRecord /\ Tiled(h) /\ Listed(h, 0) /\ Unjoined(h, 0)
  BY DEF HeapOK
<1>2. /\ B \in Seq(Heap!BlockType) /\ h.free \in Seq(0 .. Word - 1) /\ Len(B) \in Nat
      /\ \A k : Heap!IsFree(h, k) <=> k \in 1 .. Len(B) /\ ~B[k].allocated
  BY <1>1, FreeIndexes
<1>3. \A k, l \in 1 .. Len(B) : B[k].addr = B[l].addr => k = l
  BY <1>1, AddressesDiffer
<1>4. /\ C \in Seq(Heap!BlockType) /\ Len(C) = Len(B)
      /\ \A k \in 1 .. Len(B) : C[k] = IF k = i THEN g ELSE B[k]
      /\ \A k : Heap!IsFree(t, k) <=> k \in 1 .. Len(C) /\ ~C[k].allocated
  <2>1. C = Heap!Replaced(B, i, i, <<g>>) /\ i \in 1 .. Len(B)
    OBVIOUS
  <2>2. /\ C \in Seq(Heap!BlockType)
        /\ \A k : Heap!IsFree(t, k) <=> k \in 1 .. Len(C) /\ ~C[k].allocated
    BY FreeIndexes
  <2> HIDE DEF B, C
  <2>3. /\ Len(C) = Len(B)
        /\ \A k \in 1 .. Len(B) : C[k] = IF k = i THEN g ELSE B[k]
    BY <1>2, <2>1, ReplacedByOne DEF Exchanged
  <2> QED BY <2>2, <2>3
<1> HIDE DEF B, C
<1>5. \A k \in 1 .. Len(C) : k \in 1 .. Len(B) /\ C[k].addr = B[k].addr /\ C[k].size = B[k].size
  BY <1>4 DEF B
<1>6. Tiled(t)
  <2>1. PICK base \in Bases : h.regions = {base} /\ Tiling(B, base)
    <3>1. B # << >>
      BY <1>2 DEF B
    <3> QED BY <1>1, <3>1 DEF Tiled, B
  <2>2. Tiling(C, base)
    BY <1>2, <1>4, <1>5, <2>1, TilesSame
  <2> QED BY <2>1, <2>2 DEF Tiled, C
<1>7. Listed(t, 0)
  <2>1. /\ IsInjective(t.free)
        /\ \A u : Contains(t.free, u) <=> Contains(h.free, u) /\ u # g.addr
    BY <1>1, <1>2, WithoutContains DEF Listed
  <2>2. ASSUME NEW u, Contains(t.free, u)
        PROVE  \E k \in 1 .. Len(C) : k # 0 /\ ~C[k].allocated /\ C[k].addr = u
    <3>1. PICK k \in 1 .. Len(B) : k # 0 /\ ~B[k].allocated /\ B[k].addr = u
      BY <1>1, <2>1, <2>2 DEF Listed, B
    <3>2. k # i
      BY <2>1, <2>2, <3>1 DEF B
    <3> QED BY <1>4, <3>1, <3>2
  <2>3. ASSUME NEW u, NEW k \in 1 .. Len(C), ~C[k].allocated, C[k].addr = u
        PROVE  Contains(t.free, u)
    <3>1. k # i /\ k \in 1 .. Len(B) /\ C[k] = B[k] /\ i \in 1 .. Len(B)
      BY <1>4, <2>3 DEF B
    <3>2. u # g.addr
      BY <1>3, <2>3, <3>1 DEF B
    <3>3. Contains(h.free, u)
      BY <1>1, <1>2, <2>3, <3>1 DEF Listed, B
    <3> QED BY <2>1, <3>2, <3>3
  <2> QED BY <2>1, <2>2, <2>3 DEF Listed, C
<1>8. Unjoined(t, 0)
  <2>1. \A k : Heap!IsFree(t, k) => Heap!IsFree(h, k)
    BY <1>2, <1>4
  <2> QED BY <1>1, <1>4, <2>1 DEF Unjoined, B, C
<1>9. ASSUME NEW u, NEW z
      PROVE  Granted(t, u, z) <=> Granted(h, u, z) \/ (u = g.addr /\ z = g.size)
  <2>1. ASSUME NEW k \in 1 .. Len(C), C[k].allocated, C[k].addr = u, C[k].size = z
        PROVE  Granted(h, u, z) \/ (u = g.addr /\ z = g.size)
    BY <1>4, <2>1 DEF Granted, B
  <2>2. ASSUME NEW k \in 1 .. Len(B), B[k].allocated, B[k].addr = u, B[k].size = z
        PROVE  Granted(t, u, z)
    <3>1. k # i
      BY <2>2 DEF B
    <3> QED BY <1>4, <2>2, <3>1 DEF Granted, C
  <2>3. Granted(t, g.addr, g.size)
    <3>1. i \in 1 .. Len(C) /\ C[i] = g
      BY <1>4 DEF B
    <3> QED BY <3>1 DEF Granted, C
  <2> QED BY <2>1, <2>2, <2>3 DEF Granted, B, C
<1> QED BY <1>6, <1>7, <1>8, <1>9 DEF HeapOK

LEMMA TakenPart ==
    ASSUME Heap!Configured, NEW h, HeapOK(h, 0),
           NEW i \in 1 .. Len(h.blocks), ~h.blocks[i].allocated,
           NEW g \in Heap!BlockType, g.addr = h.blocks[i].addr, g.allocated,
           NEW r \in Heap!BlockType, r.addr = Heap!End(g),
           Heap!End(r) = Heap!End(h.blocks[i]), ~r.allocated,
           NEW t \in HeapRecord, t.regions = h.regions,
           t.blocks = Heap!Replaced(h.blocks, i, i, <<g, r>>),
           t.free = <<r.addr>> \o Heap!Without(h.free, g.addr)
    PROVE  /\ HeapOK(t, 0)
           /\ \A u, z : Granted(t, u, z) <=> Granted(h, u, z) \/ (u = g.addr /\ z = g.size)
<1> DEFINE B == h.blocks
           C == t.blocks
           w == Heap!Without(h.free, g.addr)
<1>1. h \in HeapRecord /\ Tiled(h) /\ Listed(h, 0) /\ Unjoined(h, 0)
  BY DEF HeapOK
<1>2. /\ B \in Seq(Heap!BlockType) /\ h.free \in Seq(0 .. Word - 1) /\ Len(B) \in Nat
      /\ \A k : Heap!IsFree(h, k) <=> k \in 1 .. Len(B) /\ ~B[k].allocated
  BY <1>1, FreeIndexes
<1>3. \A k, l \in 1 .. Len(B) : B[k].addr = B[l].addr => k = l
  BY <1>1, AddressesDiffer
<1>4. /\ C \in Seq(Heap!BlockType) /\ Len(C) = Len(B) + 1
      /\ \A k \in 1 .. Len(B) + 1 :
            C[k] = IF k < i THEN B[k] ELSE IF k = i THEN g ELSE
                   IF k = i + 1 THEN r ELSE B[k - 1]
  <2>1. C = Heap!Replaced(B, i, i, <<g, r>>) /\ i \in 1 .. Len(B)
    OBVIOUS
  <2> HIDE DEF B, C
  <2>2. C \in Seq(Heap!BlockType) /\ SplitUp(C, B, i, g, r)
    BY <1>2, <2>1, ReplacedByTwo
  <2> QED BY <2>2 DEF SplitUp
<1>41. \A k : Heap!IsFree(t, k) <=> k \in 1 .. Len(C) /\ ~C[k].allocated
  BY FreeIndexes
<1> HIDE DEF B, C, w
<1>40. /\ \A k \in 1 .. i - 1 : C[k] = B[k]
       /\ C[i] = g /\ C[i + 1] = r
       /\ \A k \in i + 1 .. Len(B) : C[k + 1] = B[k]
       /\ i \in 1 .. Len(B) /\ i \in Nat
       /\ i \in 1 .. Len(C) /\ i + 1 \in 1 .. Len(C)
  <2>1. i \in 1 .. Len(B) /\ i \in Nat
    BY DEF B
  <2>2. \A k \in i + 1 .. Len(B) : C[k + 1] = B[k]
    <3>1. ASSUME NEW k \in i + 1 .. Len(B) PROVE C[k + 1] = B[k]
      <4>1. /\ k + 1 \in 1 .. Len(B) + 1 /\ ~(k + 1 < i) /\ k + 1 # i /\ k + 1 # i + 1
            /\ (k + 1) - 1 = k
        BY <1>2, <2>1
      <4> QED BY <1>4, <4>1
    <3> QED BY <3>1
  <2> QED BY <1>2, <1>4, <2>1, <2>2
<1>5. PICK base \in Bases : h.regions = {base} /\ Tiling(B, base)
  <2>1. B # << >>
    BY <1>2, <1>40
  <2> QED BY <1>1, <2>1 DEF Tiled, B
<1>6. Tiled(t)
  <2>1. Tiling(C, base)
    <3>1. /\ C = Heap!Replaced(B, i, i, <<g, r>>) /\ i \in 1 .. Len(B)
          /\ g.addr = B[i].addr /\ Heap!End(r) = Heap!End(B[i])
      BY DEF B, C
    <3> QED BY <1>2, <1>5, <3>1, TilesSplit
  <2> QED BY <1>5, <2>1 DEF Tiled, C
<1>7. \A k \in 1 .. Len(B) : B[k].addr # r.addr
  <2>1. /\ g.addr < Heap!End(g) /\ r.addr < Heap!End(r) /\ g.addr \in Nat /\ r.addr \in Nat
        /\ Heap!End(g) \in Nat /\ Heap!End(r) \in Nat
    BY BlockNumbers
  <2>2. /\ B[i].addr < r.addr /\ r.addr < Heap!End(B[i])
        /\ B[i].addr \in Nat /\ Heap!End(B[i]) \in Nat
    BY <2>1 DEF B
  <2>3. ASSUME NEW k \in 1 .. Len(B) PROVE B[k].addr # r.addr
    <3>1. B[k].addr \in Nat /\ Heap!End(B[k]) \in Nat /\ B[k].addr < Heap!End(B[k])
      BY <1>2, BlockNumbers
    <3>2. CASE k < i
      <4>1. Heap!End(B[k]) <= B[i].addr
        BY <1>5, <1>40, <3>2 DEF Tiling
      <4> QED BY <2>1, <2>2, <3>1, <4>1
    <3>3. CASE k = i
      BY <2>1, <2>2, <3>3
    <3>4. CASE k > i
      <4>1. Heap!End(B[i]) <= B[k].addr
        BY <1>5, <1>40, <3>4 DEF Tiling
      <4> QED BY <2>1, <2>2, <3>1, <4>1
    <3> QED BY <1>40, <3>2, <3>3, <3>4
  <2> QED BY <2>3
<1>8. Listed(t, 0)
  <2>1. /\ w \in Seq(0 .. Word - 1) /\ IsInjective(w)
        /\ \A u : Contains(w, u) <=> Contains(h.free, u) /\ u # g.addr
    BY <1>1, <1>2, WithoutContains DEF Listed, w
  <2>2. ~Contains(w, r.addr)
    BY <1>1, <1>7, <2>1 DEF Listed, B
  <2>3. r.addr \in 0 .. Word - 1
    BY DEF Heap!BlockType
  <2>4. /\ IsInjective(t.free)
        /\ \A u : Contains(t.free, u) <=> Contains(w, u) \/ u = r.addr
    <3> DEFINE x == r.addr
    <3>1. t.free = <<x>> \o w /\ ~Contains(w, x) /\ x \in 0 .. Word - 1
      BY <2>2, <2>3 DEF w
    <3> HIDE DEF x
    <3>2. /\ IsInjective(<<x>> \o w)
          /\ \A u : Contains(<<x>> \o w, u) <=> Contains(w, u) \/ u = x
      BY ONLY <2>1, <3>1, PrependContains, ZenonT(60)
    <3> QED BY <3>1, <3>2 DEF x
  <2>5. ASSUME NEW u, Contains(t.free, u)
        PROVE  \E k \in 1 .. Len(C) : k # 0 /\ ~C[k].allocated /\ C[k].addr = u
    <3>1. CASE u = r.addr
      BY <1>40, <3>1
    <3>2. CASE u # r.addr
      <4>1. Contains(h.free, u) /\ u # g.addr
        BY <2>1, <2>4, <2>5, <3>2
      <4>2. PICK k \in 1 .. Len(B) : ~B[k].allocated /\ B[k].addr = u
        BY <1>1, <4>1 DEF Listed, B
      <4>3. k # i
        BY <4>1, <4>2 DEF B
      <4>4. CASE k < i
        <5>1. C[k] = B[k] /\ k \in 1 .. Len(C) /\ k # 0
          BY <1>2, <1>4, <1>40, <4>4
        <5> QED BY <4>2, <5>1
      <4>5. CASE k > i
        <5>1. C[k + 1] = B[k] /\ k + 1 \in 1 .. Len(C) /\ k + 1 # 0
          BY <1>2, <1>4, <1>40, <4>5
        <5> QED BY <4>2, <5>1
      <4> QED BY <1>40, <4>3, <4>4, <4>5
    <3> QED BY <3>1, <3>2
  <2>6. ASSUME NEW u, NEW k \in 1 .. Len(C), ~C[k].allocated, C[k].addr = u
        PROVE  Contains(t.free, u)
    <3>1. CASE k = i + 1
      BY <1>40, <2>4, <2>6, <3>1
    <3>2. CASE k # i + 1
      <4>1. k # i
        BY <1>40, <2>6
      <4>2. PICK l \in 1 .. Len(B) : C[k] = B[l] /\ l # i
        <5>1. CASE k < i
          <6>1. C[k] = B[k] /\ k \in 1 .. Len(B) /\ k # i
            BY <1>2, <1>40, <5>1
          <6> QED BY <6>1
        <5>2. CASE k > i + 1
          <6>1. k - 1 \in i + 1 .. Len(B) /\ k - 1 \in 1 .. Len(B) /\ k - 1 # i /\ (k - 1) + 1 = k
            BY <1>2, <1>4, <1>40, <5>2
          <6>2. C[k] = B[k - 1]
            BY <1>40, <6>1
          <6> QED BY <6>1, <6>2
        <5> QED BY <1>40, <3>2, <4>1, <5>1, <5>2
      <4>3. u # g.addr
        BY <1>3, <1>40, <2>6, <4>2 DEF B
      <4>4. Contains(h.free, u)
        BY <1>1, <1>2, <2>6, <4>2 DEF Listed, B
      <4> QED BY <2>1, <2>4, <4>3, <4>4
    <3> QED BY <3>1, <3>2
  <2> QED BY <2>4, <2>5, <2>6 DEF Listed, C
<1>9. Unjoined(t, 0)
  <2>1. ASSUME NEW k \in 1 .. Len(C), Heap!IsFree(t, k), Heap!IsFree(t, k + 1) PROVE FALSE
    <3>1. k + 1 \in 1 .. Len(C) /\ ~C[k].allocated /\ ~C[k + 1].allocated
      BY <1>41, <2>1
    <3>2. k # i /\ k + 1 # i
      BY <1>40, <3>1
    <3>3. CASE k + 1 < i
      <4>1. C[k] = B[k] /\ C[k + 1] = B[k + 1] /\ k \in 1 .. Len(B) /\ k + 1 \in 1 .. Len(B)
        BY <1>2, <1>40, <3>3
      <4>2. Heap!IsFree(h, k) /\ Heap!IsFree(h, k + 1)
        <5>1. Heap!IsFree(h, k)
          BY <1>2, <3>1, <4>1
        <5> DEFINE n == k + 1
        <5>2. n \in 1 .. Len(B) /\ ~B[n].allocated
          BY <3>1, <4>1
        <5> HIDE DEF n
        <5>3. Heap!IsFree(h, n)
          BY <1>2, <5>2
        <5> QED BY <5>1, <5>3 DEF n
      <4>3. 0 \in {k, k + 1}
        BY <1>1, <4>1, <4>2 DEF Unjoined, B
      <4> QED BY <1>2, <4>1, <4>3
    <3>4. CASE k = i + 1
      <4>1. i + 1 \in i + 1 .. Len(B) /\ C[k + 1] = B[i + 1]
        BY <1>2, <1>4, <1>40, <3>1, <3>4
      <4>2. Heap!IsFree(h, i) /\ Heap!IsFree(h, i + 1)
        BY <1>2, <1>40, <3>1, <4>1 DEF B
      <4> QED BY <1>1, <1>40, <4>2 DEF Unjoined, B
    <3>5. CASE k > i + 1
      <4>1. /\ k - 1 \in i + 1 .. Len(B) /\ (k - 1) + 1 = k
            /\ k \in i + 1 .. Len(B) /\ k - 1 \in 1 .. Len(B) /\ k \in 1 .. Len(B)
        BY <1>2, <1>4, <1>40, <3>1, <3>5
      <4>2. C[k] = B[k - 1] /\ C[k + 1] = B[k]
        BY <1>40, <4>1
      <4>3. Heap!IsFree(h, k - 1) /\ Heap!IsFree(h, (k - 1) + 1)
        BY <1>2, <3>1, <4>1, <4>2
      <4>4. 0 \in {k - 1, (k - 1) + 1}
        BY <1>1, <4>1, <4>3 DEF Unjoined, B
      <4> QED BY <1>40, <4>1, <4>4
    <3> QED BY <1>40, <3>2, <3>3, <3>4, <3>5
  <2> QED BY <2>1 DEF Unjoined, C
<1>10. ASSUME NEW u, NEW z
       PROVE  Granted(t, u, z) <=> Granted(h, u, z) \/ (u = g.addr /\ z = g.size)
  <2>1. ASSUME NEW k \in 1 .. Len(C), C[k].allocated, C[k].addr = u, C[k].size = z
        PROVE  Granted(h, u, z) \/ (u = g.addr /\ z = g.size)
    <3>1. CASE k = i
      BY <1>40, <2>1, <3>1
    <3>2. CASE k < i
      <4>1. C[k] = B[k] /\ k \in 1 .. Len(B)
        BY <1>2, <1>40, <3>2
      <4> QED BY <2>1, <4>1 DEF Granted, B
    <3>3. CASE k > i
      <4>1. k # i + 1
        BY <1>40, <2>1
      <4>2. k - 1 \in i + 1 .. Len(B) /\ k - 1 \in 1 .. Len(B) /\ (k - 1) + 1 = k
        BY <1>2, <1>4, <1>40, <3>3, <4>1
      <4>3. C[k] = B[k - 1]
        BY <1>40, <4>2
      <4> QED BY <2>1, <4>2, <4>3 DEF Granted, B
    <3> QED BY <1>40, <3>1, <3>2, <3>3
  <2>2. ASSUME NEW k \in 1 .. Len(B), B[k].allocated, B[k].addr = u, B[k].size = z
        PROVE  Granted(t, u, z)
    <3>1. k # i
      BY <2>2 DEF B
    <3>2. CASE k < i
      <4>1. C[k] = B[k] /\ k \in 1 .. Len(C)
        BY <1>2, <1>4, <1>40, <3>2
      <4> QED BY <2>2, <4>1 DEF Granted, C
    <3>3. CASE k > i
      <4>1. C[k + 1] = B[k] /\ k + 1 \in 1 .. Len(C)
        BY <1>2, <1>4, <1>40, <3>3
      <4> QED BY <2>2, <4>1 DEF Granted, C
    <3> QED BY <1>40, <3>1, <3>2, <3>3
  <2>3. Granted(t, g.addr, g.size)
    BY <1>40 DEF Granted, C
  <2> QED BY <2>1, <2>2, <2>3 DEF Granted, B, C
<1> QED BY <1>6, <1>8, <1>9, <1>10 DEF HeapOK

(* The block that is found is handed out, and only that one.               *)
LEMMA TakenOK ==
    ASSUME Heap!Configured, NEW h, HeapOK(h, 0), NEW n \in Nat \ {0}, Heap!Fit(h, n) # Heap!NoPtr
    PROVE  /\ HeapOK(Heap!Taken(h, Heap!Fit(h, n), n), 0)
           /\ Heap!Fit(h, n) \in 0 .. Word - 1
           /\ ~\E z : Granted(h, Heap!Fit(h, n), z)
           /\ \E size \in Nat :
                /\ size >= n
                /\ \A u, z : Granted(Heap!Taken(h, Heap!Fit(h, n), n), u, z)
                                <=> Granted(h, u, z) \/ (u = Heap!Fit(h, n) /\ z = size)
<1> DEFINE a == Heap!Fit(h, n)
           t == Heap!Taken(h, a, n)
<1>1. h \in HeapRecord /\ Tiled(h)
  BY DEF HeapOK
<1>2. PICK i \in 1 .. Len(h.blocks) :
         ~h.blocks[i].allocated /\ h.blocks[i].addr = a /\ h.blocks[i].size >= n
  BY FitFound
<1> HIDE DEF a
<1> DEFINE b    == h.blocks[i]
           rest == [addr |-> a + Header + n, size |-> b.size - n - Header,
                    allocated |-> FALSE]
           g    == [b EXCEPT !.size = IF Heap!Splits(b, n) THEN n ELSE @,
                             !.allocated = TRUE]
           used == (h.used + g.size) % Word
<1>3. Heap!IndexOf(h, a) = i /\ b \in Heap!BlockType
  BY <1>1, <1>2, AddressesDiffer
<1>4. /\ b.addr \in Nat /\ b.size \in Nat /\ b.size <= Word - 1 /\ Heap!End(b) \in Nat
      /\ Heap!End(b) = b.addr + Header + b.size /\ b.addr = a /\ a <= Word - 1
      /\ Header \in Nat \ {0} /\ Word \in Nat \ {0} /\ b.size >= n /\ n \in Nat /\ n >= 1
  BY <1>2, <1>3, BlockNumbers DEF Heap!BlockType, Heap!Configured
<1>5. Heap!End(b) <= Word
  <2>1. PICK base \in Bases : Tiling(h.blocks, base)
    <3>1. h.blocks # << >>
      BY <1>2
    <3> QED BY <1>1, <3>1 DEF Tiled
  <2> QED BY <1>1, <1>2, <2>1, TilesInRegion, FreeIndexes
<1>6. ~\E z : Granted(h, a, z)
  BY <1>1, <1>2, AddressesDiffer DEF Granted
<1>7. /\ g \in Heap!BlockType /\ g.addr = a /\ g.allocated
      /\ g.size = IF Heap!Splits(b, n) THEN n ELSE b.size
  <2> HIDE DEF b
  <2>0. b = [addr |-> b.addr, size |-> b.size, allocated |-> b.allocated]
    BY <1>3 DEF Heap!BlockType
  <2>1. g = [addr |-> b.addr, size |-> IF Heap!Splits(b, n) THEN n ELSE b.size, allocated |-> TRUE]
    <3> DEFINE size == IF Heap!Splits(b, n) THEN n ELSE b.size
    <3>1. g = [b EXCEPT !.size = size, !.allocated = TRUE]
      OBVIOUS
    <3> HIDE DEF size, g
    <3>2. g = [addr |-> b.addr, size |-> size, allocated |-> TRUE]
      BY <2>0, <3>1
    <3> QED BY <3>2 DEF size
  <2> HIDE DEF g
  <2> QED BY <1>4, <2>1 DEF Heap!BlockType
<1>8. used \in 0 .. Word - 1
  <2>1. h.used \in 0 .. Word - 1 /\ g.size \in 0 .. Word - 1
    BY <1>1, <1>7 DEF HeapRecord, Heap!BlockType
  <2> HIDE DEF g
  <2> QED BY <1>4, <2>1
<1>9. t = [h EXCEPT
             !.blocks = Heap!Replaced(@, i, i, IF Heap!Splits(b, n) THEN <<g, rest>> ELSE <<g>>),
                    !.free   = IF Heap!Splits(b, n) THEN <<rest.addr>> \o Heap!Without(h.free, a)
                                               ELSE Heap!Without(h.free, a),
                    !.used   = used]
  BY <1>3 DEF Heap!Taken
<1>10. /\ h.regions \in SUBSET Bases /\ h.blocks \in Seq(Heap!BlockType)
       /\ h.free \in Seq(0 .. Word - 1) /\ IsInjective(h.free)
       /\ h = [regions |-> h.regions, blocks |-> h.blocks, free |-> h.free, used |-> h.used]
  BY <1>1 DEF HeapRecord, HeapOK, Listed
<1>11. Heap!Without(h.free, a) \in Seq(0 .. Word - 1)
  BY <1>10, WithoutContains
<1>12. CASE Heap!Splits(b, n)
  <2>1. /\ rest \in Heap!BlockType /\ rest.addr = Heap!End(g)
        /\ Heap!End(rest) = Heap!End(b) /\ ~rest.allocated
        /\ rest.addr \in 0 .. Word - 1
    <3>1. b.size >= n + Header + 1
      BY <1>12 DEF Heap!Splits
    <3>2. /\ a + Header + n \in 0 .. Word - 1 /\ b.size - n - Header \in 0 .. Word - 1
          /\ Heap!End(b) = a + Header + b.size
      <4> HIDE DEF b
      <4>1. a \in Nat /\ Heap!End(b) = a + Header + b.size
        BY <1>4
      <4>2. a + Header + n < Heap!End(b) /\ a + Header + n \in Nat
        BY <1>4, <3>1, <4>1
      <4>3. b.size - n - Header \in Nat /\ b.size - n - Header <= b.size
        BY <1>4, <3>1
      <4> QED BY <1>4, <1>5, <4>1, <4>2, <4>3
    <3>3. Heap!End(g) = a + Header + n
      BY <1>7, <1>12 DEF Heap!End
    <3>4. Heap!End(rest) = (a + Header + n) + Header + (b.size - n - Header)
      BY DEF Heap!End
    <3> HIDE DEF b, g
    <3>5. Heap!End(rest) = Heap!End(b)
      BY <1>4, <3>2, <3>4
    <3> QED BY <3>2, <3>3, <3>5 DEF Heap!BlockType
  <2> HIDE DEF rest, g, used, t
  <2>2. t = [regions |-> h.regions, blocks |-> Heap!Replaced(h.blocks, i, i, <<g, rest>>),
             free |-> <<rest.addr>> \o Heap!Without(h.free, a), used |-> used]
    <3> HIDE DEF b
    <3> QED BY <1>9, <1>10, <1>12
  <2>3. Heap!Replaced(h.blocks, i, i, <<g, rest>>) \in Seq(Heap!BlockType)
    BY <1>7, <1>10, <2>1, ReplacedByTwo
  <2>4. <<rest.addr>> \o Heap!Without(h.free, a) \in Seq(0 .. Word - 1)
    BY <1>11, <2>1
  <2>5. t \in HeapRecord
    BY <1>8, <1>10, <2>2, <2>3, <2>4 DEF HeapRecord
  <2>6. /\ t.regions = h.regions /\ t.blocks = Heap!Replaced(h.blocks, i, i, <<g, rest>>)
        /\ t.free = <<rest.addr>> \o Heap!Without(h.free, g.addr)
    BY <1>7, <2>2
  <2>7. /\ HeapOK(t, 0)
        /\ \A u, z : Granted(t, u, z) <=> Granted(h, u, z) \/ (u = g.addr /\ z = g.size)
    <3>1. /\ ~h.blocks[i].allocated /\ g.addr = h.blocks[i].addr
          /\ Heap!End(rest) = Heap!End(h.blocks[i])
      BY <1>2, <1>7, <2>1
    <3> QED BY SMTT(60), <1>7, <2>1, <2>5, <2>6, <3>1, TakenPart
  <2>8. g.size >= n /\ g.size \in Nat /\ a \in 0 .. Word - 1
    BY <1>4, <1>7, <1>12
  <2> QED BY <1>6, <1>7, <2>7, <2>8 DEF a, t
<1>13. CASE ~Heap!Splits(b, n)
  <2> HIDE DEF g, used, t, rest
  <2>2. t = [regions |-> h.regions, blocks |-> Heap!Replaced(h.blocks, i, i, <<g>>),
             free |-> Heap!Without(h.free, a), used |-> used]
    <3> HIDE DEF b
    <3> QED BY <1>9, <1>10, <1>13
  <2>3. Heap!Replaced(h.blocks, i, i, <<g>>) \in Seq(Heap!BlockType)
    BY <1>7, <1>10, ReplacedByOne
  <2>5. t \in HeapRecord
    BY <1>8, <1>10, <1>11, <2>2, <2>3 DEF HeapRecord
  <2>6. /\ t.regions = h.regions /\ t.blocks = Heap!Replaced(h.blocks, i, i, <<g>>)
        /\ t.free = Heap!Without(h.free, g.addr)
    BY <1>7, <2>2
  <2>7. /\ HeapOK(t, 0)
        /\ \A u, z : Granted(t, u, z) <=> Granted(h, u, z) \/ (u = g.addr /\ z = g.size)
    BY <1>2, <1>7, <1>13, <2>5, <2>6, TakenWhole
  <2>8. g.size >= n /\ g.size \in Nat /\ a \in 0 .. Word - 1
    BY <1>4, <1>7, <1>13
  <2> QED BY <1>6, <1>7, <2>7, <2>8 DEF a, t
<1> QED BY <1>12, <1>13

(* A first region is one free block, large enough for what may be asked.   *)
LEMMA GrownOK ==
    ASSUME Heap!Configured, NEW h, HeapOK(h, 0), h.regions = {}, NEW base \in Bases,
           NEW n \in Nat, n <= Heap!MaxPayload
    PROVE  /\ HeapOK(Heap!Grown(h, base), 0) /\ Heap!Fit(Heap!Grown(h, base), n) # Heap!NoPtr
           /\ \A u, z : ~Granted(h, u, z) /\ ~Granted(Heap!Grown(h, base), u, z)
<1> DEFINE t == Heap!Grown(h, base)
           b == [addr |-> base, size |-> Heap!MaxPayload, allocated |-> FALSE]
<1>1. h \in HeapRecord /\ Listed(h, 0)
  BY DEF HeapOK
<1>2. h.blocks = << >>
  BY DEF HeapOK, Tiled
<1>3. h.free = << >>
  <2>1. \A u : ~Contains(h.free, u)
    BY <1>1, <1>2 DEF Listed
  <2>2. h.free \in Seq(0 .. Word - 1)
    BY <1>1 DEF HeapRecord
  <2>3. h.free # << >> => 1 \in 1 .. Len(h.free)
    BY <2>2
  <2> QED BY <2>1, <2>3 DEF Contains
<1>4. /\ base \in Nat /\ base # Heap!NoPtr /\ base + RegionSize <= Word /\ Header \in Nat \ {0}
      /\ Word \in Nat \ {0} /\ RegionSize \in Nat /\ RegionSize > Header
  BY DEF Heap!Configured
<1>5. /\ b \in Heap!BlockType /\ b.addr = base /\ b.size = Heap!MaxPayload /\ ~b.allocated
      /\ Heap!End(b) = base + RegionSize
  <2>1. Heap!MaxPayload \in Nat /\ base + Header + Heap!MaxPayload = base + RegionSize
    BY <1>4 DEF Heap!MaxPayload
  <2>2. base \in 0 .. Word - 1 /\ Heap!MaxPayload \in 0 .. Word - 1
    BY <1>4, <2>1 DEF Heap!MaxPayload
  <2> QED BY <2>1, <2>2 DEF Heap!BlockType, Heap!End
<1> HIDE DEF b
<1>6. t = [regions |-> {base}, blocks |-> <<b>>, free |-> <<base>>, used |-> h.used]
  <2>1. Append(h.blocks, b) = <<b>> /\ <<base>> \o h.free = <<base>>
    BY <1>2, <1>3
  <2>2. h = [regions |-> h.regions, blocks |-> h.blocks, free |-> h.free, used |-> h.used]
    BY <1>1 DEF HeapRecord
  <2>3. t = [h EXCEPT !.regions = @ \cup {base}, !.blocks = Append(@, b), !.free = <<base>> \o @]
    BY DEF Heap!Grown, b
  <2>4. h.regions \cup {base} = {base}
    OBVIOUS
  <2> HIDE DEF t
  <2> QED BY <2>1, <2>2, <2>3, <2>4
<1> HIDE DEF t
<1>7. t \in HeapRecord
  <2>1. <<b>> \in Seq(Heap!BlockType) /\ <<base>> \in Seq(0 .. Word - 1)
    BY <1>4, <1>5
  <2> QED BY <1>1, <1>6, <2>1 DEF HeapRecord
<1>8. Tiled(t)
  <2>1. Len(t.blocks) = 1 /\ t.blocks[1] = b
    BY <1>6
  <2>2. Tiling(t.blocks, base)
    BY <1>5, <2>1 DEF Tiling
  <2> QED BY <1>6, <2>2 DEF Tiled
<1>9. Listed(t, 0)
  <2>1. IsInjective(t.free) /\ \A u : Contains(t.free, u) <=> u = base
    BY <1>6 DEF IsInjective, Contains
  <2>2. \A u : (\E i \in 1 .. Len(t.blocks) :
                    i # 0 /\ ~t.blocks[i].allocated /\ t.blocks[i].addr = u) <=> u = base
    BY <1>5, <1>6
  <2> QED BY <2>1, <2>2 DEF Listed
<1>10. Unjoined(t, 0)
  <2>1. Len(t.blocks) = 1
    BY <1>6
  <2> QED BY <1>7, <2>1, FreeIndexes DEF Unjoined
<1>11. Heap!Fit(t, n) # Heap!NoPtr
  <2> DEFINE fits == {j \in DOMAIN t.free : Heap!BlockAt(t, t.free[j]).size >= n}
  <2>1. Heap!BlockAt(t, base) = b
    <3>1. Heap!IndexOf(t, t.blocks[1].addr) = 1 /\ t.blocks[1] = b
      BY <1>6, <1>7, <1>8, AddressesDiffer
    <3> QED BY <1>5, <3>1 DEF Heap!BlockAt
  <2>2. DOMAIN t.free = {1} /\ t.free[1] = base
    BY <1>6
  <2>3. fits = {1}
    BY <1>5, <2>1, <2>2 DEF Heap!MaxPayload
  <2>4. (CHOOSE j \in fits : \A k \in fits : j <= k) = 1
    BY <2>3
  <2>5. Heap!Fit(t, n) = IF fits = {} THEN Heap!NoPtr
                    ELSE t.free[CHOOSE j \in fits : \A k \in fits : j <= k]
    BY DEF Heap!Fit
  <2> QED BY <1>4, <2>2, <2>3, <2>4, <2>5
<1>12. \A u, z : ~Granted(h, u, z) /\ ~Granted(t, u, z)
  BY <1>2, <1>5, <1>6 DEF Granted
<1> QED BY <1>7, <1>8, <1>9, <1>10, <1>11, <1>12 DEF HeapOK, t

-----------------------------------------------------------------------------
(* What free does to a heap.                                               *)

(* merge_blocks makes one free block of two, and the free list loses the   *)
(* one of them it had.                                                     *)
LEMMA JoinedOK ==
    ASSUME Heap!Configured, NEW h, NEW hole \in Int, HeapOK(h, hole), NEW j \in Int,
           Heap!IsFree(h, j), Heap!IsFree(h, j + 1), NEW other \in {j, j + 1},
           hole \in {j, j + 1}, hole # other
    PROVE  LET t == Heap!Joined(h, j, h.blocks[other].addr)
           IN  /\ HeapOK(t, j) /\ Heap!IsFree(t, j)
               /\ t.regions = h.regions
               /\ \A k \in Int : k < j => (Heap!IsFree(t, k) <=> Heap!IsFree(h, k))
               /\ \A k \in Int : k > j => (Heap!IsFree(t, k) <=> Heap!IsFree(h, k + 1))
               /\ \A u, z : Granted(t, u, z) <=> Granted(h, u, z)
<1> DEFINE gone == h.blocks[other].addr
           t == Heap!Joined(h, j, gone)
           B == h.blocks
           C == t.blocks
           m == Heap!Merged(B[j], B[j + 1])
<1>1. h \in HeapRecord /\ Tiled(h) /\ Listed(h, hole) /\ Unjoined(h, hole)
  BY DEF HeapOK
<1>2. /\ B \in Seq(Heap!BlockType) /\ h.free \in Seq(0 .. Word - 1) /\ Len(B) \in Nat
      /\ \A k : Heap!IsFree(h, k) <=> k \in 1 .. Len(B) /\ ~B[k].allocated
  BY <1>1, FreeIndexes
<1>3. \A k, l \in 1 .. Len(B) : B[k].addr = B[l].addr => k = l
  BY <1>1, AddressesDiffer
<1>4. /\ j \in 1 .. Len(B) - 1 /\ j \in 1 .. Len(B) /\ j + 1 \in 1 .. Len(B)
      /\ ~B[j].allocated /\ ~B[j + 1].allocated
  <2>1. j \in 1 .. Len(B) /\ ~B[j].allocated
    BY <1>2
  <2> DEFINE n == j + 1
  <2>2. n \in 1 .. Len(B) /\ ~B[n].allocated
    <3> HIDE DEF B
    <3>1. Heap!IsFree(h, n)
      OBVIOUS
    <3> HIDE DEF n
    <3> QED BY <1>2, <3>1
  <2> HIDE DEF B
  <2> QED BY <1>2, <2>1, <2>2
<1>5. t = [regions |-> h.regions, blocks |-> Heap!Replaced(B, j, j + 1, <<m>>),
           free |-> Heap!Without(h.free, gone), used |-> h.used]
  <2>1. h = [regions |-> h.regions, blocks |-> h.blocks, free |-> h.free, used |-> h.used]
    BY <1>1 DEF HeapRecord
  <2>2. t = [h EXCEPT !.blocks = Heap!Replaced(B, j, j + 1, <<m>>),
                     !.free = Heap!Without(h.free, gone)]
    BY DEF Heap!Joined
  <2> HIDE DEF t, m, gone
  <2> QED BY <2>1, <2>2
<1>6. PICK base \in Bases : h.regions = {base} /\ Tiling(B, base)
  <2>1. B # << >>
    BY <1>2, <1>4
  <2> QED BY <1>1, <2>1 DEF Tiled
<1> HIDE DEF t, C, B, gone
<1>7. /\ m \in Heap!BlockType /\ m.addr = B[j].addr
      /\ Heap!End(m) = Heap!End(B[j + 1]) /\ ~m.allocated
  <2> DEFINE l == B[j]
             r == B[j + 1]
  <2>1. l \in Heap!BlockType /\ r \in Heap!BlockType /\ Heap!End(r) <= Word /\ r.addr = Heap!End(l)
    BY <1>2, <1>4, <1>6, TilesInRegion DEF Tiling
  <2>2. ~l.allocated
    BY <1>4
  <2> HIDE DEF l, r
  <2>3. /\ l.addr \in Nat /\ l.size \in Nat /\ r.size \in Nat /\ r.addr \in Nat
        /\ Heap!End(l) = l.addr + Header + l.size /\ Heap!End(r) = r.addr + Header + r.size
        /\ Header \in Nat \ {0} /\ Word \in Nat \ {0} /\ l.addr <= Word - 1
    BY <2>1, BlockNumbers DEF Heap!Configured, Heap!BlockType
  <2> DEFINE size == r.addr - l.addr + r.size
  <2>4. size \in 0 .. Word - 1 /\ l.addr + Header + size = Heap!End(r)
    BY <2>1, <2>3
  <2> HIDE DEF size
  <2>5. size % Word = size
    BY <2>3, <2>4
  <2>6. l = [addr |-> l.addr, size |-> l.size, allocated |-> l.allocated]
    BY <2>1 DEF Heap!BlockType
  <2>7. m = [l EXCEPT !.size = size]
    BY <2>5 DEF Heap!Merged, size, l, r
  <2> HIDE DEF m
  <2>8. m = [addr |-> l.addr, size |-> size, allocated |-> l.allocated]
    BY <2>6, <2>7
  <2>9. Heap!End(m) = Heap!End(r)
    BY <2>4, <2>8 DEF Heap!End
  <2>10. m \in Heap!BlockType
    BY <2>1, <2>4, <2>8 DEF Heap!BlockType
  <2> QED BY <2>2, <2>8, <2>9, <2>10 DEF l, r
<1> HIDE DEF m
<1>8. /\ C \in Seq(Heap!BlockType) /\ Len(C) = Len(B) - 1
      /\ \A k \in 1 .. Len(B) - 1 :
            C[k] = IF k < j THEN B[k] ELSE IF k = j THEN m ELSE B[k + 1]
  <2>1. C = Heap!Replaced(B, j, j + 1, <<m>>)
    BY <1>5 DEF C
  <2>2. B \in Seq(Heap!BlockType) /\ j \in 1 .. Len(B) - 1 /\ m \in Heap!BlockType
    BY <1>2, <1>4, <1>7
  <2>3. C \in Seq(Heap!BlockType) /\ PutTogether(C, B, j, m)
    BY <2>1, <2>2, TwoReplaced
  <2> QED BY <2>3 DEF PutTogether
<1>9. t \in HeapRecord
  <2>1. Heap!Without(h.free, gone) \in Seq(0 .. Word - 1)
    BY <1>1, <1>2, WithoutContains DEF Listed
  <2>2. C = Heap!Replaced(B, j, j + 1, <<m>>)
    BY <1>5 DEF C
  <2> QED BY <1>1, <1>5, <1>8, <2>1, <2>2 DEF HeapRecord
<1>10. Tiled(t)
  <2>1. Tiling(C, base)
    <3>1. C = Heap!Replaced(B, j, j + 1, <<m>>)
      BY <1>5 DEF C
    <3> QED BY <1>2, <1>4, <1>6, <1>7, <3>1, TilesJoined
  <2> QED BY <1>5, <1>6, <2>1 DEF Tiled, C
<1>11. \A k : Heap!IsFree(t, k) <=> k \in 1 .. Len(C) /\ ~C[k].allocated
  BY <1>9, FreeIndexes DEF C
<1>12. /\ \A k \in 1 .. j - 1 : C[k] = B[k]
       /\ C[j] = m /\ j \in 1 .. Len(C)
       /\ \A k \in j + 1 .. Len(C) : C[k] = B[k + 1]
  BY <1>2, <1>4, <1>8
<1>13. Heap!IsFree(t, j)
  BY <1>7, <1>11, <1>12
<1>14. ASSUME NEW k \in Int, k < j PROVE Heap!IsFree(t, k) <=> Heap!IsFree(h, k)
  <2>1. CASE k < 1
    BY <1>2, <1>11, <2>1
  <2>2. CASE k >= 1
    <3>1. k \in 1 .. Len(B) /\ k \in 1 .. Len(C) /\ C[k] = B[k]
      BY <1>2, <1>4, <1>8, <1>12, <1>14, <2>2
    <3> QED BY <1>2, <1>11, <3>1
  <2> QED BY <2>1, <2>2
<1>15. ASSUME NEW k \in Int, k > j PROVE Heap!IsFree(t, k) <=> Heap!IsFree(h, k + 1)
  <2> DEFINE n == k + 1
  <2>1. CASE k > Len(C)
    <3>1. n \notin 1 .. Len(B) /\ k \notin 1 .. Len(C)
      BY <1>2, <1>8, <2>1
    <3> HIDE DEF n
    <3>2. ~Heap!IsFree(h, n) /\ ~Heap!IsFree(t, k)
      BY <1>2, <1>11, <3>1
    <3> QED BY <3>2 DEF n
  <2>2. CASE k <= Len(C)
    <3>1. n \in 1 .. Len(B) /\ k \in 1 .. Len(C) /\ C[k] = B[n]
      BY <1>2, <1>4, <1>8, <1>12, <1>15, <2>2
    <3> HIDE DEF n
    <3>2. Heap!IsFree(h, n) <=> Heap!IsFree(t, k)
      BY <1>2, <1>11, <3>1
    <3> QED BY <3>2 DEF n
  <2> QED BY <1>2, <1>8, <2>1, <2>2
<1>16. Listed(t, j)
  <2>1. /\ IsInjective(t.free)
        /\ \A u : Contains(t.free, u) <=> Contains(h.free, u) /\ u # gone
    BY <1>1, <1>2, <1>5, WithoutContains DEF Listed
  <2>2. \A u : Contains(h.free, u) <=>
          \E k \in 1 .. Len(B) : k # hole /\ ~B[k].allocated /\ B[k].addr = u
    BY <1>1 DEF Listed, B
  <2>3. other \in 1 .. Len(B) /\ B[other].addr = gone
    BY <1>4 DEF B, gone
  <2>4. ASSUME NEW u, Contains(t.free, u)
        PROVE  \E k \in 1 .. Len(C) : k # j /\ ~C[k].allocated /\ C[k].addr = u
    <3>1. PICK k \in 1 .. Len(B) : k # hole /\ ~B[k].allocated /\ B[k].addr = u
      BY <2>1, <2>2, <2>4
    <3>2. k # other
      BY <2>1, <2>3, <2>4, <3>1
    <3>3. k # j /\ k # j + 1
      BY <3>1, <3>2
    <3>4. CASE k < j
      <4>1. k \in 1 .. Len(C) /\ C[k] = B[k]
        BY <1>2, <1>4, <1>8, <1>12, <3>4
      <4> QED BY <3>1, <3>3, <4>1
    <3>5. CASE k > j + 1
      <4>1. k - 1 \in 1 .. Len(C) /\ k - 1 # j /\ k - 1 \in j + 1 .. Len(C) /\ (k - 1) + 1 = k
        BY <1>2, <1>4, <1>8, <3>5
      <4>2. C[k - 1] = B[k]
        BY <1>12, <4>1
      <4> QED BY <3>1, <4>1, <4>2
    <3> QED BY <3>3, <3>4, <3>5
  <2>5. ASSUME NEW u, NEW k \in 1 .. Len(C), k # j, ~C[k].allocated, C[k].addr = u
        PROVE  Contains(t.free, u)
    <3>1. PICK l \in 1 .. Len(B) : C[k] = B[l] /\ l # j /\ l # j + 1
      <4>1. CASE k < j
        <5>1. k \in 1 .. Len(B) /\ C[k] = B[k] /\ k # j /\ k # j + 1
          BY <1>2, <1>4, <1>8, <1>12, <4>1
        <5> QED BY <5>1
      <4>2. CASE k > j
        <5>1. k + 1 \in 1 .. Len(B) /\ C[k] = B[k + 1] /\ k + 1 # j /\ k + 1 # j + 1
          BY <1>2, <1>4, <1>8, <1>12, <4>2
        <5> QED BY <5>1
      <4> QED BY <2>5, <4>1, <4>2
    <3>2. l # hole /\ l # other
      BY <3>1
    <3>3. u # gone
      BY <1>3, <2>3, <2>5, <3>1, <3>2 DEF B
    <3>4. Contains(h.free, u)
      BY <2>2, <2>5, <3>1, <3>2
    <3> QED BY <2>1, <3>3, <3>4
  <2> QED BY <2>1, <2>4, <2>5 DEF Listed, C
<1>17. Unjoined(t, j)
  <2>1. ASSUME NEW k \in 1 .. Len(C), Heap!IsFree(t, k), Heap!IsFree(t, k + 1), k # j, k + 1 # j
        PROVE  FALSE
    <3>1. CASE k + 1 < j
      <4>1. Heap!IsFree(h, k) /\ Heap!IsFree(h, k + 1) /\ k \in 1 .. Len(B)
        <5>1. k \in 1 .. Len(B) /\ k \in Int /\ k < j
          BY <1>2, <1>4, <3>1
        <5> DEFINE n == k + 1
        <5>2. n \in Int /\ n < j /\ Heap!IsFree(t, n)
          BY <2>1, <3>1
        <5> HIDE DEF n
        <5>3. Heap!IsFree(h, n)
          BY <1>14, <5>2
        <5> QED BY <1>14, <2>1, <5>1, <5>3 DEF n
      <4>2. hole \in {k, k + 1}
        BY <1>1, <4>1 DEF Unjoined, B
      <4> QED BY <3>1, <4>2
    <3>2. CASE k > j
      <4> DEFINE n == k + 1
      <4>1. n \in Int /\ n > j /\ Heap!IsFree(t, n) /\ n \in 1 .. Len(B)
        BY <1>2, <1>4, <1>8, <2>1, <3>2
      <4>2. Heap!IsFree(h, n)
        BY <1>15, <2>1, <3>2
      <4>3. Heap!IsFree(h, n + 1)
        <5> HIDE DEF n
        <5> QED BY <1>15, <4>1
      <4>4. hole \in {n, n + 1}
        <5> HIDE DEF n
        <5> QED BY <1>1, <4>1, <4>2, <4>3 DEF Unjoined, B
      <4> QED BY <3>2, <4>4
    <3> QED BY <2>1, <3>1, <3>2
  <2> QED BY <2>1 DEF Unjoined, C
<1>18. ASSUME NEW u, NEW z PROVE Granted(t, u, z) <=> Granted(h, u, z)
  <2>1. ASSUME NEW k \in 1 .. Len(C), C[k].allocated, C[k].addr = u, C[k].size = z
        PROVE  Granted(h, u, z)
    <3>1. k # j
      BY <1>7, <1>12, <2>1
    <3>2. CASE k < j
      <4>1. C[k] = B[k] /\ k \in 1 .. Len(B)
        BY <1>2, <1>4, <1>12, <3>2
      <4> QED BY <2>1, <4>1 DEF Granted, B
    <3>3. CASE k > j
      <4>1. C[k] = B[k + 1] /\ k + 1 \in 1 .. Len(B)
        BY <1>2, <1>4, <1>8, <1>12, <3>3
      <4> QED BY <2>1, <4>1 DEF Granted, B
    <3> QED BY <3>1, <3>2, <3>3
  <2>2. ASSUME NEW k \in 1 .. Len(B), B[k].allocated, B[k].addr = u, B[k].size = z
        PROVE  Granted(t, u, z)
    <3>1. k # j /\ k # j + 1
      BY <1>4, <2>2
    <3>2. CASE k < j
      <4>1. C[k] = B[k] /\ k \in 1 .. Len(C)
        BY <1>2, <1>4, <1>8, <1>12, <3>2
      <4> QED BY <2>2, <4>1 DEF Granted, C
    <3>3. CASE k > j + 1
      <4>1. k - 1 \in j + 1 .. Len(C) /\ (k - 1) + 1 = k /\ k - 1 \in 1 .. Len(C)
        BY <1>2, <1>4, <1>8, <3>3
      <4>2. C[k - 1] = B[k]
        BY <1>12, <4>1
      <4> QED BY <2>2, <4>1, <4>2 DEF Granted, C
    <3> QED BY <3>1, <3>2, <3>3
  <2> QED BY <2>1, <2>2 DEF Granted, B, C
<1> QED BY <1>5, <1>9, <1>10, <1>13, <1>14, <1>15, <1>16, <1>17, <1>18 DEF HeapOK, t, gone

LEMMA NewFreeList ==
    ASSUME NEW h \in HeapRecord, NEW f, NEW t, t = [h EXCEPT !.free = f]
    PROVE  t = [regions |-> h.regions, blocks |-> h.blocks, free |-> f, used |-> h.used]
<1>1. h = [regions |-> h.regions, blocks |-> h.blocks, free |-> h.free, used |-> h.used]
  BY DEF HeapRecord
<1> QED BY <1>1

LEMMA NewBlocks ==
    ASSUME NEW h \in HeapRecord, NEW B, NEW n, NEW t, t = [h EXCEPT !.blocks = B, !.used = n]
    PROVE  t = [regions |-> h.regions, blocks |-> B, free |-> h.free, used |-> n]
<1>1. h = [regions |-> h.regions, blocks |-> h.blocks, free |-> h.free, used |-> h.used]
  BY DEF HeapRecord
<1> QED BY <1>1

(* A block that is freed ends with its neighbours joined and in the list.  *)
LEMMA ClosedOK ==
    ASSUME Heap!Configured, NEW h, NEW hole \in Int, HeapOK(h, hole), Heap!IsFree(h, hole),
           ~Heap!IsFree(h, hole - 1), ~Heap!IsFree(h, hole + 1)
    PROVE  LET t == [h EXCEPT !.free = <<h.blocks[hole].addr>> \o @]
           IN  /\ HeapOK(t, 0)
               /\ \A u, z : Granted(t, u, z) <=> Granted(h, u, z)
<1> DEFINE a == h.blocks[hole].addr
           t == [h EXCEPT !.free = <<a>> \o @]
           B == h.blocks
<1>1. h \in HeapRecord /\ Tiled(h) /\ Listed(h, hole) /\ Unjoined(h, hole)
  BY DEF HeapOK
<1>2. /\ B \in Seq(Heap!BlockType) /\ h.free \in Seq(0 .. Word - 1) /\ Len(B) \in Nat
      /\ \A k : Heap!IsFree(h, k) <=> k \in 1 .. Len(B) /\ ~B[k].allocated
  BY <1>1, FreeIndexes
<1>3. \A k, l \in 1 .. Len(B) : B[k].addr = B[l].addr => k = l
  BY <1>1, AddressesDiffer
<1>4. hole \in 1 .. Len(B) /\ ~B[hole].allocated /\ B[hole].addr = a
  BY <1>2
<1>5. a \in 0 .. Word - 1
  <2>1. B[hole] \in Heap!BlockType
    BY <1>2, <1>4
  <2> HIDE DEF B
  <2> QED BY <1>4, <2>1 DEF Heap!BlockType
<1>6. \A u : Contains(h.free, u) <=>
          \E k \in 1 .. Len(B) : k # hole /\ ~B[k].allocated /\ B[k].addr = u
  BY <1>1 DEF Listed
<1>7. ~Contains(h.free, a)
  BY <1>3, <1>4, <1>6
<1> HIDE DEF a
<1>8. /\ <<a>> \o h.free \in Seq(0 .. Word - 1) /\ IsInjective(<<a>> \o h.free)
      /\ \A u : Contains(<<a>> \o h.free, u) <=> Contains(h.free, u) \/ u = a
  <2>1. IsInjective(h.free) /\ h.free \in Seq(0 .. Word - 1)
    BY <1>1, <1>2 DEF Listed
  <2> QED BY ONLY <1>5, <1>7, <2>1, PrependContains, ZenonT(60)
<1>9. t = [regions |-> h.regions, blocks |-> h.blocks, free |-> <<a>> \o h.free, used |-> h.used]
  <2> DEFINE f == <<a>> \o h.free
  <2>1. t = [h EXCEPT !.free = f]
    OBVIOUS
  <2> HIDE DEF f, t
  <2>2. t = [regions |-> h.regions, blocks |-> h.blocks, free |-> f, used |-> h.used]
    BY <1>1, <2>1, NewFreeList
  <2> QED BY <2>2 DEF f
<1> HIDE DEF t
<1>10. t \in HeapRecord /\ Tiled(t)
  BY <1>1, <1>8, <1>9 DEF HeapRecord, Tiled
<1>11. Listed(t, 0)
  <2>1. \A u : Contains(t.free, u) <=>
           \E k \in 1 .. Len(B) : k # 0 /\ ~B[k].allocated /\ B[k].addr = u
    <3>1. \A u : Contains(t.free, u) <=> Contains(h.free, u) \/ u = a
      BY <1>8, <1>9
    <3>2. \A k \in 1 .. Len(B) : k # 0
      OBVIOUS
    <3> HIDE DEF B
    <3>3. ASSUME NEW u, Contains(t.free, u)
          PROVE  \E k \in 1 .. Len(B) : k # 0 /\ ~B[k].allocated /\ B[k].addr = u
      BY <1>4, <1>6, <3>1, <3>2, <3>3
    <3>4. ASSUME NEW u, NEW k \in 1 .. Len(B), ~B[k].allocated, B[k].addr = u
          PROVE  Contains(t.free, u)
      BY <1>4, <1>6, <3>1, <3>4
    <3> QED BY <3>3, <3>4
  <2>2. IsInjective(t.free)
    BY <1>8, <1>9
  <2>3. t.blocks = B
    BY <1>9
  <2> HIDE DEF B
  <2> QED BY <2>1, <2>2, <2>3 DEF Listed
<1>12. Unjoined(t, 0)
  <2>1. t.blocks = B
    BY <1>9
  <2>2. \A k : Heap!IsFree(t, k) <=> Heap!IsFree(h, k)
    BY <2>1 DEF Heap!IsFree
  <2> HIDE DEF B
  <2>3. ASSUME NEW k \in 1 .. Len(B), Heap!IsFree(h, k), Heap!IsFree(h, k + 1) PROVE FALSE
    <3>1. hole = k \/ hole = k + 1
      BY <1>1, <2>3 DEF Unjoined, B
    <3>2. CASE hole = k
      BY <2>3, <3>2
    <3>3. CASE hole = k + 1
      <4>1. hole - 1 = k
        BY <3>3
      <4> QED BY <2>3, <4>1
    <3> QED BY <3>1, <3>2, <3>3
  <2> QED BY <2>1, <2>2, <2>3 DEF Unjoined
<1>13. \A u, z : Granted(t, u, z) <=> Granted(h, u, z)
  BY <1>9 DEF Granted
<1> QED BY <1>10, <1>11, <1>12, <1>13 DEF HeapOK, a, t

LEMMA CoalescedOK ==
    ASSUME Heap!Configured, NEW h, NEW i \in Int, HeapOK(h, i), Heap!IsFree(h, i)
    PROVE  /\ HeapOK(Heap!Coalesced(h, i), 0)
           /\ \A u, z : Granted(Heap!Coalesced(h, i), u, z) <=> Granted(h, u, z)
<1> DEFINE back  == Heap!IsFree(h, i - 1)
           at    == IF back THEN i - 1 ELSE i
           left  == IF back THEN Heap!Joined(h, i - 1, h.blocks[i - 1].addr) ELSE h
           whole == IF Heap!IsFree(left, at + 1)
                    THEN Heap!Joined(left, at, left.blocks[at + 1].addr) ELSE left
<1>1. Heap!Coalesced(h, i) = [whole EXCEPT !.free = <<whole.blocks[at].addr>> \o @]
  BY DEF Heap!Coalesced
<1>2. h \in HeapRecord /\ Unjoined(h, i)
  BY DEF HeapOK
<1>3. \A k : Heap!IsFree(h, k) <=> k \in 1 .. Len(h.blocks) /\ ~h.blocks[k].allocated
  BY <1>2, FreeIndexes
<1>4. /\ at \in Int /\ HeapOK(left, at) /\ Heap!IsFree(left, at) /\ ~Heap!IsFree(left, at - 1)
      /\ \A u, z : Granted(left, u, z) <=> Granted(h, u, z)
  <2>1. CASE back
    <3> DEFINE j == i - 1
    <3>1. left = Heap!Joined(h, j, h.blocks[j].addr) /\ at = j /\ j \in Int
      BY <2>1
    <3>2. /\ Heap!IsFree(h, j) /\ Heap!IsFree(h, j + 1)
          /\ i \in {j, j + 1} /\ j \in {j, j + 1} /\ i # j
      <4>1. j + 1 = i
        OBVIOUS
      <4> QED BY <2>1, <4>1
    <3>3. ~Heap!IsFree(h, j - 1)
      <4>1. ASSUME Heap!IsFree(h, j - 1) PROVE FALSE
        <5> DEFINE n == j - 1
        <5>1. n \in Int /\ n + 1 = j /\ i # n /\ i # n + 1
          OBVIOUS
        <5> HIDE DEF n, j
        <5>2. Heap!IsFree(h, n) /\ Heap!IsFree(h, n + 1)
          BY <3>2, <4>1, <5>1 DEF n
        <5>3. n \in 1 .. Len(h.blocks)
          BY <1>3, <5>2
        <5>4. i \in {n, n + 1}
          BY <1>2, <5>2, <5>3 DEF Unjoined
        <5> QED BY <5>1, <5>4
      <4> QED BY <4>1
    <3> HIDE DEF j, left, at
    <3>4. /\ HeapOK(left, j) /\ Heap!IsFree(left, j)
          /\ \A k \in Int : k < j => (Heap!IsFree(left, k) <=> Heap!IsFree(h, k))
          /\ \A u, z : Granted(left, u, z) <=> Granted(h, u, z)
      BY <3>1, <3>2, JoinedOK
    <3>5. ~Heap!IsFree(left, j - 1)
      <4> DEFINE n == j - 1
      <4>1. n \in Int /\ n < j /\ ~Heap!IsFree(h, n)
        BY <3>1, <3>3
      <4> HIDE DEF n
      <4>2. ~Heap!IsFree(left, n)
        BY <3>4, <4>1
      <4> QED BY <4>2 DEF n
    <3> QED BY <3>1, <3>4, <3>5
  <2>2. CASE ~back
    BY <2>2
  <2> QED BY <2>1, <2>2
<1> HIDE DEF at, left
<1>5. /\ HeapOK(whole, at) /\ Heap!IsFree(whole, at) /\ ~Heap!IsFree(whole, at - 1)
      /\ ~Heap!IsFree(whole, at + 1)
      /\ \A u, z : Granted(whole, u, z) <=> Granted(h, u, z)
  <2>1. CASE Heap!IsFree(left, at + 1)
    <3> DEFINE n == at + 1
    <3>1. whole = Heap!Joined(left, at, left.blocks[n].addr) /\ n \in {at, at + 1}
          /\ at \in {at, at + 1} /\ at # n /\ Heap!IsFree(left, at + 1)
      BY <1>4, <2>1
    <3>2. ~Heap!IsFree(left, n + 1)
      <4>1. ASSUME Heap!IsFree(left, n + 1) PROVE FALSE
        <5>1. n \in Int /\ at # n /\ at # n + 1 /\ Heap!IsFree(left, n)
          BY <1>4, <2>1
        <5> HIDE DEF n
        <5>2. left \in HeapRecord /\ Unjoined(left, at)
          BY <1>4 DEF HeapOK
        <5>3. n \in 1 .. Len(left.blocks)
          BY <5>1, <5>2, FreeIndexes
        <5>4. at \in {n, n + 1}
          BY <4>1, <5>1, <5>2, <5>3 DEF Unjoined
        <5> QED BY <5>1, <5>4
      <4> QED BY <4>1
    <3> HIDE DEF whole
    <3>3. n \in Int /\ n > at /\ n = at + 1
      BY <1>4
    <3> HIDE DEF n
    <3>4. /\ HeapOK(whole, at) /\ Heap!IsFree(whole, at)
          /\ \A k \in Int : k < at => (Heap!IsFree(whole, k) <=> Heap!IsFree(left, k))
          /\ \A k \in Int : k > at => (Heap!IsFree(whole, k) <=> Heap!IsFree(left, k + 1))
          /\ \A u, z : Granted(whole, u, z) <=> Granted(left, u, z)
      BY <1>4, <3>1, JoinedOK
    <3>5. ~Heap!IsFree(whole, n)
      BY <3>2, <3>3, <3>4
    <3>6. ~Heap!IsFree(whole, at - 1)
      <4> DEFINE k == at - 1
      <4>1. k \in Int /\ k < at /\ ~Heap!IsFree(left, k)
        BY <1>4
      <4> HIDE DEF k
      <4>2. ~Heap!IsFree(whole, k)
        BY <3>4, <4>1
      <4> QED BY <4>2 DEF k
    <3> QED BY <1>4, <3>3, <3>4, <3>5, <3>6
  <2>2. CASE ~Heap!IsFree(left, at + 1)
    BY <1>4, <2>2
  <2> QED BY <2>1, <2>2
<1> HIDE DEF whole
<1>6. /\ HeapOK(Heap!Coalesced(h, i), 0)
      /\ \A u, z : Granted(Heap!Coalesced(h, i), u, z) <=> Granted(whole, u, z)
  <2> DEFINE c == [whole EXCEPT !.free = <<whole.blocks[at].addr>> \o @]
  <2>1. HeapOK(c, 0) /\ \A u, z : Granted(c, u, z) <=> Granted(whole, u, z)
    BY <1>4, <1>5, ClosedOK
  <2>2. c = Heap!Coalesced(h, i)
    BY <1>1
  <2> HIDE DEF c
  <2> QED BY <2>1, <2>2
<1> QED BY <1>5, <1>6

(* A block of the program is freed, and only that one.                     *)
LEMMA ReleasedOK ==
    ASSUME Heap!Configured, NEW h, HeapOK(h, 0), NEW a, \E z : Granted(h, a, z)
    PROVE  /\ HeapOK(Heap!Released(h, a), 0)
           /\ \A u, z : Granted(Heap!Released(h, a), u, z) <=> Granted(h, u, z) /\ u # a
<1>1. h \in HeapRecord /\ Tiled(h) /\ Listed(h, 0) /\ Unjoined(h, 0)
  BY DEF HeapOK
<1>2. PICK i \in 1 .. Len(h.blocks) : h.blocks[i].allocated /\ h.blocks[i].addr = a
  BY DEF Granted
<1> DEFINE B == h.blocks
           b == B[i]
           C == [B EXCEPT ![i].allocated = FALSE]
           used == (h.used - b.size) % Word
           t == [regions |-> h.regions, blocks |-> C, free |-> h.free, used |-> used]
<1>3. /\ B \in Seq(Heap!BlockType) /\ h.free \in Seq(0 .. Word - 1) /\ Len(B) \in Nat
      /\ DOMAIN B = 1 .. Len(B)
      /\ \A k : Heap!IsFree(h, k) <=> k \in 1 .. Len(B) /\ ~B[k].allocated
  BY <1>1, FreeIndexes
<1>4. \A k, l \in 1 .. Len(B) : B[k].addr = B[l].addr => k = l
  BY <1>1, AddressesDiffer
<1>5. Heap!Released(h, a) = Heap!Coalesced(t, i)
  <2>1. Heap!IndexOf(h, a) = i
    BY <1>1, <1>2, AddressesDiffer
  <2>3. [h EXCEPT !.blocks[i].allocated = FALSE, !.used = (@ - h.blocks[i].size) % Word]
           = [h EXCEPT !.blocks = C, !.used = used]
    OBVIOUS
  <2>4. [h EXCEPT !.blocks = C, !.used = used] = t
    <3> DEFINE x == [h EXCEPT !.blocks = C, !.used = used]
    <3>1. x = [h EXCEPT !.blocks = C, !.used = used]
      OBVIOUS
    <3> HIDE DEF C, used, x
    <3>2. x = t
      BY <1>1, <3>1, NewBlocks
    <3> QED BY <3>1, <3>2
  <2> HIDE DEF C, used, t
  <2> QED BY <2>1, <2>3, <2>4 DEF Heap!Released
<1>6. /\ b \in Heap!BlockType
      /\ b = [addr |-> b.addr, size |-> b.size, allocated |-> b.allocated]
  <2>1. b \in Heap!BlockType
    BY <1>3
  <2> HIDE DEF b
  <2> QED BY <2>1 DEF Heap!BlockType
<1>7. /\ C \in Seq(Heap!BlockType) /\ Len(C) = Len(B)
      /\ \A k \in 1 .. Len(B) : k # i => C[k] = B[k]
      /\ C[i].addr = b.addr /\ C[i].size = b.size /\ ~C[i].allocated
  <2> DEFINE f == [b EXCEPT !.allocated = FALSE]
  <2>1. C = [B EXCEPT ![i] = f]
    OBVIOUS
  <2>2. f \in Heap!BlockType /\ f.addr = b.addr /\ f.size = b.size /\ ~f.allocated
    <3> HIDE DEF b
    <3> QED BY <1>6 DEF Heap!BlockType
  <2> HIDE DEF C, f, B
  <2>3. /\ C \in Seq(Heap!BlockType) /\ Len(C) = Len(B)
        /\ \A k \in 1 .. Len(B) : C[k] = IF k = i THEN f ELSE B[k]
    BY <1>3, <2>1, <2>2, ExceptSeq DEF B
  <2> QED BY <2>2, <2>3 DEF B
<1>8. used \in 0 .. Word - 1
  <2>1. h.used \in Int /\ b.size \in Int /\ Word \in Nat \ {0}
    BY <1>1, <1>6 DEF HeapRecord, Heap!BlockType, Heap!Configured
  <2> HIDE DEF b
  <2> QED BY <2>1
<1>9. t \in HeapRecord
  <2> HIDE DEF C, used
  <2> QED BY <1>1, <1>7, <1>8 DEF HeapRecord
<1> HIDE DEF C, used, B, b
<1>10. t.regions = h.regions /\ t.blocks = C /\ t.free = h.free
  OBVIOUS
<1> HIDE DEF t
<1>11. /\ \A k : Heap!IsFree(t, k) <=> k \in 1 .. Len(C) /\ ~C[k].allocated
       /\ i \in 1 .. Len(B) /\ i # 0 /\ B[i].allocated /\ B[i].addr = a /\ b = B[i]
  BY <1>2, <1>9, <1>10, FreeIndexes DEF B, b
<1>12. Heap!IsFree(t, i)
  BY <1>7, <1>11
<1>13. Tiled(t)
  <2>1. PICK base \in Bases : h.regions = {base} /\ Tiling(B, base)
    <3>1. B # << >>
      BY <1>11
    <3> QED BY <1>1, <3>1 DEF Tiled, B
  <2>2. \A k \in 1 .. Len(B) : C[k].addr = B[k].addr /\ C[k].size = B[k].size
    BY <1>7, <1>11
  <2>3. Tiling(C, base)
    BY <1>3, <1>7, <2>1, <2>2, TilesSame
  <2> QED BY <1>10, <2>1, <2>3 DEF Tiled
<1>14. Listed(t, i)
  <2>1. \A u : Contains(h.free, u) <=>
           \E k \in 1 .. Len(B) : k # 0 /\ ~B[k].allocated /\ B[k].addr = u
    BY <1>1 DEF Listed, B
  <2>2. \A u : (\E k \in 1 .. Len(B) : k # 0 /\ ~B[k].allocated /\ B[k].addr = u)
            <=> (\E k \in 1 .. Len(C) : k # i /\ ~C[k].allocated /\ C[k].addr = u)
    <3>1. ASSUME NEW u, NEW k \in 1 .. Len(B), ~B[k].allocated, B[k].addr = u
          PROVE  k \in 1 .. Len(C) /\ k # i /\ ~C[k].allocated /\ C[k].addr = u
      BY <1>7, <1>11, <3>1
    <3>2. ASSUME NEW u, NEW k \in 1 .. Len(C), k # i, ~C[k].allocated, C[k].addr = u
          PROVE  k \in 1 .. Len(B) /\ k # 0 /\ ~B[k].allocated /\ B[k].addr = u
      BY <1>7, <3>2
    <3> QED BY <3>1, <3>2
  <2> QED BY <1>1, <1>10, <2>1, <2>2 DEF Listed
<1>15. Unjoined(t, i)
  <2>1. \A k : k # i => (Heap!IsFree(t, k) <=> Heap!IsFree(h, k))
    BY <1>3, <1>7, <1>11
  <2>2. ASSUME NEW k \in 1 .. Len(C), Heap!IsFree(t, k), Heap!IsFree(t, k + 1), i # k, i # k + 1
        PROVE  FALSE
    <3>1. Heap!IsFree(h, k) /\ Heap!IsFree(h, k + 1)
      BY <2>1, <2>2
    <3>2. k \in 1 .. Len(h.blocks)
      BY <1>7 DEF B
    <3>3. 0 \in {k, k + 1}
      BY <1>1, <3>1, <3>2 DEF Unjoined
    <3> QED BY <3>3
  <2> QED BY <1>10, <2>2 DEF Unjoined
<1>16. \A u, z : Granted(t, u, z) <=> Granted(h, u, z) /\ u # a
  <2>1. ASSUME NEW u, NEW z, NEW k \in 1 .. Len(C), C[k].allocated, C[k].addr = u, C[k].size = z
        PROVE  Granted(h, u, z) /\ u # a
    <3>1. k # i /\ k \in 1 .. Len(B) /\ C[k] = B[k]
      BY <1>7, <2>1
    <3>2. u # a
      BY <1>4, <1>11, <2>1, <3>1
    <3> QED BY <2>1, <3>1, <3>2 DEF Granted, B
  <2>2. ASSUME NEW u, NEW z, NEW k \in 1 .. Len(B), B[k].allocated, B[k].addr = u,
               B[k].size = z, u # a
        PROVE  Granted(t, u, z)
    <3>1. k # i /\ k \in 1 .. Len(C) /\ C[k] = B[k]
      BY <1>7, <1>11, <2>2
    <3> QED BY <1>10, <2>2, <3>1 DEF Granted
  <2>3. ASSUME NEW u, NEW z, Granted(t, u, z) PROVE Granted(h, u, z) /\ u # a
    <3>1. PICK k \in 1 .. Len(C) : C[k].allocated /\ C[k].addr = u /\ C[k].size = z
      BY <1>10, <2>3 DEF Granted
    <3> QED BY <2>1, <3>1
  <2>4. ASSUME NEW u, NEW z, Granted(h, u, z), u # a PROVE Granted(t, u, z)
    <3>1. PICK k \in 1 .. Len(B) : B[k].allocated /\ B[k].addr = u /\ B[k].size = z
      BY <2>4 DEF Granted, B
    <3> QED BY <2>2, <2>4, <3>1
  <2> QED BY <2>3, <2>4
<1>17. HeapOK(t, i) /\ i \in Int
  BY <1>9, <1>11, <1>13, <1>14, <1>15 DEF HeapOK
<1>18. /\ HeapOK(Heap!Coalesced(t, i), 0)
       /\ \A u, z : Granted(Heap!Coalesced(t, i), u, z) <=> Granted(t, u, z)
  BY <1>12, <1>17, CoalescedOK
<1> QED BY <1>5, <1>16, <1>18

-----------------------------------------------------------------------------
(* The steps of a program that uses its heap.                              *)

(* Where an allocation looks for its block, one fits.                      *)
LEMMA SearchedOK ==
    ASSUME Heap!Configured, OneRegion, HeapOK(store, 0), NEW n \in Sizes, NEW h \in Heap!Searched(n)
    PROVE  /\ HeapOK(h, 0) /\ Heap!Fit(h, n) # Heap!NoPtr /\ n \in Nat \ {0}
           /\ \A u, z : Granted(h, u, z) <=> Granted(store, u, z)
<1>1. n \in Nat \ {0} /\ Heap!MaxPayload \in Int /\ ~(n > Heap!MaxPayload) /\ n <= Heap!MaxPayload
  <2>1. n \in Nat \ {0} /\ Heap!MaxPayload \in Int
    BY DEF Heap!Configured, Heap!MaxPayload
  <2>2. ~(n > Heap!MaxPayload)
    BY DEF Heap!Searched
  <2> QED BY <2>1, <2>2
<1>2. CASE Heap!Fit(store, n) # Heap!NoPtr
  BY <1>1, <1>2 DEF Heap!Searched
<1>3. CASE Heap!Fit(store, n) = Heap!NoPtr
  <2>1. ~(Heap!Cardinality(store.regions) >= MaxRegions)
    BY <1>1, <1>3 DEF Heap!Searched
  <2>2. PICK base \in Bases \ store.regions : h = Heap!Grown(store, base)
    BY <1>1, <1>3, <2>1 DEF Heap!Searched
  <2>3. store.regions = {}
    <3>1. ASSUME NEW b \in Bases, store.regions = {b} PROVE FALSE
      <4>1. Heap!Cardinality(store.regions) = Cardinality({b})
        BY <3>1 DEF Heap!Cardinality, Cardinality, Heap!IsFiniteSet, IsFiniteSet
      <4>2. Cardinality({b}) = 1
        BY FS_Singleton
      <4>3. MaxRegions \in Nat
        BY DEF Heap!Configured
      <4>4. ~(MaxRegions <= 1)
        BY <2>1, <4>1, <4>2, <4>3
      <4>5. b = base
        BY <2>2, <4>4 DEF OneRegion
      <4> QED BY <2>2, <3>1, <4>5
    <3> QED BY <3>1 DEF HeapOK, Tiled
  <2> QED BY <1>1, <2>2, <2>3, GrownOK
<1> QED BY <1>2, <1>3

(* Whom a pointer leads to.                                                *)
LEMMA GrantedBlock ==
    ASSUME Heap!Configured, NEW h, HeapOK(h, 0), NEW u, NEW z, Granted(h, u, z)
    PROVE  u # Heap!NoPtr /\ Heap!BlockAt(h, u).size = z /\ z \in Nat
<1>1. h \in HeapRecord /\ Tiled(h)
  BY DEF HeapOK
<1>2. PICK i \in 1 .. Len(h.blocks) :
         h.blocks[i].allocated /\ h.blocks[i].addr = u /\ h.blocks[i].size = z
  BY DEF Granted
<1>3. Heap!IndexOf(h, u) = i /\ h.blocks[i] \in Heap!BlockType /\ u # Heap!NoPtr
  BY <1>1, <1>2, AddressesDiffer
<1> QED BY <1>2, <1>3, BlockNumbers DEF Heap!BlockAt

LEMMA OwnedGranted ==
    ASSUME OwnInv, NEW s \in Place, NEW u \in Owned(s)
    PROVE  \E z : Granted(store, u, z)
BY DEF OwnInv, Owned

(* A place gets a block no place had.                                      *)
LEMMA PlaceGains ==
    ASSUME HeapVarTypes, OwnInv, NEW s \in Place, NEW a, a # Heap!NoPtr,
           NEW n \in Nat, NEW size \in Nat, size >= n,
           ~\E z : Granted(store, a, z),
           \A u, z : Granted(store', u, z) <=> Granted(store, u, z) \/ (u = a /\ z = size),
           moving[s] = Heap!NoPtr,
           held' = [held EXCEPT ![s] = a],
           asked' = [asked EXCEPT ![s] = n],
           moving' = [moving EXCEPT ![s] = held[s]]
    PROVE  OwnInv'
<1>1. /\ held'[s] = a /\ asked'[s] = n /\ moving'[s] = held[s]
      /\ \A t \in Place \ {s} :
            held'[t] = held[t] /\ asked'[t] = asked[t] /\ moving'[t] = moving[t]
  BY DEF HeapVarTypes
<1>2. \A t \in Place : a \notin Owned(t)
  BY OwnedGranted
<1>3. /\ Owned(s)' = {a} \cup Owned(s)
      /\ \A t \in Place \ {s} : Owned(t)' = Owned(t)
  BY <1>1 DEF Owned
<1>4. ASSUME NEW t \in Place, held'[t] # Heap!NoPtr
      PROVE  \E z \in Nat : Granted(store', held'[t], z) /\ z >= asked'[t]
  <2>1. CASE t = s
    BY <1>1, <2>1
  <2>2. CASE t # s
    BY <1>1, <1>4, <2>2 DEF OwnInv
  <2> QED BY <2>1, <2>2
<1>5. ASSUME NEW t \in Place, moving'[t] # Heap!NoPtr
      PROVE  /\ \E z \in Nat : Granted(store', moving'[t], z)
             /\ held'[t] # Heap!NoPtr /\ held'[t] # moving'[t]
  <2>1. CASE t = s
    BY <1>1, <1>5, <2>1 DEF OwnInv
  <2>2. CASE t # s
    BY <1>1, <1>5, <2>2 DEF OwnInv
  <2> QED BY <2>1, <2>2
<1>6. ASSUME NEW t \in Place, NEW r \in Place, t # r PROVE Owned(t)' \cap Owned(r)' = {}
  BY <1>2, <1>3, <1>6 DEF OwnInv
<1>7. ASSUME NEW u, NEW z, Granted(store', u, z) PROVE \E t \in Place : u \in Owned(t)'
  <2>1. CASE u = a
    BY <1>3, <2>1
  <2>2. CASE u # a
    BY <1>3, <1>7, <2>2 DEF OwnInv
  <2> QED BY <2>1, <2>2
<1> QED BY <1>4, <1>5, <1>6, <1>7 DEF OwnInv

(* A place loses a block, and no place keeps it.                           *)
LEMMA PlaceLoses ==
    ASSUME HeapVarTypes, OwnInv, NEW s \in Place, NEW a \in Owned(s),
           \A u, z : Granted(store', u, z) <=> Granted(store, u, z) /\ u # a,
           \A t \in Place \ {s} :
               held'[t] = held[t] /\ asked'[t] = asked[t] /\ moving'[t] = moving[t],
           moving'[s] = Heap!NoPtr, Owned(s)' = Owned(s) \ {a},
           held'[s] = Heap!NoPtr \/ (held'[s] = held[s] /\ asked'[s] = asked[s])
    PROVE  OwnInv'
<1>1. \A t \in Place \ {s} : Owned(t)' = Owned(t) /\ a \notin Owned(t)
  BY DEF OwnInv, Owned
<1>2. \A t \in Place : Owned(t)' \subseteq Owned(t) /\ a \notin Owned(t)'
  BY <1>1
<1>3. ASSUME NEW t \in Place, held'[t] # Heap!NoPtr
      PROVE  \E z \in Nat : Granted(store', held'[t], z) /\ z >= asked'[t]
  <2>1. held'[t] # a
    BY <1>2, <1>3 DEF Owned
  <2>2. held'[t] = held[t] /\ asked'[t] = asked[t]
    BY <1>3
  <2> QED BY <1>3, <2>1, <2>2 DEF OwnInv
<1>4. ASSUME NEW t \in Place, moving'[t] # Heap!NoPtr
      PROVE  /\ \E z \in Nat : Granted(store', moving'[t], z)
             /\ held'[t] # Heap!NoPtr /\ held'[t] # moving'[t]
  <2>1. t # s /\ moving'[t] # a
    BY <1>2, <1>4 DEF Owned
  <2> QED BY <1>4, <2>1 DEF OwnInv
<1>5. ASSUME NEW t \in Place, NEW r \in Place, t # r PROVE Owned(t)' \cap Owned(r)' = {}
  BY <1>2, <1>5 DEF OwnInv
<1>6. ASSUME NEW u, NEW z, Granted(store', u, z) PROVE \E t \in Place : u \in Owned(t)'
  <2>1. PICK t \in Place : u \in Owned(t) /\ u # a
    BY <1>6 DEF OwnInv
  <2>2. u \in Owned(t)'
    BY <1>1, <2>1
  <2> QED BY <2>2
<1> QED BY <1>3, <1>4, <1>5, <1>6 DEF OwnInv

LEMMA EmptyHeapOK ==
    ASSUME Heap!Configured
    PROVE  HeapOK(Heap!EmptyHeap, 0) /\ \A u, z : ~Granted(Heap!EmptyHeap, u, z)
<1>1. Heap!EmptyHeap \in HeapRecord
  <2>1. 0 \in 0 .. Word - 1 /\ << >> \in Seq(Heap!BlockType) /\ << >> \in Seq(0 .. Word - 1)
    BY DEF Heap!Configured
  <2> QED BY <2>1 DEF Heap!EmptyHeap, HeapRecord
<1>2. Heap!EmptyHeap.regions = {} /\ Heap!EmptyHeap.blocks = << >> /\ Heap!EmptyHeap.free = << >>
  BY DEF Heap!EmptyHeap
<1>3. Listed(Heap!EmptyHeap, 0)
  BY <1>2 DEF Listed, Contains, IsInjective
<1>4. Tiled(Heap!EmptyHeap) /\ Unjoined(Heap!EmptyHeap, 0)
  BY <1>2 DEF Tiled, Unjoined
<1> QED BY <1>1, <1>2, <1>3, <1>4 DEF HeapOK, Granted

(* Every step of a program keeps its heap sound.                           *)
LEMMA HeapStep ==
    ASSUME Heap!Configured, OneRegion, HeapInv, [Heap!Next]_(Heap!vars)
    PROVE  HeapInv'
<1> USE DEF HeapInv
<1>1. Word \in Nat \ {0} /\ Sizes \subseteq Nat \ {0}
  BY DEF Heap!Configured
<1>2. ASSUME NEW s \in Place, NEW n \in Sizes, NEW h \in Heap!Searched(n), moving[s] = Heap!NoPtr,
             store' = Heap!Taken(h, Heap!Fit(h, n), n), held' = [held EXCEPT ![s] = Heap!Fit(h, n)],
             moving' = [moving EXCEPT ![s] = held[s]], asked' = [asked EXCEPT ![s] = n],
             cancelled' = cancelled
      PROVE  HeapInv'
  <2> DEFINE a == Heap!Fit(h, n)
  <2>1. /\ HeapOK(h, 0) /\ a # Heap!NoPtr /\ n \in Nat \ {0}
        /\ \A u, z : Granted(h, u, z) <=> Granted(store, u, z)
    BY SearchedOK
  <2>2. /\ HeapOK(store', 0) /\ a \in 0 .. Word - 1 /\ ~\E z : Granted(h, a, z)
        /\ \E size \in Nat : /\ size >= n
              /\ \A u, z : Granted(store', u, z) <=> Granted(h, u, z) \/ (u = a /\ z = size)
    BY <1>2, <2>1, TakenOK
  <2> HIDE DEF a
  <2>3. PICK size \in Nat : /\ size >= n
              /\ \A u, z : Granted(store', u, z) <=> Granted(store, u, z) \/ (u = a /\ z = size)
    BY <2>1, <2>2
  <2>4. held' = [held EXCEPT ![s] = a]
    BY <1>2 DEF a
  <2>5. OwnInv'
    BY <1>2, <2>1, <2>2, <2>3, <2>4, PlaceGains
  <2>6. HeapVarTypes'
    BY <1>1, <1>2, <2>2, <2>4 DEF HeapVarTypes
  <2> QED BY <2>2, <2>5, <2>6
<1>3. ASSUME NEW s \in Place, NEW n \in Sizes, Heap!Alloc(s, n) PROVE HeapInv'
  <2>1. held[s] = Heap!NoPtr /\ moving[s] = Heap!NoPtr
    BY <1>3 DEF Heap!Alloc, OwnInv
  <2>2. moving' = [moving EXCEPT ![s] = held[s]]
    BY <1>3, <2>1 DEF Heap!Alloc, HeapVarTypes
  <2> QED BY <1>2, <1>3, <2>1, <2>2 DEF Heap!Alloc
<1>4. ASSUME NEW s \in Place, NEW n \in Sizes, Heap!ReallocMove(s, n) PROVE HeapInv'
  BY <1>2, <1>4 DEF Heap!ReallocMove
<1>5. ASSUME NEW s \in Place, NEW n \in Sizes, Heap!OutOfMemory(s, n) PROVE HeapInv'
  <2>1. UNCHANGED <<store, held, asked, moving>> /\ cancelled' = TRUE
    BY <1>5 DEF Heap!OutOfMemory
  <2> QED BY <2>1 DEF HeapVarTypes, OwnInv, Owned
<1>6. ASSUME NEW s \in Place, NEW n \in Sizes, Heap!ReallocInPlace(s, n) PROVE HeapInv'
  <2>1. /\ held[s] # Heap!NoPtr /\ n <= Heap!BlockAt(store, held[s]).size /\ n \in Nat
        /\ asked' = [asked EXCEPT ![s] = n]
        /\ UNCHANGED <<store, held, moving, cancelled>>
    BY <1>1, <1>6 DEF Heap!ReallocInPlace
  <2>2. HeapVarTypes'
    BY <2>1 DEF HeapVarTypes
  <2>3. asked'[s] = n /\ \A t \in Place \ {s} : asked'[t] = asked[t]
    BY <2>1 DEF HeapVarTypes
  <2>4. ASSUME NEW t \in Place, held'[t] # Heap!NoPtr
        PROVE  \E z \in Nat : Granted(store', held'[t], z) /\ z >= asked'[t]
    <3>1. PICK z \in Nat : Granted(store, held[t], z) /\ z >= asked[t]
      BY <2>1, <2>4 DEF OwnInv
    <3>2. z >= asked'[t]
      <4>1. CASE t = s
        <5>1. Heap!BlockAt(store, held[s]).size = z
          BY <3>1, <4>1, GrantedBlock
        <5> QED BY <2>1, <2>3, <4>1, <5>1
      <4>2. CASE t # s
        BY <2>3, <3>1, <4>2
      <4> QED BY <4>1, <4>2
    <3> QED BY <2>1, <3>1, <3>2
  <2>5. OwnInv'
    BY <2>1, <2>4 DEF OwnInv, Owned
  <2> QED BY <2>1, <2>2, <2>5
<1>7. ASSUME NEW s \in Place, Heap!ReallocFree(s) PROVE HeapInv'
  <2> DEFINE a == moving[s]
  <2>1. /\ a # Heap!NoPtr /\ store' = Heap!Released(store, a)
        /\ moving' = [moving EXCEPT ![s] = Heap!NoPtr]
        /\ UNCHANGED <<held, asked, cancelled>>
    BY <1>7 DEF Heap!ReallocFree
  <2>2. a \in Owned(s) /\ held[s] # a /\ held[s] # Heap!NoPtr
    BY <2>1 DEF OwnInv, Owned
  <2> HIDE DEF a
  <2>3. /\ HeapOK(store', 0)
        /\ \A u, z : Granted(store', u, z) <=> Granted(store, u, z) /\ u # a
    BY <2>1, <2>2, OwnedGranted, ReleasedOK
  <2>4. /\ moving'[s] = Heap!NoPtr
        /\ \A t \in Place \ {s} : moving'[t] = moving[t]
    BY <2>1 DEF HeapVarTypes
  <2>5. Owned(s)' = Owned(s) \ {a}
    BY <2>1, <2>2, <2>4 DEF Owned, a
  <2>6. OwnInv'
    BY <2>1, <2>2, <2>3, <2>4, <2>5, PlaceLoses
  <2>7. HeapVarTypes'
    BY <1>1, <2>1 DEF HeapVarTypes, Heap!NoPtr
  <2> QED BY <2>3, <2>6, <2>7
<1>8. ASSUME NEW s \in Place, Heap!Free(s) PROVE HeapInv'
  <2> DEFINE a == held[s]
  <2>1. /\ a # Heap!NoPtr /\ moving[s] = Heap!NoPtr /\ store' = Heap!Released(store, a)
        /\ held' = [held EXCEPT ![s] = Heap!NoPtr] /\ asked' = [asked EXCEPT ![s] = 0]
        /\ UNCHANGED <<moving, cancelled>>
    BY <1>8 DEF Heap!Free
  <2>2. a \in Owned(s)
    BY <2>1 DEF Owned
  <2> HIDE DEF a
  <2>3. /\ HeapOK(store', 0)
        /\ \A u, z : Granted(store', u, z) <=> Granted(store, u, z) /\ u # a
    BY <2>1, <2>2, OwnedGranted, ReleasedOK
  <2>4. /\ held'[s] = Heap!NoPtr /\ moving'[s] = Heap!NoPtr
        /\ \A t \in Place \ {s} :
              held'[t] = held[t] /\ asked'[t] = asked[t] /\ moving'[t] = moving[t]
    BY <2>1 DEF HeapVarTypes
  <2>5. Owned(s)' = Owned(s) \ {a}
    BY <2>1, <2>4 DEF Owned, a
  <2>6. OwnInv'
    BY <2>1, <2>2, <2>3, <2>4, <2>5, PlaceLoses
  <2>7. HeapVarTypes'
    BY <1>1, <2>1 DEF HeapVarTypes, Heap!NoPtr
  <2> QED BY <2>3, <2>6, <2>7
<1>9. CASE Heap!Teardown
  BY <1>1, <1>9, EmptyHeapOK DEF Heap!Teardown, HeapVarTypes, OwnInv, Owned, Heap!NoPtr
<1>10. CASE UNCHANGED Heap!vars
  BY <1>10 DEF Heap!vars, HeapVarTypes, OwnInv, Owned
<1> QED BY <1>3, <1>4, <1>5, <1>6, <1>7, <1>8, <1>9, <1>10 DEF Heap!Next

-----------------------------------------------------------------------------
(* What the invariant says of the blocks.                                  *)

LEMMA HeapTypes ==
    ASSUME HeapInv
    PROVE  Heap!TypeOK
BY DEF HeapInv, HeapOK, HeapRecord, HeapVarTypes, Heap!TypeOK

LEMMA BlocksTiled ==
    ASSUME Heap!Configured, HeapInv
    PROVE  Heap!BlocksInRegions /\ Heap!BlocksTile
<1> DEFINE B == store.blocks
<1>1. store \in HeapRecord /\ Tiled(store)
  BY DEF HeapInv, HeapOK
<1>2. B \in Seq(Heap!BlockType) /\ DOMAIN B = 1 .. Len(B) /\ Len(B) \in Nat
  BY <1>1, FreeIndexes
<1>3. CASE store.regions = {} /\ B = << >>
  <2>1. Heap!Blocks = {} /\ DOMAIN B = {}
    BY <1>2, <1>3 DEF Heap!Blocks
  <2> QED BY <1>3, <2>1 DEF Heap!BlocksInRegions, Heap!BlocksTile
<1>4. ASSUME NEW base \in Bases, store.regions = {base}, Tiling(B, base)
      PROVE  Heap!BlocksInRegions /\ Heap!BlocksTile
  <2>1. \A i \in 1 .. Len(B) : base <= B[i].addr /\ Heap!End(B[i]) <= base + RegionSize
    BY <1>2, <1>4, TilesInRegion
  <2>2. Heap!BlocksInRegions
    BY <1>2, <1>4, <2>1 DEF Heap!BlocksInRegions, Heap!Blocks
  <2>3. \E b \in Heap!Blocks : b.addr = base
    <3>1. 1 \in DOMAIN B /\ B[1].addr = base
      BY <1>2, <1>4 DEF Tiling
    <3> QED BY <3>1 DEF Heap!Blocks
  <2>4. ASSUME NEW i \in DOMAIN B
        PROVE  \/ \E r \in store.regions : Heap!End(B[i]) = r + RegionSize
               \/ i < Len(B) /\ B[i + 1].addr = Heap!End(B[i])
    <3>1. CASE i = Len(B)
      BY <1>4, <3>1 DEF Tiling
    <3>2. CASE i # Len(B)
      <4>1. i \in 1 .. Len(B) - 1 /\ i < Len(B)
        BY <1>2, <3>2
      <4> QED BY <1>4, <4>1 DEF Tiling
    <3> QED BY <3>1, <3>2
  <2> QED BY <1>4, <2>2, <2>3, <2>4 DEF Heap!BlocksTile
<1> QED BY <1>1, <1>3, <1>4 DEF Tiled

LEMMA FreeCounted ==
    ASSUME Heap!Configured, HeapInv
    PROVE  Heap!FreeListExact
<1> DEFINE B == store.blocks
           f == store.free
           F == {b \in Heap!Blocks : ~b.allocated}
<1>1. store \in HeapRecord /\ Tiled(store) /\ Listed(store, 0) /\ Unjoined(store, 0)
  BY DEF HeapInv, HeapOK
<1>2. /\ B \in Seq(Heap!BlockType) /\ DOMAIN B = 1 .. Len(B) /\ Len(B) \in Nat
      /\ f \in Seq(0 .. Word - 1) /\ DOMAIN f = 1 .. Len(f) /\ Len(f) \in Nat
      /\ \A k : Heap!IsFree(store, k) <=> k \in 1 .. Len(B) /\ ~B[k].allocated
  BY <1>1, FreeIndexes
<1>3. \A k, l \in 1 .. Len(B) : B[k].addr = B[l].addr => k = l
  BY <1>1, AddressesDiffer
<1>4. Heap!Blocks = {B[k] : k \in 1 .. Len(B)}
  BY <1>2 DEF Heap!Blocks
<1> HIDE DEF B, f
<1>5. \A u : Contains(f, u) <=>
          \E k \in 1 .. Len(B) : k # 0 /\ ~B[k].allocated /\ B[k].addr = u
  BY <1>1 DEF Listed, B, f
<1>6. /\ \A b \in F : Contains(f, b.addr)
      /\ \A u : Contains(f, u) => \E b \in F : b.addr = u
      /\ \A b, c \in F : b.addr = c.addr => b = c
  <2>1. \A b \in F : Contains(f, b.addr)
    <3>1. ASSUME NEW k \in 1 .. Len(B), ~B[k].allocated PROVE Contains(f, B[k].addr)
      BY <1>5, <3>1
    <3> QED BY <1>4, <3>1
  <2>2. \A u : Contains(f, u) => \E b \in F : b.addr = u
    BY <1>4, <1>5
  <2>3. \A b, c \in F : b.addr = c.addr => b = c
    BY <1>3, <1>4
  <2> QED BY <2>1, <2>2, <2>3
<1> HIDE DEF F
<1>7. {f[i] : i \in DOMAIN f} = {b.addr : b \in F}
  BY <1>2, <1>6 DEF Contains
<1>8. Cardinality(F) = Len(f)
  <2> DEFINE g == [i \in 1 .. Len(f) |-> CHOOSE b \in F : b.addr = f[i]]
  <2>1. ASSUME NEW i \in 1 .. Len(f) PROVE g[i] \in F /\ g[i].addr = f[i]
    <3>1. \E b \in F : b.addr = f[i]
      BY <1>6 DEF Contains
    <3> QED BY <3>1
  <2>2. DOMAIN g = 1 .. Len(f)
    OBVIOUS
  <2> HIDE DEF g
  <2>3. g \in [1 .. Len(f) -> F]
    <3>1. g = [i \in 1 .. Len(f) |-> g[i]]
      BY <2>2 DEF g
    <3> QED BY <2>1, <3>1
  <2>4. ASSUME NEW i \in 1 .. Len(f), NEW k \in 1 .. Len(f), g[i] = g[k] PROVE i = k
    BY <1>1, <1>2, <2>1, <2>4 DEF Listed, IsInjective, f
  <2>5. ASSUME NEW b \in F PROVE \E i \in 1 .. Len(f) : g[i] = b
    <3>1. PICK i \in 1 .. Len(f) : f[i] = b.addr
      BY <1>6 DEF Contains
    <3> QED BY <1>6, <2>1, <3>1
  <2>6. ExistsBijection(1 .. Len(f), F)
    BY <2>3, <2>4, <2>5 DEF ExistsBijection, Bijection, Injection, Surjection, IsInjective
  <2> QED BY <1>2, <2>6, FS_CountingElements
<1>9. \A i \in DOMAIN B : ~(Heap!IsFree(store, i) /\ Heap!IsFree(store, i + 1))
  <2>1. ASSUME NEW i \in 1 .. Len(B), Heap!IsFree(store, i), Heap!IsFree(store, i + 1) PROVE FALSE
    BY <1>1, <2>1 DEF Unjoined, B
  <2> QED BY <1>2, <2>1
<1> QED
  BY <1>7, <1>8, <1>9 DEF Heap!FreeListExact, F, B, f,
     Heap!Cardinality, Cardinality, Heap!IsFiniteSet, IsFiniteSet

LEMMA PointersOwn ==
    ASSUME Heap!Configured, HeapInv
    PROVE  Heap!PointersOwnBlocks
<1> DEFINE B == store.blocks
           owned == [s \in Place |-> {held[s], moving[s]} \ {Heap!NoPtr}]
           A == {b \in Heap!Blocks : b.allocated}
<1>1. HeapOK(store, 0) /\ store \in HeapRecord /\ OwnInv
  BY DEF HeapInv, HeapOK
<1>2. Heap!Blocks = {B[k] : k \in 1 .. Len(B)}
  BY <1>1, FreeIndexes DEF Heap!Blocks
<1>3. \A u : (\E b \in A : b.addr = u) <=> \E z : Granted(store, u, z)
  BY <1>2 DEF Granted
<1>4. \A u : (\E s \in Place : u \in Owned(s)) <=> \E z : Granted(store, u, z)
  BY <1>1, OwnedGranted DEF OwnInv
<1>5. \A s \in Place : owned[s] = Owned(s)
  BY DEF Owned
<1>6. UNION {owned[s] : s \in Place} = {b.addr : b \in A}
  <2> HIDE DEF A, owned
  <2>1. \A u : u \in UNION {owned[s] : s \in Place} <=> \E s \in Place : u \in Owned(s)
    BY <1>5
  <2>2. \A u : u \in {b.addr : b \in A} <=> \E b \in A : b.addr = u
    OBVIOUS
  <2> QED BY <1>3, <1>4, <2>1, <2>2
<1>7. \A s, t \in Place : s # t => owned[s] \cap owned[t] = {}
  BY <1>1, <1>5 DEF OwnInv
<1>8. ASSUME NEW s \in Place, held[s] # Heap!NoPtr
      PROVE Heap!BlockAt(store, held[s]).size >= asked[s]
  BY <1>1, <1>8, GrantedBlock DEF OwnInv
<1> QED BY <1>6, <1>7, <1>8 DEF Heap!PointersOwnBlocks

(* With one region, a heap is sound through every sequence of malloc,      *)
(* realloc and free: its blocks tile the region, the free list has every   *)
(* free block once, and every allocated block is one pointer's, as large   *)
(* as it asked for.                                                        *)
THEOREM HeapInvariance ==
    ASSUME Heap!Configured, OneRegion
    PROVE  Heap!Spec => [](Heap!TypeOK /\ Heap!HeapSound)
<1>1. Heap!Init => HeapInv
  <2> SUFFICES ASSUME Heap!Init PROVE HeapInv
    OBVIOUS
  <2>1. store = Heap!EmptyHeap /\ HeapOK(store, 0) /\ \A u, z : ~Granted(store, u, z)
    BY EmptyHeapOK DEF Heap!Init
  <2>2. HeapVarTypes
    <3>1. 0 \in 0 .. Word - 1
      BY DEF Heap!Configured
    <3> QED BY <3>1 DEF Heap!Init, HeapVarTypes, Heap!NoPtr
  <2>3. OwnInv
    BY <2>1 DEF Heap!Init, OwnInv, Owned
  <2> QED BY <2>1, <2>2, <2>3 DEF HeapInv
<1>2. HeapInv /\ [Heap!Next]_(Heap!vars) => HeapInv'
  BY HeapStep
<1>3. HeapInv => Heap!TypeOK /\ Heap!HeapSound
  BY HeapTypes, BlocksTiled, FreeCounted, PointersOwn DEF Heap!HeapSound
<1> QED BY <1>1, <1>2, <1>3, PTL DEF Heap!Spec

=============================================================================
