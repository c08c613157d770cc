---------------------------- MODULE SchedRegistry ----------------------------
(***************************************************************************)
(* The tasks of the scheduler (kernel/core/sched/m_sched_core.c) and the   *)
(* registry their metadata are in, behind one mutex.  A task sets up its   *)
(* own metadata when it first runs, takes the mutex around its waits       *)
(* (m_sched_wait.c), and takes its metadata out and frees them when it     *)
(* ends; clients create, destroy, suspend and resume tasks by their ids.   *)
(* To do so they look a task up under the mutex, and act on what they      *)
(* found after they gave it back, whatever became of it since.             *)
(*                                                                         *)
(* A task is named by its metadata, whose memory is not used again         *)
(* (bound).  Clients are not managed themselves, so what one does under    *)
(* the mutex is one step; what a task does there is two, between which it  *)
(* can be deleted or suspended.  The state and wait reason recorded in the *)
(* metadata decide nothing here and are left out.                          *)
(*                                                                         *)
(* Nothing keeps a call from metadata that were freed meanwhile, or from a *)
(* task that is gone (finalized is part of what was freed).  What happens  *)
(* then is undefined: the model halts.                                     *)
(***************************************************************************)
EXTENDS Integers, Sequences, SequencesExt

CONSTANTS
    Client,
    Meta,           \* the metadata, and the tasks they are of
    NoMeta, NoOne,  \* no member of Meta; nobody has the mutex
    Ids             \* m_sched_task_id_t counts 0 .. Ids - 1, 0 being invalid

VARIABLES
    metas,          \* meta -> its memory, id, handle and finalized
    registry,       \* g_task_registry_head and what follows
    next_id,        \* g_next_task_id
    sched_lock,     \* who has g_sched_registry_lock
    exists,         \* the tasks FreeRTOS has
    suspended,      \* those of them it does not run
    pc,             \* client or task -> what it does
    subject,        \* client -> the metadata it has in hand
    given,          \* the ids that m_sched_task_create returned
    halted          \* somebody came to what is gone

(* Fewer tasks are created than there are ids, and neither special value   *)
(* is a task.                                                              *)
Configured ==
    /\ IsFiniteSet(Meta) /\ NoMeta \notin Meta /\ NoOne \notin Meta
    /\ Client \cap Meta = {}
    /\ Ids \in Nat /\ Ids > 1 /\ Cardinality(Meta) < Ids

taskVars == <<exists, suspended>>
vars     == <<metas, registry, next_id, sched_lock, taskVars, pc, subject, given, halted>>

Goto(p, where) == pc' = [pc EXCEPT ![p] = where]

At(c, labels) == pc[c] \in labels /\ ~halted

Idle(c) == At(c, {"idle"})

Live(m) == metas[m].memory = "live"

MayRun(m) == m \in exists \ suspended /\ ~halted

Init ==
    /\ metas = [m \in Meta |-> [memory |-> "none", id |-> 0, handle |-> FALSE,
                                finalized |-> FALSE]]
    /\ registry = << >> /\ next_id = 1 /\ sched_lock = NoOne
    /\ exists = {} /\ suspended = {}
    /\ pc = [p \in Client \cup Meta |-> "idle"]
    /\ subject = [c \in Client |-> NoMeta]
    /\ given = {} /\ halted = FALSE

-----------------------------------------------------------------------------
(* The registry.                                                           *)

(* Mutant: only the head of the list is taken out.                         *)
WithoutHead(m) == IF registry # << >> /\ Head(registry) = m THEN Tail(registry) ELSE registry

Without(m) ==
    LET at == {i \in DOMAIN registry : registry[i] = m}
    IN  IF at = {} THEN registry ELSE RemoveAt(registry, Min(at))

(* _m_sched_metadata_find_locked_by_id: the first in the list.             *)
Found(id) ==
    LET at == {i \in DOMAIN registry : metas[registry[i]].id = id}
    IN  IF at = {} THEN NoMeta ELSE registry[Min(at)]

NextId == IF (next_id + 1) % Ids = 0 THEN 1 ELSE next_id + 1

(* Mutant: the flag is set and not looked at.                              *)
FinalizedAnyway(p, m) ==
    /\ metas' = [metas EXCEPT ![m].finalized = TRUE]
    /\ registry' = Without(m)
    /\ Goto(p, "free")

(* m_sched_metadata_finalize, which both ends of a task come to, and every *)
(* client that destroys it.                                                *)
Finalized(p, m) ==
    IF metas[m].finalized
    THEN Goto(p, "leave") /\ UNCHANGED <<metas, registry>>
    ELSE /\ metas' = [metas EXCEPT ![m].finalized = TRUE]
         /\ registry' = Without(m)
         /\ Goto(p, "free")

-----------------------------------------------------------------------------
(* Clients.                                                                *)

(* m_sched_task_create: the metadata get an id and come into the registry. *)
Create(c, m) ==
    /\ Idle(c) /\ sched_lock = NoOne
    /\ metas[m].memory = "none"
    /\ metas' = [metas EXCEPT ![m].memory = "live", ![m].id = next_id]
    /\ next_id' = NextId
    /\ registry' = <<m>> \o registry
    /\ subject' = [subject EXCEPT ![c] = m]
    /\ Goto(c, "spawn")
    /\ UNCHANGED <<sched_lock, taskVars, given, halted>>

Spawn(c) ==
    /\ At(c, {"spawn"})
    /\ exists' = exists \cup {subject[c]}
    /\ pc' = [pc EXCEPT ![c] = "return_id", ![subject[c]] = "created"]
    /\ UNCHANGED <<metas, registry, next_id, sched_lock, suspended, subject, given, halted>>

(* FreeRTOS has no memory for the task.                                    *)
SpawnFails(c) ==
    /\ At(c, {"spawn"})
    /\ Goto(c, "finalize")
    /\ UNCHANGED <<metas, registry, next_id, sched_lock, taskVars, subject, given, halted>>

(* The id is read from the metadata of a task that may have run.           *)
ReturnId(c) ==
    /\ At(c, {"return_id"}) /\ Live(subject[c])
    /\ given' = given \cup {metas[subject[c]].id}
    /\ subject' = [subject EXCEPT ![c] = NoMeta]
    /\ Goto(c, "idle")
    /\ UNCHANGED <<metas, registry, next_id, sched_lock, taskVars, halted>>

(* m_sched_task_destroy: the task is looked up, ...                        *)
Destroy(c, id) ==
    LET m == Found(id)
    IN  /\ Idle(c) /\ sched_lock = NoOne
        /\ m # NoMeta
        /\ subject' = [subject EXCEPT ![c] = m]
        /\ Goto(c, IF metas[m].handle THEN "delete" ELSE "finalize")
        /\ UNCHANGED <<metas, registry, next_id, sched_lock, taskVars, given, halted>>

(* ... deleted where it is, ...                                            *)
Delete(c) ==
    /\ At(c, {"delete"}) /\ subject[c] \in exists
    /\ exists' = exists \ {subject[c]}
    /\ suspended' = suspended \ {subject[c]}
    /\ pc' = [pc EXCEPT ![c] = "finalize", ![subject[c]] = "gone"]
    /\ UNCHANGED <<metas, registry, next_id, sched_lock, subject, given, halted>>

(* ... and its metadata are taken out of the registry, ...                 *)
Finalize(c) ==
    /\ At(c, {"finalize"}) /\ sched_lock = NoOne /\ Live(subject[c])
    /\ Finalized(c, subject[c])
    /\ UNCHANGED <<next_id, sched_lock, taskVars, subject, given, halted>>

(* ... and freed.                                                          *)
FreeMeta(c) ==
    /\ At(c, {"free", "leave"})
    /\ metas' = IF pc[c] = "free" THEN [metas EXCEPT ![subject[c]].memory = "freed"] ELSE metas
    /\ subject' = [subject EXCEPT ![c] = NoMeta]
    /\ Goto(c, "idle")
    /\ UNCHANGED <<registry, next_id, sched_lock, taskVars, given, halted>>

(* m_sched_task_suspend and m_sched_task_resume: the task is looked up     *)
(* under the mutex, ...                                                    *)
Seek(c, id, what) ==
    LET m == Found(id)
    IN  /\ Idle(c) /\ sched_lock = NoOne
        /\ m # NoMeta /\ metas[m].handle
        /\ subject' = [subject EXCEPT ![c] = m]
        /\ Goto(c, what)
        /\ UNCHANGED <<metas, registry, next_id, sched_lock, taskVars, given, halted>>

(* ... and FreeRTOS told after.                                            *)
Tell(c) ==
    /\ At(c, {"suspend", "resume"}) /\ subject[c] \in exists
    /\ suspended' = IF pc[c] = "suspend" THEN suspended \cup {subject[c]}
                                         ELSE suspended \ {subject[c]}
    /\ subject' = [subject EXCEPT ![c] = NoMeta]
    /\ Goto(c, "idle")
    /\ UNCHANGED <<metas, registry, next_id, sched_lock, exists, given, halted>>

-----------------------------------------------------------------------------
(* Tasks.                                                                  *)

(* m_sched_task_wrapper                                                    *)
Start(m) ==
    /\ MayRun(m) /\ pc[m] = "created" /\ Live(m)
    /\ metas' = [metas EXCEPT ![m].handle = TRUE]
    /\ Goto(m, "run")
    /\ UNCHANGED <<registry, next_id, sched_lock, taskVars, subject, given, halted>>

(* The mutex is taken around each update of the state or the wait reason   *)
(* (m_sched_wait_block), to look oneself up, and at the end.               *)
Lock(m) ==
    /\ MayRun(m) /\ pc[m] \in {"run", "end"}
    /\ sched_lock = NoOne
    /\ sched_lock' = m
    /\ Goto(m, IF pc[m] = "run" THEN "update" ELSE "finalize")
    /\ UNCHANGED <<metas, registry, next_id, taskVars, subject, given, halted>>

Update(m) ==
    /\ MayRun(m) /\ pc[m] = "update"
    /\ sched_lock' = NoOne
    /\ Goto(m, "run")
    /\ UNCHANGED <<metas, registry, next_id, taskVars, subject, given, halted>>

(* The entry function returns, which is recorded in the metadata.          *)
End(m) ==
    /\ MayRun(m) /\ pc[m] = "run" /\ Live(m)
    /\ Goto(m, "end")
    /\ UNCHANGED <<metas, registry, next_id, sched_lock, taskVars, subject, given, halted>>

FinalizeSelf(m) ==
    /\ MayRun(m) /\ pc[m] = "finalize" /\ Live(m)
    /\ Finalized(m, m)
    /\ sched_lock' = NoOne
    /\ UNCHANGED <<next_id, taskVars, subject, given, halted>>

FreeSelf(m) ==
    /\ MayRun(m) /\ pc[m] = "free"
    /\ metas' = [metas EXCEPT ![m].memory = "freed"]
    /\ Goto(m, "leave")
    /\ UNCHANGED <<registry, next_id, sched_lock, taskVars, subject, given, halted>>

(* vTaskDelete(NULL)                                                       *)
Leave(m) ==
    /\ MayRun(m) /\ pc[m] = "leave"
    /\ exists' = exists \ {m}
    /\ Goto(m, "gone")
    /\ UNCHANGED <<metas, registry, next_id, sched_lock, suspended, subject, given, halted>>

-----------------------------------------------------------------------------
(* A client comes to the metadata it looked up, or to their task, or a     *)
(* task to its own metadata, and they are gone.                            *)
Strays ==
    \/ \E c \in Client :
          \/ pc[c] = "return_id" /\ ~Live(subject[c])
          \/ pc[c] = "finalize" /\ sched_lock = NoOne /\ ~Live(subject[c])
          \/ pc[c] \in {"delete", "suspend", "resume"} /\ subject[c] \notin exists
    \/ \E m \in Meta :
          MayRun(m) /\ pc[m] \in {"created", "run", "finalize"} /\ ~Live(m)

Halt ==
    /\ Strays /\ ~halted
    /\ halted' = TRUE
    /\ UNCHANGED <<metas, registry, next_id, sched_lock, taskVars, pc, subject, given>>

Next ==
    \/ \E c \in Client :
          \/ \E m \in Meta : Create(c, m)
          \/ \E id \in given :
                \/ Destroy(c, id)
                \/ Seek(c, id, "suspend")
                \/ Seek(c, id, "resume")
          \/ Spawn(c) \/ SpawnFails(c) \/ ReturnId(c)
          \/ Delete(c) \/ Finalize(c) \/ FreeMeta(c) \/ Tell(c)
    \/ \E m \in Meta :
          \/ Start(m) \/ Lock(m) \/ Update(m)
          \/ End(m) \/ FinalizeSelf(m) \/ FreeSelf(m) \/ Leave(m)
    \/ Halt

Spec == Init /\ [][Next]_vars

-----------------------------------------------------------------------------
(* Every variable has its type.                                            *)
TypeOK ==
    /\ metas \in [Meta -> [memory : {"none", "live", "freed"}, id : 0 .. Ids - 1,
                           handle : BOOLEAN, finalized : BOOLEAN]]
    /\ registry \in Seq(Meta) /\ next_id \in 1 .. Ids - 1
    /\ sched_lock \in Meta \cup {NoOne} /\ suspended \subseteq exists /\ exists \subseteq Meta
    /\ pc \in [Client \cup Meta ->
                 {"idle", "spawn", "return_id", "delete", "finalize", "free", "leave",
                  "suspend", "resume", "created", "run", "update", "end", "gone"}]
    /\ subject \in [Client -> Meta \cup {NoMeta}] /\ given \subseteq 1 .. Ids - 1
    /\ halted \in BOOLEAN

(* The registry has the metadata that are not finalized, each once, and no *)
(* two of them have the same id: a walk meets no freed memory, and an id   *)
(* names one task, whoever came, went or was deleted meanwhile.            *)
RegistryExact ==
    /\ ToSet(registry) = {m \in Meta : Live(m) /\ ~metas[m].finalized}
    /\ \A i, k \in DOMAIN registry :
          metas[registry[i]].id = metas[registry[k]].id => i = k

(* p is about to free the metadata m.                                      *)
Frees(p, m) == pc[p] = "free" /\ (p = m \/ (p \in Client /\ subject[p] = m))

(* A task, and every client that destroys it, come to finalize the same    *)
(* metadata: one of them goes on to free them, and nobody did before.      *)
FreedByOne ==
    \A m \in Meta : \A p \in Client \cup Meta :
        Frees(p, m) => /\ Live(m) /\ metas[m].finalized
                       /\ \A q \in Client \cup Meta : Frees(q, m) => q = p

(* The tasks, their metadata and the registry, until the model halts.      *)
TasksSound == RegistryExact /\ FreedByOne
=============================================================================
