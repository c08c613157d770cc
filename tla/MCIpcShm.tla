----------------------------- MODULE MCIpcShm -----------------------------
(***************************************************************************)
(* Three instances of IpcShm for TLC, side by side: a behaviour begins in  *)
(* one of them and stays there. All have the tasks of the .cfg.            *)
(*   given - (the constants of the .cfg) at most two tasks at a time, on a *)
(*           ring of one byte, two generations of the slot;                *)
(*   alone - one task at a time on larger regions: every wrap of the       *)
(*           indices, every early return;                                  *)
(*   three - three tasks, at most one of them a writer, that attach to a   *)
(*           ring of one byte, stay, and wait for ever to move a byte.     *)
(* WakesSpec is the last of them alone, fairly scheduled.                  *)
(***************************************************************************)
EXTENDS IpcShm, TLC

CONSTANTS t1, t2, t3

VARIABLE instance

ThreeTasks == {t1, t2, t3}
PrioThree  == [t \in ThreeTasks |-> 1]

Sizes(ring, packet) ==
    [m \in {"raw", "ring", "packet"} |->
        IF m = "ring" THEN ring ELSE IF m = "packet" THEN packet ELSE 3]
SmallSizes == Sizes(2, 3)

Alone == INSTANCE IpcShm WITH
    RegionSize <- Sizes(4, 7), PacketMax <- 4,
    RegionModes <- {"raw", "ring", "packet"}, Policies <- {"block", "drop"},
    Lengths <- {0, 1, 2, 4}, BufferSizes <- {1, 3}, Waits <- {"try", "zero"},
    Accesses <- {"rw"}, Commands <- {"flush", "notify_read"},
    MaxGen <- 1, MaxAttached <- 2, MaxWaiting <- 0

Crowd == INSTANCE IpcShm WITH
    RegionSize <- SmallSizes, PacketMax <- 0,
    RegionModes <- {"ring"}, Policies <- {"block"},
    Lengths <- {1}, BufferSizes <- {1}, Waits <- {"forever"},
    Accesses <- {"r", "w"}, Commands <- {},
    MaxGen <- 1, MaxAttached <- 3, MaxWaiting <- 2

(* The tasks that are in a call or attached, if t calls.                   *)
Engaged(t) == {t} \cup {u \in Task : pc[u] # "idle" \/ attachment[u] # NoAttachment}

(* What t does next leaves it attached, and not as a second writer.        *)
Writers(attached, calls) ==
    {t \in Task :
        \/ attached[t].handle # 0 /\ attached[t].access = "w"
        \/ calls[t].kind = "attach" /\ calls[t].mode = "w"}

Stays(t) ==
    /\ op'[t].kind \in {"none", "attach"} \cup Side
    /\ Cardinality(Writers(attachment', op')) <= 1

ThreeNext == \E t \in Task : (Crowd!Begin(t) \/ Crowd!Step(t)) /\ Stays(t)

MCInit ==
    \/ instance = "given" /\ Init
    \/ instance = "alone" /\ Alone!Init
    \/ instance = "three" /\ Crowd!Init

MCNext ==
    /\ \/ \E t \in Task :
            \/ instance = "given" /\ Cardinality(Engaged(t)) <= 2 /\ (Begin(t) \/ Step(t))
            \/ /\ instance = "alone" /\ Cardinality(Engaged(t)) = 1
               /\ Alone!Begin(t) \/ Alone!Step(t)
       \/ instance = "three" /\ ThreeNext
    /\ UNCHANGED instance

MCSpec == MCInit /\ [][MCNext]_<<vars, instance>>

WakesSpec ==
    /\ instance = "three" /\ Crowd!Init
    /\ [][ThreeNext /\ UNCHANGED instance]_<<vars, instance>>
    /\ \A t \in Task : WF_vars(Crowd!Step(t) /\ UNCHANGED instance)

(* The properties of IpcShm that depend on its constants, each in the      *)
(* instances it is about.                                                  *)
TypesOK ==
    /\ instance = "given" => TypeOK
    /\ instance = "alone" => Alone!TypeOK
    /\ instance = "three" => Crowd!TypeOK

(* Nobody lingers, in the third instance.                                  *)
MCWaiterWakes == Crowd!WaiterWakes

(* The refinement, of whichever instance runs.                             *)
Stream == INSTANCE ShmStream WITH
    size   <- CASE instance = "given" -> AbstractSize
                [] instance = "alone" -> Alone!AbstractSize
                [] OTHER -> Crowd!AbstractSize,
    kind   <- AbstractKind,
    lossy  <- AbstractLossy,
    stream <- CASE instance = "given" -> AbstractStream
                [] instance = "alone" -> Alone!AbstractStream
                [] OTHER -> Crowd!AbstractStream,
    reply  <- ret

MCImplementsShmStream == Stream!Spec

(* The tasks are alike.                                                    *)
Equals == Permutations(ThreeTasks)
=============================================================================
