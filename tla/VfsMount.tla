------------------------------ MODULE VfsMount ------------------------------
(***************************************************************************)
(* The registry of mounts (m_vfs_registry.c) and the calls that mount,     *)
(* unmount and resolve through it (m_vfs_core.c, m_vfs_path.c): a lock of  *)
(* readers and writers made of a flag and a counter, and slots that point  *)
(* to allocated mounts.                                                    *)
(*                                                                         *)
(* Each access to the flag and to the counter is a step. The memory of a   *)
(* mount that was freed is not used again (bound), so that who still looks *)
(* at it is seen. The nodes of a mount are counted: its root, and those    *)
(* that lookups and descriptors hold (VfsFile has them one by one). The    *)
(* field active is left out: nothing reads it.                             *)
(***************************************************************************)
EXTENDS Integers, FiniteSets

CONSTANTS
    Task,
    Mount, NoMount, \* the m_vfs_mount_t, NULL
    Fresh,          \* those of Mount that are allocated (bound)
    Target,         \* the mount points, by their length: the longer are below
                    \* the shorter
    FsType,         \* the file system types
    MaxMounts,      \* CONFIG_MAGNOLIA_VFS_MAX_MOUNTS
    MaxOpen,        \* the descriptors a task has of one mount (bound)
    Kinds           \* what the tasks call

ASSUME MountAssumption ==
    /\ IsFiniteSet(Task) /\ NoMount \notin Mount /\ Fresh \subseteq Mount
    /\ Target \subseteq Nat \ {0} /\ MaxMounts \in Nat \ {0} /\ FsType # {}

VARIABLES
    types,          \* g_vfs_fs_types
    slots, count, sequence,     \* g_vfs_mount_slots, _count, _sequence
    writer, readers,            \* g_vfs_mount_writer, _readers
    mounts,         \* what was allocated: target, type, registry_index (0: none),
                    \* sequence; root: it has one; held: by lookups under way
    files,          \* the descriptors: how many each task has of each mount
    halted,         \* a spin inside a critical section: nobody runs any more
    pc, call

lockVars == <<writer, readers>>
regVars  == <<slots, count, sequence>>
vars     == <<types, regVars, lockVars, mounts, files, halted, pc, call>>

Slot == 1 .. MaxMounts
Asks(k, g, m) == [kind |-> k, target |-> g, mount |-> m, slot |-> 0]
Idle == Asks("none", 0, NoMount)

Goto(t, l) == pc' = [pc EXCEPT ![t] = l]

Return(t) == Goto(t, "idle") /\ call' = [call EXCEPT ![t] = Idle]

Calling(t, k) == pc[t] = "idle" /\ k \in Kinds /\ ~halted

At(t, l) == pc[t] = l /\ ~halted

-----------------------------------------------------------------------------
(* The lock. A reader that has counted itself and finds a writer takes     *)
(* itself back, and waits until the writer is gone before it tries again.  *)
ReadSpin(t) ==
    /\ At(t, "read_spin") /\ ~writer
    /\ Goto(t, "read_enter")
    /\ UNCHANGED <<types, regVars, lockVars, mounts, files, halted, call>>

ReadEnter(t) ==
    /\ At(t, "read_enter")
    /\ readers' = readers + 1
    /\ Goto(t, "read_check")
    /\ UNCHANGED <<types, regVars, writer, mounts, files, halted, call>>

(* Mutant: the reader does not look again.                                 *)
ReadCheckNot(t) ==
    /\ At(t, "read_check")
    /\ Goto(t, IF FALSE THEN "read_back" ELSE "scan")
    /\ UNCHANGED <<types, regVars, lockVars, mounts, files, halted, call>>

ReadCheck(t) ==
    /\ At(t, "read_check")
    /\ Goto(t, IF writer THEN "read_back" ELSE "scan")
    /\ UNCHANGED <<types, regVars, lockVars, mounts, files, halted, call>>

(* Mutant: and tries again without waiting.                                *)
ReadBackAtOnce(t) ==
    /\ At(t, "read_back")
    /\ readers' = readers - 1
    /\ Goto(t, "read_enter")
    /\ UNCHANGED <<types, regVars, writer, mounts, files, halted, call>>

ReadBack(t) ==
    /\ At(t, "read_back")
    /\ readers' = readers - 1
    /\ Goto(t, "read_spin")
    /\ UNCHANGED <<types, regVars, writer, mounts, files, halted, call>>

ReadUnlock(t) ==
    /\ At(t, "read_unlock")
    /\ readers' = readers - 1
    /\ IF call[t].mount = NoMount THEN Return(t)
       ELSE Goto(t, IF call[t].kind = "open" THEN "resolve" ELSE "teardown") /\ UNCHANGED call
    /\ UNCHANGED <<types, regVars, writer, mounts, files, halted>>

(* Mutant: it sets a flag that another writer has set.                     *)
WriteFlagAlways(t) ==
    /\ At(t, "write_flag") /\ (writer \/ ~writer)
    /\ writer' = TRUE
    /\ Goto(t, "write_drain")
    /\ UNCHANGED <<types, regVars, readers, mounts, files, halted, call>>

(* A writer sets the flag, and waits until the last reader is out.         *)
WriteFlag(t) ==
    /\ At(t, "write_flag") /\ ~writer
    /\ writer' = TRUE
    /\ Goto(t, "write_drain")
    /\ UNCHANGED <<types, regVars, readers, mounts, files, halted, call>>

WriteDrain(t) ==
    /\ At(t, "write_drain") /\ readers = 0
    /\ Goto(t, IF call[t].kind = "mount" THEN "pick_slot" ELSE "remove")
    /\ UNCHANGED <<types, regVars, lockVars, mounts, files, halted, call>>

WriteUnlock(t) ==
    /\ At(t, "write_unlock")
    /\ writer' = FALSE
    /\ IF call[t].kind # "mount" THEN Goto(t, "unmount") /\ UNCHANGED call
       ELSE IF call[t].slot = 0 THEN Goto(t, "undo") /\ UNCHANGED call
       ELSE Return(t)
    /\ UNCHANGED <<types, regVars, readers, mounts, files, halted>>

-----------------------------------------------------------------------------
(* m_vfs_mount: the type is known, the mount is allocated and the type's   *)
(* mount operation makes its root; then m_vfs_registry_mount_add.          *)
MountCall(t) ==
    /\ Calling(t, "mount")
    /\ \E m \in Fresh, g \in Target, y \in types :
        /\ ~mounts[m].made
        /\ mounts' = [mounts EXCEPT ![m] = [made |-> TRUE, freed |-> FALSE, target |-> g,
                            type |-> y, index |-> 0, sequence |-> 0, root |-> TRUE, held |-> 0]]
        /\ call' = [call EXCEPT ![t] = Asks("mount", g, m)]
    /\ Goto(t, "write_flag")
    /\ UNCHANGED <<types, regVars, lockVars, files, halted>>

(* The first free slot, if there is one,                                   *)
PickSlot(t) ==
    /\ At(t, "pick_slot")
    /\ LET vacant == {i \in Slot : slots[i] = NoMount} IN
        IF count >= MaxMounts \/ vacant = {}
        THEN Goto(t, "write_unlock") /\ UNCHANGED call
        ELSE /\ call' = [call EXCEPT ![t].slot = CHOOSE i \in vacant : \A j \in vacant : i <= j]
             /\ Goto(t, "store")
    /\ UNCHANGED <<types, regVars, lockVars, mounts, files, halted>>

(* is the mount's.                                                         *)
Store(t) ==
    /\ At(t, "store")
    /\ sequence' = sequence + 1
    /\ slots' = [slots EXCEPT ![call[t].slot] = call[t].mount]
    /\ count' = count + 1
    /\ mounts' = [mounts EXCEPT ![call[t].mount].index = call[t].slot,
                                ![call[t].mount].sequence = sequence + 1]
    /\ Goto(t, "write_unlock")
    /\ UNCHANGED <<types, lockVars, files, halted, call>>

(* No slot: the type's unmount operation releases the root, and the mount  *)
(* is freed.                                                               *)
Undo(t) ==
    /\ At(t, "undo")
    /\ mounts' = [mounts EXCEPT ![call[t].mount].root = FALSE, ![call[t].mount].freed = TRUE]
    /\ Return(t)
    /\ UNCHANGED <<types, regVars, lockVars, files, halted>>

(* m_vfs_unmount, m_vfs_unmount_force and m_vfs_path_resolve begin with a  *)
(* search: for a target, or for the best mount of a path.                  *)
Search(t) ==
    /\ \E k \in {"unmount", "force", "open"}, g \in Target :
        /\ Calling(t, k) /\ (k = "open" => \A m \in Mount : files[t][m] < MaxOpen)
        /\ call' = [call EXCEPT ![t] = Asks(k, g, NoMount)]
    /\ Goto(t, "read_spin")
    /\ UNCHANGED <<types, regVars, lockVars, mounts, files, halted>>

(* m_vfs_registry_mount_find: the first slot with the target.              *)
FoundAt(g) == {i \in Slot : slots[i] # NoMount /\ mounts[slots[i]].target = g}

(* m_vfs_registry_mount_best: of the slots whose target is a prefix of the *)
(* path the longest, and of several mounts on it the first.                *)
BestAt(g) ==
    LET matching == {i \in Slot : slots[i] # NoMount /\ mounts[slots[i]].target <= g}
    IN  {i \in matching : \A j \in matching : mounts[slots[j]].target <= mounts[slots[i]].target}

First(is) == IF is = {} THEN NoMount ELSE slots[CHOOSE i \in is : \A j \in is : i <= j]

Scan(t) ==
    /\ At(t, "scan")
    /\ LET g == call[t].target IN
        call' = [call EXCEPT ![t].mount = First(IF call[t].kind = "open" THEN BestAt(g)
                                                                           ELSE FoundAt(g))]
    /\ Goto(t, "read_unlock")
    /\ UNCHANGED <<types, regVars, lockVars, mounts, files, halted>>

(* The root, if the mount still has one, is acquired and walked from; what *)
(* is found is held by a descriptor, or let go again.                      *)
Resolve(t) ==
    /\ At(t, "resolve")
    /\ IF mounts[call[t].mount].root
       THEN /\ mounts' = [mounts EXCEPT ![call[t].mount].held = @ + 1]
            /\ Goto(t, "lookup") /\ UNCHANGED call
       ELSE Return(t) /\ UNCHANGED mounts
    /\ UNCHANGED <<types, regVars, lockVars, files, halted>>

Lookup(t) ==
    /\ At(t, "lookup")
    /\ mounts' = [mounts EXCEPT ![call[t].mount].held = @ - 1]
    /\ \/ files' = [files EXCEPT ![t][call[t].mount] = @ + 1]
       \/ UNCHANGED files
    /\ Return(t)
    /\ UNCHANGED <<types, regVars, lockVars, halted>>

Close(t) ==
    /\ Calling(t, "open")
    /\ \E m \in Mount : files[t][m] > 0 /\ files' = [files EXCEPT ![t][m] = @ - 1]
    /\ UNCHANGED <<types, regVars, lockVars, mounts, halted, pc, call>>

(* _m_vfs_mount_teardown. Any node of the mount makes it busy, also its    *)
(* own root; by force, its descriptors are closed first.                   *)
HasNodes(m) == mounts[m].root \/ mounts[m].held > 0 \/ \E t \in Task : files[t][m] > 0

Busy(t) ==
    /\ At(t, "teardown") /\ call[t].kind = "unmount" /\ HasNodes(call[t].mount)
    /\ Return(t)
    /\ UNCHANGED <<types, regVars, lockVars, mounts, files, halted>>

CloseFiles(t) ==
    /\ At(t, "teardown")
    /\ IF call[t].kind = "force"
       THEN files' = [u \in Task |-> [files[u] EXCEPT ![call[t].mount] = 0]]
       ELSE ~HasNodes(call[t].mount) /\ UNCHANGED files
    /\ Goto(t, "write_flag")
    /\ UNCHANGED <<types, regVars, lockVars, mounts, halted, call>>

(* Mutant: it trusts the slot.                                             *)
RemoveAny(t) ==
    /\ At(t, "remove")
    /\ LET m == call[t].mount IN
        IF mounts[m].made
        THEN /\ slots' = [i \in Slot |-> IF i = mounts[m].index THEN NoMount ELSE slots[i]]
             /\ count' = count - 1
             /\ mounts' = [mounts EXCEPT ![m].index = 0]
        ELSE UNCHANGED <<slots, count, mounts>>
    /\ Goto(t, "write_unlock")
    /\ UNCHANGED <<types, sequence, lockVars, files, halted, call>>

(* m_vfs_registry_mount_remove, also of a mount that another task has      *)
(* removed since it was found.                                             *)
Remove(t) ==
    /\ At(t, "remove")
    /\ LET m == call[t].mount IN
        IF \E i \in Slot : mounts[m].index = i /\ slots[i] = m
        THEN /\ slots' = [slots EXCEPT ![mounts[m].index] = NoMount]
             /\ count' = count - 1
             /\ mounts' = [mounts EXCEPT ![m].index = 0]
        ELSE UNCHANGED <<slots, count, mounts>>
    /\ Goto(t, "write_unlock")
    /\ UNCHANGED <<types, sequence, lockVars, files, halted, call>>

(* The type's unmount operation releases the root; the mount is freed.     *)
Unmount(t) ==
    /\ At(t, "unmount")
    /\ mounts' = [mounts EXCEPT ![call[t].mount].root = FALSE, ![call[t].mount].freed = TRUE]
    /\ Return(t)
    /\ UNCHANGED <<types, regVars, lockVars, files, halted>>

-----------------------------------------------------------------------------
(* m_vfs_fs_type_register and _unregister, in the critical section of the  *)
(* types. To see whether the type is mounted, unregister takes the lock    *)
(* of readers there: a writer that holds it cannot run to give it back.    *)
TypeRegister(t) ==
    /\ Calling(t, "types")
    /\ \E y \in FsType \ types : types' = types \cup {y}
    /\ UNCHANGED <<regVars, lockVars, mounts, files, halted, pc, call>>

TypeUnregister(t) ==
    /\ Calling(t, "types")
    /\ \E y \in types :
        IF writer THEN halted' = TRUE /\ UNCHANGED types
        ELSE /\ \A i \in Slot : slots[i] # NoMount => mounts[slots[i]].type # y
             /\ types' = types \ {y}
             /\ UNCHANGED halted
    /\ UNCHANGED <<regVars, lockVars, mounts, files, pc, call>>

-----------------------------------------------------------------------------
Init ==
    /\ types = FsType
    /\ slots = [i \in Slot |-> NoMount] /\ count = 0 /\ sequence = 0
    /\ writer = FALSE /\ readers = 0
    /\ mounts = [m \in Mount |-> [made |-> FALSE, freed |-> FALSE, target |-> 0,
                    type |-> CHOOSE y \in FsType : TRUE,
                    index |-> 0, sequence |-> 0, root |-> FALSE, held |-> 0]]
    /\ files = [t \in Task |-> [m \in Mount |-> 0]]
    /\ halted = FALSE
    /\ pc = [t \in Task |-> "idle"] /\ call = [t \in Task |-> Idle]

Step(t) ==
    \/ ReadSpin(t) \/ ReadEnter(t) \/ ReadCheck(t) \/ ReadBack(t) \/ ReadUnlock(t)
    \/ WriteFlag(t) \/ WriteDrain(t) \/ WriteUnlock(t) \/ PickSlot(t) \/ Store(t) \/ Undo(t)
    \/ Scan(t) \/ Resolve(t) \/ Lookup(t) \/ Busy(t) \/ CloseFiles(t) \/ Remove(t) \/ Unmount(t)

Calls(t) == MountCall(t) \/ Search(t) \/ Close(t) \/ TypeRegister(t) \/ TypeUnregister(t)

Next == \E t \in Task : Calls(t) \/ Step(t)

Spec == Init /\ [][Next]_vars

(* taskYIELD lets every task of the spinning one's priority run.           *)
FairSpec == Spec /\ \A t \in Task : WF_vars(Step(t))

-----------------------------------------------------------------------------
(* Every variable has its type.                                            *)
TypeOK ==
    /\ types \subseteq FsType /\ slots \in [Slot -> Mount \cup {NoMount}]
    /\ count \in 0 .. MaxMounts /\ sequence \in Nat
    /\ writer \in BOOLEAN /\ readers \in 0 .. Cardinality(Task)
    /\ mounts \in [Mount -> [made : BOOLEAN, freed : BOOLEAN, target : Target \cup {0},
                             type : FsType, index : 0 .. MaxMounts, sequence : Nat,
                             root : BOOLEAN, held : Nat]]
    /\ files \in [Task -> [Mount -> Nat]] /\ halted \in BOOLEAN
    /\ DOMAIN pc = Task /\ call \in [Task -> [kind : {"none", "mount", "unmount", "force", "open"},
                            target : Target \cup {0}, mount : Mount \cup {NoMount},
                            slot : 0 .. MaxMounts]]

(* The slots, their number and the mounts agree whatever tasks mount and   *)
(* unmount at a time, the same mount too: a slot points to a mount that    *)
(* has this slot and is not freed, and count is how many there are.        *)
RegistryConsistent ==
    /\ \A i \in Slot : slots[i] # NoMount => mounts[slots[i]].index = i /\ ~mounts[slots[i]].freed
    /\ \A m \in Mount : mounts[m].index # 0 => slots[mounts[m].index] = m
    /\ count = Cardinality({i \in Slot : slots[i] # NoMount})

(* The mount a reader has in hand is not freed, nor its slot cleared,      *)
(* before the reader gives the lock back, although readers and writers     *)
(* announce themselves in two steps.                                       *)
ReadersSeeLive ==
    \A t \in Task : pc[t] = "read_unlock" /\ call[t].mount # NoMount =>
        ~mounts[call[t].mount].freed /\ mounts[call[t].mount].index # 0

(* A writer gets in, however many readers come and come again.             *)
WriterEnters == \A t \in Task : pc[t] = "write_drain" ~> pc[t] # "write_drain"

=============================================================================
