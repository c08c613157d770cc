--------------------------- MODULE VfsMountProofs ---------------------------
(***************************************************************************)
(* Proofs about VfsMount, for every number of tasks, mounts and slots.     *)
(*                                                                         *)
(* LockInv says what the flag and the counter are worth: the flag is set   *)
(* by one writer at a time, and once a writer is past the counter no       *)
(* reader looks at the registry, although a reader that came late is       *)
(* still counted.  MountInv says who may have a mount in hand while it is  *)
(* being put into a slot, or after it was taken out; with the lock it      *)
(* makes RegistryConsistent and ReadersSeeLive inductive.                  *)
(***************************************************************************)
EXTENDS VfsMount, FiniteSetTheorems, TLAPS

(* The places a task can be at, and what its call can have in hand.        *)
Label == {"idle", "read_spin", "read_enter", "read_check", "read_back", "scan", "read_unlock",
          "write_flag", "write_drain", "pick_slot", "store", "remove", "write_unlock",
          "undo", "unmount", "teardown", "resolve", "lookup"}

Maybe == Mount \cup {NoMount}

MountType == [made : BOOLEAN, freed : BOOLEAN, target : Target \cup {0}, type : FsType,
              index : 0 .. MaxMounts, sequence : Nat, root : BOOLEAN, held : Int]

CallType == [kind : {"none", "mount", "unmount", "force", "open"}, target : Target \cup {0},
             mount : Maybe, slot : 0 .. MaxMounts]

Searches == {"unmount", "force", "open"}

(* What the proofs need of the types.                                      *)
Types ==
    /\ types \subseteq FsType
    /\ slots \in [Slot -> Maybe]
    /\ count \in Int
    /\ sequence \in Nat
    /\ readers \in Int
    /\ mounts \in [Mount -> MountType]
    /\ pc \in [Task -> Label]
    /\ call \in [Task -> CallType]

-----------------------------------------------------------------------------
(* What the updates that the actions are made of do.                       *)

(* A call that begins (m_vfs_mount, m_vfs_unmount, m_vfs_open): the        *)
(* caller alone changes, and its record has the fields it was given.       *)
LEMMA CallAsks ==
    ASSUME call \in [Task -> CallType], NEW t \in Task,
           NEW k, k = "mount" \/ k \in Searches, NEW g \in Target, NEW m \in Maybe,
           call' = [call EXCEPT ![t] = Asks(k, g, m)]
    PROVE  /\ call' \in [Task -> CallType]
           /\ call'[t].kind = k /\ call'[t].mount = m /\ call'[t].slot = 0
           /\ \A u \in Task \ {t} : call'[u] = call[u]
  BY MountAssumption DEF CallType, Asks, Searches

(* A reader notes the mount that it found.                                 *)
LEMMA CallMount ==
    ASSUME call \in [Task -> CallType], NEW t \in Task, NEW m \in Maybe,
           call' = [call EXCEPT ![t].mount = m]
    PROVE  /\ call' \in [Task -> CallType]
           /\ call'[t].kind = call[t].kind /\ call'[t].mount = m
           /\ \A u \in Task \ {t} : call'[u] = call[u]
  BY DEF CallType

(* m_vfs_registry_mount_add notes the slot that it picked, 0 if there is   *)
(* none.                                                                   *)
LEMMA CallSlot ==
    ASSUME call \in [Task -> CallType], NEW t \in Task, NEW i \in 0 .. MaxMounts,
           call' = [call EXCEPT ![t].slot = i]
    PROVE  /\ call' \in [Task -> CallType]
           /\ call'[t].kind = call[t].kind /\ call'[t].mount = call[t].mount /\ call'[t].slot = i
           /\ \A u \in Task \ {t} : call'[u] = call[u]
  BY DEF CallType

(* A call that ends leaves its task idle, with no mount in hand.           *)
LEMMA Returned ==
    ASSUME pc \in [Task -> Label], call \in [Task -> CallType], NEW t \in Task, Return(t)
    PROVE  /\ pc' = [pc EXCEPT ![t] = "idle"] /\ pc' \in [Task -> Label]
           /\ call' \in [Task -> CallType]
           /\ call'[t].kind = "none" /\ call'[t].mount = NoMount
           /\ \A u \in Task \ {t} : call'[u] = call[u]
  BY MountAssumption DEF Return, Goto, Idle, Asks, Label, CallType, Maybe

(* A step moves its own task and no other.                                 *)
LEMMA Went ==
    ASSUME pc \in [Task -> Label], NEW t \in Task, NEW l \in Label, Goto(t, l)
    PROVE  pc' = [pc EXCEPT ![t] = l] /\ pc' \in [Task -> Label]
  BY DEF Goto

(* _m_vfs_mount_setup: the mount is made, and is in no slot.               *)
LEMMA MountMade ==
    ASSUME mounts \in [Mount -> MountType], NEW m \in Mount, NEW g \in Target, NEW y \in FsType,
           mounts' = [mounts EXCEPT ![m] = [made |-> TRUE, freed |-> FALSE, target |-> g,
                           type |-> y, index |-> 0, sequence |-> 0, root |-> TRUE, held |-> 0]]
    PROVE  /\ mounts' \in [Mount -> MountType]
           /\ mounts'[m].made = TRUE /\ mounts'[m].freed = FALSE
           /\ mounts'[m].index = 0 /\ mounts'[m].sequence = 0
           /\ \A n \in Mount \ {m} : mounts'[n] = mounts[n]
  BY MountAssumption DEF MountType

(* m_vfs_registry_mount_add: the mount has its slot and its sequence       *)
(* number.                                                                 *)
LEMMA MountStored ==
    ASSUME mounts \in [Mount -> MountType], NEW m \in Mount, NEW i \in 0 .. MaxMounts,
           NEW q \in Nat,
           mounts' = [mounts EXCEPT ![m].index = i, ![m].sequence = q]
    PROVE  /\ mounts' \in [Mount -> MountType]
           /\ mounts'[m].made = mounts[m].made /\ mounts'[m].freed = mounts[m].freed
           /\ mounts'[m].index = i /\ mounts'[m].sequence = q
           /\ \A n \in Mount \ {m} : mounts'[n] = mounts[n]
  BY DEF MountType

(* m_vfs_registry_mount_remove: the mount is in no slot, and keeps its     *)
(* number.                                                                 *)
LEMMA MountRemoved ==
    ASSUME mounts \in [Mount -> MountType], NEW m \in Mount,
           mounts' = [mounts EXCEPT ![m].index = 0]
    PROVE  /\ mounts' \in [Mount -> MountType]
           /\ mounts'[m].made = mounts[m].made /\ mounts'[m].freed = mounts[m].freed
           /\ mounts'[m].index = 0 /\ mounts'[m].sequence = mounts[m].sequence
           /\ \A n \in Mount \ {m} : mounts'[n] = mounts[n]
  BY MountAssumption DEF MountType

(* The mount is freed: nothing the registry reads of it changes.           *)
LEMMA MountFreed ==
    ASSUME mounts \in [Mount -> MountType], NEW m \in Mount,
           mounts' = [mounts EXCEPT ![m].root = FALSE, ![m].freed = TRUE]
    PROVE  /\ mounts' \in [Mount -> MountType]
           /\ mounts'[m].made = mounts[m].made /\ mounts'[m].freed = TRUE
           /\ mounts'[m].index = mounts[m].index /\ mounts'[m].sequence = mounts[m].sequence
           /\ \A n \in Mount \ {m} : mounts'[n] = mounts[n]
  BY DEF MountType

(* Nodes come and go: nothing the registry reads of a mount changes.       *)
LEMMA MountHeld ==
    ASSUME mounts \in [Mount -> MountType], NEW m,
           \/ mounts' = [mounts EXCEPT ![m].held = @ + 1]
           \/ mounts' = [mounts EXCEPT ![m].held = @ - 1]
    PROVE  /\ mounts' \in [Mount -> MountType]
           /\ \A n \in Mount : /\ mounts'[n].made = mounts[n].made
                               /\ mounts'[n].freed = mounts[n].freed
                               /\ mounts'[n].index = mounts[n].index
                               /\ mounts'[n].sequence = mounts[n].sequence
<1>1. CASE m \notin Mount
  <2>1. mounts' = mounts
    BY <1>1
  <2> QED BY <2>1
<1>2. CASE m \in Mount
  <2>1. mounts[m].held \in Int
    BY <1>2 DEF MountType
  <2> QED BY <1>2, <2>1 DEF MountType
<1> QED BY <1>1, <1>2

-----------------------------------------------------------------------------
(* The lock.                                                               *)

(* Readers between the two changes of the counter, those of them that      *)
(* look at the registry, writers that have the flag, and those past the    *)
(* counter.                                                                *)
Counted == {"read_check", "read_back", "scan", "read_unlock"}
Looking == {"scan", "read_unlock"}
Holding == {"write_drain", "pick_slot", "store", "remove", "write_unlock"}
Inside  == {"pick_slot", "store", "remove", "write_unlock"}

Readers == {t \in Task : pc[t] \in Counted}

(* The flag belongs to one writer, the counter counts the readers, and     *)
(* nobody looks at the registry while a writer is inside.                  *)
LockInv ==
    /\ \A t \in Task : pc[t] \in Holding => writer = TRUE
    /\ \A t, u \in Task : pc[t] \in Holding /\ pc[u] \in Holding => t = u
    /\ readers = Cardinality(Readers)
    /\ \A t, u \in Task : pc[t] \in Inside => pc[u] \notin Looking

(* The readers that are counted are finitely many.                         *)
LEMMA ReadersFinite == IsFiniteSet(Readers) /\ Cardinality(Readers) \in Nat
<1>1. Readers \subseteq Task
  BY DEF Readers
<1>2. IsFiniteSet(Readers)
  BY <1>1, FS_Subset, MountAssumption
<1> QED BY <1>2, FS_CardinalityType

(* A step that leaves the lock alone and does not enter anything.          *)
LEMMA LockKept ==
    ASSUME LockInv, NEW t \in Task, NEW l \in Label, pc \in [Task -> Label],
           pc' = [pc EXCEPT ![t] = l], UNCHANGED lockVars,
           pc[t] \in Counted <=> l \in Counted,
           l \in Looking => pc[t] \in Looking,
           l \in Holding => pc[t] \in Holding,
           l \in Inside => pc[t] \in Inside
    PROVE  LockInv'
<1>1. Readers' = Readers
  BY DEF Readers
<1>2. \A u \in Task : /\ pc'[u] \in Holding => pc[u] \in Holding
                      /\ pc'[u] \in Inside => pc[u] \in Inside
                      /\ pc'[u] \in Looking => pc[u] \in Looking
  BY DEF Holding, Inside, Looking
<1>3. writer' = writer /\ readers' = readers
  BY DEF lockVars
<1> QED BY ONLY LockInv, <1>1, <1>2, <1>3 DEF LockInv

(* _m_vfs_mount_read_lock and _read_unlock change the counter by one as    *)
(* the task becomes a counted reader, or is one no more.                   *)
LEMMA LockReader ==
    ASSUME LockInv, NEW t \in Task, NEW l \in Label, pc \in [Task -> Label],
           pc' = [pc EXCEPT ![t] = l], writer' = writer, l \notin Holding, l \notin Looking,
           \/ readers' = readers + 1 /\ pc[t] \notin Counted /\ l \in Counted
           \/ readers' = readers - 1 /\ pc[t] \in Counted /\ l \notin Counted
    PROVE  LockInv'
<1>1. \A u \in Task : /\ pc'[u] \in Holding => pc[u] \in Holding
                      /\ pc'[u] \in Inside => pc[u] \in Inside
                      /\ pc'[u] \in Looking => pc[u] \in Looking
  BY DEF Holding, Inside, Looking
<1>2. CASE readers' = readers + 1 /\ pc[t] \notin Counted /\ l \in Counted
  <2>1. Readers' = Readers \cup {t} /\ t \notin Readers
    BY <1>2 DEF Readers
  <2>2. Cardinality(Readers') = Cardinality(Readers) + 1
    BY <2>1, ReadersFinite, FS_AddElement
  <2>3. readers' = Cardinality(Readers')
    BY <1>2, <2>2 DEF LockInv
  <2> QED BY ONLY LockInv, <1>1, <2>3, writer' = writer DEF LockInv
<1>3. CASE readers' = readers - 1 /\ pc[t] \in Counted /\ l \notin Counted
  <2>1. Readers' = Readers \ {t} /\ t \in Readers
    BY <1>3 DEF Readers
  <2>2. Cardinality(Readers') = Cardinality(Readers) - 1
    BY <2>1, ReadersFinite, FS_RemoveElement
  <2>3. readers' = Cardinality(Readers')
    BY <1>3, <2>2 DEF LockInv
  <2> QED BY ONLY LockInv, <1>1, <2>3, writer' = writer DEF LockInv
<1> QED BY <1>2, <1>3

(* A reader that finds no writer looks: nobody holds the flag.             *)
LEMMA LockLooks ==
    ASSUME LockInv, NEW t \in Task, pc \in [Task -> Label], ~writer,
           pc[t] = "read_check", pc' = [pc EXCEPT ![t] = "scan"], UNCHANGED lockVars
    PROVE  LockInv'
<1>1. Readers' = Readers
  BY DEF Readers, Counted
<1>2. \A u \in Task : pc[u] \notin Holding
  BY Zenon DEF LockInv
<1>3. \A u \in Task : pc'[u] \notin Holding /\ pc'[u] \notin Inside
  BY <1>2 DEF Holding, Inside
<1>4. writer' = writer /\ readers' = readers
  BY DEF lockVars
<1> QED BY ONLY LockInv, <1>1, <1>3, <1>4 DEF LockInv

(* A writer sets the flag that nobody had set.                             *)
LEMMA LockFlag ==
    ASSUME LockInv, NEW t \in Task, pc \in [Task -> Label], ~writer,
           pc[t] = "write_flag", pc' = [pc EXCEPT ![t] = "write_drain"],
           writer' = TRUE, readers' = readers
    PROVE  LockInv'
<1>1. Readers' = Readers
  BY DEF Readers, Counted
<1>2. \A u \in Task : pc[u] \notin Holding
  BY Zenon DEF LockInv
<1>3. \A u \in Task : /\ pc'[u] \in Holding => u = t
                      /\ pc'[u] \notin Inside
  BY <1>2 DEF Holding, Inside
<1> QED BY ONLY LockInv, <1>1, <1>3, writer' = TRUE, readers' = readers DEF LockInv

(* It goes on when nobody is counted, so nobody looks.                     *)
LEMMA LockDrained ==
    ASSUME LockInv, NEW t \in Task, NEW l \in {"pick_slot", "remove"}, pc \in [Task -> Label],
           readers = 0, pc[t] = "write_drain", pc' = [pc EXCEPT ![t] = l], UNCHANGED lockVars
    PROVE  LockInv'
<1>1. Readers' = Readers
  BY DEF Readers, Counted
<1>2. Readers = {}
  BY ReadersFinite, FS_EmptySet DEF LockInv
<1>3. \A u \in Task : pc'[u] \notin Looking
  BY <1>2 DEF Readers, Counted, Looking
<1>4. \A u \in Task : pc'[u] \in Holding => pc[u] \in Holding
  BY DEF Holding
<1>5. writer' = writer /\ readers' = readers
  BY DEF lockVars
<1> QED BY ONLY LockInv, <1>1, <1>3, <1>4, <1>5 DEF LockInv

(* The one writer gives the flag back.                                     *)
LEMMA LockGiven ==
    ASSUME LockInv, NEW t \in Task, NEW l \in {"unmount", "undo", "idle"}, pc \in [Task -> Label],
           pc[t] = "write_unlock", pc' = [pc EXCEPT ![t] = l], writer' = FALSE,
           readers' = readers
    PROVE  LockInv'
<1>1. Readers' = Readers
  BY DEF Readers, Counted
<1>2. \A u \in Task : pc[u] \in Holding => u = t
  BY DEF LockInv, Holding
<1>3. \A u \in Task : pc'[u] \notin Holding /\ pc'[u] \notin Inside
  BY <1>2 DEF Holding, Inside
<1> QED BY ONLY LockInv, <1>1, <1>3, readers' = readers DEF LockInv

-----------------------------------------------------------------------------
(* The mounts.                                                             *)

(* The task has a mount in hand that is in no slot yet.                    *)
NewIn(t) ==
    /\ call[t].kind = "mount"
    /\ \/ pc[t] \in {"write_flag", "write_drain", "pick_slot", "store", "undo"}
       \/ pc[t] = "write_unlock" /\ call[t].slot = 0

(* It has one that it has taken out of its slot.                           *)
OldIn(t) ==
    \/ pc[t] = "unmount"
    \/ pc[t] = "write_unlock" /\ call[t].kind # "mount"

(* Which calls come to which place.                                        *)
KindOf(t) ==
    /\ pc[t] \in {"pick_slot", "store", "undo"} => call[t].kind = "mount"
    /\ pc[t] \in {"read_spin", "read_enter", "read_check", "read_back", "scan", "read_unlock",
                  "resolve", "lookup", "teardown", "remove", "unmount"}
          => call[t].kind \in Searches
    /\ pc[t] \in {"write_flag", "write_drain", "write_unlock"} => call[t].kind # "none"
    /\ pc[t] \in {"teardown", "remove", "unmount", "write_flag", "write_drain", "write_unlock",
                  "pick_slot", "store", "undo"}
          => call[t].mount \in Mount

(* What is known of the mount in hand: it was made; a mount that has no    *)
(* sequence number was never in a slot, and is not freed while it is on    *)
(* the way to one.                                                         *)
MountOf(t) ==
    /\ call[t].kind # "none" /\ call[t].mount \in Mount =>
          /\ mounts[call[t].mount].made = TRUE
          /\ call[t].kind \in Searches => mounts[call[t].mount].sequence # 0
    /\ NewIn(t) => mounts[call[t].mount].sequence = 0 /\ mounts[call[t].mount].freed = FALSE
    /\ OldIn(t) => mounts[call[t].mount].index = 0
    /\ pc[t] = "store" => call[t].slot \in Slot /\ slots[call[t].slot] = NoMount
    /\ pc[t] = "read_unlock" /\ call[t].mount \in Mount => mounts[call[t].mount].index # 0

(* Nobody else has a mount in hand before it is in its slot.               *)
NewAlone ==
    \A t, u \in Task : NewIn(t) /\ NewIn(u) /\ call[t].mount = call[u].mount => t = u

Used == {i \in Slot : slots[i] # NoMount}

(* The slots, their number and the mounts agree.                           *)
SlotsInv ==
    /\ \A i \in Slot : slots[i] # NoMount =>
          /\ mounts[slots[i]].index = i
          /\ mounts[slots[i]].made = TRUE /\ mounts[slots[i]].freed = FALSE
          /\ mounts[slots[i]].sequence # 0
    /\ \A m \in Mount : mounts[m].index # 0 => slots[mounts[m].index] = m
    /\ count = Cardinality(Used)

MountInv ==
    /\ \A t \in Task : KindOf(t) /\ MountOf(t)
    /\ NewAlone
    /\ SlotsInv

RegInv == Types /\ LockInv /\ MountInv

(* What a step of t does not touch: the other tasks, the slots and what    *)
(* the invariant says of the mounts.                                       *)
Others(t) ==
    \A u \in Task \ {t} : pc'[u] = pc[u] /\ call'[u] = call[u]

Registered ==
    /\ slots' = slots /\ count' = count
    /\ \A m \in Mount : /\ mounts'[m].made = mounts[m].made
                        /\ mounts'[m].freed = mounts[m].freed
                        /\ mounts'[m].index = mounts[m].index
                        /\ mounts'[m].sequence = mounts[m].sequence

(* A set of slots that is not empty has a first one, which is what a scan  *)
(* of the table from its start finds.                                      *)
LEMMA LeastOfNaturals ==
    ASSUME NEW S \in SUBSET Nat, S # {}
    PROVE  \E i \in S : \A j \in S : i <= j
<1> DEFINE R == OpToRel(<, Nat)
<1>1. IsWellFoundedOn(R, Nat)
  BY NatLessThanWellFounded
<1>2. PICK i \in S : \A j \in S : <<j, i>> \notin R
  BY <1>1, WFMin
<1>3. \A j \in S : ~ (j < i)
  BY <1>2 DEF OpToRel
<1> QED BY <1>3

(* A mount names a slot of the table or none.                              *)
LEMMA IndexType ==
    ASSUME mounts \in [Mount -> MountType], NEW m \in Mount
    PROVE  mounts[m].index \in 0 .. MaxMounts
  BY DEF MountType

(* A step of t says nothing about the call another task is in.             *)
LEMMA KindMove ==
    ASSUME MountInv, NEW t \in Task, Others(t), KindOf(t)'
    PROVE  \A u \in Task : KindOf(u)'
<1>1. ASSUME NEW u \in Task \ {t} PROVE KindOf(u)'
  <2>1. KindOf(u) /\ pc'[u] = pc[u] /\ call'[u] = call[u]
    BY DEF MountInv, Others
  <2> QED BY ONLY <2>1 DEF KindOf
<1> QED BY <1>1

(* The slots stay right when neither they nor the mounts change in what    *)
(* the registry reads.                                                     *)
LEMMA RegisteredKeepsSlots ==
    ASSUME Types, Types', MountInv, Registered
    PROVE  SlotsInv'
<1>1. \A i \in Slot : slots[i] # NoMount => slots[i] \in Mount
  BY DEF Types, Maybe
<1>2. Used' = Used
  BY DEF Used, Registered
<1> QED BY <1>1, <1>2, IndexType DEF Types, MountInv, SlotsInv, Registered

(* A step of t that leaves slots and mounts alone, and takes no new mount  *)
(* in hand.                                                                *)
LEMMA RegisteredKeepsMounts ==
    ASSUME Types, Types', MountInv, Registered, NEW t \in Task, Others(t), KindOf(t)', MountOf(t)',
           NewIn(t)' => NewIn(t) /\ call'[t].mount = call[t].mount
    PROVE  MountInv'
<1>1. \A u \in Task : KindOf(u)'
  BY KindMove
<1>2. ASSUME NEW u \in Task \ {t} PROVE MountOf(u)'
  <2>1. MountOf(u) /\ KindOf(u) /\ pc'[u] = pc[u] /\ call'[u] = call[u]
    BY DEF MountInv, Others
  <2> QED BY ONLY <2>1, Registered DEF MountOf, KindOf, Registered, NewIn, OldIn
<1>3. \A u \in Task \ {t} : NewIn(u)' <=> NewIn(u)
  BY DEF NewIn, Others
<1>4. NewAlone'
  BY <1>3 DEF NewAlone, MountInv, Others
<1>5. SlotsInv'
  BY RegisteredKeepsSlots
<1> QED BY <1>1, <1>2, <1>4, <1>5 DEF MountInv

-----------------------------------------------------------------------------
(* The steps. Most of them only move a task.                               *)

(* A step that only moves its task: what is left to show is the lock, and  *)
(* what is said of the task itself.                                        *)
LEMMA QuietMove ==
    ASSUME RegInv, NEW t \in Task, NEW l \in Label, pc' = [pc EXCEPT ![t] = l],
           UNCHANGED <<types, slots, count, sequence, mounts, call>>, readers' \in Int,
           LockInv', KindOf(t)', MountOf(t)', NewIn(t)' => NewIn(t)
    PROVE  RegInv'
<1>1. Types'
  BY DEF RegInv, Types
<1>2. Others(t) /\ Registered
  BY DEF Others, Registered, RegInv, Types
<1>3. MountInv'
  BY <1>1, <1>2, RegisteredKeepsMounts DEF RegInv
<1> QED BY <1>1, <1>3 DEF RegInv

(* The steps in which a reader announces itself keep the invariant         *)
(* (_m_vfs_mount_read_lock).                                               *)
LEMMA InvReader ==
    ASSUME RegInv, NEW t \in Task,
           ReadSpin(t) \/ ReadEnter(t) \/ ReadCheck(t) \/ ReadBack(t)
    PROVE  RegInv'
<1> DEFINE Spinning == {"read_spin", "read_enter", "read_check", "read_back"}
<1> USE DEF At, Label
<1>1. UNCHANGED <<types, slots, count, sequence, mounts, call, writer>> /\ pc[t] \in Spinning
  BY DEF ReadSpin, ReadEnter, ReadCheck, ReadBack, regVars, lockVars
<1>2. pc \in [Task -> Label] /\ readers \in Int /\ LockInv /\ KindOf(t) /\ MountOf(t)
  BY DEF RegInv, Types, MountInv
<1>3. ASSUME NEW l \in Spinning \cup {"scan"}, pc' = [pc EXCEPT ![t] = l] PROVE
      KindOf(t)' /\ MountOf(t)' /\ ~NewIn(t)'
  BY <1>1, <1>2, <1>3 DEF KindOf, MountOf, NewIn, OldIn
<1>4. CASE ReadSpin(t)
  <2>1. pc[t] = "read_spin" /\ pc' = [pc EXCEPT ![t] = "read_enter"] /\ UNCHANGED lockVars
    BY <1>4 DEF ReadSpin, Goto
  <2>2. LockInv'
    BY <1>2, <2>1, LockKept DEF Counted, Looking, Holding, Inside
  <2> QED BY <1>1, <1>2, <1>3, <2>1, <2>2, QuietMove DEF lockVars
<1>5. CASE ReadEnter(t)
  <2>1. /\ pc[t] = "read_enter" /\ pc' = [pc EXCEPT ![t] = "read_check"]
        /\ readers' = readers + 1 /\ readers' \in Int
    BY <1>2, <1>5 DEF ReadEnter, Goto
  <2>2. LockInv'
    BY <1>1, <1>2, <2>1, LockReader DEF Counted, Looking, Holding, Inside
  <2> QED BY <1>1, <1>2, <1>3, <2>1, <2>2, QuietMove
<1>6. CASE ReadBack(t)
  <2>1. /\ pc[t] = "read_back" /\ pc' = [pc EXCEPT ![t] = "read_spin"]
        /\ readers' = readers - 1 /\ readers' \in Int
    BY <1>2, <1>6 DEF ReadBack, Goto
  <2>2. LockInv'
    BY <1>1, <1>2, <2>1, LockReader DEF Counted, Looking, Holding, Inside
  <2> QED BY <1>1, <1>2, <1>3, <2>1, <2>2, QuietMove
<1>7. CASE ReadCheck(t)
  <2>1. pc[t] = "read_check" /\ UNCHANGED lockVars
    BY <1>7 DEF ReadCheck
  <2>2. \/ pc' = [pc EXCEPT ![t] = "read_back"]
        \/ ~writer /\ pc' = [pc EXCEPT ![t] = "scan"]
    BY <1>7, Zenon DEF ReadCheck, Goto
  <2>3. CASE pc' = [pc EXCEPT ![t] = "read_back"]
    <3>1. LockInv'
      BY <1>2, <2>1, <2>3, LockKept DEF Counted, Looking, Holding, Inside
    <3> QED BY <1>1, <1>2, <1>3, <2>1, <2>3, <3>1, QuietMove DEF lockVars
  <2>4. CASE ~writer /\ pc' = [pc EXCEPT ![t] = "scan"]
    <3>1. LockInv'
      BY <1>2, <2>1, <2>4, LockLooks
    <3> QED BY <1>1, <1>2, <1>3, <2>1, <2>4, <3>1, QuietMove DEF lockVars
  <2> QED BY <2>2, <2>3, <2>4
<1> QED BY <1>4, <1>5, <1>6, <1>7

(* A reader gives the lock back and goes on with what it found, or         *)
(* without.                                                                *)
LEMMA InvReadUnlock ==
    ASSUME RegInv, NEW t \in Task, ReadUnlock(t)
    PROVE  RegInv'
<1>1. /\ UNCHANGED <<types, slots, count, sequence, mounts, writer>>
      /\ pc[t] = "read_unlock" /\ readers' = readers - 1
  BY DEF ReadUnlock, regVars, At
<1>2. Types /\ LockInv /\ MountInv /\ KindOf(t) /\ MountOf(t)
  BY DEF RegInv, MountInv
<1>3. CASE Return(t)
  <2>1. /\ pc' = [pc EXCEPT ![t] = "idle"] /\ pc' \in [Task -> Label]
        /\ call' \in [Task -> CallType] /\ call'[t].kind = "none"
        /\ \A u \in Task \ {t} : call'[u] = call[u]
    BY <1>2, <1>3, Returned DEF Types
  <2>2. Types'
    BY <1>1, <1>2, <2>1 DEF Types
  <2>3. LockInv'
    BY <1>1, <1>2, <2>1, LockReader DEF Counted, Looking, Holding, Inside, Types, Label
  <2>4. Others(t) /\ Registered /\ KindOf(t)' /\ MountOf(t)' /\ ~NewIn(t)'
    BY <1>1, <1>2, <2>1 DEF Others, Registered, Types, KindOf, MountOf, NewIn, OldIn
  <2> QED BY <1>2, <2>2, <2>3, <2>4, RegisteredKeepsMounts DEF RegInv
<1>4. CASE call[t].mount # NoMount /\ call' = call /\ \E l \in {"resolve", "teardown"} : Goto(t, l)
  <2>1. PICK l \in {"resolve", "teardown"} : pc' = [pc EXCEPT ![t] = l]
    BY <1>4 DEF Goto
  <2>2. LockInv'
    BY <1>1, <1>2, <2>1, LockReader DEF Counted, Looking, Holding, Inside, Types, Label
  <2>3. call[t].mount \in Mount
    BY <1>2, <1>4 DEF Types, CallType, Maybe
  <2>4. KindOf(t)' /\ MountOf(t)' /\ ~NewIn(t)'
    BY <1>1, <1>2, <1>4, <2>1, <2>3 DEF KindOf, MountOf, NewIn, OldIn, Types
  <2>5. readers' \in Int /\ l \in Label
    BY <1>1, <1>2 DEF Types, Label
  <2> QED BY <1>1, <1>4, <2>1, <2>2, <2>4, <2>5, QuietMove
<1> QED BY <1>3, <1>4 DEF ReadUnlock

(* What a reader finds is in a slot; it stays there while the reader looks. *)
LEMMA InvScan ==
    ASSUME RegInv, NEW t \in Task, Scan(t)
    PROVE  RegInv'
<1> DEFINE place == IF call[t].kind = "open" THEN BestAt(call[t].target)
                                             ELSE FoundAt(call[t].target)
           found == First(place)
<1>1. /\ UNCHANGED <<types, slots, count, sequence, mounts>> /\ UNCHANGED lockVars
      /\ pc[t] = "scan" /\ pc' = [pc EXCEPT ![t] = "read_unlock"]
      /\ call' = [call EXCEPT ![t].mount = found]
  BY DEF Scan, regVars, At, Goto
<1>2. Types /\ LockInv /\ MountInv /\ KindOf(t) /\ MountOf(t) /\ SlotsInv
  BY DEF RegInv, MountInv
<1>3. \A is \in SUBSET Slot : First(is) = NoMount \/ \E i \in Slot : First(is) = slots[i]
  <2> SUFFICES ASSUME NEW is \in SUBSET Slot, is # {}
               PROVE  \E i \in Slot : First(is) = slots[i]
    BY DEF First
  <2>1. \E i \in is : \A j \in is : i <= j
    <3>1. is \subseteq Nat
      BY MountAssumption DEF Slot
    <3> QED BY <3>1, LeastOfNaturals
  <2> QED BY <2>1 DEF First
<1>4. found = NoMount \/ \E i \in Slot : found = slots[i]
  <2>1. place \in SUBSET Slot
    BY DEF BestAt, FoundAt
  <2> QED BY <1>3, <2>1
<1> HIDE DEF found
<1>5. found \in Maybe
  BY <1>2, <1>4 DEF Types, Maybe
<1>6. found \in Mount => /\ mounts[found].made = TRUE /\ mounts[found].sequence # 0
                        /\ mounts[found].index # 0
  BY <1>2, <1>4, MountAssumption DEF SlotsInv, Slot
<1>7. /\ call' \in [Task -> CallType] /\ call'[t].kind = call[t].kind
      /\ call'[t].mount = found /\ \A u \in Task \ {t} : call'[u] = call[u]
  BY <1>1, <1>2, <1>5, CallMount DEF Types
<1>8. Types'
  BY <1>1, <1>2, <1>7 DEF Types, Label, lockVars
<1>9. LockInv'
  BY <1>1, <1>2, LockKept DEF Types, Label, Counted, Looking, Holding, Inside
<1>10. Others(t) /\ Registered /\ KindOf(t)' /\ MountOf(t)' /\ ~NewIn(t)'
  BY <1>1, <1>2, <1>6, <1>7 DEF Others, Registered, Types, KindOf, MountOf, NewIn, OldIn
<1> QED BY <1>2, <1>8, <1>9, <1>10, RegisteredKeepsMounts DEF RegInv

(* A writer sets the flag and waits for the counter                        *)
(* (_m_vfs_mount_write_lock).                                              *)
LEMMA InvWriter ==
    ASSUME RegInv, NEW t \in Task, WriteFlag(t) \/ WriteDrain(t)
    PROVE  RegInv'
<1>1. /\ UNCHANGED <<types, slots, count, sequence, mounts, call, readers>>
      /\ pc[t] \in {"write_flag", "write_drain"}
  BY DEF WriteFlag, WriteDrain, regVars, lockVars, At
<1>2. Types /\ LockInv /\ MountInv /\ KindOf(t) /\ MountOf(t) /\ readers' \in Int
  BY <1>1 DEF RegInv, MountInv, Types
<1>3. CASE WriteFlag(t)
  <2>1. /\ pc[t] = "write_flag" /\ pc' = [pc EXCEPT ![t] = "write_drain"]
        /\ ~writer /\ writer' = TRUE
    BY <1>3, Zenon DEF WriteFlag, At, Goto
  <2>2. LockInv'
    BY <1>1, <1>2, <2>1, LockFlag DEF Types
  <2>3. KindOf(t)' /\ MountOf(t)' /\ (NewIn(t)' => NewIn(t))
    BY <1>1, <1>2, <2>1 DEF KindOf, MountOf, NewIn, OldIn, Types
  <2>4. "write_drain" \in Label
    BY DEF Label
  <2> QED BY <1>1, <1>2, <2>1, <2>2, <2>3, <2>4, QuietMove
<1>4. CASE WriteDrain(t)
  <2>1. pc[t] = "write_drain" /\ readers = 0 /\ UNCHANGED lockVars
    BY <1>4 DEF WriteDrain, At
  <2>2. PICK l \in {"pick_slot", "remove"} :
            /\ pc' = [pc EXCEPT ![t] = l]
            /\ l = IF call[t].kind = "mount" THEN "pick_slot" ELSE "remove"
    BY <1>4 DEF WriteDrain, Goto
  <2>3. LockInv'
    BY <1>2, <2>1, <2>2, LockDrained DEF Types
  <2>4. call[t].kind \in {"mount", "unmount", "force", "open"}
    BY <1>2, <2>1 DEF KindOf, Types, CallType
  <2>5. KindOf(t)' /\ MountOf(t)' /\ (NewIn(t)' => NewIn(t))
    BY <1>1, <1>2, <2>1, <2>2, <2>4 DEF KindOf, MountOf, NewIn, OldIn, Types, Searches
  <2>6. l \in Label
    BY DEF Label
  <2> QED BY <1>1, <1>2, <2>2, <2>3, <2>5, <2>6, QuietMove
<1> QED BY <1>3, <1>4

(* A writer gives the lock back: the mount it stored is the registry's,    *)
(* the one it removed is its own.                                          *)
LEMMA InvWriteUnlock ==
    ASSUME RegInv, NEW t \in Task, WriteUnlock(t)
    PROVE  RegInv'
<1>1. /\ UNCHANGED <<types, slots, count, sequence, mounts, readers>>
      /\ pc[t] = "write_unlock" /\ writer' = FALSE
  BY DEF WriteUnlock, regVars, At
<1>2. Types /\ LockInv /\ MountInv /\ KindOf(t) /\ MountOf(t) /\ readers' \in Int
  BY <1>1 DEF RegInv, MountInv, Types
<1>3. call[t].kind \in {"mount", "unmount", "force", "open"}
  BY <1>1, <1>2 DEF KindOf, Types, CallType
<1>4. CASE Return(t)
  <2>1. /\ pc' = [pc EXCEPT ![t] = "idle"] /\ pc' \in [Task -> Label]
        /\ call' \in [Task -> CallType] /\ call'[t].kind = "none"
        /\ \A u \in Task \ {t} : call'[u] = call[u]
    BY <1>2, <1>4, Returned DEF Types
  <2>2. Types'
    BY <1>1, <1>2, <2>1 DEF Types
  <2>3. LockInv'
    BY <1>1, <1>2, <2>1, LockGiven DEF Types
  <2>4. Others(t) /\ Registered /\ KindOf(t)' /\ MountOf(t)' /\ ~NewIn(t)'
    BY <1>1, <1>2, <2>1 DEF Others, Registered, Types, KindOf, MountOf, NewIn, OldIn
  <2> QED BY <1>2, <2>2, <2>3, <2>4, RegisteredKeepsMounts DEF RegInv
<1>5. CASE /\ call' = call
           /\ \/ call[t].kind # "mount" /\ Goto(t, "unmount")
              \/ call[t].kind = "mount" /\ call[t].slot = 0 /\ Goto(t, "undo")
  <2>1. PICK l \in {"unmount", "undo"} :
            /\ pc' = [pc EXCEPT ![t] = l]
            /\ \/ call[t].kind # "mount" /\ l = "unmount"
               \/ call[t].kind = "mount" /\ call[t].slot = 0 /\ l = "undo"
    BY <1>5 DEF Goto
  <2>2. LockInv'
    BY <1>1, <1>2, <2>1, LockGiven DEF Types
  <2>3. KindOf(t)' /\ MountOf(t)' /\ (NewIn(t)' => NewIn(t))
    BY <1>1, <1>2, <1>3, <1>5, <2>1 DEF KindOf, MountOf, NewIn, OldIn, Types, Searches
  <2>4. l \in Label
    BY DEF Label
  <2> QED BY <1>1, <1>2, <1>5, <2>1, <2>2, <2>3, <2>4, QuietMove
<1> QED BY <1>4, <1>5 DEF WriteUnlock

(* m_vfs_registry_mount_add picks the first vacant slot, or finds none.    *)
LEMMA InvPickSlot ==
    ASSUME RegInv, NEW t \in Task, PickSlot(t)
    PROVE  RegInv'
<1>1. /\ UNCHANGED <<types, slots, count, sequence, mounts, readers>> /\ UNCHANGED lockVars
      /\ pc[t] = "pick_slot"
  BY DEF PickSlot, regVars, lockVars, At
<1>2. Types /\ LockInv /\ MountInv /\ KindOf(t) /\ MountOf(t) /\ readers' \in Int
  BY <1>1 DEF RegInv, MountInv, Types
<1>3. CASE Goto(t, "write_unlock") /\ call' = call
  <2>1. pc' = [pc EXCEPT ![t] = "write_unlock"] /\ "write_unlock" \in Label
    BY <1>3 DEF Goto, Label
  <2>2. LockInv'
    BY <1>1, <1>2, <2>1, LockKept DEF Types, Counted, Looking, Holding, Inside
  <2>3. KindOf(t)' /\ MountOf(t)' /\ (NewIn(t)' => NewIn(t))
    BY <1>1, <1>2, <1>3, <2>1 DEF KindOf, MountOf, NewIn, OldIn, Types
  <2> QED BY <1>1, <1>2, <1>3, <2>1, <2>2, <2>3, QuietMove
<1>5. CASE /\ Goto(t, "store")
           /\ \E i \in Slot : slots[i] = NoMount /\ call' = [call EXCEPT ![t].slot = i]
  <2>1. PICK i \in Slot : slots[i] = NoMount /\ call' = [call EXCEPT ![t].slot = i]
    BY <1>5
  <2>2. i \in 0 .. MaxMounts
    BY MountAssumption DEF Slot
  <2>3. /\ call' \in [Task -> CallType] /\ call'[t].kind = call[t].kind
        /\ call'[t].mount = call[t].mount /\ call'[t].slot = i
        /\ \A u \in Task \ {t} : call'[u] = call[u]
    BY <1>2, <2>1, <2>2, CallSlot DEF Types
  <2>4. pc' = [pc EXCEPT ![t] = "store"] /\ "store" \in Label
    BY <1>5 DEF Goto, Label
  <2>5. Types'
    BY <1>1, <1>2, <2>3, <2>4 DEF Types
  <2>6. LockInv'
    BY <1>1, <1>2, <2>4, LockKept DEF Types, Counted, Looking, Holding, Inside
  <2>7. Others(t) /\ Registered /\ KindOf(t)' /\ MountOf(t)' /\ (NewIn(t)' => NewIn(t))
    BY <1>1, <1>2, <2>1, <2>3, <2>4 DEF Others, Registered, Types, KindOf, MountOf, NewIn, OldIn
  <2> QED BY <1>2, <2>3, <2>5, <2>6, <2>7, RegisteredKeepsMounts DEF RegInv
<1> DEFINE vacant == {i \in Slot : slots[i] = NoMount}
<1>6. vacant # {} => (CHOOSE i \in vacant : \A j \in vacant : i <= j) \in vacant
  <2>1. vacant \in SUBSET Nat
    BY MountAssumption DEF Slot
  <2>2. vacant # {} => \E i \in vacant : \A j \in vacant : i <= j
    BY <2>1, LeastOfNaturals
  <2> QED BY <2>2
<1> QED BY <1>3, <1>5, <1>6 DEF PickSlot

(* A call that looks for a mount begins with none in hand.                 *)
LEMMA InvSearch ==
    ASSUME RegInv, NEW t \in Task, Search(t)
    PROVE  RegInv'
<1>1. /\ UNCHANGED <<types, slots, count, sequence, mounts, readers>> /\ UNCHANGED lockVars
      /\ pc[t] = "idle" /\ pc' = [pc EXCEPT ![t] = "read_spin"]
  BY DEF Search, Calling, regVars, lockVars, Goto
<1>2. PICK k \in Searches, g \in Target :
          call' = [call EXCEPT ![t] = Asks(k, g, NoMount)]
  BY Zenon DEF Search, Searches
<1>3. Types /\ LockInv /\ MountInv
  BY DEF RegInv
<1>4. /\ call' \in [Task -> CallType] /\ call'[t].kind = k
      /\ call'[t].mount = NoMount /\ \A u \in Task \ {t} : call'[u] = call[u]
  <2>1. NoMount \in Maybe /\ call \in [Task -> CallType]
    BY <1>3 DEF Types, Maybe
  <2> QED BY <1>2, <2>1, CallAsks
<1>5. Types'
  BY <1>1, <1>3, <1>4 DEF Types, Label
<1>6. LockInv'
  BY <1>1, <1>3, LockKept DEF Types, Label, Counted, Looking, Holding, Inside
<1>7. Others(t) /\ Registered /\ KindOf(t)' /\ MountOf(t)' /\ ~NewIn(t)'
  BY <1>1, <1>3, <1>4, MountAssumption
     DEF Others, Registered, Types, KindOf, MountOf, NewIn, OldIn, Searches
<1> QED BY <1>3, <1>5, <1>6, <1>7, RegisteredKeepsMounts DEF RegInv

(* A step that leaves a call, or ends it, and may count a node.            *)
LEMMA CallEnds ==
    ASSUME RegInv, NEW t \in Task, Return(t), UNCHANGED <<types, slots, count, sequence>>,
           UNCHANGED lockVars, pc[t] \notin Counted, mounts' \in [Mount -> MountType],
           Registered
    PROVE  RegInv'
<1>1. Types /\ LockInv /\ MountInv /\ readers' = readers
  BY DEF RegInv, lockVars
<1>2. /\ pc' = [pc EXCEPT ![t] = "idle"] /\ pc' \in [Task -> Label]
      /\ call' \in [Task -> CallType] /\ call'[t].kind = "none"
      /\ \A u \in Task \ {t} : call'[u] = call[u]
  BY <1>1, Returned DEF Types
<1>3. Types'
  BY <1>1, <1>2 DEF Types
<1>4. LockInv'
  BY <1>1, <1>2, LockKept DEF Types, Label, Counted, Looking, Holding, Inside
<1>5. Others(t) /\ KindOf(t)' /\ MountOf(t)' /\ ~NewIn(t)'
  BY <1>1, <1>2 DEF Others, Types, KindOf, MountOf, NewIn, OldIn
<1> QED BY <1>1, <1>3, <1>4, <1>5, RegisteredKeepsMounts DEF RegInv

(* m_vfs_path_resolve acquires nodes of the mount and lets them go.        *)
LEMMA InvLookup ==
    ASSUME RegInv, NEW t \in Task, Resolve(t) \/ Lookup(t)
    PROVE  RegInv'
<1>1. /\ UNCHANGED <<types, slots, count, sequence>> /\ UNCHANGED lockVars
      /\ pc[t] \in {"resolve", "lookup"}
  BY DEF Resolve, Lookup, regVars, At
<1>2. Types /\ LockInv /\ MountInv /\ KindOf(t) /\ MountOf(t) /\ readers' \in Int
  BY <1>1 DEF RegInv, MountInv, Types, lockVars
<1>3. \/ mounts' = [mounts EXCEPT ![call[t].mount].held = @ + 1]
      \/ mounts' = [mounts EXCEPT ![call[t].mount].held = @ - 1]
      \/ mounts' = mounts
  BY Zenon DEF Resolve, Lookup
<1>4. /\ mounts' \in [Mount -> MountType]
      /\ \A n \in Mount : /\ mounts'[n].made = mounts[n].made
                          /\ mounts'[n].freed = mounts[n].freed
                          /\ mounts'[n].index = mounts[n].index
                          /\ mounts'[n].sequence = mounts[n].sequence
  BY <1>2, <1>3, MountHeld DEF Types
<1>5. Registered
  BY <1>1, <1>4 DEF Registered
<1>6. CASE Return(t)
  <2>1. pc[t] \notin Counted
    BY <1>1 DEF Counted
  <2> QED BY <1>1, <1>4, <1>5, <1>6, <2>1, CallEnds
<1>7. CASE Goto(t, "lookup") /\ call' = call /\ pc[t] = "resolve"
  <2>1. pc' = [pc EXCEPT ![t] = "lookup"]
    BY <1>7 DEF Goto
  <2>2. Types'
    BY <1>1, <1>2, <1>4, <1>7, <2>1 DEF Types, Label
  <2>3. LockInv'
    BY <1>1, <1>2, <1>7, <2>1, LockKept DEF Types, Label, Counted, Looking, Holding, Inside
  <2>4. Others(t) /\ KindOf(t)' /\ MountOf(t)' /\ ~NewIn(t)'
    BY <1>2, <1>4, <1>7, <2>1 DEF Others, Types, KindOf, MountOf, NewIn, OldIn, Searches
  <2> QED BY <1>2, <1>5, <2>2, <2>3, <2>4, RegisteredKeepsMounts DEF RegInv
<1> QED BY <1>6, <1>7 DEF Resolve, Lookup, At

(* _m_vfs_mount_teardown before it takes the lock: it finds the mount      *)
(* busy or closes its files.                                               *)
LEMMA InvTeardown ==
    ASSUME RegInv, NEW t \in Task, Busy(t) \/ CloseFiles(t)
    PROVE  RegInv'
<1>1. /\ UNCHANGED <<types, slots, count, sequence, mounts>> /\ UNCHANGED lockVars
      /\ pc[t] = "teardown"
  BY DEF Busy, CloseFiles, regVars, At
<1>2. Types /\ LockInv /\ MountInv /\ KindOf(t) /\ MountOf(t) /\ readers' \in Int
  BY <1>1 DEF RegInv, MountInv, Types, lockVars
<1>3. CASE Busy(t)
  <2>1. Return(t) /\ pc[t] \notin Counted /\ Registered /\ mounts' \in [Mount -> MountType]
    BY <1>1, <1>2, <1>3 DEF Busy, Counted, Registered, Types
  <2> QED BY <1>1, <2>1, CallEnds
<1>4. CASE CloseFiles(t)
  <2>1. pc' = [pc EXCEPT ![t] = "write_flag"] /\ call' = call /\ "write_flag" \in Label
    BY <1>4 DEF CloseFiles, Goto, Label
  <2>2. LockInv'
    BY <1>1, <1>2, <2>1, LockKept DEF Types, Counted, Looking, Holding, Inside
  <2>3. KindOf(t)' /\ MountOf(t)' /\ ~NewIn(t)'
    BY <1>1, <1>2, <2>1 DEF KindOf, MountOf, NewIn, OldIn, Types, Searches
  <2> QED BY <1>1, <1>2, <2>1, <2>2, <2>3, QuietMove
<1> QED BY <1>3, <1>4

(* The calls that do not touch the registry of mounts.                     *)
LEMMA InvAside ==
    ASSUME RegInv, NEW t \in Task, Close(t) \/ TypeRegister(t) \/ TypeUnregister(t)
    PROVE  RegInv'
<1>1. /\ UNCHANGED <<slots, count, sequence, mounts, pc, call>> /\ UNCHANGED lockVars
  BY DEF Close, TypeRegister, TypeUnregister, regVars
<1>2. types' \subseteq FsType
  BY DEF Close, TypeRegister, TypeUnregister, RegInv, Types
<1>3. Types' /\ LockInv'
  BY <1>1, <1>2 DEF RegInv, Types, LockInv, lockVars, Readers
<1>4. MountInv'
  BY <1>1 DEF RegInv, MountInv, KindOf, MountOf, NewAlone, NewIn, OldIn, SlotsInv, Used
<1> QED BY <1>3, <1>4 DEF RegInv

-----------------------------------------------------------------------------
(* The steps that change the slots or the mounts.                          *)

(* Nobody has a mount in hand that was never allocated, and no slot either. *)
LEMMA InvMountCall ==
    ASSUME RegInv, NEW t \in Task, MountCall(t)
    PROVE  RegInv'
<1>1. /\ UNCHANGED <<types, slots, count, sequence, readers>> /\ UNCHANGED lockVars
      /\ pc[t] = "idle" /\ pc' = [pc EXCEPT ![t] = "write_flag"]
  BY DEF MountCall, Calling, regVars, lockVars, Goto
<1>2. Types /\ LockInv /\ MountInv /\ SlotsInv
  BY DEF RegInv, MountInv
<1>3. PICK m \in Fresh, g \in Target, y \in types :
          /\ ~mounts[m].made
          /\ mounts' = [mounts EXCEPT ![m] = [made |-> TRUE, freed |-> FALSE, target |-> g,
                           type |-> y, index |-> 0, sequence |-> 0, root |-> TRUE, held |-> 0]]
          /\ call' = [call EXCEPT ![t] = Asks("mount", g, m)]
  BY Zenon DEF MountCall
<1>4. m \in Mount /\ y \in FsType /\ mounts[m].made # TRUE
  BY <1>2, <1>3, MountAssumption DEF Types
<1>5. /\ mounts' \in [Mount -> MountType]
      /\ mounts'[m].made = TRUE /\ mounts'[m].freed = FALSE
      /\ mounts'[m].index = 0 /\ mounts'[m].sequence = 0
      /\ \A n \in Mount \ {m} : mounts'[n] = mounts[n]
  BY <1>2, <1>3, <1>4, MountMade DEF Types
<1>6. /\ call' \in [Task -> CallType]
      /\ call'[t].kind = "mount" /\ call'[t].mount = m /\ call'[t].slot = 0
      /\ \A u \in Task \ {t} : call'[u] = call[u]
  BY <1>2, <1>3, <1>4, CallAsks DEF Types, Maybe
<1>7. Types'
  BY <1>1, <1>2, <1>5, <1>6 DEF Types, Label
<1>8. LockInv'
  BY <1>1, <1>2, LockKept DEF Types, Label, Counted, Looking, Holding, Inside
<1>9. Others(t)
  BY <1>1, <1>2, <1>6 DEF Others, Types
<1>10. \A u \in Task : KindOf(u)'
  <2>1. KindOf(t)'
    BY <1>1, <1>2, <1>4, <1>6 DEF KindOf, Types
  <2> QED BY <1>2, <1>9, <2>1, KindMove
<1>11. ASSUME NEW u \in Task, call[u].kind # "none", call[u].mount \in Mount
       PROVE  call[u].mount # m
  BY <1>2, <1>4, <1>11 DEF MountInv, MountOf
<1>12. ASSUME NEW u \in Task \ {t} PROVE MountOf(u)'
  <2>1. MountOf(u) /\ KindOf(u) /\ pc'[u] = pc[u] /\ call'[u] = call[u]
    BY <1>2, <1>9 DEF MountInv, Others
  <2>2. call[u].kind # "none" /\ call[u].mount \in Mount
          => mounts'[call[u].mount] = mounts[call[u].mount]
    BY <1>5, <1>11
  <2>3. NewIn(u) \/ OldIn(u) => call[u].kind # "none" /\ call[u].mount \in Mount
    BY <2>1 DEF KindOf, NewIn, OldIn, Searches
  <2>4. pc[u] = "read_unlock" => call[u].kind # "none"
    BY <2>1 DEF KindOf, Searches
  <2> QED BY ONLY <1>1, <2>1, <2>2, <2>3, <2>4 DEF MountOf, NewIn, OldIn, Searches
<1>13. MountOf(t)'
  BY <1>1, <1>2, <1>5, <1>6 DEF MountOf, NewIn, OldIn, Types, Searches
<1>14. NewAlone'
  <2>1. ASSUME NEW u \in Task \ {t}, NewIn(u)' PROVE NewIn(u) /\ call'[u].mount # m
    <3>1. NewIn(u) /\ call'[u].mount = call[u].mount
      BY <1>9, <2>1 DEF NewIn, Others
    <3>2. call[u].kind # "none" /\ call[u].mount \in Mount
      BY <1>2, <3>1 DEF NewIn, MountInv, KindOf
    <3> QED BY <1>11, <3>1, <3>2
  <2> QED BY <1>2, <1>6, <1>9, <2>1 DEF NewAlone, MountInv, Others
<1>15. SlotsInv'
  <2>1. \A i \in Slot : slots[i] # NoMount => slots[i] \in Mount \ {m}
    BY <1>2, <1>4 DEF SlotsInv, Types, Maybe
  <2>2. Used' = Used
    BY <1>1 DEF Used
  <2>3. \A n \in Mount : mounts'[n].index # 0 => n # m /\ mounts'[n] = mounts[n]
    BY <1>5
  <2> QED BY <1>1, <1>2, <1>5, <2>1, <2>2, <2>3 DEF SlotsInv
<1> QED BY <1>7, <1>8, <1>10, <1>12, <1>13, <1>14, <1>15 DEF RegInv, MountInv

(* The slot is vacant, and the mount is in no other.                       *)
LEMMA InvStore ==
    ASSUME RegInv, NEW t \in Task, Store(t)
    PROVE  RegInv'
<1> DEFINE m == call[t].mount
           i == call[t].slot
<1>1. /\ UNCHANGED <<types, call, readers>> /\ UNCHANGED lockVars
      /\ pc[t] = "store" /\ pc' = [pc EXCEPT ![t] = "write_unlock"]
      /\ sequence' = sequence + 1 /\ count' = count + 1
      /\ slots' = [slots EXCEPT ![i] = m]
      /\ mounts' = [mounts EXCEPT ![m].index = i, ![m].sequence = sequence + 1]
  BY DEF Store, At, lockVars, Goto
<1>2. Types /\ LockInv /\ MountInv /\ SlotsInv /\ KindOf(t) /\ MountOf(t)
  BY DEF RegInv, MountInv
<1>3. /\ m \in Mount /\ i \in Slot /\ slots[i] = NoMount /\ call[t].kind = "mount"
      /\ mounts[m].made = TRUE /\ mounts[m].sequence = 0 /\ mounts[m].freed = FALSE
  BY <1>1, <1>2 DEF KindOf, MountOf, NewIn
<1>4. sequence + 1 \in Nat /\ i \in 0 .. MaxMounts /\ i # 0
  BY <1>2, <1>3, MountAssumption DEF Types, Slot
<1>5. /\ mounts' \in [Mount -> MountType]
      /\ mounts'[m].made = TRUE /\ mounts'[m].freed = FALSE
      /\ mounts'[m].index = i /\ mounts'[m].sequence = sequence + 1
      /\ \A n \in Mount \ {m} : mounts'[n] = mounts[n]
  <2>1. mounts \in [Mount -> MountType]
    BY <1>2 DEF Types
  <2>2. m \in Mount /\ mounts' = [mounts EXCEPT ![m].index = i, ![m].sequence = sequence + 1]
    BY <1>1, <1>3
  <2> HIDE DEF m, i
  <2>3. /\ mounts' \in [Mount -> MountType]
        /\ mounts'[m].made = mounts[m].made /\ mounts'[m].freed = mounts[m].freed
        /\ mounts'[m].index = i /\ mounts'[m].sequence = sequence + 1
        /\ \A n \in Mount \ {m} : mounts'[n] = mounts[n]
    BY <1>4, <2>1, <2>2, MountStored
  <2> QED BY <1>3, <2>3
<1>6. /\ slots' \in [Slot -> Maybe] /\ slots'[i] = m
      /\ \A j \in Slot \ {i} : slots'[j] = slots[j]
  BY <1>1, <1>2, <1>3 DEF Types, Maybe
<1> HIDE DEF m, i
<1>7. Types'
  BY <1>1, <1>2, <1>4, <1>5, <1>6 DEF Types, Label
<1>8. LockInv'
  BY <1>1, <1>2, LockKept DEF Types, Label, Counted, Looking, Holding, Inside
<1>9. Others(t) /\ i = call[t].slot /\ m = call[t].mount
  BY <1>1, <1>2 DEF Others, Types, m, i
<1>10. \A u \in Task : KindOf(u)'
  <2>1. KindOf(t)'
    BY <1>1, <1>2, <1>3, <1>9 DEF KindOf, Types
  <2> QED BY <1>2, <1>9, <2>1, KindMove
<1>11. MountOf(t)' /\ ~NewIn(t)'
  BY <1>1, <1>2, <1>3, <1>4, <1>5, <1>9 DEF MountOf, NewIn, OldIn, Types, Searches
<1>12. ASSUME NEW u \in Task \ {t} PROVE MountOf(u)'
  <2>1. MountOf(u) /\ KindOf(u) /\ pc'[u] = pc[u] /\ call'[u] = call[u]
    BY <1>2, <1>9 DEF MountInv, Others
  <2>2. NewIn(u) => call[u].mount # m
    BY <1>1, <1>2, <1>3, <1>9 DEF MountInv, NewAlone, NewIn
  <2>3. pc[u] # "store" /\ pc[u] # "write_unlock"
    BY <1>1, <1>2 DEF LockInv, Holding
  <2>4. OldIn(u) => call[u].mount # m
    <3>1. OldIn(u) => pc[u] = "unmount" /\ call[u].kind \in Searches /\ call[u].mount \in Mount
      BY <2>1, <2>3 DEF OldIn, KindOf
    <3> QED BY <1>3, <2>1, <3>1 DEF MountOf, Searches
  <2>5. pc[u] # "read_unlock"
    BY <1>1, <1>2 DEF LockInv, Inside, Looking
  <2>6. NewIn(u) \/ OldIn(u) => call[u].mount \in Mount
    BY <2>1, <2>3 DEF KindOf, NewIn, OldIn
  <2>7. \A n \in Mount : mounts[n].made = TRUE => mounts'[n].made = TRUE
    BY <1>5
  <2>8. \A n \in Mount : mounts[n].sequence # 0 => mounts'[n].sequence # 0
    BY <1>3, <1>5
  <2> QED BY ONLY <1>5, <2>1, <2>2, <2>3, <2>4, <2>5, <2>6, <2>7, <2>8
          DEF MountOf, NewIn, OldIn
<1>13. NewAlone'
  <2>1. \A u \in Task \ {t} : (NewIn(u)' <=> NewIn(u)) /\ call'[u] = call[u]
    BY <1>9 DEF NewIn, Others
  <2> QED BY <1>2, <1>11, <2>1 DEF NewAlone, MountInv
<1>14. SlotsInv'
  <2>1. mounts[m].index = 0 /\ \A j \in Slot : slots[j] # m
    <3>1. mounts[m].index = 0 \/ mounts[m].index \in Slot
      BY <1>2, <1>3, IndexType, MountAssumption DEF Types, Slot
    <3> QED BY <1>2, <1>3, <3>1, MountAssumption DEF SlotsInv
  <2>2. Used' = Used \cup {i} /\ i \notin Used
    BY <1>3, <1>6, MountAssumption DEF Used
  <2>3. IsFiniteSet(Used)
    <3>1. Used \subseteq Slot /\ IsFiniteSet(Slot)
      BY FS_Interval, MountAssumption DEF Used, Slot
    <3> QED BY <3>1, FS_Subset
  <2>4. Cardinality(Used') = Cardinality(Used) + 1
    BY <2>2, <2>3, FS_AddElement
  <2>5. count' = Cardinality(Used')
    BY <1>1, <1>2, <2>4 DEF SlotsInv
  <2>6. \A n \in Mount \ {m} : mounts[n].index # 0 => mounts[n].index # i
    BY <1>2, <1>3, MountAssumption DEF SlotsInv
  <2>7. \A j \in Slot \ {i} : slots[j] # NoMount => slots[j] \in Mount \ {m}
    BY <1>2, <2>1 DEF Types, Maybe
  <2>8. \A n \in Mount : mounts[n].index # 0 => mounts[n].index \in Slot
    BY <1>2, IndexType, MountAssumption DEF Types, Slot
  <2>9. ASSUME NEW j \in Slot, slots'[j] # NoMount
        PROVE  /\ mounts'[slots'[j]].index = j
               /\ mounts'[slots'[j]].made = TRUE /\ mounts'[slots'[j]].freed = FALSE
               /\ mounts'[slots'[j]].sequence # 0
    <3>1. CASE j = i
      BY <1>2, <1>5, <1>6, <3>1 DEF Types
    <3>2. CASE j # i
      BY <1>2, <1>5, <1>6, <2>7, <2>9, <3>2 DEF SlotsInv
    <3> QED BY <3>1, <3>2
  <2>10. ASSUME NEW n \in Mount, mounts'[n].index # 0
         PROVE  slots'[mounts'[n].index] = n
    <3>1. CASE n = m
      BY <1>5, <1>6, <3>1
    <3>2. CASE n # m
      <4>1. mounts'[n].index = mounts[n].index /\ slots[mounts[n].index] = n
        BY <1>2, <1>5, <2>10, <3>2 DEF SlotsInv
      <4>2. mounts[n].index \in Slot \ {i}
        BY <2>6, <2>8, <2>10, <3>2, <4>1
      <4> QED BY <1>6, <4>1, <4>2
    <3> QED BY <3>1, <3>2
  <2> QED BY <2>5, <2>9, <2>10 DEF SlotsInv
<1> QED BY <1>7, <1>8, <1>10, <1>11, <1>12, <1>13, <1>14 DEF RegInv, MountInv

(* A mount that is freed is in no slot, and nobody is about to put it in.  *)
LEMMA InvFree ==
    ASSUME RegInv, NEW t \in Task, Undo(t) \/ Unmount(t)
    PROVE  RegInv'
<1> DEFINE m == call[t].mount
<1>1. /\ UNCHANGED <<types, slots, count, sequence, readers>> /\ UNCHANGED lockVars
      /\ pc[t] \in {"undo", "unmount"} /\ Return(t)
      /\ mounts' = [mounts EXCEPT ![m].root = FALSE, ![m].freed = TRUE]
  BY DEF Undo, Unmount, At, lockVars, regVars
<1>2. Types /\ LockInv /\ MountInv /\ SlotsInv /\ KindOf(t) /\ MountOf(t)
  BY DEF RegInv, MountInv
<1>3. m \in Mount /\ mounts[m].index = 0
  <2>1. m \in Mount
    BY <1>1, <1>2 DEF KindOf
  <2>2. CASE pc[t] = "undo"
    <3>1. mounts[m].sequence = 0
      BY <1>2, <2>2 DEF MountOf, NewIn, KindOf
    <3>2. mounts[m].index = 0 \/ mounts[m].index \in Slot
      BY <1>2, <2>1, IndexType, MountAssumption DEF Types, Slot
    <3> QED BY <1>2, <2>1, <3>1, <3>2, MountAssumption DEF SlotsInv
  <2>3. CASE pc[t] = "unmount"
    BY <1>2, <2>1, <2>3 DEF MountOf, OldIn
  <2> QED BY <1>1, <2>1, <2>2, <2>3
<1>4. \A u \in Task \ {t} : NewIn(u) => call[u].mount # m
  <2> SUFFICES ASSUME NEW u \in Task \ {t}, NewIn(u), call[u].mount = m PROVE FALSE
    OBVIOUS
  <2>1. CASE pc[t] = "undo"
    <3>1. NewIn(t)
      BY <1>2, <2>1 DEF KindOf, NewIn
    <3>2. NewAlone
      BY <1>2 DEF MountInv
    <3>3. call[u].mount # call[t].mount
      BY <3>1, <3>2 DEF NewAlone
    <3> QED BY <3>3
  <2>2. CASE pc[t] = "unmount"
    <3>1. mounts[m].sequence # 0
      BY <1>2, <1>3, <2>2 DEF KindOf, MountOf, Searches
    <3>2. mounts[m].sequence = 0
      <4>1. MountOf(u)
        BY <1>2 DEF MountInv
      <4> QED BY <4>1 DEF MountOf
    <3> QED BY <3>1, <3>2
  <2> QED BY <1>1, <2>1, <2>2
<1>5. /\ mounts' \in [Mount -> MountType]
      /\ mounts'[m].made = mounts[m].made /\ mounts'[m].index = mounts[m].index
      /\ mounts'[m].sequence = mounts[m].sequence
      /\ \A n \in Mount \ {m} : mounts'[n] = mounts[n]
  <2>1. mounts \in [Mount -> MountType]
    BY <1>2 DEF Types
  <2> HIDE DEF m
  <2> QED BY <1>1, <1>3, <2>1, MountFreed
<1>6. /\ pc' = [pc EXCEPT ![t] = "idle"] /\ pc' \in [Task -> Label]
      /\ call' \in [Task -> CallType] /\ call'[t].kind = "none"
      /\ \A u \in Task \ {t} : call'[u] = call[u]
  BY <1>1, <1>2, Returned DEF Types
<1> HIDE DEF m
<1>7. Types'
  BY <1>1, <1>2, <1>5, <1>6 DEF Types
<1>8. LockInv'
  BY <1>1, <1>2, <1>6, LockKept DEF Types, Label, Counted, Looking, Holding, Inside
<1>9. Others(t) /\ KindOf(t)' /\ MountOf(t)' /\ ~NewIn(t)'
  BY <1>2, <1>6 DEF Others, Types, KindOf, MountOf, NewIn, OldIn
<1>10. \A u \in Task : KindOf(u)'
  BY <1>2, <1>9, KindMove
<1>11. ASSUME NEW u \in Task \ {t} PROVE MountOf(u)'
  <2>1. MountOf(u) /\ KindOf(u) /\ pc'[u] = pc[u] /\ call'[u] = call[u]
    BY <1>2, <1>9 DEF MountInv, Others
  <2>2. \A n \in Mount : /\ mounts'[n].made = mounts[n].made
                         /\ mounts'[n].index = mounts[n].index
                         /\ mounts'[n].sequence = mounts[n].sequence
                         /\ n # m => mounts'[n].freed = mounts[n].freed
    BY <1>5
  <2>3. NewIn(u) => call[u].mount # m /\ call[u].mount \in Mount
    BY <1>4, <2>1 DEF NewIn, KindOf
  <2>4. OldIn(u) => call[u].mount \in Mount
    BY <2>1 DEF OldIn, KindOf
  <2> QED BY ONLY <1>1, <2>1, <2>2, <2>3, <2>4 DEF MountOf, NewIn, OldIn
<1>12. NewAlone'
  <2>1. \A u \in Task \ {t} : (NewIn(u)' <=> NewIn(u)) /\ call'[u] = call[u]
    BY <1>9 DEF NewIn, Others
  <2> QED BY <1>2, <1>9, <2>1 DEF NewAlone, MountInv
<1>13. SlotsInv'
  <2>1. \A j \in Slot : slots[j] # NoMount => slots[j] \in Mount \ {m}
    BY <1>2, <1>3, MountAssumption DEF SlotsInv, Types, Maybe, Slot
  <2>2. Used' = Used
    BY <1>1 DEF Used
  <2>3. \A n \in Mount : mounts'[n].index = mounts[n].index
    BY <1>5
  <2> QED BY <1>1, <1>2, <1>5, <2>1, <2>2, <2>3 DEF SlotsInv
<1> QED BY <1>7, <1>8, <1>9, <1>10, <1>11, <1>12, <1>13 DEF RegInv, MountInv

(* A slot is cleared only of the mount that says it is there.              *)
LEMMA InvRemove ==
    ASSUME RegInv, NEW t \in Task, Remove(t)
    PROVE  RegInv'
<1> DEFINE m == call[t].mount
           i == mounts[m].index
<1>1. /\ UNCHANGED <<types, call, readers, sequence>> /\ UNCHANGED lockVars
      /\ pc[t] = "remove" /\ pc' = [pc EXCEPT ![t] = "write_unlock"]
  BY DEF Remove, At, lockVars, Goto
<1>2. Types /\ LockInv /\ MountInv /\ SlotsInv /\ KindOf(t) /\ MountOf(t)
  BY DEF RegInv, MountInv
<1>3. m \in Mount /\ call[t].kind \in Searches /\ readers' \in Int
  BY <1>1, <1>2 DEF KindOf, Types
<1>4. Others(t)
  BY <1>1, <1>2 DEF Others, Types
<1>5. LockInv'
  BY <1>1, <1>2, LockKept DEF Types, Label, Counted, Looking, Holding, Inside
<1>6. KindOf(t)'
  BY <1>1, <1>2, <1>3 DEF KindOf, Types, Searches
<1>7. CASE UNCHANGED <<slots, count, mounts>> /\ ~ \E k \in Slot : i = k /\ slots[k] = m
  <2>1. i = 0
    <3>1. i = 0 \/ i \in Slot
      BY <1>2, <1>3, IndexType, MountAssumption DEF Types, Slot
    <3> QED BY <1>2, <1>3, <1>7, <3>1 DEF SlotsInv
  <2>2. MountOf(t)' /\ ~NewIn(t)'
    BY <1>1, <1>2, <1>3, <1>7, <2>1 DEF MountOf, NewIn, OldIn, Types, Searches
  <2>3. "write_unlock" \in Label
    BY DEF Label
  <2> QED BY <1>1, <1>3, <1>5, <1>6, <1>7, <2>2, <2>3, QuietMove
<1>8. CASE /\ i \in Slot /\ slots[i] = m
           /\ slots' = [slots EXCEPT ![i] = NoMount] /\ count' = count - 1
           /\ mounts' = [mounts EXCEPT ![m].index = 0]
  <2>1. /\ mounts' \in [Mount -> MountType]
        /\ mounts'[m].made = mounts[m].made /\ mounts'[m].freed = mounts[m].freed
        /\ mounts'[m].index = 0 /\ mounts'[m].sequence = mounts[m].sequence
        /\ \A n \in Mount \ {m} : mounts'[n] = mounts[n]
    <3>1. mounts \in [Mount -> MountType]
      BY <1>2 DEF Types
    <3> HIDE DEF m
    <3> QED BY <1>3, <1>8, <3>1, MountRemoved
  <2>2. /\ slots' \in [Slot -> Maybe] /\ slots'[i] = NoMount
        /\ \A j \in Slot \ {i} : slots'[j] = slots[j]
    BY <1>2, <1>8 DEF Types, Maybe
  <2>3. mounts[m].sequence # 0 /\ m # NoMount
    BY <1>2, <1>3, <1>8, MountAssumption DEF SlotsInv
  <2>4. m = call[t].mount /\ i = mounts[m].index
    OBVIOUS
  <2> HIDE DEF m, i
  <2>5. Types'
    BY <1>1, <1>2, <1>8, <2>1, <2>2 DEF Types, Label
  <2>6. MountOf(t)' /\ ~NewIn(t)'
    BY <1>1, <1>2, <1>3, <2>1, <2>4 DEF MountOf, NewIn, OldIn, Types, Searches
  <2>7. \A u \in Task : KindOf(u)'
    BY <1>2, <1>4, <1>6, KindMove
  <2>8. ASSUME NEW u \in Task \ {t} PROVE MountOf(u)'
    <3>1. MountOf(u) /\ KindOf(u) /\ pc'[u] = pc[u] /\ call'[u] = call[u]
      BY <1>2, <1>4 DEF MountInv, Others
    <3>2. pc[u] # "store" /\ pc[u] # "read_unlock"
      BY <1>1, <1>2 DEF LockInv, Holding, Inside, Looking
    <3>3. \A n \in Mount : /\ mounts'[n].made = mounts[n].made
                           /\ mounts'[n].freed = mounts[n].freed
                           /\ mounts'[n].sequence = mounts[n].sequence
                           /\ mounts[n].index = 0 => mounts'[n].index = 0
      BY <2>1
    <3>4. NewIn(u) \/ OldIn(u) => call[u].mount \in Mount
      BY <3>1 DEF NewIn, OldIn, KindOf
    <3> QED BY ONLY <3>1, <3>2, <3>3, <3>4 DEF MountOf, NewIn, OldIn
  <2>9. NewAlone'
    <3>1. \A u \in Task \ {t} : (NewIn(u)' <=> NewIn(u)) /\ call'[u] = call[u]
      BY <1>4 DEF NewIn, Others
    <3> QED BY <1>2, <2>6, <3>1 DEF NewAlone, MountInv
  <2>10. SlotsInv'
    <3>1. Used' = Used \ {i} /\ i \in Used
      BY <1>8, <2>2, <2>3 DEF Used
    <3>2. IsFiniteSet(Used)
      <4>1. Used \subseteq Slot /\ IsFiniteSet(Slot)
        BY FS_Interval, MountAssumption DEF Used, Slot
      <4> QED BY <4>1, FS_Subset
    <3>3. Cardinality(Used') = Cardinality(Used) - 1
      BY <3>1, <3>2, FS_RemoveElement
    <3>4. count' = Cardinality(Used')
      BY <1>2, <1>8, <3>3 DEF SlotsInv
    <3>5. \A j \in Slot \ {i} : slots[j] # NoMount => slots[j] \in Mount \ {m}
      BY <1>2, <1>8, <2>4 DEF SlotsInv, Types, Maybe
    <3>6. ASSUME NEW n \in Mount, mounts'[n].index # 0
          PROVE  slots'[mounts'[n].index] = n
      <4>1. n # m /\ mounts'[n].index = mounts[n].index /\ slots[mounts[n].index] = n
        BY <1>2, <2>1, <3>6 DEF SlotsInv
      <4>2. mounts[n].index \in Slot
        BY <1>2, <3>6, <4>1, IndexType, MountAssumption DEF Types, Slot
      <4>3. mounts[n].index # i
        BY <1>8, <4>1
      <4> QED BY <2>2, <4>1, <4>2, <4>3
    <3> QED BY <1>2, <2>1, <2>2, <3>4, <3>5, <3>6 DEF SlotsInv
  <2> QED BY <1>5, <2>5, <2>6, <2>7, <2>8, <2>9, <2>10 DEF RegInv, MountInv
<1> QED BY <1>7, <1>8 DEF Remove

-----------------------------------------------------------------------------
(* The registry begins empty (m_vfs_registry_init).                        *)
LEMMA RegInvInit == Init => RegInv
<1> SUFFICES ASSUME Init PROVE RegInv
  OBVIOUS
<1>1. /\ types = FsType /\ slots = [i \in Slot |-> NoMount] /\ count = 0 /\ sequence = 0
      /\ readers = 0 /\ pc = [t \in Task |-> "idle"] /\ call = [t \in Task |-> Idle]
  BY DEF Init
<1>2. mounts \in [Mount -> MountType] /\ \A m \in Mount : mounts[m].index = 0
  <2>1. PICK y \in FsType : y = CHOOSE z \in FsType : TRUE
    BY MountAssumption
  <2>2. mounts = [m \in Mount |-> [made |-> FALSE, freed |-> FALSE, target |-> 0, type |-> y,
                                   index |-> 0, sequence |-> 0, root |-> FALSE, held |-> 0]]
    BY <2>1 DEF Init
  <2> QED BY <2>2, MountAssumption DEF MountType
<1>3. Idle \in CallType /\ Idle.kind = "none"
  BY MountAssumption DEF Idle, Asks, CallType, Maybe
<1>4. Types
  BY <1>1, <1>2, <1>3 DEF Types, Maybe, Label
<1>5. LockInv
  <2>1. Readers = {}
    BY <1>1 DEF Readers, Counted
  <2>2. readers = Cardinality(Readers)
    BY <1>1, <2>1, FS_EmptySet
  <2> QED BY <1>1, <2>2 DEF LockInv, Holding, Inside
<1>6. \A t \in Task : KindOf(t) /\ MountOf(t) /\ ~NewIn(t)
  BY <1>1, <1>3 DEF KindOf, MountOf, NewIn, OldIn
<1>7. SlotsInv
  <2>1. Used = {}
    BY <1>1 DEF Used
  <2>2. count = Cardinality(Used)
    BY <1>1, <2>1, FS_EmptySet
  <2> QED BY <1>1, <1>2, <2>2 DEF SlotsInv
<1> QED BY <1>4, <1>5, <1>6, <1>7 DEF RegInv, MountInv, NewAlone

(* Every step of every task keeps the invariant.                           *)
LEMMA RegInvNext == RegInv /\ [Next]_vars => RegInv'
<1> SUFFICES ASSUME RegInv, [Next]_vars PROVE RegInv'
  OBVIOUS
<1>1. CASE UNCHANGED vars
  BY <1>1 DEF vars, regVars, lockVars, RegInv, Types, LockInv, Readers, MountInv, KindOf, MountOf,
              NewAlone, NewIn, OldIn, SlotsInv, Used
<1>2. ASSUME NEW t \in Task, Calls(t) PROVE RegInv'
  BY <1>2, InvMountCall, InvSearch, InvAside DEF Calls
<1>3. ASSUME NEW t \in Task, Step(t) PROVE RegInv'
  BY <1>3, InvReader, InvReadUnlock, InvWriter, InvWriteUnlock, InvPickSlot, InvStore, InvFree,
     InvScan, InvLookup, InvTeardown, InvRemove DEF Step
<1> QED BY <1>1, <1>2, <1>3 DEF Next

(* The invariant says what the two properties ask.                         *)
LEMMA RegInvShows == RegInv => RegistryConsistent /\ ReadersSeeLive
<1> SUFFICES ASSUME RegInv PROVE RegistryConsistent /\ ReadersSeeLive
  OBVIOUS
<1>1. Types /\ SlotsInv /\ MountInv
  BY DEF RegInv, MountInv
<1>2. \A i \in Slot : slots[i] # NoMount => mounts[slots[i]].index = i /\ ~mounts[slots[i]].freed
  BY <1>1 DEF SlotsInv
<1>3. RegistryConsistent
  BY <1>1, <1>2 DEF RegistryConsistent, SlotsInv, Used
<1>4. ASSUME NEW t \in Task, pc[t] = "read_unlock", call[t].mount # NoMount
      PROVE  ~mounts[call[t].mount].freed /\ mounts[call[t].mount].index # 0
  <2>1. call[t].mount \in Mount
    BY <1>1, <1>4 DEF Types, CallType, Maybe
  <2>2. mounts[call[t].mount].index # 0
    BY <1>1, <1>4, <2>1 DEF MountInv, MountOf
  <2>3. mounts[call[t].mount].index \in Slot
    BY <1>1, <2>1, <2>2, IndexType, MountAssumption DEF Types, Slot
  <2>4. slots[mounts[call[t].mount].index] = call[t].mount
    BY <1>1, <2>1, <2>2 DEF SlotsInv
  <2> QED BY <1>2, <1>4, <2>2, <2>3, <2>4
<1> QED BY <1>3, <1>4 DEF ReadersSeeLive

(* The slots, their number and the mounts agree, and the mount a reader    *)
(* has in hand is neither freed nor out of its slot, while tasks mount,    *)
(* unmount and open at a time: for any number of tasks, slots, mounts,     *)
(* mount points and types.                                                 *)
THEOREM RegistryInvariance == Spec => [](RegistryConsistent /\ ReadersSeeLive)
<1>1. Spec => []RegInv
  BY RegInvInit, RegInvNext, PTL DEF Spec
<1> QED BY <1>1, RegInvShows, PTL
=============================================================================
