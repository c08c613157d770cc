---------------------------- MODULE IpcShmProofs ----------------------------
(***************************************************************************)
(* Proofs about IpcShm, for every number of tasks, sizes, modes and        *)
(* policies of the regions, and generations of the slot.                   *)
(*                                                                         *)
(* RegionInv is about the life of a region: how the slot, the handle, the  *)
(* memory and the attachments agree, and that a call that was checked      *)
(* against a region still finds it. It says nothing of the wait queues,    *)
(* whose links a waker edits without the lock.                             *)
(***************************************************************************)
EXTENDS IpcShm, TLAPS, FiniteSetTheorems

-----------------------------------------------------------------------------
(* What the proofs need of the types.                                      *)

RegionFields == {"handle", "destroyed", "attachments", "mode", "policy",
                 "memory", "head", "tail", "used", "count"}

AttachmentFields == {"handle", "access", "cursor"}

Kinds == Side \cup {"attach", "detach", "control", "destroy", "none"}

RegionType ==
    /\ generation \in Nat /\ issued \in Nat /\ allocated \in BOOLEAN
    /\ DOMAIN region = RegionFields
    /\ region.destroyed \in BOOLEAN /\ region.attachments \in Nat
    /\ region.mode \in RegionModes
    /\ DOMAIN attachment = Task
    /\ \A t \in Task : DOMAIN attachment[t] = AttachmentFields

CallType ==
    /\ pc \in [Task -> Location] /\ DOMAIN op = Task
    /\ \A t \in Task : op[t].kind \in Kinds

-----------------------------------------------------------------------------
(* The life of a region.                                                   *)

Attached == {t \in Task : attachment[t].handle = region.handle}

(* The slot's generation, the handle and the memory. A region that has a   *)
(* handle and no memory is one whose create failed: nobody was told of its *)
(* generation.                                                             *)
SlotInv ==
    /\ issued <= generation
    /\ region.handle \in {0, generation}
    /\ Live => issued = generation
    /\ region.handle # 0 /\ ~Live => issued < generation
    /\ \A t \in Task : attachment[t].handle \in 0 .. issued

(* The slot is in use while there is a region, and until the one task that *)
(* cleaned the region up has released it.                                  *)
ReleaseInv ==
    /\ Live => allocated
    /\ allocated => Live \/ \E t \in Task : pc[t] = "release"
    /\ \A t \in Task : pc[t] = "release" => allocated /\ region.handle = 0
    /\ \A t, u \in Task : pc[t] = "release" /\ pc[u] = "release" => t = u

CountInv ==
    Live => /\ region.attachments = Cardinality(Attached)
            /\ region.destroyed => region.attachments > 0

(* What a call in flight may rely on. One that came with a handle finds    *)
(* the generation it was checked against, one that came with an attachment *)
(* the region. Nobody attaches who is attached.                            *)
CallOK(t) ==
    /\ op[t].kind = "none" <=> pc[t] = "idle"
    /\ pc[t] \in {"wait", "relock"} \cup WakePlace => op[t].kind \in Side
    /\ pc[t] = "release" => op[t].kind \in {"detach", "destroy"}
    /\ op[t].kind \in Side \cup {"detach"} /\ pc[t] # "release"
            => Live /\ attachment[t].handle = region.handle
    /\ op[t].kind \in {"attach", "control", "destroy"}
            => op[t].h = generation /\ issued = generation
    /\ op[t].kind = "attach"
            => attachment[t].handle = 0 \/ attachment[t].handle # region.handle

CallInv == \A t \in Task : CallOK(t)

RegionInv ==
    /\ RegionType /\ CallType
    /\ SlotInv /\ ReleaseInv /\ CountInv /\ CallInv

-----------------------------------------------------------------------------
(* What the operators on a region leave as it is.                          *)

(* The region r is as q was, but for its contents.                         *)
SameLife(r, q) ==
    /\ DOMAIN r = RegionFields
    /\ r.handle = q.handle /\ r.destroyed = q.destroyed
    /\ r.attachments = q.attachments /\ r.mode = q.mode
    /\ r.memory = NoMemory <=> q.memory = NoMemory

LEMMA MemoryThere ==
    ASSUME NEW n \in Nat \ {0}, NEW m, DOMAIN m = 0 .. n - 1
    PROVE  m # NoMemory
<1>1. 0 \in DOMAIN m
  OBVIOUS
<1>2. 0 \notin DOMAIN << >>
  OBVIOUS
<1> QED BY <1>1, <1>2 DEF NoMemory

LEMMA SizeThere == ASSUME RegionType PROVE Size \in Nat \ {0}
<1>1. /\ RegionSize[region.mode] \in Nat
      /\ RegionSize[region.mode] > IF region.mode = "packet" THEN 2 ELSE 1
  BY ShmAssumption DEF RegionType
<1> QED BY <1>1 DEF Size

LEMMA CopyInThere ==
    ASSUME RegionType, NEW mem, NEW at, NEW s
    PROVE  CopyIn(mem, at, s) # NoMemory
<1>1. DOMAIN CopyIn(mem, at, s) = 0 .. Size - 1
  BY DEF CopyIn
<1> QED BY <1>1, SizeThere, MemoryThere

LEMMA StoredLife ==
    ASSUME RegionType, NEW r, DOMAIN r = RegionFields, r.memory # NoMemory, NEW n
    PROVE  SameLife(Stored(r, n), r)
<1>1. /\ DOMAIN Stored(r, n) = RegionFields
      /\ Stored(r, n).handle = r.handle /\ Stored(r, n).destroyed = r.destroyed
      /\ Stored(r, n).attachments = r.attachments /\ Stored(r, n).mode = r.mode
  BY DEF Stored, RegionFields
<1>2. Stored(r, n).memory
        = IF r.mode = "ring" THEN CopyIn(r.memory, r.tail, Payload(n))
          ELSE CopyIn(CopyIn(r.memory, r.tail, Header(n)),
                      (r.tail + HeaderSize) % Size, Payload(n))
  BY DEF Stored, RegionFields
<1>3. Stored(r, n).memory # NoMemory
  BY <1>2, CopyInThere
<1> QED BY <1>1, <1>3 DEF SameLife

LEMMA TakenLife ==
    ASSUME NEW r, DOMAIN r = RegionFields, NEW n
    PROVE  SameLife(Taken(r, n), r)
BY DEF SameLife, Taken, RegionFields

LEMMA MadeRoomLife ==
    ASSUME NEW r, DOMAIN r = RegionFields, NEW n
    PROVE  SameLife(MadeRoom(r, n), r)
BY DEF SameLife, MadeRoom, DropOldest, RegionFields

LEMMA ClearedLife ==
    ASSUME NEW r, DOMAIN r = RegionFields
    PROVE  SameLife(Cleared(r), r)
BY DEF SameLife, Cleared, RegionFields

-----------------------------------------------------------------------------
(* Steps that leave the life of the region alone.                          *)

(* The other tasks stay where they are.                                    *)
Moves(t) ==
    /\ pc' \in [Task -> Location] /\ DOMAIN op' = Task
    /\ \A u \in Task \ {t} : pc'[u] = pc[u] /\ op'[u] = op[u]

LEMMA ReturnMoves ==
    ASSUME CallType, NEW t \in Task, NEW r, Return(t, r)
    PROVE  Moves(t) /\ pc'[t] = "idle" /\ op'[t] = NoOp
BY DEF CallType, Moves, Return, Location

LEMMA GotoMoves ==
    ASSUME CallType, NEW t \in Task, NEW l \in Location, Goto(t, l), UNCHANGED op
    PROVE  Moves(t) /\ pc'[t] = l /\ op'[t] = op[t]
BY DEF CallType, Moves, Goto

LEMMA SameRegion == ASSUME RegionType, UNCHANGED region PROVE SameLife(region', region)
BY DEF RegionType, SameLife

(* No handle is attached or let go.                                        *)
SameAttached ==
    /\ DOMAIN attachment' = Task
    /\ \A u \in Task : /\ DOMAIN attachment'[u] = AttachmentFields
                       /\ attachment'[u].handle = attachment[u].handle

LEMMA AttachmentKept ==
    ASSUME RegionType, UNCHANGED attachment
    PROVE  SameAttached
BY DEF RegionType, SameAttached

(* How a task goes on: its call ends, or it waits and wakes within it.     *)
GoesOn(t) ==
    \/ op'[t] = NoOp /\ pc'[t] = "idle"
    \/ /\ op'[t] = op[t]
       /\ \/ op[t].kind \in Side /\ pc'[t] \in {"wait", "relock"} \cup WakePlace
          \/ pc'[t] = pc[t]

LEMMA RegionInvQuiet ==
    ASSUME RegionInv, NEW t \in Task, UNCHANGED registryVars,
           SameLife(region', region), SameAttached, Moves(t), GoesOn(t),
           pc[t] # "release"
    PROVE  RegionInv'
<1>0. /\ RegionType /\ CallType /\ SlotInv /\ ReleaseInv /\ CountInv /\ CallInv
      /\ generation' = generation /\ allocated' = allocated /\ issued' = issued
  BY DEF RegionInv, registryVars
<1>1. Live' <=> Live
  BY DEF Live, SameLife
<1>2. RegionType'
  BY <1>0 DEF RegionType, SameLife, SameAttached
<1>3. pc'[t] # "release" /\ op'[t].kind \in Kinds
  BY <1>0 DEF GoesOn, CallType, NoOp, Kinds, WakePlace
<1>4. CallType'
  BY <1>0, <1>3 DEF CallType, Moves
<1>5. SlotInv'
  BY <1>0, <1>1 DEF SlotInv, SameLife, SameAttached
<1>6. ReleaseInv'
  BY <1>0, <1>1, <1>3 DEF ReleaseInv, SameLife, Moves
<1>7. Attached' = Attached
  BY DEF Attached, SameLife, SameAttached
<1>8. CountInv'
  BY <1>0, <1>1, <1>7 DEF CountInv, SameLife
<1>9. ASSUME NEW u \in Task PROVE CallOK(u)'
  <2>1. CallOK(u)
    BY <1>0 DEF CallInv
  <2>2. /\ region'.handle = region.handle
        /\ attachment'[u].handle = attachment[u].handle
    BY DEF SameLife, SameAttached
  <2>3. CASE u # t
    BY <2>1, <2>2, <2>3, <1>0, <1>1 DEF CallOK, Moves
  <2>4. CASE u = t /\ op'[t] = NoOp /\ pc'[t] = "idle"
    BY <2>4 DEF CallOK, NoOp, Side, WakePlace
  <2>5. CASE u = t /\ op'[t] = op[t] /\ op[t].kind \in Side
                   /\ pc'[t] \in {"wait", "relock"} \cup WakePlace
    BY <2>1, <2>2, <2>5, <1>0, <1>1 DEF CallOK, Side, WakePlace
  <2>6. CASE u = t /\ op'[t] = op[t] /\ pc'[t] = pc[t]
    BY <2>1, <2>2, <2>6, <1>0, <1>1 DEF CallOK
  <2> QED BY <2>3, <2>4, <2>5, <2>6 DEF GoesOn
<1> QED BY <1>2, <1>4, <1>5, <1>6, <1>8, <1>9 DEF RegionInv, CallInv

LEMMA FinishGoesOn ==
    ASSUME CallType, NEW t \in Task, NEW d, Finish(t, d), op[t].kind \in Side
    PROVE  Moves(t) /\ GoesOn(t)
<1>1. CASE waiting[Other(op[t].kind)] > 0
  <2>1. Goto(t, "wake") /\ UNCHANGED op
    BY <1>1 DEF Finish
  <2> QED BY <2>1, GotoMoves DEF GoesOn, Location, WakePlace
<1>2. CASE ~(waiting[Other(op[t].kind)] > 0)
  BY <1>2, ReturnMoves DEF Finish, GoesOn
<1> QED BY <1>1, <1>2

(* The steps that read or write: only the contents change.                 *)
LEMMA RegionInvTransfer ==
    ASSUME RegionInv, NEW t \in Task,
           \/ ReadRing(t) \/ ReadPacket(t) \/ WriteRing(t) \/ WritePacket(t)
           \/ WriteForever(t)
    PROVE  RegionInv'
<1>0. RegionType /\ CallType /\ CallOK(t) /\ DOMAIN region = RegionFields
  BY DEF RegionInv, CallInv, RegionType
<1>1. op[t].kind \in Side /\ pc[t] \in {"lock", "relock"}
  BY DEF ReadRing, ReadPacket, WriteRing, WritePacket, WriteForever, InSection,
         AtTest, At, Side
<1>2. region.memory # NoMemory
  BY <1>0, <1>1 DEF CallOK, Live
<1>3. UNCHANGED registryVars /\ SameAttached
  BY <1>0, AttachmentKept
     DEF ReadRing, ReadPacket, WriteRing, WritePacket, WriteForever
<1>4. SameLife(region', region)
  <2>1. CASE ReadRing(t)
    <3>1. PICK n : region' = Taken(region, n)
      BY <2>1 DEF ReadRing
    <3> QED BY <3>1, <1>0, TakenLife
  <2>2. CASE ReadPacket(t)
    <3>1. UNCHANGED region \/ \E n : region' = Taken(region, n)
      BY <2>2 DEF ReadPacket
    <3> QED BY <3>1, <1>0, TakenLife, SameRegion
  <2>3. CASE WriteRing(t)
    <3>1. /\ SameLife(MadeRoom(region, op[t].arg), region)
          /\ region' = Stored(MadeRoom(region, op[t].arg), op[t].arg)
      BY <2>3, <1>0, MadeRoomLife DEF WriteRing
    <3>2. SameLife(region', MadeRoom(region, op[t].arg))
      BY <3>1, <1>0, <1>2, StoredLife DEF SameLife
    <3> QED BY <3>1, <3>2 DEF SameLife
  <2>4. CASE WritePacket(t)
    BY <2>4, <1>0, <1>2, StoredLife DEF WritePacket
  <2>5. CASE WriteForever(t)
    BY <2>5, <1>0, MadeRoomLife DEF WriteForever
  <2> QED BY <2>1, <2>2, <2>3, <2>4, <2>5
<1>5. Moves(t) /\ GoesOn(t)
  <2>1. CASE \E d : Finish(t, d)
    BY <2>1, <1>0, <1>1, FinishGoesOn
  <2>2. CASE \E r : Return(t, r)
    BY <2>2, <1>0, ReturnMoves DEF GoesOn
  <2>3. CASE UNCHANGED <<pc, op>>
    BY <2>3, <1>0 DEF Moves, GoesOn, CallType
  <2> QED BY <2>1, <2>2, <2>3
             DEF ReadRing, ReadPacket, WriteRing, WritePacket, WriteForever
<1> QED BY <1>1, <1>3, <1>4, <1>5, RegionInvQuiet

(* The steps that wait and give up, and those that wake somebody: the      *)
(* region does not change.                                                 *)
LEMMA RegionInvWaits ==
    ASSUME RegionInv, NEW t \in Task,
           \/ Refuse(t) \/ Park(t) \/ BlockTaken(t) \/ BlockTimeout(t) \/ GiveUp(t)
    PROVE  RegionInv'
<1>0. RegionType /\ CallType /\ CallOK(t)
  BY DEF RegionInv, CallInv
<1>1. /\ UNCHANGED <<registryVars, region, attachment>>
      /\ pc[t] \in {"lock", "wait", "relock"}
      /\ pc[t] = "lock" => op[t].kind \in Side
  BY DEF Refuse, Park, BlockTaken, BlockTimeout, GiveUp, Blocked, InSection, AtTest, At, Side
<1>2. op[t].kind \in Side
  BY <1>0, <1>1 DEF CallOK
<1>3. Moves(t) /\ GoesOn(t)
  <2>1. CASE \E r : Return(t, r)
    BY <2>1, <1>0, ReturnMoves DEF GoesOn
  <2>2. CASE \E l \in {"wait", "relock"} : Goto(t, l) /\ UNCHANGED op
    <3>1. PICK l \in {"wait", "relock"} : Goto(t, l) /\ UNCHANGED op
      BY <2>2
    <3> QED BY <3>1, <1>0, <1>2, GotoMoves DEF GoesOn, Location
  <2> QED BY <2>1, <2>2 DEF Refuse, Park, BlockTaken, BlockTimeout, GiveUp
<1> QED BY <1>0, <1>1, <1>3, RegionInvQuiet, SameRegion, AttachmentKept

LEMMA RegionInvWakeOne ==
    ASSUME RegionInv, NEW t \in Task, WakeOne(t)
    PROVE  RegionInv'
<1>0. RegionType /\ CallType /\ CallOK(t)
  BY DEF RegionInv, CallInv
<1>1. /\ UNCHANGED <<registryVars, region, attachment>>
      /\ pc[t] \in WakePlace
  BY DEF WakeOne, PickFirst, PickNext, TestEnqueued, JoinNext, JoinPrev, ClearLinks, Give,
         OnCandidate, At, WakePlace
<1>2. op[t].kind \in Side
  BY <1>0, <1>1 DEF CallOK
<1>3. \/ \E r : Return(t, r)
      \/ \E l \in WakePlace : Goto(t, l) /\ UNCHANGED op
      \/ UNCHANGED <<pc, op>>
  BY DEF WakeOne, PickFirst, PickNext, TestEnqueued, JoinNext, JoinPrev, ClearLinks, Give,
         OnCandidate, WakePlace
<1>4. Moves(t) /\ GoesOn(t)
  <2>1. CASE \E r : Return(t, r)
    BY <2>1, <1>0, ReturnMoves DEF GoesOn
  <2>2. CASE \E l \in WakePlace : Goto(t, l) /\ UNCHANGED op
    <3>1. PICK l \in WakePlace : Goto(t, l) /\ UNCHANGED op
      BY <2>2
    <3> QED BY <3>1, <1>0, <1>2, GotoMoves DEF GoesOn, Location
  <2>3. CASE UNCHANGED <<pc, op>>
    BY <2>3, <1>0 DEF Moves, GoesOn, CallType
  <2> QED BY <1>3, <2>1, <2>2, <2>3
<1>5. pc[t] # "release"
  BY <1>1 DEF WakePlace
<1> QED BY <1>0, <1>1, <1>4, <1>5, RegionInvQuiet, SameRegion, AttachmentKept

(* An attachment that passes the checks names the region in the slot.      *)
LEMMA DescriptorLive ==
    ASSUME RegionInv, NEW t \in Task, DescriptorError(t) = "ok"
    PROVE  Live /\ attachment[t].handle = region.handle
<1>1. attachment[t].handle # 0 /\ attachment[t].handle = region.handle
  BY DEF DescriptorError
<1>2. /\ issued \in Nat /\ generation \in Nat /\ attachment[t].handle \in 0 .. issued
      /\ region.handle \in {0, generation}
      /\ region.handle # 0 /\ ~Live => issued < generation
  BY DEF RegionInv, RegionType, SlotInv
<1> QED BY <1>1, <1>2

(* Calls that do nothing, and the controls.                                *)
LEMMA RegionInvOther ==
    ASSUME RegionInv, NEW t \in Task,
           \/ Reject(t) \/ Raw(t) \/ FindDestroyed(t) \/ Flush(t)
           \/ \E s \in Side : Notify(t, s)
    PROVE  RegionInv'
<1>0. RegionType /\ CallType /\ CallOK(t) /\ DOMAIN region = RegionFields
  BY DEF RegionInv, CallInv, RegionType
<1>1. pc[t] # "release" /\ UNCHANGED registryVars
  BY DEF Reject, Raw, FindDestroyed, Flush, Notify, InSection, AtTest, At
<1>2. Moves(t) /\ GoesOn(t)
  <2>1. CASE \E r : Return(t, r)
    BY <2>1, <1>0, ReturnMoves DEF GoesOn
  <2>2. CASE UNCHANGED <<pc, op>>
    BY <2>2, <1>0 DEF Moves, GoesOn, CallType
  <2> QED BY <2>1, <2>2 DEF Reject, Raw, FindDestroyed, Flush, Notify
<1>3. CASE Raw(t)
  <2>1. \/ UNCHANGED <<region, attachment>>
        \/ /\ \E c : attachment' = [attachment EXCEPT ![t].cursor = c]
           /\ \/ UNCHANGED region
              \/ \E at, p : region' = [region EXCEPT !.memory = CopyIn(@, at, p)]
                               /\ region.memory # NoMemory
    <3>1. PICK o \in Calls(t) :
            /\ o.kind \in Side /\ EarlyError(t, o) = "ok"
            /\ IF RawResult(t, o) # "ok"
               THEN UNCHANGED <<region, attachment>>
               ELSE /\ \E c : attachment' = [attachment EXCEPT ![t].cursor = c]
                    /\ \/ UNCHANGED region
                       \/ \E at, p : region' = [region EXCEPT !.memory = CopyIn(@, at, p)]
      BY <1>3 DEF Raw
    <3>2. DescriptorError(t) = "ok"
      BY <3>1 DEF EarlyError, TransferError
    <3>3. region.memory # NoMemory
      BY <3>2, DescriptorLive DEF Live
    <3> QED BY <3>1, <3>3
  <2>2. SameAttached
    BY <2>1, <1>0, AttachmentKept DEF RegionType, SameAttached, AttachmentFields
  <2>3. SameLife(region', region)
    <3>1. CASE UNCHANGED region
      BY <3>1, <1>0, SameRegion
    <3>2. CASE \E at, p : region' = [region EXCEPT !.memory = CopyIn(@, at, p)]
                               /\ region.memory # NoMemory
      <4>1. PICK at, p : region' = [region EXCEPT !.memory = CopyIn(region.memory, at, p)]
        BY <3>2
      <4>2. CopyIn(region.memory, at, p) # NoMemory
        BY <1>0, CopyInThere
      <4> QED BY <3>2, <4>1, <4>2, <1>0 DEF SameLife, RegionFields
    <3> QED BY <2>1, <3>1, <3>2
  <2> QED BY <1>1, <1>2, <2>2, <2>3, RegionInvQuiet
<1>4. CASE ~Raw(t)
  <2>1. UNCHANGED attachment /\ (UNCHANGED region \/ region' = Cleared(region))
    BY <1>4 DEF Reject, FindDestroyed, Flush, Notify
  <2>2. SameLife(region', region)
    BY <2>1, <1>0, SameRegion, ClearedLife
  <2> QED BY <1>0, <1>1, <1>2, <2>1, <2>2, RegionInvQuiet, AttachmentKept
<1> QED BY <1>3, <1>4

-----------------------------------------------------------------------------
(* Calls.                                                                  *)

(* A call that passes its checks.                                          *)
LEMMA RegionInvCall ==
    ASSUME RegionInv, NEW t \in Task, Call(t)
    PROVE  RegionInv'
<1>0. /\ RegionType /\ CallType /\ SlotInv /\ ReleaseInv /\ CountInv /\ CallInv
      /\ pc[t] = "idle"
  BY DEF RegionInv, Call, At
<1>1. PICK o \in Calls(t) :
        /\ EarlyError(t, o) = "ok"
        /\ o.kind = "attach" => Useless(t)
        /\ op' = [op EXCEPT ![t] = o]
  BY DEF Call
<1>2. UNCHANGED <<generation, allocated, issued, region, attachment>>
  BY DEF Call, registryVars
<1>3. pc' = [pc EXCEPT ![t] = "lock"]
  BY DEF Call, Goto
<1>4. /\ o.kind \in Side \cup {"attach", "control", "destroy", "detach"}
      /\ o.kind \in {"attach", "control", "destroy"} => o.h \in Nat /\ o.h <= issued
  <2>1. CASE o \in [kind : {"read"}, h : {0}, mode : Waits, arg : BufferSizes]
                \cup [kind : {"write"}, h : {0}, mode : Waits, arg : Lengths]
    BY <2>1 DEF Side
  <2>2. CASE o \in HandleOp /\ o.h <= issued
    BY <2>2 DEF HandleOp
  <2>3. CASE o = DetachOp
    BY <2>3 DEF DetachOp
  <2> QED BY <2>1, <2>2, <2>3 DEF Calls
<1>5. op'[t] = o /\ pc'[t] = "lock"
      /\ \A u \in Task \ {t} : op'[u] = op[u] /\ pc'[u] = pc[u]
  BY <1>0, <1>1, <1>3 DEF CallType
<1>6. CallOK(t)'
  <2>1. o.kind \in Side \cup {"detach"} => Live /\ attachment[t].handle = region.handle
    <3>1. o.kind \in Side \cup {"detach"} => DescriptorError(t) = "ok"
      BY <1>1 DEF EarlyError, TransferError, Side
    <3> QED BY <3>1, DescriptorLive
  <2>2. o.kind \in {"attach", "control", "destroy"}
            => o.h = generation /\ issued = generation
    <3>1. o.kind \in {"attach", "control", "destroy"} => o.h = generation
      BY <1>1 DEF EarlyError, Side
    <3> QED BY <3>1, <1>0, <1>4 DEF SlotInv, RegionType
  <2>3. o.kind = "attach"
            => attachment[t].handle = 0 \/ attachment[t].handle # region.handle
    BY <1>1 DEF Useless, DescriptorError
  <2> QED BY <1>2, <1>4, <1>5, <2>1, <2>2, <2>3 DEF CallOK, WakePlace, Live, Side
<1>7. CallInv'
  <2>1. ASSUME NEW u \in Task \ {t} PROVE CallOK(u)'
    BY <1>0, <1>2, <1>5 DEF CallInv, CallOK, Live
  <2> QED BY <2>1, <1>6 DEF CallInv
<1>8. CallType'
  BY <1>0, <1>1, <1>3, <1>4, <1>5 DEF CallType, Location, Kinds
<1>9. RegionType' /\ SlotInv' /\ CountInv'
  BY <1>0, <1>2 DEF RegionType, SlotInv, CountInv, Live, Attached
<1>10. ReleaseInv'
  BY <1>0, <1>2, <1>5 DEF ReleaseInv, Live
<1> QED BY <1>7, <1>8, <1>9, <1>10 DEF RegionInv

(* ipc_shm_create: nobody is in a call when a new region gets the slot.    *)
LEMMA IdleAtCreate ==
    ASSUME RegionInv, NEW t \in Task, Create(t)
    PROVE  ~Live /\ \A u \in Task : pc[u] = "idle" /\ op[u].kind = "none"
<1>1. ~Live /\ ~allocated
  BY DEF Create, RegionInv, ReleaseInv
<1>2. ASSUME NEW u \in Task PROVE pc[u] = "idle"
  <2>1. CallOK(u) /\ pc[u] \in Location /\ op[u].kind \in Kinds /\ pc[u] # "release"
    BY <1>1 DEF RegionInv, CallInv, ReleaseInv, CallType
  <2>2. pc[u] = "lock" => op[u].kind \in Side \cup {"detach"}
    BY DEF Create
  <2> QED BY <1>1, <2>1, <2>2 DEF CallOK, Location, Kinds
<1> QED BY <1>1, <1>2 DEF RegionInv, CallInv, CallOK

LEMMA RegionInvCreate ==
    ASSUME RegionInv, NEW t \in Task, Create(t)
    PROVE  RegionInv'
<1>0. /\ RegionType /\ CallType /\ SlotInv
      /\ ~Live /\ \A u \in Task : pc[u] = "idle" /\ op[u].kind = "none"
  BY IdleAtCreate DEF RegionInv
<1>0a. PICK m \in RegionModes, p \in Policies :
        \E mem \in {NoMemory, Zeroed(RegionSize[m])} :
            /\ region' = EmptyRegion(generation', FALSE, m, p, mem)
            /\ allocated' = (mem # NoMemory)
            /\ issued' = IF mem # NoMemory THEN generation' ELSE issued
  BY DEF Create
<1>1. PICK mem \in {NoMemory, Zeroed(RegionSize[m])} :
        /\ region' = EmptyRegion(generation', FALSE, m, p, mem)
        /\ allocated' = (mem # NoMemory)
        /\ issued' = IF mem # NoMemory THEN generation' ELSE issued
  BY <1>0a
<1>2. generation' = generation + 1 /\ UNCHANGED <<attachment, pc, op>>
  BY DEF Create
<1>3. /\ DOMAIN region' = RegionFields
      /\ region'.handle = generation + 1 /\ region'.destroyed = FALSE
      /\ region'.attachments = 0 /\ region'.mode = m /\ region'.memory = mem
  BY <1>1, <1>2 DEF EmptyRegion, RegionFields
<1>4. generation \in Nat /\ issued \in Nat /\ issued <= generation
  BY <1>0 DEF RegionType, SlotInv
<1>5. Live' <=> mem # NoMemory
  BY <1>3, <1>4 DEF Live
<1>5a. allocated' \in BOOLEAN /\ (allocated' <=> mem # NoMemory)
  BY <1>1, Zenon
<1>5b. generation' \in Nat /\ issued' \in Nat
  BY <1>1, <1>2, <1>4
<1>6. RegionType'
  <2>0. region'.destroyed \in BOOLEAN
    BY <1>3, Zenon
  <2>1. region'.attachments \in Nat /\ region'.mode \in RegionModes
    BY <1>3
  <2>2. DOMAIN attachment' = Task /\ \A u \in Task : DOMAIN attachment'[u] = AttachmentFields
    BY <1>0, <1>2 DEF RegionType
  <2> QED BY <1>3, <1>5a, <1>5b, <2>0, <2>1, <2>2 DEF RegionType
<1>7. CallType'
  BY <1>0, <1>2 DEF CallType
<1>8. SlotInv'
  <2>1. ASSUME NEW u \in Task
        PROVE  attachment[u].handle \in 0 .. issued /\ attachment'[u] = attachment[u]
    BY <1>0, <1>2 DEF SlotInv
  <2>2. issued' \in {issued, generation + 1} /\ issued' <= generation'
    BY <1>1, <1>2, <1>4
  <2>3. \A u \in Task : attachment'[u].handle \in 0 .. issued'
    BY <2>1, <2>2, <1>4
  <2>4. Live' => issued' = generation'
    BY <1>1, <1>5
  <2>5. ~Live' => issued' < generation'
    BY <1>1, <1>2, <1>4, <1>5
  <2> QED BY <2>2, <2>3, <2>4, <2>5, <1>2, <1>3 DEF SlotInv
<1>9. ReleaseInv'
  BY <1>0, <1>2, <1>5, <1>5a DEF ReleaseInv
<1>10. CountInv'
  <2>1. ASSUME NEW u \in Task PROVE attachment'[u].handle # region'.handle
    <3>1. attachment[u].handle \in 0 .. issued
      BY <1>0 DEF SlotInv
    <3> QED BY <3>1, <1>2, <1>3, <1>4
  <2>2. Attached' = {}
    BY <2>1 DEF Attached
  <2> QED BY <2>2, <1>3, FS_EmptySet DEF CountInv
<1>11. CallInv'
  BY <1>0, <1>2 DEF CallInv, CallOK, WakePlace, Side
<1> QED BY <1>6, <1>7, <1>8, <1>9, <1>10, <1>11 DEF RegionInv

-----------------------------------------------------------------------------
(* Attachments.                                                            *)

LEMMA AttachedFinite == IsFiniteSet(Attached) /\ Cardinality(Attached) \in Nat
<1>1. Attached \subseteq Task /\ IsFiniteSet(Task)
  BY ShmAssumption DEF Attached
<1> QED BY <1>1, FS_Subset, FS_CardinalityType

LEMMA RegionInvAttach ==
    ASSUME RegionInv, NEW t \in Task, Attach(t)
    PROVE  RegionInv'
<1>0. /\ RegionType /\ CallType /\ SlotInv /\ ReleaseInv /\ CountInv /\ CallInv
      /\ CallOK(t) /\ op[t].kind = "attach" /\ ~region.destroyed
      /\ UNCHANGED <<generation, allocated, issued>>
  BY DEF RegionInv, CallInv, Attach, InSection, registryVars
<1>1. /\ region' = [region EXCEPT !.attachments = @ + 1]
      /\ attachment' = [attachment EXCEPT ![t] =
            [handle |-> op[t].h, access |-> op[t].mode, cursor |-> 0]]
  BY DEF Attach
<1>2. Moves(t) /\ pc'[t] = "idle" /\ op'[t] = NoOp /\ pc[t] # "release"
  BY <1>0, ReturnMoves DEF Attach, CallOK
<1>3. /\ DOMAIN region' = RegionFields
      /\ region'.handle = region.handle /\ region'.destroyed = region.destroyed
      /\ region'.mode = region.mode /\ region'.memory = region.memory
      /\ region'.attachments = region.attachments + 1
  BY <1>0, <1>1 DEF RegionType, RegionFields
<1>4. /\ attachment'[t].handle = op[t].h /\ DOMAIN attachment' = Task
      /\ DOMAIN attachment'[t] = AttachmentFields
      /\ \A u \in Task \ {t} : attachment'[u] = attachment[u]
  BY <1>0, <1>1 DEF RegionType, AttachmentFields
<1>5. op[t].h = generation /\ issued = generation /\ generation \in Nat
  BY <1>0 DEF CallOK, RegionType
<1>6. Live' <=> Live
  BY <1>3 DEF Live
<1>7. RegionType'
  BY <1>0, <1>3, <1>4 DEF RegionType
<1>8. CallType'
  BY <1>0, <1>2 DEF CallType, Moves, NoOp, Kinds
<1>9. SlotInv'
  <2>1. \A u \in Task : attachment'[u].handle \in 0 .. issued
    BY <1>0, <1>4, <1>5 DEF SlotInv
  <2> QED BY <2>1, <1>0, <1>3, <1>6 DEF SlotInv
<1>10. ReleaseInv'
  BY <1>0, <1>2, <1>3, <1>6 DEF ReleaseInv, Moves
<1>11. CountInv'
  <2> SUFFICES ASSUME Live
               PROVE  /\ region'.attachments = Cardinality(Attached')
                      /\ ~region'.destroyed
    BY <1>0, <1>3, <1>6 DEF CountInv
  <2>1. region.handle = generation /\ region.handle # 0
    BY <1>0 DEF SlotInv, Live
  <2>2. t \notin Attached
    BY <1>0, <2>1 DEF CallOK, Attached
  <2>3. Attached' = Attached \cup {t}
    BY <1>3, <1>4, <1>5, <2>1 DEF Attached
  <2>4. Cardinality(Attached') = Cardinality(Attached) + 1
    BY <2>2, <2>3, AttachedFinite, FS_AddElement
  <2> QED BY <2>4, <1>0, <1>3 DEF CountInv
<1>12. CallInv'
  <2>1. CallOK(t)'
    BY <1>2 DEF CallOK, WakePlace, NoOp, Side
  <2>2. ASSUME NEW u \in Task \ {t} PROVE CallOK(u)'
    BY <1>0, <1>2, <1>3, <1>4, <1>6 DEF CallInv, CallOK, Moves
  <2> QED BY <2>1, <2>2 DEF CallInv
<1> QED BY <1>7, <1>8, <1>9, <1>10, <1>11, <1>12 DEF RegionInv

(* What the cleanup does: a region that is destroyed and to which nobody   *)
(* is attached is gone, any other stays as it is.                          *)
LEMMA CleanedUpLife ==
    ASSUME NEW r, DOMAIN r = RegionFields
    PROVE  /\ ~(r.destroyed /\ r.attachments = 0) => CleanedUp(r) = r
           /\ r.destroyed /\ r.attachments = 0 =>
                /\ DOMAIN CleanedUp(r) = RegionFields
                /\ CleanedUp(r).handle = 0 /\ CleanedUp(r).destroyed = FALSE
                /\ CleanedUp(r).attachments = 0 /\ CleanedUp(r).mode = r.mode
BY DEF CleanedUp, EmptyRegion, RegionFields

(* A destroy, or a detach, that leaves the region r.                       *)
LEMMA MaybeCleanUpMoves ==
    ASSUME RegionInv, NEW t \in Task, NEW r, MaybeCleanUp(t, r),
           pc[t] = "lock", op[t].kind \in {"detach", "destroy"}
    PROVE  /\ Moves(t)
           /\ IF r.handle # 0 /\ CleanedUp(r).handle = 0
              THEN pc'[t] = "release" /\ op'[t] = op[t]
              ELSE pc'[t] = "idle" /\ op'[t] = NoOp
<1>0. CallType /\ region' = CleanedUp(r)
  BY DEF RegionInv, MaybeCleanUp
<1>1. CASE r.handle # 0 /\ CleanedUp(r).handle = 0
  <2>1. Goto(t, "release") /\ UNCHANGED op
    BY <1>0, <1>1 DEF MaybeCleanUp
  <2> QED BY <2>1, <1>0, <1>1, GotoMoves DEF Location
<1>2. CASE ~(r.handle # 0 /\ CleanedUp(r).handle = 0)
  <2>1. \E reply : Return(t, reply)
    BY <1>0, <1>2 DEF MaybeCleanUp
  <2> QED BY <2>1, <1>0, <1>2, ReturnMoves
<1> QED BY <1>1, <1>2

(* The tasks attached to the region once t has let go of it, or has not.   *)
AttachedThen == {u \in Task : attachment'[u].handle = region.handle}

LEMMA RegionInvCleanUp ==
    ASSUME RegionInv, NEW t \in Task, NEW r, MaybeCleanUp(t, r),
           pc[t] = "lock", op[t].kind \in {"detach", "destroy"},
           DOMAIN r = RegionFields, r.handle = region.handle,
           r.memory = region.memory, r.mode = region.mode,
           r.destroyed \in BOOLEAN, r.attachments \in Nat,
           Live => r.attachments = Cardinality(AttachedThen),
           DOMAIN attachment' = Task, DOMAIN attachment'[t] = AttachmentFields,
           attachment'[t].handle \in {0, attachment[t].handle},
           \A u \in Task \ {t} : attachment'[u] = attachment[u]
    PROVE  RegionInv'
<1>0. /\ RegionType /\ CallType /\ SlotInv /\ ReleaseInv /\ CountInv /\ CallInv
      /\ CallOK(t) /\ region' = CleanedUp(r)
      /\ UNCHANGED <<generation, allocated, issued>>
  BY DEF RegionInv, CallInv, MaybeCleanUp, registryVars
<1>1. /\ Moves(t)
      /\ IF r.handle # 0 /\ CleanedUp(r).handle = 0
         THEN pc'[t] = "release" /\ op'[t] = op[t]
         ELSE pc'[t] = "idle" /\ op'[t] = NoOp
  BY MaybeCleanUpMoves
<1>2. generation \in Nat /\ issued \in Nat
  BY <1>0 DEF RegionType
<1>3. CallType'
  BY <1>0, <1>1 DEF CallType, Moves, NoOp, Kinds
<1>4. \A u \in Task : /\ attachment'[u].handle \in 0 .. issued
                      /\ DOMAIN attachment'[u] = AttachmentFields
  BY <1>0, <1>2 DEF SlotInv, RegionType
<1>5. CASE r.destroyed /\ r.attachments = 0
  <2>1. /\ DOMAIN region' = RegionFields
        /\ region'.handle = 0 /\ region'.destroyed = FALSE
        /\ region'.attachments = 0 /\ region'.mode = region.mode
    BY <1>0, <1>5, CleanedUpLife
  <2>2. ~Live'
    BY <2>1 DEF Live
  <2>3. region.handle # 0 => Live
    <3>1. CASE op[t].kind = "detach"
      BY <3>1, <1>0 DEF CallOK
    <3>2. CASE op[t].kind = "destroy"
      <4>1. issued = generation
        BY <3>2, <1>0 DEF CallOK
      <4> QED BY <4>1, <1>0, <1>2 DEF SlotInv
    <3> QED BY <3>1, <3>2
  <2>4. RegionType'
    <3>1. region'.destroyed \in BOOLEAN
      BY <2>1, Zenon
    <3> QED BY <3>1, <2>1, <1>0, <1>4 DEF RegionType
  <2>5. SlotInv'
    BY <2>1, <2>2, <1>0, <1>4 DEF SlotInv
  <2>6. CASE region.handle # 0
    <3>1. pc'[t] = "release" /\ op'[t] = op[t]
      BY <2>1, <2>6, <1>0, <1>1
    <3>2. Live /\ allocated /\ \A u \in Task : pc[u] # "release"
      BY <2>3, <2>6, <1>0 DEF ReleaseInv
    <3>3. ReleaseInv'
      BY <3>1, <3>2, <2>1, <2>2, <1>0, <1>1 DEF ReleaseInv, Moves
    <3>4. \A u \in Task : attachment'[u].handle # region.handle
      <4>1. Cardinality(AttachedThen) = 0 /\ IsFiniteSet(AttachedThen)
        <5>1. AttachedThen \subseteq Task /\ IsFiniteSet(Task)
          BY ShmAssumption DEF AttachedThen
        <5> QED BY <5>1, <3>2, <1>5, FS_Subset
      <4>2. AttachedThen = {}
        BY <4>1, FS_EmptySet
      <4> QED BY <4>2 DEF AttachedThen
    <3>5. ASSUME NEW u \in Task \ {t} PROVE CallOK(u)'
      <4>1. CallOK(u) /\ pc[u] # "release" /\ attachment[u].handle # region.handle
        BY <3>2, <3>4, <1>0 DEF CallInv
      <4> QED BY <4>1, <2>1, <1>0, <1>1 DEF CallOK, Moves
    <3>6. CallOK(t)'
      BY <3>1, <1>0 DEF CallOK, WakePlace, Side
    <3> QED BY <3>3, <3>5, <3>6, <2>2, <2>4, <2>5, <1>3
            DEF RegionInv, CallInv, CountInv
  <2>7. CASE region.handle = 0
    <3>1. pc'[t] = "idle" /\ op'[t] = NoOp /\ ~Live
      BY <2>7, <1>1 DEF Live
    <3>2. ReleaseInv'
      BY <3>1, <2>1, <2>2, <1>0, <1>1 DEF ReleaseInv, Moves
    <3>3. ASSUME NEW u \in Task \ {t} PROVE CallOK(u)'
      BY <3>1, <2>1, <1>0, <1>1 DEF CallInv, CallOK, Moves
    <3>4. CallOK(t)'
      BY <3>1 DEF CallOK, WakePlace, NoOp, Side
    <3> QED BY <3>2, <3>3, <3>4, <2>2, <2>4, <2>5, <1>3
            DEF RegionInv, CallInv, CountInv
  <2> QED BY <2>6, <2>7
<1>6. CASE ~(r.destroyed /\ r.attachments = 0)
  <2>1. /\ region' = r /\ region'.handle = region.handle
        /\ pc'[t] = "idle" /\ op'[t] = NoOp /\ (Live' <=> Live)
    <3>1. region' = r
      BY <1>0, <1>6, CleanedUpLife
    <3> QED BY <3>1, <1>0, <1>1 DEF Live
  <2>2. RegionType'
    BY <2>1, <1>0, <1>4 DEF RegionType
  <2>3. SlotInv'
    BY <2>1, <1>0, <1>4 DEF SlotInv
  <2>4. ReleaseInv'
    BY <2>1, <1>0, <1>1 DEF ReleaseInv, Moves
  <2>5. CountInv'
    <3>1. Attached' = AttachedThen
      BY <2>1 DEF Attached, AttachedThen
    <3> QED BY <3>1, <2>1, <1>6 DEF CountInv
  <2>6. ASSUME NEW u \in Task \ {t} PROVE CallOK(u)'
    BY <2>1, <1>0, <1>1 DEF CallInv, CallOK, Moves
  <2>7. CallOK(t)'
    BY <2>1 DEF CallOK, WakePlace, NoOp, Side
  <2> QED BY <2>2, <2>3, <2>4, <2>5, <2>6, <2>7, <1>3 DEF RegionInv, CallInv
<1> QED BY <1>5, <1>6

LEMMA RegionInvDetach ==
    ASSUME RegionInv, NEW t \in Task, Detach(t)
    PROVE  RegionInv'
<1> DEFINE r == [region EXCEPT !.attachments = Decremented(@)]
<1>0. /\ RegionType /\ CallType /\ SlotInv /\ CountInv /\ CallOK(t)
      /\ pc[t] = "lock" /\ op[t].kind = "detach"
  BY DEF RegionInv, CallInv, Detach, At
<1>1. Live /\ attachment[t].handle = region.handle /\ t \in Attached
  BY <1>0 DEF CallOK, Attached
<1>2. attachment' = [attachment EXCEPT ![t] = NoAttachment] /\ MaybeCleanUp(t, r)
  BY DEF Detach
<1>3. /\ attachment'[t].handle = 0 /\ DOMAIN attachment' = Task
      /\ DOMAIN attachment'[t] = AttachmentFields
      /\ \A u \in Task \ {t} : attachment'[u] = attachment[u]
  BY <1>0, <1>2 DEF RegionType, NoAttachment, AttachmentFields
<1>4. AttachedThen = Attached \ {t}
  BY <1>1, <1>3 DEF AttachedThen, Attached, Live
<1>5. Cardinality(AttachedThen) = Cardinality(Attached) - 1
  BY <1>1, <1>4, AttachedFinite, FS_RemoveElement
<1>6. region.attachments = Cardinality(Attached) /\ Cardinality(Attached) \in Nat \ {0}
  <2>1. Cardinality(Attached) # 0
    BY <1>1, AttachedFinite, FS_EmptySet
  <2> QED BY <2>1, <1>0, <1>1, AttachedFinite DEF CountInv
<1>7. /\ DOMAIN r = RegionFields /\ r.handle = region.handle
      /\ r.memory = region.memory /\ r.mode = region.mode
      /\ r.destroyed = region.destroyed /\ r.attachments = Decremented(region.attachments)
  BY <1>0 DEF RegionType, RegionFields
<1>8. r.attachments = Cardinality(AttachedThen) /\ r.attachments \in Nat
  BY <1>5, <1>6, <1>7 DEF Decremented
<1>9. r.destroyed \in BOOLEAN
  BY <1>0, <1>7 DEF RegionType
<1> HIDE DEF r
<1> QED BY <1>0, <1>2, <1>3, <1>7, <1>8, <1>9, RegionInvCleanUp

LEMMA RegionInvDestroy ==
    ASSUME RegionInv, NEW t \in Task, Destroy(t)
    PROVE  RegionInv'
<1> DEFINE r == [region EXCEPT !.destroyed = TRUE]
<1>0. /\ RegionType /\ CallType /\ SlotInv /\ CountInv /\ CallOK(t)
      /\ op[t].kind = "destroy"
  BY DEF RegionInv, CallInv, Destroy, InSection
<1>1. pc[t] = "lock"
  BY <1>0 DEF Destroy, InSection, AtTest, At, CallOK, Side
<1>2. UNCHANGED attachment /\ MaybeCleanUp(t, r)
  BY DEF Destroy
<1>3. /\ DOMAIN r = RegionFields /\ r.handle = region.handle
      /\ r.memory = region.memory /\ r.mode = region.mode
      /\ r.destroyed = TRUE /\ r.attachments = region.attachments
  BY <1>0 DEF RegionType, RegionFields
<1>4. AttachedThen = Attached
  BY <1>2 DEF AttachedThen, Attached
<1>5. r.attachments \in Nat /\ (Live => r.attachments = Cardinality(AttachedThen))
  BY <1>0, <1>3, <1>4 DEF RegionType, CountInv
<1>6. r.destroyed \in BOOLEAN
  BY <1>3, Zenon
<1>7. /\ DOMAIN attachment' = Task /\ DOMAIN attachment'[t] = AttachmentFields
      /\ attachment'[t].handle = attachment[t].handle
      /\ \A u \in Task \ {t} : attachment'[u] = attachment[u]
  BY <1>0, <1>2 DEF RegionType
<1> HIDE DEF r
<1> QED BY <1>0, <1>1, <1>2, <1>3, <1>5, <1>6, <1>7, RegionInvCleanUp

(* The slot can be allocated again.                                        *)
LEMMA RegionInvRelease ==
    ASSUME RegionInv, NEW t \in Task, Release(t)
    PROVE  RegionInv'
<1>0. /\ RegionType /\ CallType /\ SlotInv /\ ReleaseInv /\ CountInv /\ CallInv
      /\ pc[t] = "release" /\ allocated' = FALSE
      /\ UNCHANGED <<generation, issued, region, attachment>>
  BY DEF RegionInv, Release, At
<1>1. Moves(t) /\ pc'[t] = "idle" /\ op'[t] = NoOp
  BY <1>0, ReturnMoves DEF Release
<1>2. ~Live /\ ~Live' /\ region.handle = 0 /\ \A u \in Task \ {t} : pc[u] # "release"
  BY <1>0 DEF ReleaseInv, Live
<1>3. RegionType'
  <2>1. allocated' \in BOOLEAN
    BY <1>0, Zenon
  <2> QED BY <2>1, <1>0 DEF RegionType
<1>4. CallType'
  BY <1>0, <1>1 DEF CallType, Moves, NoOp, Kinds
<1>5. SlotInv' /\ CountInv'
  BY <1>0, <1>2 DEF SlotInv, CountInv
<1>6. ReleaseInv'
  BY <1>0, <1>1, <1>2 DEF ReleaseInv, Moves
<1>7. ASSUME NEW u \in Task PROVE CallOK(u)'
  <2>1. CASE u = t
    BY <2>1, <1>1 DEF CallOK, WakePlace, NoOp, Side
  <2>2. CASE u # t
    BY <2>2, <1>0, <1>1, <1>2 DEF CallInv, CallOK, Moves
  <2> QED BY <2>1, <2>2
<1> QED BY <1>3, <1>4, <1>5, <1>6, <1>7 DEF RegionInv, CallInv

-----------------------------------------------------------------------------
LEMMA RegionInvInit == Init => RegionInv
<1> SUFFICES ASSUME Init PROVE RegionInv
  OBVIOUS
<1>1. PICK m \in RegionModes : region = EmptyRegion(0, FALSE, m, "block", NoMemory)
  BY DEF Init
<1>2. /\ DOMAIN region = RegionFields /\ region.handle = 0
      /\ region.destroyed = FALSE /\ region.attachments = 0 /\ region.mode = m
  BY <1>1 DEF EmptyRegion, RegionFields
<1>3. /\ generation = 0 /\ allocated = FALSE /\ issued = 0
      /\ attachment = [t \in Task |-> NoAttachment]
      /\ pc = [t \in Task |-> "idle"] /\ op = [t \in Task |-> NoOp]
  BY DEF Init
<1>4. \A t \in Task : /\ attachment[t].handle = 0 /\ DOMAIN attachment[t] = AttachmentFields
                      /\ pc[t] = "idle" /\ op[t].kind = "none"
  BY <1>3 DEF NoAttachment, AttachmentFields, NoOp
<1>5. allocated \in BOOLEAN /\ region.destroyed \in BOOLEAN
  BY <1>2, <1>3, Zenon
<1>6. ~Live
  BY <1>2 DEF Live
<1>7. RegionType
  BY <1>2, <1>3, <1>4, <1>5 DEF RegionType
<1>8. CallType
  BY <1>3, <1>4 DEF CallType, Location, Kinds
<1>9. SlotInv
  BY <1>2, <1>3, <1>4, <1>6 DEF SlotInv
<1>10. ReleaseInv /\ CountInv
  BY <1>3, <1>4, <1>6 DEF ReleaseInv, CountInv
<1>11. CallInv
  BY <1>4 DEF CallInv, CallOK, WakePlace, Side
<1> QED BY <1>7, <1>8, <1>9, <1>10, <1>11 DEF RegionInv

LEMMA RegionInvNext == RegionInv /\ [Next]_vars => RegionInv'
<1> SUFFICES ASSUME RegionInv, [Next]_vars PROVE RegionInv'
  OBVIOUS
<1>1. CASE UNCHANGED vars
  BY <1>1 DEF vars, registryVars, RegionInv, RegionType, CallType, SlotInv, ReleaseInv,
              CountInv, CallInv, CallOK, Live, Attached
<1>2. ASSUME NEW t \in Task, Begin(t) PROVE RegionInv'
  BY <1>2, RegionInvOther, RegionInvCall, RegionInvCreate DEF Begin
<1>3. ASSUME NEW t \in Task, Step(t) PROVE RegionInv'
  BY <1>3, RegionInvOther, RegionInvTransfer, RegionInvWaits, RegionInvWakeOne,
     RegionInvAttach, RegionInvDetach, RegionInvDestroy, RegionInvRelease DEF Step
<1> QED BY <1>1, <1>2, <1>3 DEF Next

LEMMA RegionInvariant == Spec => []RegionInv
BY RegionInvInit, RegionInvNext, PTL DEF Spec

(* A region outlives its destroy for whoever is attached to it: a call     *)
(* that was checked against it finds it again, with its memory, however    *)
(* long it has waited (ipc_shm_destroy, ipc_shm_cleanup_locked). It goes   *)
(* with the last of them, and its slot with it.                            *)
THEOREM RegionInvariance == Spec => []RegionKept
<1>1. RegionInv => RegionKept
  <2> SUFFICES ASSUME RegionInv PROVE RegionKept
    OBVIOUS
  <2>1. AttachedRegionStays
    BY DEF RegionInv, CallInv, CallOK, AttachedRegionStays, Live
  <2>2. RegionReclaimed
    BY DEF RegionInv, CountInv, ReleaseInv, RegionReclaimed, Attached
  <2> QED BY <2>1, <2>2 DEF RegionKept
<1> QED BY <1>1, RegionInvariant, PTL

=============================================================================
