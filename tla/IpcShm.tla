------------------------------- MODULE IpcShm -------------------------------
(***************************************************************************)
(* The shared memory regions of ipc_shm.c: one slot of g_shm_regions with  *)
(* its place in the handle registry, the attachments the tasks hold, and   *)
(* the reads and writes in the three modes.                                *)
(*                                                                         *)
(* What runs between portENTER_CRITICAL and portEXIT_CRITICAL is one step. *)
(* The checks before it (Call), the blocking, and the release of the       *)
(* handle (Release) are steps of their own. A task passes its own          *)
(* attachment, which no other task uses.                                   *)
(*                                                                         *)
(* The reads and writes wake one waiter of the other side after they have  *)
(* left the critical section. ipc_wake_one then walks and edits a list     *)
(* that nothing protects, so the wait queues are the linked lists they are *)
(* in the code, and the waker goes through them link by link (PickFirst to *)
(* Give), with other tasks between any two of its steps.                   *)
(*                                                                         *)
(* Memory is modelled byte by byte, since the indices and the packet       *)
(* headers are what can go wrong; a payload of n bytes is 1, 2, ..., n.    *)
(***************************************************************************)
EXTENDS IpcWait, FiniteSets

CONSTANTS
    RegionSize,     \* the region_size of the regions, by mode
    PacketMax,      \* the packet_max_payload they are created with
    RegionModes,    \* the modes regions are created in
    Policies,       \* their ring policies, "block" and "drop"
    Lengths,        \* the lengths callers write
    BufferSizes,    \* the sizes of the buffers they read into
    Waits,          \* how callers wait: "try", "zero", "finite", "forever"
    Accesses,       \* the access modes they attach with: "r", "w", "rw"
    Commands,       \* the control commands they give
    Null,           \* the null pointer
    MaxGen,         \* bound: how many times the slot is allocated
    MaxAttached,    \* bound: how far the attachments of a region are counted
    MaxWaiting      \* bound: how far a counter of waiters can drift

ASSUME ShmAssumption ==
    /\ IsFiniteSet(Task) /\ Null \notin Task
    /\ \A m \in RegionModes :
        RegionSize[m] \in Nat /\ RegionSize[m] > IF m = "packet" THEN 2 ELSE 1
    /\ PacketMax \in Nat
    /\ RegionModes \subseteq {"raw", "ring", "packet"}
    /\ Policies \subseteq {"block", "drop"}
    /\ Lengths \subseteq Nat /\ BufferSizes \subseteq Nat
    /\ Waits \subseteq {"try", "zero", "finite", "forever"}
    /\ Accesses \subseteq {"r", "w", "rw"}
    /\ Commands \subseteq {"flush", "notify_read", "notify_write"}
    /\ MaxGen \in Nat /\ MaxAttached \in Nat /\ MaxWaiting \in Nat

VARIABLES
    \* the slot's generation and allocated flag, the handles handed out
    generation, allocated, issued,
    \* ipc_shm_region_t, the ends of its wait queues, its counters of waiters
    region, queue, waiting,
    \* the prev and next of each task's waiter
    link,
    \* the ipc_shm_attachment_t of each task
    attachment,
    \* a task loops inside a critical section, or has followed a link to a
    \* waiter whose call has returned: nothing is said of what comes after
    halted,
    \* where a waker is in the queue: its candidate and the next to look at
    scan,
    \* each task's place in its call, the call, its waiter on the stack, what
    \* ipc_waiter_block returned
    pc, op, waiter, wait_result,
    \* what the call this step decided returns, NoReply after other steps
    ret

registryVars == <<generation, allocated, issued>>
queueVars    == <<queue, waiting, link, waiter>>
vars         == <<registryVars, region, queueVars, attachment, halted, scan,
                  pc, op, wait_result, ret>>

Side == {"read", "write"}
Other(s) == IF s = "read" THEN "write" ELSE "read"

NoLink    == [prev |-> Null, next |-> Null]
NoEnds    == [head |-> Null, tail |-> Null]
NoWaiters == [s \in Side |-> NoEnds]
NoScan    == [best |-> Null, next |-> Null]

NoMemory == << >>
Zeroed(n) == [i \in 0 .. n - 1 |-> 0]

(* head, tail and used are the indices and byte counts of the region's     *)
(* mode (ring_... or packet_...): the others stay 0.                       *)
EmptyRegion(h, gone, m, p, mem) ==
    [handle |-> h, destroyed |-> gone, attachments |-> 0, mode |-> m,
     policy |-> p, memory |-> mem, head |-> 0, tail |-> 0, used |-> 0, count |-> 0]

NoAttachment == [handle |-> 0, access |-> "r", cursor |-> 0]

TransferOp == [kind : Side, h : {0}, mode : Waits, arg : Lengths \cup BufferSizes]
HandleOp   == [kind : {"attach"}, h : 1 .. MaxGen, mode : Accesses, arg : {0}]
    \cup [kind : {"control"}, h : 1 .. MaxGen, mode : Commands, arg : {0}]
    \cup [kind : {"destroy"}, h : 1 .. MaxGen, mode : {"none"}, arg : {0}]
DetachOp   == [kind |-> "detach", h |-> 0, mode |-> "none", arg |-> 0]
NoOp       == [kind |-> "none", h |-> 0, mode |-> "none", arg |-> 0]

Reply(c, e, d) == [call |-> c, error |-> e, data |-> d]
NoReply == Reply("none", "none", << >>)

-----------------------------------------------------------------------------
(* The circular memory.                                                    *)

HeaderSize == 2     \* sizeof(ipc_shm_packet_header_t)
Radix      == 256   \* the values of a byte

(* The region_size field.                                                 *)
Size == RegionSize[region.mode]

Payload(n) == [i \in 1 .. n |-> i]

(* The header in memory: a uint16_t, whatever the width of the length.     *)
Header(n) == <<n % Radix, (n \div Radix) % Radix>>

(* Mutant: the copy stops at the end of the memory.                        *)
CopyInNoWrap(mem, at, s) ==
    [i \in 0 .. Size - 1 |->
        IF i >= at /\ i - at < Len(s) THEN s[i - at + 1] ELSE mem[i]]

(* ipc_shm_memcpy_to_region: what does not fit behind offset at goes to    *)
(* the beginning of the memory.                                            *)
CopyIn(mem, at, s) ==
    LET headspace == Size - at IN
    [i \in 0 .. Size - 1 |->
        IF i >= at /\ i - at < Len(s) THEN s[i - at + 1]
        ELSE IF i + headspace < Len(s) THEN s[i + headspace + 1]
        ELSE mem[i]]

(* ipc_shm_memcpy_from_region.                                             *)
CopyOut(mem, at, n) ==
    LET headspace == Size - at IN
    [i \in 1 .. n |-> IF i <= headspace THEN mem[at + i - 1]
                                        ELSE mem[i - headspace - 1]]

(* The length in the packet header at an offset.                           *)
LengthAt(mem, at) ==
    LET h == CopyOut(mem, at, HeaderSize) IN h[1] + Radix * h[2]

(* Mutant: a full ring and an empty one cannot be told apart.              *)
RoomAll(r) == Size - r.used

(* ipc_shm_ring_free_space leaves one byte of a ring unused; a packet      *)
(* region uses them all.                                                   *)
Room(r) == (IF r.mode = "ring" THEN Size - 1 ELSE Size) - r.used

(* The bytes a payload of n bytes takes.                                   *)
Need(r, n) == IF r.mode = "ring" THEN n ELSE HeaderSize + n

(* ipc_shm_create adjusts the largest payload of a packet.                 *)
packet_max_payload ==
    IF PacketMax = 0 \/ PacketMax > Size - HeaderSize THEN Size - HeaderSize
                                                      ELSE PacketMax

(* ipc_shm_ring_drop_oldest: 0, or too much, means everything.             *)
DropOldest(r, n) ==
    LET drop == IF n = 0 \/ n > r.used THEN r.used ELSE n IN
    [r EXCEPT !.head = (@ + drop) % Size, !.used = @ - drop]

(* What a write of n bytes finds after it has dropped what it may drop.    *)
MadeRoom(r, n) ==
    IF r.mode = "ring" /\ r.policy = "drop" /\ Room(r) < n
    THEN DropOldest(r, n - Room(r))
    ELSE r

(* The region after a payload of n bytes has been stored.                  *)
Stored(r, n) ==
    [r EXCEPT
        !.memory = IF r.mode = "ring" THEN CopyIn(@, r.tail, Payload(n))
                   ELSE CopyIn(CopyIn(@, r.tail, Header(n)),
                               (r.tail + HeaderSize) % Size, Payload(n)),
        !.tail  = (@ + Need(r, n)) % Size,
        !.used  = @ + Need(r, n),
        !.count = IF r.mode = "packet" THEN @ + 1 ELSE @]

(* The region after n bytes of payload have been taken.                    *)
Taken(r, n) ==
    [r EXCEPT
        !.head  = (@ + Need(r, n)) % Size,
        !.used  = @ - Need(r, n),
        !.count = IF r.mode = "packet" THEN @ - 1 ELSE @]

(* ipc_shm_clear_contents.                                                 *)
Cleared(r) == [r EXCEPT !.head = 0, !.tail = 0, !.used = 0, !.count = 0]

Available == IF region.mode = "ring" THEN region.used > 0 ELSE region.count > 0

-----------------------------------------------------------------------------
(* Before the lock.                                                        *)

(* ipc_shm_attachment_validate, and the same tests in ipc_shm_detach.      *)
DescriptorError(t) ==
    IF attachment[t].handle = 0 THEN "not_attached"
    ELSE IF attachment[t].handle # region.handle THEN "invalid_handle"
    ELSE "ok"

(* A write of n bytes that the mode can never take.                        *)
LengthError(n) ==
    IF n = 0 THEN "invalid_argument"
    ELSE IF region.mode = "packet" /\ n > packet_max_payload THEN "invalid_argument"
    ELSE IF region.mode = "ring" /\ n > Size THEN "full"
    ELSE "ok"

(* The checks of the read and write functions before they lock.            *)
TransferError(t, o) ==
    IF o.mode = "zero" THEN "timeout"
    ELSE IF DescriptorError(t) # "ok" THEN DescriptorError(t)
    ELSE IF attachment[t].access \notin {"rw", IF o.kind = "read" THEN "r" ELSE "w"}
    THEN "no_permission"
    ELSE IF o.kind = "write" THEN LengthError(o.arg)
    ELSE IF o.arg = 0 THEN "invalid_argument" ELSE "ok"

(* What a call returns before it takes the region's lock. ipc_shm_lookup   *)
(* compares generations, and does not look whether the slot is allocated.  *)
EarlyError(t, o) ==
    IF o.kind \in Side THEN TransferError(t, o)
    ELSE IF o.kind = "detach" THEN DescriptorError(t)
    ELSE IF o.h # generation THEN "invalid_handle" ELSE "ok"

Calls(t) ==
    [kind : {"read"}, h : {0}, mode : Waits, arg : BufferSizes]
    \cup [kind : {"write"}, h : {0}, mode : Waits, arg : Lengths]
    \cup {o \in HandleOp : o.h <= issued}
    \cup {DetachOp}

(* A task at this place can go on: no other one keeps the processor.       *)
At(t, l) == pc[t] = l /\ ~halted

(* An attachment the task gives up on: its region is gone.                 *)
Useless(t) == DescriptorError(t) # "ok"

Return(t, r) ==
    /\ pc' = [pc EXCEPT ![t] = "idle"]
    /\ op' = [op EXCEPT ![t] = NoOp]
    /\ wait_result' = [wait_result EXCEPT ![t] = "ok"]
    /\ ret' = r

Goto(t, l) == pc' = [pc EXCEPT ![t] = l]

Reject(t) ==
    /\ At(t, "idle")
    /\ \E o \in Calls(t) :
        /\ EarlyError(t, o) # "ok"
        /\ ret' = Reply(o.kind, EarlyError(t, o), << >>)
    /\ UNCHANGED <<registryVars, region, queueVars, attachment, halted, scan,
                   pc, op, wait_result>>

Call(t) ==
    /\ At(t, "idle")
    /\ \E o \in Calls(t) :
        /\ EarlyError(t, o) = "ok"
        /\ o.kind \in Side => region.mode # "raw"
        /\ o.kind = "attach" => Useless(t)
        /\ op' = [op EXCEPT ![t] = o]
    /\ Goto(t, "lock")
    /\ ret' = NoReply
    /\ UNCHANGED <<registryVars, region, queueVars, attachment, halted, scan, wait_result>>

(* Mutant: a write is not kept inside the region.                          *)
RawResultUnbounded(t, o) ==
    IF region.destroyed THEN "destroyed"
    ELSE IF attachment[t].cursor >= Size THEN "empty"
    ELSE "ok"

(* ipc_shm_raw_read and ipc_shm_raw_write take no lock: they copy at the   *)
(* attachment's cursor.                                                    *)
RawResult(t, o) ==
    IF region.destroyed THEN "destroyed"
    ELSE IF o.kind = "read" /\ attachment[t].cursor >= Size THEN "empty"
    ELSE IF o.kind = "write" /\ attachment[t].cursor + o.arg > Size THEN "full"
    ELSE "ok"

Raw(t) ==
    /\ At(t, "idle")
    /\ region.mode = "raw"
    /\ \E o \in Calls(t) :
        LET at == attachment[t].cursor
            n  == IF o.kind = "write" \/ o.arg < Size - at THEN o.arg ELSE Size - at
        IN
        /\ o.kind \in Side
        /\ EarlyError(t, o) = "ok"
        /\ IF RawResult(t, o) # "ok"
           THEN /\ ret' = Reply(o.kind, RawResult(t, o), << >>)
                /\ UNCHANGED <<region, attachment>>
           ELSE /\ attachment' = [attachment EXCEPT ![t].cursor = at + n]
                /\ IF o.kind = "write"
                   THEN /\ region' = [region EXCEPT !.memory = CopyIn(@, at, Payload(n))]
                        /\ ret' = Reply("write", "ok", << >>)
                   ELSE /\ ret' = Reply("read", "ok", CopyOut(region.memory, at, n))
                        /\ UNCHANGED region
    /\ UNCHANGED <<registryVars, queueVars, halted, scan, pc, op, wait_result>>

(* ipc_shm_create. Nobody holds the new handle until it returns, so it is  *)
(* one step. pvPortMalloc may fail: the slot is given back as it is then.  *)
(* (Bound: nobody is between the lookup of an old handle and the lock;     *)
(* IpcChannel has such callers.)                                           *)
Create(t) ==
    /\ At(t, "idle")
    /\ ~allocated
    /\ generation < MaxGen
    /\ \A u \in Task : pc[u] = "lock" => op[u].kind \in Side \cup {"detach"}
    /\ generation' = generation + 1
    /\ \E m \in RegionModes, p \in Policies :
       \E mem \in {NoMemory, Zeroed(RegionSize[m])} :
        /\ m # "ring" => p = "block"
        /\ region' = EmptyRegion(generation', FALSE, m, p, mem)
        /\ allocated' = (mem # NoMemory)
        /\ issued' = IF mem # NoMemory THEN generation' ELSE issued
        /\ ret' = Reply("create", IF mem # NoMemory THEN "ok" ELSE "no_space", << >>)
    /\ queue' = NoWaiters
    /\ waiting' = [s \in Side |-> 0]
    /\ UNCHANGED <<link, waiter, attachment, halted, scan, pc, op, wait_result>>

-----------------------------------------------------------------------------
(* The wait queues.                                                        *)

(* One side's queue, with the links of the waiters.                        *)
List(s) == [head |-> queue[s].head, tail |-> queue[s].tail, link |-> link]

SetList(s, l) ==
    /\ queue' = [queue EXCEPT ![s] = [head |-> l.head, tail |-> l.tail]]
    /\ link' = l.link

(* ipc_waiter_enqueue.                                                     *)
Appended(l, u) ==
    LET k == [l.link EXCEPT ![u] = [prev |-> l.tail, next |-> Null]] IN
    IF l.tail = Null
    THEN [head |-> u, tail |-> u, link |-> k]
    ELSE [head |-> l.head, tail |-> u, link |-> [k EXCEPT ![l.tail].next = u]]

(* ipc_waiter_remove: what is before u is joined to what is after it, ...  *)
JoinedNext(l, u) ==
    LET k == l.link[u] IN
    IF k.prev # Null THEN [l EXCEPT !.link[k.prev].next = k.next]
                     ELSE [l EXCEPT !.head = k.next]

(* ... and what is after it to what is before, ...                         *)
JoinedPrev(l, u) ==
    LET k == l.link[u] IN
    IF k.next # Null THEN [l EXCEPT !.link[k.next].prev = k.prev]
                     ELSE [l EXCEPT !.tail = k.prev]

(* ... and its own links are cleared.                                      *)
Removed(l, u) == [JoinedPrev(JoinedNext(l, u), u) EXCEPT !.link[u] = NoLink]

(* The waiters u has links to, and those of them that are no longer there: *)
(* their tasks have returned from the wait the waiter was a variable of.   *)
Neighbours(l, u) == {u, l.link[u].prev, l.link[u].next}

Dangles(s, U) ==
    \E u \in U \ {Null} : ~(pc[u] \in {"wait", "relock"} /\ op[u].kind = s)

(* The queue, and the counter, once t has removed its waiter. A counter    *)
(* below 0 wraps, to a number as good as MaxWaiting.                       *)
Left(t) ==
    LET s == op[t].kind IN
    IF waiter[t].enqueued
    THEN [list    |-> Removed(List(s), t),
          waiting |-> IF waiting[s] > 0 THEN waiting[s] - 1 ELSE MaxWaiting,
          dangles |-> Dangles(s, Neighbours(List(s), t))]
    ELSE [list |-> List(s), waiting |-> waiting[s], dangles |-> FALSE]

(* A task that has waited and holds the lock again removes its waiter, if  *)
(* it still counts as enqueued: one that was woken stays in the counter.   *)
LeaveQueue(t) ==
    /\ SetList(op[t].kind, Left(t).list)
    /\ waiting' = [waiting EXCEPT ![op[t].kind] = Left(t).waiting]
    /\ halted' = Left(t).dangles
    /\ waiter' = [waiter EXCEPT ![t] = NoWaiter]

(* ipc_wake_all on one side: a turn of its loop, x.at being the waiter it  *)
(* has come to, ...                                                        *)
Turn(x, s, r) ==
    IF x.at = Null THEN x
    ELSE [list    |-> IF x.waiter[x.at].enqueued THEN Removed(x.list, x.at) ELSE x.list,
          waiter  |-> [x.waiter EXCEPT ![x.at] = Woken(@, r)],
          at      |-> x.list.link[x.at].next,
          dangles |-> x.dangles \/ Dangles(s, Neighbours(x.list, x.at))]

(* ... and the loop, from a list and the waiters as they are. (The set has *)
(* TLC evaluate a turn once.)                                              *)
WakenAll(s, l, w, r) ==
    LET turn[n \in 0 .. Cardinality(Task) + 1] ==
            IF n = 0 THEN [list |-> l, waiter |-> w, at |-> l.head, dangles |-> FALSE]
            ELSE CHOOSE y \in {Turn(x, s, r) : x \in {turn[n - 1]}} : TRUE
        last == turn[Cardinality(Task) + 1]
    IN  [last EXCEPT !.dangles = @ \/ last.at # Null]

-----------------------------------------------------------------------------
(* Under the lock.                                                         *)

(* The call has just taken the lock, or its wait ended well and the loop   *)
(* tests again, after LeaveQueue.                                          *)
AtTest(t) ==
    \/ At(t, "lock")
    \/ At(t, "relock") /\ wait_result[t] = "ok"

FindDestroyed(t) ==
    /\ AtTest(t)
    /\ op[t].kind # "detach"
    /\ region.destroyed
    /\ IF op[t].kind \in Side THEN LeaveQueue(t) ELSE UNCHANGED <<queueVars, halted>>
    /\ Return(t, Reply(op[t].kind, "destroyed", << >>))
    /\ UNCHANGED <<registryVars, region, attachment, scan>>

InSection(t, kind) == AtTest(t) /\ op[t].kind = kind /\ ~region.destroyed

(* Mutant: the counter of the caller's own side is looked at.              *)
FinishOwnSide(t, d) ==
    LET r == Reply(op[t].kind, "ok", d) IN
    IF waiting[op[t].kind] > 0
    THEN /\ Goto(t, "wake")
         /\ ret' = r
         /\ UNCHANGED <<op, wait_result>>
    ELSE Return(t, r)

(* A read or a write has been done: it returns, or first wakes one waiter  *)
(* of the other side if the counter, read under the lock, says there are.  *)
Finish(t, d) ==
    LET r == Reply(op[t].kind, "ok", d) IN
    IF waiting[Other(op[t].kind)] > 0
    THEN /\ Goto(t, "wake")
         /\ ret' = r
         /\ UNCHANGED <<op, wait_result>>
    ELSE Return(t, r)

(* ipc_shm_ring_read_common: as many bytes as there are and fit.           *)
ReadRing(t) ==
    /\ InSection(t, "read")
    /\ region.mode = "ring"
    /\ Available
    /\ LET n == IF op[t].arg > region.used THEN region.used ELSE op[t].arg IN
        /\ region' = Taken(region, n)
        /\ Finish(t, CopyOut(region.memory, region.head, n))
    /\ LeaveQueue(t)
    /\ UNCHANGED <<registryVars, attachment, scan>>

(* ipc_shm_packet_read_common: the next packet, if it fits.                *)
ReadPacket(t) ==
    /\ InSection(t, "read")
    /\ region.mode = "packet"
    /\ Available
    /\ LET n == LengthAt(region.memory, region.head) IN
       IF n > op[t].arg
       THEN /\ Return(t, Reply("read", "invalid_argument", << >>))
            /\ UNCHANGED region
       ELSE /\ region' = Taken(region, n)
            /\ Finish(t, CopyOut(region.memory, (region.head + HeaderSize) % Size, n))
    /\ LeaveQueue(t)
    /\ UNCHANGED <<registryVars, attachment, scan>>

(* ipc_shm_ring_write_common, after it has dropped what it may drop...     *)
WriteRing(t) ==
    /\ InSection(t, "write")
    /\ region.mode = "ring"
    /\ LET r == MadeRoom(region, op[t].arg) IN
        /\ Room(r) >= op[t].arg
        /\ region' = Stored(r, op[t].arg)
    /\ Finish(t, << >>)
    /\ LeaveQueue(t)
    /\ UNCHANGED <<registryVars, attachment, scan>>

(* ... and ipc_shm_packet_write_common, which drops nothing.               *)
WritePacket(t) ==
    /\ InSection(t, "write")
    /\ region.mode = "packet"
    /\ Room(region) >= Need(region, op[t].arg)
    /\ region' = Stored(region, op[t].arg)
    /\ Finish(t, << >>)
    /\ LeaveQueue(t)
    /\ UNCHANGED <<registryVars, attachment, scan>>

(* A write that may drop the oldest bytes, of as many bytes as the region  *)
(* has, finds no room when it has dropped them all: it goes on dropping,   *)
(* and does not leave the critical section.                                *)
WriteForever(t) ==
    /\ InSection(t, "write")
    /\ region.mode = "ring" /\ region.policy = "drop"
    /\ Room(MadeRoom(region, op[t].arg)) < op[t].arg
    /\ region' = MadeRoom(region, op[t].arg)
    /\ halted' = TRUE
    /\ ret' = NoReply
    /\ UNCHANGED <<registryVars, queueVars, attachment, scan, pc, op, wait_result>>

Blocked(t) ==
    \/ InSection(t, "read") /\ ~Available
    \/ /\ InSection(t, "write")
       /\ ~(region.mode = "ring" /\ region.policy = "drop")
       /\ Room(region) < Need(region, op[t].arg)

Refuse(t) ==
    /\ Blocked(t)
    /\ op[t].mode = "try"
    /\ Return(t, Reply(op[t].kind, IF op[t].kind = "read" THEN "empty" ELSE "full", << >>))
    /\ UNCHANGED <<registryVars, region, queueVars, attachment, halted, scan>>

Park(t) ==
    LET s == op[t].kind
        l == Left(t).list
    IN
    /\ Blocked(t)
    /\ op[t].mode \in {"finite", "forever"}
    /\ Left(t).waiting < MaxWaiting
    /\ SetList(s, Appended(l, t))
    /\ waiting' = [waiting EXCEPT ![s] = Left(t).waiting + 1]
    /\ waiter' = [waiter EXCEPT ![t] = PreparedWaiter]
    /\ halted' = (Left(t).dangles \/ Dangles(s, {l.tail} \ {t}))
    /\ Goto(t, "wait")
    /\ wait_result' = [wait_result EXCEPT ![t] = "ok"]
    /\ ret' = NoReply
    /\ UNCHANGED <<registryVars, region, attachment, scan, op>>

(* ipc_waiter_block returns, because the semaphore was given...            *)
BlockTaken(t) ==
    /\ At(t, "wait")
    /\ waiter[t].given
    /\ wait_result' = [wait_result EXCEPT ![t] = waiter[t].result]
    /\ waiter' = [waiter EXCEPT ![t].given = FALSE, ![t].armed = FALSE]
    /\ Goto(t, "relock")
    /\ ret' = NoReply
    /\ UNCHANGED <<registryVars, region, queue, waiting, link, attachment, halted, scan, op>>

(* ... or because the deadline, computed when the call began, has passed.  *)
BlockTimeout(t) ==
    /\ At(t, "wait")
    /\ op[t].mode = "finite"
    /\ ~waiter[t].given
    /\ wait_result' = [wait_result EXCEPT ![t] = "timeout"]
    /\ waiter' = [waiter EXCEPT ![t] = TimedOut(@)]
    /\ Goto(t, "relock")
    /\ ret' = NoReply
    /\ UNCHANGED <<registryVars, region, queue, waiting, link, attachment, halted, scan, op>>

Decremented(n) == IF n > 0 THEN n - 1 ELSE 0

(* A wait that did not end well fails the call.                            *)
GiveUp(t) ==
    /\ At(t, "relock")
    /\ wait_result[t] # "ok"
    /\ LeaveQueue(t)
    /\ Return(t, Reply(op[t].kind, wait_result[t], << >>))
    /\ UNCHANGED <<registryVars, region, attachment, scan>>

-----------------------------------------------------------------------------
(* ipc_wake_one on the other side, after the critical section.             *)

Waked(t) == Other(op[t].kind)

(* ipc_wait_queue_pick begins at the head...                               *)
PickFirst(t) ==
    LET u == queue[Waked(t)].head IN
    /\ At(t, "wake")
    /\ IF u = Null
       THEN Return(t, NoReply) /\ UNCHANGED <<scan, halted>>
       ELSE /\ scan' = [scan EXCEPT ![t] = [best |-> u, next |-> link[u].next]]
            /\ halted' = Dangles(Waked(t), {u})
            /\ Goto(t, "pick")
            /\ ret' = NoReply
            /\ UNCHANGED <<op, wait_result>>
    /\ UNCHANGED <<registryVars, region, queueVars, attachment>>

(* ... and keeps the first waiter of the highest priority it comes to.     *)
PickNext(t) ==
    LET u == scan[t].next
        b == scan[t].best
    IN
    /\ At(t, "pick")
    /\ u # Null
    /\ scan' = [scan EXCEPT ![t] =
            [best |-> IF Prio[u] > Prio[b] THEN u ELSE b, next |-> link[u].next]]
    /\ halted' = Dangles(Waked(t), {u})
    /\ ret' = NoReply
    /\ UNCHANGED <<registryVars, region, queueVars, attachment, pc, op, wait_result>>

(* A step of ipc_waiter_remove on the candidate, and of m_sched_wait_wake: *)
(* it goes from one place to another and touches the waiters U.            *)
OnCandidate(t, from, to, U) ==
    /\ At(t, from)
    /\ halted' = Dangles(Waked(t), U)
    /\ Goto(t, to)
    /\ ret' = NoReply
    /\ UNCHANGED <<registryVars, region, waiting, attachment, scan, op, wait_result>>

(* A candidate that is no longer enqueued is not removed, but is woken.    *)
TestEnqueued(t) ==
    LET b == scan[t].best IN
    /\ scan[t].next = Null
    /\ OnCandidate(t, "pick", IF waiter[b].enqueued THEN "join_next" ELSE "give", {b})
    /\ UNCHANGED <<queue, link, waiter>>

JoinNext(t) ==
    LET b == scan[t].best IN
    /\ OnCandidate(t, "join_next", "join_prev", {b, link[b].prev})
    /\ SetList(Waked(t), JoinedNext(List(Waked(t)), b))
    /\ UNCHANGED waiter

JoinPrev(t) ==
    LET b == scan[t].best IN
    /\ OnCandidate(t, "join_prev", "clear", {b, link[b].next})
    /\ SetList(Waked(t), JoinedPrev(List(Waked(t)), b))
    /\ UNCHANGED waiter

ClearLinks(t) ==
    LET b == scan[t].best IN
    /\ OnCandidate(t, "clear", "give", {b})
    /\ link' = [link EXCEPT ![b] = NoLink]
    /\ waiter' = [waiter EXCEPT ![b].enqueued = FALSE]
    /\ UNCHANGED queue

(* m_sched_wait_wake.                                                      *)
Give(t) ==
    LET b == scan[t].best IN
    /\ At(t, "give")
    /\ waiter' = [waiter EXCEPT ![b] =
            [@ EXCEPT !.armed = FALSE, !.given = @ \/ waiter[b].armed, !.result = "ok"]]
    /\ halted' = Dangles(Waked(t), {b})
    /\ scan' = [scan EXCEPT ![t] = NoScan]
    /\ Return(t, NoReply)
    /\ UNCHANGED <<registryVars, region, queue, waiting, link, attachment>>

WakeOne(t) ==
    \/ PickFirst(t) \/ PickNext(t) \/ TestEnqueued(t) \/ JoinNext(t) \/ JoinPrev(t)
    \/ ClearLinks(t) \/ Give(t)

-----------------------------------------------------------------------------
(* Attachments, controls and the end of a region.                          *)

Attach(t) ==
    /\ InSection(t, "attach")
    /\ region.attachments < MaxAttached
    /\ region' = [region EXCEPT !.attachments = @ + 1]
    /\ attachment' = [attachment EXCEPT ![t] =
            [handle |-> op[t].h, access |-> op[t].mode, cursor |-> 0]]
    /\ Return(t, Reply("attach", "ok", << >>))
    /\ UNCHANGED <<registryVars, queueVars, halted, scan>>

(* Mutant: the region goes although somebody is attached.                  *)
CleanedUpEarly(r) ==
    IF r.destroyed
    THEN EmptyRegion(0, FALSE, r.mode, r.policy, NoMemory)
    ELSE r

(* Mutant: the handle stays, so nobody releases the slot.                  *)
CleanedUpUnreleased(r) ==
    IF r.destroyed /\ r.attachments = 0
    THEN EmptyRegion(r.handle, TRUE, r.mode, r.policy, NoMemory)
    ELSE r

(* ipc_shm_cleanup_locked: a destroyed region nobody is attached to loses  *)
(* its memory and its handle, and the mark that it is destroyed.           *)
CleanedUp(r) ==
    IF r.destroyed /\ r.attachments = 0
    THEN EmptyRegion(0, FALSE, r.mode, r.policy, NoMemory)
    ELSE r

(* A cleanup that happens empties the queues q and the counters n, too.    *)
CleanQueues(r, q, n) ==
    IF r.destroyed /\ r.attachments = 0
    THEN queue' = NoWaiters /\ waiting' = [s \in Side |-> 0]
    ELSE queue' = q /\ waiting' = n

(* Destroy and detach end with the cleanup of a region that has become r.  *)
(* The handle is released only if the region still had one.                *)
MaybeCleanUp(t, r) ==
    /\ region' = CleanedUp(r)
    /\ IF r.handle # 0 /\ region'.handle = 0
       THEN Goto(t, "release") /\ ret' = NoReply /\ UNCHANGED <<op, wait_result>>
       ELSE Return(t, Reply(op[t].kind, "ok", << >>))
    /\ UNCHANGED <<registryVars, scan>>

Detach(t) ==
    LET r == [region EXCEPT !.attachments = Decremented(@)] IN
    /\ At(t, "lock")
    /\ op[t].kind = "detach"
    /\ attachment' = [attachment EXCEPT ![t] = NoAttachment]
    /\ MaybeCleanUp(t, r)
    /\ CleanQueues(r, queue, waiting)
    /\ UNCHANGED <<link, waiter, halted>>

Destroy(t) ==
    LET r == [region EXCEPT !.destroyed = TRUE]
        x == WakenAll("read", List("read"), waiter, "destroyed")
        y == WakenAll("write", [List("write") EXCEPT !.link = x.list.link], x.waiter,
                      "destroyed")
        Ends(l) == [head |-> l.head, tail |-> l.tail]
    IN
    /\ InSection(t, "destroy")
    /\ MaybeCleanUp(t, r)
    /\ CleanQueues(r, [s \in Side |-> Ends(IF s = "read" THEN x.list ELSE y.list)],
                   [s \in Side |-> 0])
    /\ link' = y.list.link
    /\ waiter' = y.waiter
    /\ halted' = (x.dangles \/ y.dangles)
    /\ UNCHANGED attachment

(* ipc_handle_release.                                                     *)
Release(t) ==
    /\ At(t, "release")
    /\ allocated' = FALSE
    /\ Return(t, Reply(op[t].kind, "ok", << >>))
    /\ UNCHANGED <<generation, issued, region, queueVars, attachment, halted, scan>>

(* ipc_shm_control: flush and reset...                                     *)
Flush(t) ==
    /\ InSection(t, "control")
    /\ op[t].mode = "flush"
    /\ region' = Cleared(region)
    /\ Return(t, Reply("control", "ok", << >>))
    /\ UNCHANGED <<registryVars, queueVars, attachment, halted, scan>>

(* ... and the two that wake everybody on one side.                        *)
Notify(t, s) ==
    LET x == WakenAll(s, List(s), waiter, "ok") IN
    /\ InSection(t, "control")
    /\ op[t].mode = IF s = "read" THEN "notify_read" ELSE "notify_write"
    /\ SetList(s, x.list)
    /\ waiter' = x.waiter
    /\ halted' = x.dangles
    /\ waiting' = [waiting EXCEPT ![s] = 0]
    /\ Return(t, Reply("control", "ok", << >>))
    /\ UNCHANGED <<registryVars, region, attachment, scan>>

-----------------------------------------------------------------------------
Init ==
    /\ generation = 0 /\ allocated = FALSE /\ issued = 0
    /\ \E m \in RegionModes : region = EmptyRegion(0, FALSE, m, "block", NoMemory)
    /\ queue = NoWaiters
    /\ link = [t \in Task |-> NoLink]
    /\ waiting = [s \in Side |-> 0]
    /\ attachment = [t \in Task |-> NoAttachment]
    /\ halted = FALSE
    /\ scan = [t \in Task |-> NoScan]
    /\ pc = [t \in Task |-> "idle"]
    /\ op = [t \in Task |-> NoOp]
    /\ waiter = [t \in Task |-> NoWaiter]
    /\ wait_result = [t \in Task |-> "ok"]
    /\ ret = NoReply

(* A task may call...                                                      *)
Begin(t) == Reject(t) \/ Call(t) \/ Raw(t) \/ Create(t)

(* ... and, once in a call, goes on with it.                               *)
Step(t) ==
    \/ FindDestroyed(t) \/ ReadRing(t) \/ ReadPacket(t) \/ WriteRing(t)
    \/ WritePacket(t) \/ WriteForever(t) \/ Refuse(t) \/ Park(t) \/ BlockTaken(t)
    \/ BlockTimeout(t) \/ GiveUp(t) \/ WakeOne(t) \/ Attach(t) \/ Detach(t)
    \/ Destroy(t) \/ Release(t) \/ Flush(t) \/ \E s \in Side : Notify(t, s)

Next == \E t \in Task : Begin(t) \/ Step(t)

Spec == Init /\ [][Next]_vars

(* The scheduler runs every ready task, and deadlines pass.                *)
FairSpec == Spec /\ \A t \in Task : WF_vars(Step(t))

-----------------------------------------------------------------------------
(* Properties.                                                             *)

(* Where a task is that has finished its read or write and wakes another.  *)
WakePlace == {"wake", "pick", "join_next", "join_prev", "clear", "give"}

Location == {"idle", "lock", "wait", "relock", "release"} \cup WakePlace

(* Every variable has its type; the bytes and the packets fit the memory.  *)
TypeOK ==
    /\ generation \in 0 .. MaxGen /\ issued \in 0 .. generation
    /\ allocated \in BOOLEAN /\ halted \in BOOLEAN
    /\ region.handle \in 0 .. MaxGen /\ region.attachments \in Nat
    /\ region.memory \in {NoMemory} \cup [0 .. Size - 1 -> 0 .. Radix - 1]
    /\ region.head \in 0 .. Size - 1 /\ region.tail \in 0 .. Size - 1
    /\ region.used \in 0 .. Size /\ region.count \in 0 .. Size
    /\ \A t \in Task : attachment[t].handle = region.handle => attachment[t].cursor <= Size
    /\ queue \in [Side -> [head : Task \cup {Null}, tail : Task \cup {Null}]]
    /\ link \in [Task -> [prev : Task \cup {Null}, next : Task \cup {Null}]]
    /\ scan \in [Task -> [best : Task \cup {Null}, next : Task \cup {Null}]]
    /\ waiting \in [Side -> 0 .. MaxWaiting]
    /\ pc \in [Task -> Location]
    /\ op \in [Task -> TransferOp \cup HandleOp \cup {DetachOp, NoOp}]
    /\ waiter \in [Task -> Waiter]
    /\ wait_result \in [Task -> WaitResult]

Live == region.handle # 0 /\ region.memory # NoMemory

(* A region outlives its destroy for those who are attached: the region a  *)
(* call was checked against is still the one in the slot, with its memory, *)
(* however long the call has waited in between.                            *)
AttachedRegionStays ==
    \A t \in Task : op[t].kind \in Side \cup {"detach"} /\ pc[t] # "release" =>
        /\ region.handle = attachment[t].handle
        /\ region.memory # NoMemory

(* ... and it goes with the last of them: a region is counted once for     *)
(* each task attached to it, a destroyed one has somebody attached, and    *)
(* the slot is in use exactly while there is a region or its release.      *)
RegionReclaimed ==
    /\ Live => region.attachments =
            Cardinality({t \in Task : attachment[t].handle = region.handle})
    /\ Live /\ region.destroyed => region.attachments > 0
    /\ allocated <=> Live \/ \E t \in Task : pc[t] = "release"

(* A region stays while a handle is attached to it, and no longer.         *)
RegionKept == AttachedRegionStays /\ RegionReclaimed

(* A task waits for bytes that are there, for room that is there, or on a *)
(* region that is destroyed.                                               *)
Lingers(t) ==
    /\ pc[t] = "wait"
    /\ \/ region.destroyed
       \/ op[t].kind = "read" /\ Available
       \/ op[t].kind = "write" /\ Room(region) >= Need(region, op[t].arg)

(* "If data/space is unavailable, tasks sleep on wait queues until the     *)
(* condition, timeout, or destroy": with bytes moved one at a time, no     *)
(* task lingers for ever, whatever the waking, which "occurs outside the   *)
(* lock", meets (while every link leads to a waiter that is there).        *)
WaiterWakes == \A t \in Task : Lingers(t) ~> ~Lingers(t) \/ halted

(* The packets in memory, from the head on, by following their headers.    *)
Offset[k \in 1 .. region.count + 1] ==
    IF k = 1 THEN region.head
    ELSE (Offset[k - 1] + HeaderSize + LengthAt(region.memory, Offset[k - 1])) % Size

Packets ==
    [k \in 1 .. region.count |->
        CopyOut(region.memory, (Offset[k] + HeaderSize) % Size,
                LengthAt(region.memory, Offset[k]))]

(* What ShmStream knows of a region.                                       *)
AbstractSize  == IF Live THEN Size ELSE 0
AbstractKind  == IF Live THEN region.mode ELSE "none"
AbstractLossy == Live /\ region.mode = "ring" /\ region.policy = "drop"

AbstractStream ==
    IF ~Live THEN << >>
    ELSE IF region.mode = "packet" THEN Packets
    ELSE CopyOut(region.memory, region.head, region.used)

Errors == {"timeout", "not_attached", "invalid_handle", "invalid_argument",
           "no_permission", "full", "empty", "destroyed", "no_space"}

(* What is read is what was written, in order and whole, whatever the      *)
(* indices, the overwriting, the waiting and the waking do.                *)
Abstract == INSTANCE ShmStream WITH
    size   <- AbstractSize,
    kind   <- AbstractKind,
    lossy  <- AbstractLossy,
    stream <- AbstractStream,
    reply  <- ret

ImplementsShmStream == Abstract!Spec
=============================================================================
