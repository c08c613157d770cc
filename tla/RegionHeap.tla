----------------------------- MODULE RegionHeap -----------------------------
(***************************************************************************)
(* The heap of a job context (kernel/core/memory/m_alloc.c).  It is built  *)
(* of regions obtained from the platform; every region is cut into blocks, *)
(* a header and a payload each.  All blocks are in one list, region after  *)
(* region in the order the regions came, the free ones also in a free      *)
(* list, the last freed first.  An allocation takes the first free block   *)
(* that is large enough and cuts off what it does not need; a freed block  *)
(* is joined with its free neighbours of the list.                         *)
(*                                                                         *)
(* Sizes and addresses count in units of the alignment, so that a request  *)
(* is the size it is rounded up to; a block is named by the address of its *)
(* header.  A place is a variable of the job's program that holds a        *)
(* pointer it got.  malloc, free and the test and change of a block are    *)
(* one critical section of the heap; realloc is two, with the copy         *)
(* between.                                                                *)
(***************************************************************************)
EXTENDS Integers, FiniteSets, Sequences, SequencesExt

CONSTANTS
    Place,          \* the places where the program keeps a pointer
    Header,         \* the size of a block's header, at least 1
    RegionSize,     \* the size of a region, larger than a header
    MaxRegions,     \* how many regions a heap may have
    Bases,          \* where the platform has memory for a region
    Sizes,          \* the sizes the program asks for
    Word            \* size_t counts modulo this

NoPtr == 0

(* What the constants are: regions lie apart from each other, below Word.  *)
Configured ==
    /\ Header \in Nat \ {0} /\ Word \in Nat \ {0} /\ MaxRegions \in Nat
    /\ RegionSize \in Nat /\ RegionSize > Header
    /\ Bases \subseteq Nat \ {NoPtr}
    /\ \A base \in Bases : base + RegionSize <= Word
    /\ \A base, other \in Bases :
          base < other => base + RegionSize <= other
    /\ Sizes \subseteq Nat \ {0}

VARIABLES
    heap,           \* regions, blocks in list order, free list, bytes used
    held,           \* place -> the block it points to
    asked,          \* place -> the size it asked for
    moving,         \* place -> the old block, while realloc has yet to free it
    cancelled       \* an allocation failed: the job has been cancelled

vars == <<heap, held, asked, moving, cancelled>>

(***************************************************************************)
(* Blocks.                                                                 *)
(***************************************************************************)
MaxPayload == RegionSize - Header

End(b) == b.addr + Header + b.size

IndexOf(h, a) == CHOOSE i \in DOMAIN h.blocks : h.blocks[i].addr = a

BlockAt(h, a) == h.blocks[IndexOf(h, a)]

(* The list with the members i .. k replaced by the members of new.        *)
Replaced(list, i, k, new) ==
    SubSeq(list, 1, i - 1) \o new \o SubSeq(list, k + 1, Len(list))

(* detach_free_block *)
Without(free, a) ==
    IF Contains(free, a)
    THEN RemoveAt(free, CHOOSE i \in DOMAIN free : free[i] = a)
    ELSE free

(* find_fit_block: the first of the free list that is large enough.        *)
Fit(h, n) ==
    LET fits == {i \in DOMAIN h.free : BlockAt(h, h.free[i]).size >= n}
    IN  IF fits = {} THEN NoPtr
        ELSE h.free[CHOOSE i \in fits : \A k \in fits : i <= k]

(* split_block cuts b behind its first n units when a header and a payload *)
(* of one unit remain.                                                     *)
Splits(b, n) ==
    /\ b.size >= n + Header + 1
    /\ b.addr + Header + n + Header < End(b) % Word

(* A free block handed out for n units.                                    *)
Taken(h, a, n) ==
    LET i     == IndexOf(h, a)
        b     == h.blocks[i]
        rest  == [addr |-> a + Header + n, size |-> b.size - n - Header,
                  allocated |-> FALSE]
        given == [b EXCEPT !.size = IF Splits(b, n) THEN n ELSE @,
                           !.allocated = TRUE]
        parts == IF Splits(b, n) THEN <<given, rest>> ELSE <<given>>
        left  == Without(h.free, a)
    IN  [h EXCEPT !.blocks = Replaced(@, i, i, parts),
                  !.free   = IF Splits(b, n) THEN <<rest.addr>> \o left ELSE left,
                  !.used   = (@ + given.size) % Word]

(* merge_blocks: the left block reaches to the end of the right one.       *)
Merged(l, r) == [l EXCEPT !.size = (r.addr - l.addr + r.size) % Word]

(* Mutant: the joined block stays in the free list.                        *)
JoinedKept(h, i, gone) ==
    [h EXCEPT !.blocks = Replaced(@, i, i + 1, <<Merged(@[i], @[i + 1])>>)]

(* The neighbours i and i + 1 joined; the free list loses the one named.   *)
Joined(h, i, gone) ==
    [h EXCEPT !.blocks = Replaced(@, i, i + 1, <<Merged(@[i], @[i + 1])>>),
              !.free   = Without(@, gone)]

IsFree(h, i) == i \in DOMAIN h.blocks /\ ~h.blocks[i].allocated

(* coalesce_free_block: first the block before, then the one after.        *)
Coalesced(h, i) ==
    LET back  == IsFree(h, i - 1)
        at    == IF back THEN i - 1 ELSE i
        left  == IF back THEN Joined(h, i - 1, h.blocks[i - 1].addr) ELSE h
        whole == IF IsFree(left, at + 1)
                 THEN Joined(left, at, left.blocks[at + 1].addr) ELSE left
    IN  [whole EXCEPT !.free = <<whole.blocks[at].addr>> \o @]

(* m_region_heap_free_block *)
Released(h, a) ==
    LET i == IndexOf(h, a)
    IN  Coalesced([h EXCEPT !.blocks[i].allocated = FALSE,
                            !.used = (@ - h.blocks[i].size) % Word], i)

(* m_region_heap_grow: a region, one free block, is put at the list's end. *)
Grown(h, base) ==
    [h EXCEPT !.regions = @ \cup {base},
              !.blocks  = Append(@, [addr |-> base, size |-> MaxPayload,
                                     allocated |-> FALSE]),
              !.free    = <<base>> \o @]

(* The heaps in which an allocation of n looks for its block: this one, or *)
(* when nothing fits and the platform has memory, this one with a region   *)
(* more.                                                                   *)
Searched(n) ==
    IF n > MaxPayload THEN {}
    ELSE IF Fit(heap, n) # NoPtr THEN {heap}
    ELSE IF Cardinality(heap.regions) >= MaxRegions THEN {}
    ELSE {Grown(heap, base) : base \in Bases \ heap.regions}

-----------------------------------------------------------------------------
EmptyHeap == [regions |-> {}, blocks |-> <<>>, free |-> <<>>, used |-> 0]

Init ==
    /\ heap = EmptyHeap
    /\ held = [s \in Place |-> NoPtr]
    /\ asked = [s \in Place |-> 0]
    /\ moving = [s \in Place |-> NoPtr]
    /\ cancelled = FALSE

(* m_job_alloc, m_job_calloc, and realloc of a null pointer.               *)
Alloc(s, n) ==
    /\ held[s] = NoPtr
    /\ \E h \in Searched(n) :
          /\ heap' = Taken(h, Fit(h, n), n)
          /\ held' = [held EXCEPT ![s] = Fit(h, n)]
    /\ asked' = [asked EXCEPT ![s] = n]
    /\ UNCHANGED <<moving, cancelled>>

(* Nothing fits and no region can be had: the program gets NULL and its    *)
(* job is cancelled (m_alloc_report_error), though it goes on running; a   *)
(* realloc that fails in this way changes nothing.                         *)
OutOfMemory(s, n) ==
    /\ held[s] = NoPtr
    /\ n > MaxPayload \/ Fit(heap, n) = NoPtr
    /\ cancelled' = TRUE
    /\ UNCHANGED <<heap, held, asked, moving>>

(* realloc of a block that is large enough: it stays as it is.             *)
ReallocInPlace(s, n) ==
    /\ held[s] # NoPtr
    /\ moving[s] = NoPtr
    /\ n <= BlockAt(heap, held[s]).size
    /\ asked' = [asked EXCEPT ![s] = n]
    /\ UNCHANGED <<heap, held, moving, cancelled>>

(* realloc of a block that is too small: a new one is taken and written.   *)
(* When there is none, realloc returns NULL and the old block stays.       *)
ReallocMove(s, n) ==
    /\ held[s] # NoPtr
    /\ moving[s] = NoPtr
    /\ n > BlockAt(heap, held[s]).size
    /\ \E h \in Searched(n) :
          /\ heap' = Taken(h, Fit(h, n), n)
          /\ held' = [held EXCEPT ![s] = Fit(h, n)]
    /\ moving' = [moving EXCEPT ![s] = held[s]]
    /\ asked' = [asked EXCEPT ![s] = n]
    /\ UNCHANGED cancelled

(* ... and the old one freed.                                              *)
ReallocFree(s) ==
    /\ moving[s] # NoPtr
    /\ heap' = Released(heap, moving[s])
    /\ moving' = [moving EXCEPT ![s] = NoPtr]
    /\ UNCHANGED <<held, asked, cancelled>>

(* m_job_free, and realloc to no size.                                     *)
Free(s) ==
    /\ held[s] # NoPtr
    /\ moving[s] = NoPtr
    /\ heap' = Released(heap, held[s])
    /\ held' = [held EXCEPT ![s] = NoPtr]
    /\ asked' = [asked EXCEPT ![s] = 0]
    /\ UNCHANGED <<moving, cancelled>>

(* m_alloc_teardown_job_ctx: the job is over, and whatever it still held   *)
(* goes with its regions.  The next job begins with a context of its own.  *)
Teardown ==
    /\ \A s \in Place : moving[s] = NoPtr
    /\ heap' = EmptyHeap
    /\ held' = [s \in Place |-> NoPtr]
    /\ asked' = [s \in Place |-> 0]
    /\ cancelled' = FALSE
    /\ UNCHANGED moving

Next ==
    \/ \E s \in Place : Free(s) \/ ReallocFree(s)
    \/ \E s \in Place, n \in Sizes :
          \/ Alloc(s, n) \/ OutOfMemory(s, n)
          \/ ReallocInPlace(s, n) \/ ReallocMove(s, n)
    \/ Teardown

Spec == Init /\ [][Next]_vars

-----------------------------------------------------------------------------
BlockType == [addr : 0 .. Word - 1, size : 0 .. Word - 1, allocated : BOOLEAN]

(* Every variable has its type.                                            *)
TypeOK ==
    /\ heap.regions \subseteq Bases
    /\ heap.blocks \in Seq(BlockType)
    /\ heap.free \in Seq(0 .. Word - 1)
    /\ heap.used \in 0 .. Word - 1
    /\ held \in [Place -> 0 .. Word - 1]
    /\ asked \in [Place -> Sizes \cup {0}]
    /\ moving \in [Place -> 0 .. Word - 1]
    /\ cancelled \in BOOLEAN

Blocks == {heap.blocks[i] : i \in DOMAIN heap.blocks}

(* Every block is a part of one region: what a pointer leads to is memory  *)
(* of the heap, header and payload.                                        *)
BlocksInRegions ==
    \A b \in Blocks : \E base \in heap.regions :
        base <= b.addr /\ End(b) <= base + RegionSize

(* The blocks tile the regions: a region begins with a block, and each     *)
(* block that does not end its region is followed by the next of the list; *)
(* nothing is lost between them and nothing is in two.                     *)
BlocksTile ==
    /\ \A base \in heap.regions : \E b \in Blocks : b.addr = base
    /\ \A i \in DOMAIN heap.blocks :
          LET b == heap.blocks[i]
          IN  \/ \E base \in heap.regions : End(b) = base + RegionSize
              \/ i < Len(heap.blocks) /\ heap.blocks[i + 1].addr = End(b)

(* The free list has every free block once and no other, and no two free   *)
(* blocks are neighbours: a region that is all free can be had in one.     *)
FreeListExact ==
    /\ {heap.free[i] : i \in DOMAIN heap.free}
          = {b.addr : b \in {x \in Blocks : ~x.allocated}}
    /\ Cardinality({b \in Blocks : ~b.allocated}) = Len(heap.free)
    /\ \A i \in DOMAIN heap.blocks : ~(IsFree(heap, i) /\ IsFree(heap, i + 1))

(* The allocated blocks are the ones the program points to, each pointed   *)
(* to once and as large as was asked: none is lost, none is given twice.   *)
PointersOwnBlocks ==
    LET owned == [s \in Place |-> {held[s], moving[s]} \ {NoPtr}]
    IN  /\ UNION {owned[s] : s \in Place}
              = {b.addr : b \in {x \in Blocks : x.allocated}}
        /\ \A s, t \in Place : s # t => owned[s] \cap owned[t] = {}
        /\ \A s \in Place :
              held[s] # NoPtr => BlockAt(heap, held[s]).size >= asked[s]

(* The heap is sound through every sequence of malloc, realloc and free.   *)
HeapSound ==
    BlocksInRegions /\ BlocksTile /\ FreeListExact /\ PointersOwnBlocks
=============================================================================
