------------------------------ MODULE ReadCache -----------------------------
(***************************************************************************)
(* The read cache of the VFS (kernel/core/vfs/cache/m_vfs_read_cache.c)    *)
(* between the read and write calls (m_vfs_core.c) and a driver.  A file   *)
(* has an offset, kept by the VFS, and its driver a position of its own:   *)
(* the driver's read takes no offset, it delivers what comes next.  The    *)
(* cache reads a block at a time and keeps what the caller did not want;   *)
(* an entry is found again by the file and the number of the block.        *)
(*                                                                         *)
(* A byte is the place it has in its file, or in the stream of a device.   *)
(* The table has no lock: a call can be overtaken wherever it looks at an  *)
(* entry, and most of all while the driver reads into one.                 *)
(***************************************************************************)
EXTENDS Integers, Sequences, SequencesExt

CONSTANTS
    Task, File,
    Entries,        \* the entries of the table are 1 .. Entries
    Block,          \* the bytes of a block
    Lengths,        \* what readers ask for
    Size,           \* the bytes a file has, at first
    MaxByte,        \* bound: no file is read or written beyond this byte
    Device,         \* the driver delivers what it has, and may have to wait;
                    \* otherwise a whole block or what is left of the file
    Kinds           \* which of "read", "write", "seek", "close", "flush"

NoOpenFile == "no file"

VARIABLES
    table,          \* entry -> file, block, valid, consumed, filled, and the
                    \* bytes in it: whose (of) and from which on (from)
    recent,         \* the filled entries, the least recently used first
    offset,         \* file -> the offset the VFS keeps
    position,       \* file -> the driver's next byte
    size,           \* file -> its bytes
    pc, call,       \* task -> where it is, and its call
    transfer        \* the bytes last copied to a reader or written: at which
                    \* offset of which file, and which bytes they are

vars == <<table, recent, offset, position, size, pc, call, transfer>>

tableVars == <<table, recent>>
fileVars  == <<offset, position, size>>

Empty == [file |-> NoOpenFile, block |-> 0, valid |-> 0, consumed |-> 0, filled |-> FALSE,
          of |-> NoOpenFile, from |-> 0]

NoCall == [file |-> NoOpenFile, left |-> 0, total |-> 0, entry |-> 0]

NoTransfer == [file |-> NoOpenFile, offset |-> 0, of |-> NoOpenFile, from |-> 0]

Goto(t, where) == pc' = [pc EXCEPT ![t] = where]

SmallestOf(S) == CHOOSE n \in S : \A m \in S : n <= m
Lesser(m, n)  == IF m < n THEN m ELSE n

Init ==
    /\ table = [e \in 1 .. Entries |-> Empty]
    /\ recent = << >>
    /\ offset = [f \in File |-> 0]
    /\ position = [f \in File |-> 0]
    /\ size = [f \in File |-> Size]
    /\ pc = [t \in Task |-> "idle"]
    /\ call = [t \in Task |-> NoCall]
    /\ transfer = NoTransfer

-----------------------------------------------------------------------------
(* The table.                                                              *)

(* What an entry is when it is given up: its bytes stay where they are.    *)
Emptied(entry) ==
    [entry EXCEPT !.file = NoOpenFile, !.valid = 0, !.consumed = 0, !.filled = FALSE]

(* _m_vfs_read_cache_find: the entries with bytes of this block to give.   *)
Found(f, b) ==
    {e \in DOMAIN table : /\ table[e].filled /\ table[e].file = f /\ table[e].block = b
                          /\ table[e].consumed < table[e].valid}

(* _m_vfs_read_cache_reserve: the first entry that is not filled, or the   *)
(* one that was used least recently.                                       *)
Victim ==
    LET unfilled == {e \in DOMAIN table : ~table[e].filled}
    IN  IF unfilled # {} THEN SmallestOf(unfilled) ELSE Head(recent)

Unused(e)     == SelectSeq(recent, LAMBDA x : x # e)
JustUsed(e)   == Append(Unused(e), e)

-----------------------------------------------------------------------------
(* Reading.                                                                *)

(* m_vfs_read                                                              *)
Read(t, f, n) ==
    /\ "read" \in Kinds /\ pc[t] = "idle"
    /\ call' = [call EXCEPT ![t] = [NoCall EXCEPT !.file = f, !.left = n]]
    /\ Goto(t, "look")
    /\ UNCHANGED <<tableVars, fileVars, transfer>>

(* The block that holds the next byte to read.                             *)
BlockOf(t) == (offset[call[t].file] + call[t].total) \div Block

(* The loop of m_vfs_read_cache_read: an entry is found, ...               *)
LookUp(t) ==
    /\ pc[t] = "look"
    /\ call[t].total < call[t].left
    /\ LET found == Found(call[t].file, BlockOf(t))
       IN  /\ found # {}
           /\ call' = [call EXCEPT ![t].entry = SmallestOf(found)]
    /\ Goto(t, "copy")
    /\ UNCHANGED <<tableVars, fileVars, transfer>>

(* ... or one is given up for the block, and the driver called.            *)
Reserve(t) ==
    /\ pc[t] = "look"
    /\ call[t].total < call[t].left
    /\ Found(call[t].file, BlockOf(t)) = {}
    /\ call' = [call EXCEPT ![t].entry = Victim]
    /\ table' = [table EXCEPT ![Victim] = [Emptied(@) EXCEPT !.block = BlockOf(t)]]
    /\ recent' = Unused(Victim)
    /\ Goto(t, "fetch")
    /\ UNCHANGED <<fileVars, transfer>>

(* How many bytes the driver delivers for a block of file f.               *)
Delivered(f) ==
    LET whole == Lesser(Block, size[f] - position[f])
    IN  IF Device THEN 1 .. whole ELSE {whole}

(* The driver has delivered n bytes; the entry is the file's from now on.  *)
Fetched(t) ==
    LET f == call[t].file
        e == call[t].entry
    IN  /\ pc[t] = "fetch"
        /\ \E n \in Delivered(f) \ {0} :
              /\ table' = [table EXCEPT ![e] =
                     [file |-> f, block |-> BlockOf(t), valid |-> n, consumed |-> 0,
                      filled |-> TRUE, of |-> f, from |-> position[f]]]
              /\ position' = [position EXCEPT ![f] = @ + n]
        /\ recent' = JustUsed(e)
        /\ Goto(t, "copy")
        /\ UNCHANGED <<offset, size, call, transfer>>

(* At the end of the file the driver delivers nothing.                     *)
FetchedNothing(t) ==
    /\ pc[t] = "fetch"
    /\ 0 \in Delivered(call[t].file)
    /\ table' = [table EXCEPT ![call[t].entry] = Emptied(@)]
    /\ recent' = Unused(call[t].entry)
    /\ Goto(t, "return")
    /\ UNCHANGED <<fileVars, call, transfer>>

(* The driver would block: the call waits for an event of the file, and    *)
(* begins again.  What this turn of it has copied is not counted.          *)
FetchWaits(t) ==
    /\ Device /\ pc[t] = "fetch"
    /\ table' = [table EXCEPT ![call[t].entry] = Emptied(@)]
    /\ recent' = Unused(call[t].entry)
    /\ call' = [call EXCEPT ![t].total = 0]
    /\ Goto(t, "look")
    /\ UNCHANGED <<fileVars, transfer>>

(* The driver fails, or the wait ends at its deadline: so does the call.   *)
FetchFails(t) ==
    /\ Device /\ pc[t] = "fetch"
    /\ table' = [table EXCEPT ![call[t].entry] = Emptied(@)]
    /\ recent' = Unused(call[t].entry)
    /\ call' = [call EXCEPT ![t] = NoCall]
    /\ Goto(t, "idle")
    /\ UNCHANGED <<fileVars, transfer>>

(* _m_vfs_read_cache_copy: from whatever the entry is by now.              *)
Copy(t) ==
    LET f     == call[t].file
        e     == call[t].entry
        entry == table[e]
        take  == Lesser(call[t].left - call[t].total, entry.valid - entry.consumed)
        rest  == [entry EXCEPT !.consumed = @ + take]
        empty == rest.consumed = rest.valid
    IN  /\ pc[t] = "copy"
        /\ table' = [table EXCEPT ![e] = IF empty THEN Emptied(@) ELSE rest]
        /\ recent' = IF empty THEN Unused(e) ELSE JustUsed(e)
        /\ call' = [call EXCEPT ![t].total = @ + take]
        /\ transfer' = IF take = 0 THEN transfer
                       ELSE [file |-> f, offset |-> offset[f] + call[t].total,
                             of |-> entry.of, from |-> entry.from + entry.consumed]
        /\ Goto(t, IF take = 0 \/ call'[t].total = call[t].left THEN "return" ELSE "look")
        /\ UNCHANGED fileVars

(* Back in m_vfs_read: the offset moves, and the call goes on for what is  *)
(* left, until a turn brings nothing.                                      *)
ReadReturn(t) ==
    LET c    == call[t]
        over == c.total = 0 \/ c.total = c.left
    IN  /\ pc[t] = "return"
        /\ offset' = [offset EXCEPT ![c.file] = @ + c.total]
        /\ call' = [call EXCEPT ![t] =
               IF over THEN NoCall ELSE [c EXCEPT !.left = @ - c.total, !.total = 0]]
        /\ Goto(t, IF over THEN "idle" ELSE "look")
        /\ UNCHANGED <<tableVars, position, size, transfer>>

-----------------------------------------------------------------------------
(* Mutant: a file that is closed leaves what it has in the table.          *)
FlushedNot(f) == table

(* m_vfs_read_cache_flush_file and m_vfs_read_cache_flush_all.             *)
Flushed(f) == [e \in DOMAIN table |->
                  IF table[e].file = f THEN Emptied(table[e]) ELSE table[e]]

KeptOf(f) == SelectSeq(recent, LAMBDA e : Flushed(f)[e].filled)

(* m_vfs_write of one byte: the file's entries are given up, the driver    *)
(* writes at its own position.                                             *)
Write(t, f) ==
    /\ "write" \in Kinds /\ pc[t] = "idle"
    /\ position[f] < MaxByte /\ offset[f] < MaxByte
    /\ table' = Flushed(f)
    /\ recent' = KeptOf(f)
    /\ transfer' = [file |-> f, offset |-> offset[f], of |-> f, from |-> position[f]]
    /\ position' = [position EXCEPT ![f] = @ + 1]
    /\ offset' = [offset EXCEPT ![f] = @ + 1]
    /\ size' = [size EXCEPT ![f] = IF @ > position[f] THEN @ ELSE position[f] + 1]
    /\ UNCHANGED <<pc, call>>

(* m_libc_lseek sets the offset, and nothing else.                         *)
Seek(t, f, o) ==
    /\ "seek" \in Kinds /\ pc[t] = "idle"
    /\ offset' = [offset EXCEPT ![f] = o]
    /\ UNCHANGED <<tableVars, position, size, pc, call, transfer>>

(* m_vfs_close while nobody uses the file, and the next open of it.        *)
Close(t, f) ==
    /\ "close" \in Kinds
    /\ pc[t] = "idle" /\ \A u \in Task : call[u].file # f
    /\ table' = Flushed(f)
    /\ recent' = KeptOf(f)
    /\ offset' = [offset EXCEPT ![f] = 0]
    /\ position' = [position EXCEPT ![f] = IF Device THEN @ ELSE 0]
    /\ UNCHANGED <<size, pc, call, transfer>>

FlushAll(t) ==
    /\ "flush" \in Kinds /\ pc[t] = "idle"
    /\ table' = [e \in DOMAIN table |-> Emptied(table[e])]
    /\ recent' = << >>
    /\ UNCHANGED <<fileVars, pc, call, transfer>>

Next ==
    \E t \in Task :
        \/ LookUp(t) \/ Reserve(t) \/ Copy(t) \/ ReadReturn(t) \/ FlushAll(t)
        \/ Fetched(t) \/ FetchedNothing(t) \/ FetchWaits(t) \/ FetchFails(t)
        \/ \E f \in File :
              \/ \E n \in Lengths : Read(t, f, n)
              \/ Write(t, f) \/ Close(t, f)
              \/ \E o \in 0 .. Size : Seek(t, f, o)

Spec == Init /\ [][Next]_vars

-----------------------------------------------------------------------------
(* Every variable has its type, and the entries in use are the filled ones.*)
TypeOK ==
    /\ table \in [1 .. Entries ->
          [file : File \cup {NoOpenFile}, block : Nat, valid : 0 .. Block, consumed : 0 .. Block,
           filled : BOOLEAN, of : File \cup {NoOpenFile}, from : Nat]]
    /\ recent \in Seq(1 .. Entries)
    /\ \A i, k \in DOMAIN recent : recent[i] = recent[k] => i = k
    /\ ToSet(recent) = {e \in DOMAIN table : table[e].filled}
    /\ offset \in [File -> Nat] /\ position \in [File -> Nat] /\ size \in [File -> Nat]
    /\ pc \in [Task -> {"idle", "look", "fetch", "copy", "return"}]
    /\ call \in [Task -> [file : File \cup {NoOpenFile}, left : Nat, total : Nat,
                          entry : 0 .. Entries]]
    /\ transfer \in [file : File \cup {NoOpenFile}, offset : Nat,
                     of : File \cup {NoOpenFile}, from : Nat]

(* The cache is transparent: the bytes a read hands over at an offset are  *)
(* the ones the file has there, and a write goes where the offset says.    *)
Transparent == transfer.file = transfer.of /\ transfer.offset = transfer.from
=============================================================================
