---------------------------- MODULE VfsFileProofs ----------------------------
(***************************************************************************)
(* The references to open files and nodes, which the code counts by hand:  *)
(* each is one of a descriptor or of a task on its way.                    *)
(*                                                                         *)
(* The invariants are layered. CallInv: where in the code a call of each   *)
(* kind can be, and what it has in hand there; a call on a descriptor has  *)
(* a file without a reference to it, so that nothing is known of the file. *)
(* RecordInv and OpeningInv: what the records of files and nodes say of    *)
(* themselves, and that a node being opened for the first time stays the   *)
(* one the stream knows. RefsCounted rests on these. The two steps that    *)
(* take a reference to a file they have none of, of dup and of dup2, keep  *)
(* it because the model stops where they would take it to a file that is   *)
(* freed. The wait queues, and what the ring holds, play no part.          *)
(***************************************************************************)
EXTENDS VfsFile, SequenceLemmas, FiniteSetTheorems

FdKinds    == {"read", "write", "poll", "close", "dup", "dup2"}
SweepKinds == {"end_job", "close_all"}
OpeningAt  == {"attach", "query", "store", "notify", "foreach"}
Unlisting  == {"entry", "unlist"}
FreeingAt  == {"release", "free", "unref", "detach"} \cup Unlisting
Place == {"idle", "open", "allocate", "try", "poll", "wait", "parked", "leave", "mark",
          "closing", "unlink", "vacate", "assign", "evict", "disown", "offset", "look"}
             \cup OpeningAt \cup FreeingAt

CallRecord ==
    [kind : FdKinds \cup SweepKinds \cup {"none", "open", "unregister"},
     fd : Fd \cup {0}, to : Fd \cup {0}, file : File \cup {NoFile},
     node : Node \cup {NoNode}, left : Nat, timeout : Timeouts \cup {"forever"},
     mask : SUBSET Mask, then : {"idle", "try", "wait", "offset", "open", "disown", "detach"}]

FileRecord == [made : BOOLEAN, refs : Nat, node : Node \cup {NoNode},
               closed : BOOLEAN, destroyed : BOOLEAN]
NodeRecord == [made : BOOLEAN, refs : Int, listed : BOOLEAN, entry : BOOLEAN,
               mask : SUBSET Mask]

(* The types of what references depend on.                                 *)
RecordTypes ==
    /\ files \in [File -> FileRecord] /\ nodes \in [Node -> NodeRecord]
    /\ tables \in [Job -> [Fd -> File \cup {NoFile}]]
    /\ stream \in [used : 0 .. Capacity, mask : SUBSET Mask, node : Node \cup {NoNode}]
    /\ registered \in BOOLEAN /\ ended \subseteq Job

DataInv ==
    /\ Configured /\ RecordTypes
    /\ pc \in [Task -> Place] /\ op \in [Task -> CallRecord]

-----------------------------------------------------------------------------
(* Where a call o can be, and what it has in hand at l.                    *)

OnFd(o) == o.fd \in Fd /\ o.file \in File

FdCallAt(o, l) ==
    \/ o.kind \in {"read", "write"} /\ l \in {"try", "wait", "parked", "leave", "offset"}
    \/ /\ o.kind \in {"read", "write"} /\ l \in OpeningAt \ {"attach"}
       /\ o.then \in {"offset", "try", "wait"}
       /\ l \in {"notify", "foreach"} => o.node \in Node
    \/ o.kind = "poll" /\ l \in {"poll", "wait", "parked", "leave", "look"}
    \/ o.kind = "close" /\ l \in {"mark", "closing", "unlink"}
    \/ o.kind = "dup" /\ l = "allocate"
    \/ o.kind = "dup2" /\ l \in {"vacate", "assign"} /\ o.to \in Fd \ {o.fd}

OwnCallAt(o, l) ==
    \/ o.kind = "none" /\ l = "idle"
    \/ o.kind = "open" /\ l \in OpeningAt /\ o.node \in Node /\ (l # "attach" => o.then = "open")
    \/ o.kind = "open" /\ l = "open" /\ o.node \in Node
    \/ o.kind = "open" /\ l = "allocate" /\ o.file \in File
    \/ o.kind \in SweepKinds /\ l = "evict"
    \/ o.kind \in SweepKinds /\ l \in {"mark", "closing"} /\ o.file \in File
    \/ o.kind \in SweepKinds \cup {"open"} /\ l \in {"release", "free"} /\ o.file \in File
    \/ o.kind \in SweepKinds \cup {"open"} /\ l \in {"unref"} \cup Unlisting /\ o.node \in Node
    \/ o.kind \in SweepKinds \cup {"open"} /\ l = "detach"
    \/ /\ o.kind = "unregister" /\ l \in {"notify", "foreach"} /\ o.node \in Node
       /\ o.then = "disown"
    \/ o.kind = "unregister" /\ l = "disown" /\ o.node \in Node
    \/ o.kind = "unregister" /\ l = "detach"

CallAt(o, l) == OwnCallAt(o, l) \/ (OnFd(o) /\ FdCallAt(o, l))

CallInv == \A t \in Task : CallAt(op[t], pc[t])

TypeInv == DataInv /\ CallInv

(* What a step of t has to show of its own call.                           *)
Moves(t) ==
    /\ DataInv'
    /\ \A u \in Task \ {t} : pc'[u] = pc[u] /\ op'[u] = op[u]
    /\ CallAt(op'[t], pc'[t])

(* The file that a call o holds a reference of its own to at l, the node   *)
(* that it holds one to.                                                   *)
MineOf(o, l) ==
    IF \/ o.kind = "open" /\ l \in {"allocate", "release"}
       \/ o.kind \in SweepKinds /\ l \in {"mark", "closing", "release"}
    THEN o.file ELSE NoFile

ClaimOf(o, l) ==
    IF l = "unref" \/ (o.kind = "open" /\ l \in OpeningAt \cup {"open"}) THEN o.node ELSE NoNode

OpenAt(o, l) == o.kind = "open" /\ l \in OpeningAt

(* A step after which the call holds what it held before.                  *)
Holds(t) ==
    /\ pc[t] # "free" /\ pc'[t] # "free" /\ pc'[t] \notin Unlisting
    /\ MineOf(op'[t], pc'[t]) = MineOf(op[t], pc[t])
    /\ ClaimOf(op'[t], pc'[t]) = ClaimOf(op[t], pc[t])
    /\ OpenAt(op'[t], pc'[t]) =>
        OpenAt(op[t], pc[t]) /\ op'[t].node = op[t].node /\ pc'[t] # "attach"
    /\ op'[t].kind = "unregister" => op[t].kind = "unregister" \/ ~registered'

LEMMA MovesKeep ==
    ASSUME TypeInv, NEW t \in Task, Moves(t)
    PROVE  TypeInv'
<1>1. ASSUME NEW u \in Task
      PROVE  CallAt(op'[u], pc'[u])
  BY <1>1 DEF TypeInv, CallInv, Moves
<1> QED BY <1>1 DEF TypeInv, CallInv, Moves

-----------------------------------------------------------------------------
(* Each step moves one call on, from one of its places to another.         *)

LEMMA NoOpType == NoOp \in CallRecord /\ CallAt(NoOp, "idle")
BY DEF NoOp, CallRecord, CallAt, OwnCallAt, Mask

LEMMA StepMoves ==
    ASSUME TypeInv, NEW t \in Task, NEW o \in CallRecord, NEW l \in Place,
           op' = [op EXCEPT ![t] = o], Goto(t, l), CallAt(o, l), RecordTypes'
    PROVE  Moves(t) /\ op'[t] = o /\ pc'[t] = l
<1>1. pc \in [Task -> Place] /\ op \in [Task -> CallRecord] /\ Configured
  BY DEF TypeInv, DataInv
<1>2. /\ pc' \in [Task -> Place] /\ pc'[t] = l
      /\ \A u \in Task \ {t} : pc'[u] = pc[u]
  BY <1>1 DEF Goto
<1>3. /\ op' \in [Task -> CallRecord] /\ op'[t] = o
      /\ \A u \in Task \ {t} : op'[u] = op[u]
  BY <1>1
<1>4. DataInv'
  BY <1>1, <1>2, <1>3 DEF DataInv, Configured
<1> QED BY <1>2, <1>3, <1>4 DEF Moves

LEMMA StayMoves ==
    ASSUME TypeInv, NEW t \in Task, NEW l \in Place,
           UNCHANGED op, Goto(t, l), CallAt(op[t], l), RecordTypes'
    PROVE  Moves(t) /\ op'[t] = op[t] /\ pc'[t] = l
<1>1. op \in [Task -> CallRecord]
  BY DEF TypeInv, DataInv
<1>2. op[t] \in CallRecord /\ op' = [op EXCEPT ![t] = op[t]]
  BY <1>1
<1> QED BY <1>2, StepMoves

LEMMA ReturnMoves ==
    ASSUME TypeInv, NEW t \in Task, Return(t), RecordTypes'
    PROVE  Moves(t) /\ op'[t] = NoOp /\ pc'[t] = "idle"
<1>1. "idle" \in Place
  BY DEF Place
<1> QED BY <1>1, NoOpType, StepMoves DEF Return

(* What a lookup puts into a call.                                         *)
LEMMA OnType ==
    ASSUME TypeInv, NEW t \in Task, NEW k \in FdKinds, NEW d \in Fd, Lookup(t, k, d)
    PROVE  /\ On(t, k, d) \in CallRecord /\ OnFd(On(t, k, d))
           /\ On(t, k, d).kind = k /\ On(t, k, d).fd = d
           /\ On(t, k, d).file = tables[JobOf[t]][d]
<1>1. JobOf[t] \in Job /\ tables[JobOf[t]] \in [Fd -> File \cup {NoFile}]
  BY DEF TypeInv, DataInv, RecordTypes, Configured
<1>2. tables[JobOf[t]][d] \in File
  BY <1>1 DEF Lookup, Open
<1> QED BY <1>2, NoOpType DEF On, CallRecord, OnFd

LEMMA BeginMoves ==
    ASSUME TypeInv, NEW t \in Task, NEW o \in CallRecord, NEW l \in Place,
           Begin(t, o, l), CallAt(o, l)
    PROVE  Moves(t) /\ op'[t] = o /\ pc'[t] = l
<1>1. RecordTypes'
  BY DEF TypeInv, DataInv, RecordTypes, Begin, fileVars, devVars
<1> QED BY <1>1, StepMoves DEF Begin

(* A call of which other fields are set stays on its descriptor.           *)
LEMMA WithLeft ==
    ASSUME NEW c \in CallRecord, NEW n \in Nat, NEW m \in Timeouts
    PROVE  /\ [c EXCEPT !.left = n, !.timeout = m] \in CallRecord
           /\ [c EXCEPT !.left = n, !.timeout = m].kind = c.kind
           /\ [c EXCEPT !.left = n, !.timeout = m].fd = c.fd
           /\ [c EXCEPT !.left = n, !.timeout = m].file = c.file
BY DEF CallRecord

LEMMA WithMask ==
    ASSUME NEW c \in CallRecord, NEW s \in SUBSET Mask, NEW m \in Timeouts
    PROVE  /\ [c EXCEPT !.timeout = m, !.mask = s] \in CallRecord
           /\ [c EXCEPT !.timeout = m, !.mask = s].kind = c.kind
           /\ [c EXCEPT !.timeout = m, !.mask = s].fd = c.fd
           /\ [c EXCEPT !.timeout = m, !.mask = s].file = c.file
BY DEF CallRecord

LEMMA Here ==
    ASSUME TypeInv, NEW t \in Task
    PROVE  op[t] \in CallRecord /\ CallAt(op[t], pc[t]) /\ RecordTypes
BY DEF TypeInv, DataInv, CallInv

LEMMA LookupMoves ==
    ASSUME TypeInv, NEW t \in Task, Read(t) \/ Write(t) \/ Poll(t) \/ Close(t) \/ Dup(t) \/ Dup2(t)
    PROVE  /\ Moves(t) /\ UNCHANGED <<fileVars, devVars>>
           /\ \E d \in Fd :
                /\ Lookup(t, op'[t].kind, d) /\ op'[t].kind \in FdKinds
                /\ op'[t].fd = d /\ op'[t].file = tables[JobOf[t]][d]
<1> DEFINE Found(d) == /\ Lookup(t, op'[t].kind, d) /\ op'[t].kind \in FdKinds
                       /\ op'[t].fd = d /\ op'[t].file = tables[JobOf[t]][d]
<1>0. Capacity \in Nat /\ Lengths \subseteq Nat
  BY DEF TypeInv, DataInv, Configured
<1>1. CASE Read(t)
  <2>1. PICK d \in Fd, n \in Lengths, m \in Timeouts :
            /\ Lookup(t, "read", d)
            /\ Begin(t, [On(t, "read", d) EXCEPT !.left = n, !.timeout = m], "try")
    BY <1>1 DEF Read
  <2> DEFINE o == [On(t, "read", d) EXCEPT !.left = n, !.timeout = m]
  <2>2. /\ o \in CallRecord /\ OnFd(o) /\ o.kind = "read" /\ o.fd = d
        /\ o.file = tables[JobOf[t]][d]
    <3>1. /\ On(t, "read", d) \in CallRecord /\ OnFd(On(t, "read", d))
          /\ On(t, "read", d).kind = "read" /\ On(t, "read", d).fd = d
          /\ On(t, "read", d).file = tables[JobOf[t]][d]
      BY <2>1, OnType DEF FdKinds
    <3>2. n \in Nat
      BY <1>0
    <3>3. o \in CallRecord /\ o.kind = "read" /\ o.fd = d /\ o.file = On(t, "read", d).file
      BY <3>1, <3>2, WithLeft, Zenon
    <3> QED BY <3>1, <3>3 DEF OnFd
  <2> HIDE DEF o
  <2>3. CallAt(o, "try") /\ "try" \in Place
    BY <2>2 DEF CallAt, FdCallAt, Place
  <2>4. Moves(t) /\ op'[t] = o
    BY <2>1, <2>2, <2>3, BeginMoves DEF o
  <2>5. Found(d)
    BY <2>1, <2>2, <2>4 DEF FdKinds
  <2> QED BY <2>1, <2>4, <2>5 DEF Begin
<1>2. CASE Write(t)
  <2>1. PICK d \in Fd, m \in Timeouts :
            /\ Lookup(t, "write", d)
            /\ Begin(t, [On(t, "write", d) EXCEPT !.left = 1, !.timeout = m], "try")
    BY <1>2 DEF Write
  <2> DEFINE o == [On(t, "write", d) EXCEPT !.left = 1, !.timeout = m]
  <2>2. /\ o \in CallRecord /\ OnFd(o) /\ o.kind = "write" /\ o.fd = d
        /\ o.file = tables[JobOf[t]][d]
    <3>1. /\ On(t, "write", d) \in CallRecord /\ OnFd(On(t, "write", d))
          /\ On(t, "write", d).kind = "write" /\ On(t, "write", d).fd = d
          /\ On(t, "write", d).file = tables[JobOf[t]][d]
      BY <2>1, OnType DEF FdKinds
    <3>2. 1 \in Nat
      BY <1>0
    <3>3. o \in CallRecord /\ o.kind = "write" /\ o.fd = d /\ o.file = On(t, "write", d).file
      BY <3>1, <3>2, WithLeft, Zenon
    <3> QED BY <3>1, <3>3 DEF OnFd
  <2> HIDE DEF o
  <2>3. CallAt(o, "try") /\ "try" \in Place
    BY <2>2 DEF CallAt, FdCallAt, Place
  <2>4. Moves(t) /\ op'[t] = o
    BY <2>1, <2>2, <2>3, BeginMoves DEF o
  <2>5. Found(d)
    BY <2>1, <2>2, <2>4 DEF FdKinds
  <2> QED BY <2>1, <2>4, <2>5 DEF Begin
<1>3. CASE Poll(t)
  <2>1. PICK d \in Fd, m \in Timeouts, e \in {"readable", "writable"} :
            /\ Lookup(t, "poll", d)
            /\ Begin(t, [On(t, "poll", d) EXCEPT !.timeout = m, !.mask = {e}], "poll")
    BY <1>3 DEF Poll
  <2> DEFINE o == [On(t, "poll", d) EXCEPT !.timeout = m, !.mask = {e}]
  <2>2. /\ o \in CallRecord /\ OnFd(o) /\ o.kind = "poll" /\ o.fd = d
        /\ o.file = tables[JobOf[t]][d]
    <3>1. /\ On(t, "poll", d) \in CallRecord /\ OnFd(On(t, "poll", d))
          /\ On(t, "poll", d).kind = "poll" /\ On(t, "poll", d).fd = d
          /\ On(t, "poll", d).file = tables[JobOf[t]][d]
      BY <2>1, OnType DEF FdKinds
    <3>2. {e} \in SUBSET Mask
      BY DEF Mask
    <3>3. o \in CallRecord /\ o.kind = "poll" /\ o.fd = d /\ o.file = On(t, "poll", d).file
      BY <3>1, <3>2, WithMask, Zenon
    <3> QED BY <3>1, <3>3 DEF OnFd
  <2> HIDE DEF o
  <2>3. CallAt(o, "poll") /\ "poll" \in Place
    BY <2>2 DEF CallAt, FdCallAt, Place
  <2>4. Moves(t) /\ op'[t] = o
    BY <2>1, <2>2, <2>3, BeginMoves DEF o
  <2>5. Found(d)
    BY <2>1, <2>2, <2>4 DEF FdKinds
  <2> QED BY <2>1, <2>4, <2>5 DEF Begin
<1>4. CASE Close(t)
  <2>1. PICK d \in Fd : Lookup(t, "close", d) /\ Begin(t, On(t, "close", d), "mark")
    BY <1>4 DEF Close
  <2> DEFINE o == On(t, "close", d)
  <2>2. /\ o \in CallRecord /\ OnFd(o) /\ o.kind = "close" /\ o.fd = d
        /\ o.file = tables[JobOf[t]][d]
    BY <2>1, OnType DEF FdKinds
  <2> HIDE DEF o
  <2>3. CallAt(o, "mark") /\ "mark" \in Place
    BY <2>2 DEF CallAt, FdCallAt, Place
  <2>4. Moves(t) /\ op'[t] = o
    BY <2>1, <2>2, <2>3, BeginMoves DEF o
  <2>5. Found(d)
    BY <2>1, <2>2, <2>4 DEF FdKinds
  <2> QED BY <2>1, <2>4, <2>5 DEF Begin
<1>5. CASE Dup(t)
  <2>1. PICK d \in Fd : Lookup(t, "dup", d) /\ Begin(t, On(t, "dup", d), "allocate")
    BY <1>5 DEF Dup
  <2> DEFINE o == On(t, "dup", d)
  <2>2. /\ o \in CallRecord /\ OnFd(o) /\ o.kind = "dup" /\ o.fd = d
        /\ o.file = tables[JobOf[t]][d]
    BY <2>1, OnType DEF FdKinds
  <2> HIDE DEF o
  <2>3. CallAt(o, "allocate") /\ "allocate" \in Place
    BY <2>2 DEF CallAt, FdCallAt, Place
  <2>4. Moves(t) /\ op'[t] = o
    BY <2>1, <2>2, <2>3, BeginMoves DEF o
  <2>5. Found(d)
    BY <2>1, <2>2, <2>4 DEF FdKinds
  <2> QED BY <2>1, <2>4, <2>5 DEF Begin
<1>6. CASE Dup2(t)
  <2>1. PICK d \in Fd, e \in Fd :
            /\ Lookup(t, "dup2", d) /\ d # e
            /\ Begin(t, [On(t, "dup2", d) EXCEPT !.to = e], "vacate")
    BY <1>6 DEF Dup2
  <2> DEFINE o == [On(t, "dup2", d) EXCEPT !.to = e]
  <2>2. /\ o \in CallRecord /\ OnFd(o) /\ o.kind = "dup2" /\ o.fd = d /\ o.to = e
        /\ o.file = tables[JobOf[t]][d]
    BY <2>1, OnType DEF FdKinds, CallRecord, OnFd
  <2> HIDE DEF o
  <2>3. CallAt(o, "vacate") /\ "vacate" \in Place
    BY <2>1, <2>2 DEF CallAt, FdCallAt, Place
  <2>4. Moves(t) /\ op'[t] = o
    BY <2>1, <2>2, <2>3, BeginMoves DEF o
  <2>5. Found(d)
    BY <2>1, <2>2, <2>4 DEF FdKinds
  <2> QED BY <2>1, <2>4, <2>5 DEF Begin
<1> QED BY <1>1, <1>2, <1>3, <1>4, <1>5, <1>6

LEMMA LookupHolds ==
    ASSUME TypeInv, NEW t \in Task, Read(t) \/ Write(t) \/ Poll(t) \/ Close(t) \/ Dup(t) \/ Dup2(t)
    PROVE  Holds(t)
<1>1. pc[t] = "idle" /\ op'[t].kind \in FdKinds
  BY LookupMoves DEF Lookup
<1>2. op[t].kind = "none"
  BY <1>1, Here DEF CallAt, OwnCallAt, FdCallAt, OpeningAt, FreeingAt, Unlisting, SweepKinds
<1>3. CallAt(op'[t], pc'[t])
  BY LookupMoves DEF Moves
<1> QED BY <1>1, <1>2, <1>3 DEF Holds, MineOf, ClaimOf, OpenAt, CallAt, OwnCallAt, FdCallAt,
      OpeningAt, FreeingAt, Unlisting, SweepKinds, FdKinds

-----------------------------------------------------------------------------
(* The records of the kernel that a step leaves alone keep their types.    *)
LEMMA SameTypes ==
    ASSUME RecordTypes, UNCHANGED <<files, nodes, tables, ended, stream, registered>>
    PROVE  RecordTypes'
BY DEF RecordTypes

LEMMA OpenFailsMoves ==
    ASSUME TypeInv, NEW t \in Task, OpenFails(t)
    PROVE  Moves(t) /\ Holds(t)
<1>1. op[t] \in CallRecord /\ CallAt(op[t], "open") /\ RecordTypes
  BY Here DEF OpenFails
<1>2. CallAt(op[t], "unref") /\ "unref" \in Place
  BY <1>1 DEF CallAt, OwnCallAt, FdCallAt, OpeningAt, FreeingAt, Unlisting, FdKinds, SweepKinds, Place
<1>3. RecordTypes'
  BY <1>1, SameTypes DEF OpenFails, fileVars, devVars
<1>4. Moves(t) /\ op'[t] = op[t] /\ pc'[t] = "unref"
  BY <1>2, <1>3, StayMoves DEF OpenFails
<1>5. Holds(t)
  BY <1>1, <1>4 DEF Holds, MineOf, ClaimOf, OpenAt, OpeningAt,
        SweepKinds, FdKinds, OpenFails, CallAt, OwnCallAt, FdCallAt, OnFd, FreeingAt, Unlisting
<1> QED BY <1>4, <1>5

LEMMA BlockTakenMoves ==
    ASSUME TypeInv, NEW t \in Task, BlockTaken(t)
    PROVE  Moves(t) /\ Holds(t)
<1>1. op[t] \in CallRecord /\ CallAt(op[t], "parked") /\ RecordTypes
  BY Here DEF BlockTaken
<1>2. CallAt(op[t], "leave") /\ "leave" \in Place
  BY <1>1 DEF CallAt, OwnCallAt, FdCallAt, OpeningAt, FreeingAt, Unlisting, FdKinds, SweepKinds, Place
<1>3. RecordTypes'
  BY <1>1, SameTypes DEF BlockTaken, fileVars, devVars
<1>4. Moves(t) /\ op'[t] = op[t] /\ pc'[t] = "leave"
  BY <1>2, <1>3, StayMoves DEF BlockTaken
<1>5. Holds(t)
  BY <1>1, <1>4 DEF Holds, MineOf, ClaimOf, OpenAt, OpeningAt,
        SweepKinds, FdKinds, BlockTaken, CallAt, OwnCallAt, FdCallAt, OnFd, FreeingAt, Unlisting
<1> QED BY <1>4, <1>5

LEMMA BlockTimeoutMoves ==
    ASSUME TypeInv, NEW t \in Task, BlockTimeout(t)
    PROVE  Moves(t) /\ Holds(t)
<1>1. op[t] \in CallRecord /\ CallAt(op[t], "parked") /\ RecordTypes
  BY Here DEF BlockTimeout
<1>2. CallAt(op[t], "leave") /\ "leave" \in Place
  BY <1>1 DEF CallAt, OwnCallAt, FdCallAt, OpeningAt, FreeingAt, Unlisting, FdKinds, SweepKinds, Place
<1>3. RecordTypes'
  BY <1>1, SameTypes DEF BlockTimeout, fileVars, devVars
<1>4. Moves(t) /\ op'[t] = op[t] /\ pc'[t] = "leave"
  BY <1>2, <1>3, StayMoves DEF BlockTimeout
<1>5. Holds(t)
  BY <1>1, <1>4 DEF Holds, MineOf, ClaimOf, OpenAt, OpeningAt,
        SweepKinds, FdKinds, BlockTimeout, CallAt, OwnCallAt, FdCallAt, OnFd, FreeingAt, Unlisting
<1> QED BY <1>4, <1>5

LEMMA ClosedType ==
    ASSUME NEW r \in FileRecord
    PROVE  [r EXCEPT !.closed = TRUE] \in FileRecord
BY DEF FileRecord

LEMMA MarkClosedMoves ==
    ASSUME TypeInv, NEW t \in Task, MarkClosed(t)
    PROVE  Moves(t) /\ Holds(t)
<1>1. op[t] \in CallRecord /\ CallAt(op[t], "mark") /\ RecordTypes
  BY Here DEF MarkClosed
<1>2. CallAt(op[t], "closing") /\ "closing" \in Place
  BY <1>1 DEF CallAt, OwnCallAt, FdCallAt, OpeningAt, FreeingAt, Unlisting, FdKinds, SweepKinds, Place
<1>3. RecordTypes'
  <2>1. op[t].file \in File
    BY <1>1 DEF CallAt, OwnCallAt, FdCallAt, OnFd, SweepKinds, OpeningAt, Unlisting
  <2>2. files[op[t].file] \in FileRecord
    BY <1>1, <2>1 DEF RecordTypes
  <2>3. [files[op[t].file] EXCEPT !.closed = TRUE] \in FileRecord
    BY <2>2, ClosedType
  <2>4. files' \in [File -> FileRecord]
    BY <1>1, <2>1, <2>3 DEF RecordTypes, MarkClosed
  <2> QED BY <1>1, <2>4 DEF RecordTypes, MarkClosed, devVars
<1>4. Moves(t) /\ op'[t] = op[t] /\ pc'[t] = "closing"
  BY <1>2, <1>3, StayMoves DEF MarkClosed
<1>5. Holds(t)
  BY <1>1, <1>4 DEF Holds, MineOf, ClaimOf, OpenAt, OpeningAt,
        SweepKinds, FdKinds, MarkClosed, CallAt, OwnCallAt, FdCallAt, OnFd, FreeingAt, Unlisting
<1> QED BY <1>4, <1>5

LEMMA AttachMoves ==
    ASSUME TypeInv, NEW t \in Task, Attach(t)
    PROVE  /\ Moves(t) /\ Holds(t)
           /\ op[t].kind = "open" /\ op[t].node \in Node /\ stream'.node = op[t].node
<1> DEFINE o == [op[t] EXCEPT !.then = "open"]
<1>1. op[t] \in CallRecord /\ CallAt(op[t], "attach") /\ RecordTypes
  BY Here DEF Attach
<1>2. o \in CallRecord /\ o.kind = op[t].kind /\ o.node = op[t].node /\ o.then = "open"
  BY <1>1 DEF CallRecord
<1>3. CallAt(o, "query") /\ "query" \in Place
  BY <1>1, <1>2 DEF CallAt, OwnCallAt, FdCallAt, OnFd, OpeningAt, FreeingAt, Unlisting, FdKinds,
     SweepKinds, Place
<1>4. RecordTypes'
  BY <1>1 DEF RecordTypes, CallAt, OwnCallAt, FdCallAt, Attach, fileVars
<1>5. op[t].kind = "open" /\ op[t].node \in Node /\ stream'.node = op[t].node
  BY <1>1 DEF CallAt, OwnCallAt, FdCallAt, FreeingAt, Unlisting, SweepKinds, RecordTypes, Attach
<1>6. op' = [op EXCEPT ![t] = o] /\ Goto(t, "query")
  BY DEF Attach
<1>7. o \in CallRecord /\ o.kind = op[t].kind /\ o.node = op[t].node
  BY <1>2
<1> HIDE DEF o
<1>8. Moves(t) /\ op'[t] = o /\ pc'[t] = "query"
  BY <1>3, <1>4, <1>6, <1>7, StepMoves
<1>9. Holds(t)
  BY <1>5, <1>7, <1>8 DEF Holds, MineOf, ClaimOf, OpenAt, OpeningAt,
        SweepKinds, FdKinds, Attach, Unlisting
<1> QED BY <1>5, <1>8, <1>9

LEMMA QueryMoves ==
    ASSUME TypeInv, NEW t \in Task, Query(t)
    PROVE  Moves(t) /\ Holds(t)
<1> DEFINE o == [op[t] EXCEPT !.mask = Ready(stream)]
<1>1. op[t] \in CallRecord /\ CallAt(op[t], "query") /\ RecordTypes
  BY Here DEF Query
<1>2. /\ o \in CallRecord
      /\ o.kind = op[t].kind /\ o.node = op[t].node /\ o.then = op[t].then
      /\ o.fd = op[t].fd /\ o.file = op[t].file /\ o.to = op[t].to
  BY <1>1 DEF CallRecord, Ready, Mask
<1>3. CallAt(o, "store") /\ "store" \in Place
  BY <1>1, <1>2 DEF CallAt, OwnCallAt, FdCallAt, OnFd, OpeningAt, FreeingAt, Unlisting, FdKinds,
     SweepKinds, Place
<1>4. RecordTypes'
  BY <1>1, SameTypes DEF Query, fileVars, devVars
<1>5. op' = [op EXCEPT ![t] = o] /\ Goto(t, "store")
  BY DEF Query
<1> HIDE DEF o
<1>6. Moves(t) /\ op'[t] = o /\ pc'[t] = "store"
  BY <1>2, <1>3, <1>4, <1>5, StepMoves
<1>7. Holds(t)
  BY <1>2, <1>6 DEF Holds, MineOf, ClaimOf, OpenAt, OpeningAt,
        SweepKinds, FdKinds, Query, Unlisting
<1> QED BY <1>6, <1>7

(* What a step may have become of its call: over, or at another place.     *)
Returned(t) == op'[t] = NoOp /\ pc'[t] = "idle"
Stayed(t, l) == op'[t] = op[t] /\ pc'[t] = l

LEMMA LetGoMoves ==
    ASSUME TypeInv, NEW t \in Task, LetGo(t), RecordTypes'
    PROVE  /\ Moves(t)
           /\ Returned(t) \/ (Stayed(t, "evict") /\ op[t].kind \in SweepKinds)
<1>1. CASE op[t].kind \in SweepKinds
  <2>1. UNCHANGED op /\ Goto(t, "evict")
    BY <1>1 DEF LetGo, SweepKinds
  <2>2. CallAt(op[t], "evict") /\ "evict" \in Place
    BY <1>1 DEF CallAt, OwnCallAt, Place
  <2> QED BY <1>1, <2>1, <2>2, StayMoves DEF Stayed
<1>2. CASE op[t].kind \notin SweepKinds
  BY <1>2, ReturnMoves DEF LetGo, SweepKinds, Returned
<1> QED BY <1>1, <1>2

LEMMA ThenMoves ==
    ASSUME TypeInv, NEW t \in Task, Then(t), pc[t] \in {"store", "notify", "foreach"}, RecordTypes'
    PROVE  /\ Moves(t) /\ Stayed(t, op[t].then)
           /\ \/ op[t].kind \in {"read", "write"} /\ op[t].then \in {"offset", "try", "wait"}
              \/ op[t].kind = "open" /\ op[t].then = "open"
              \/ op[t].kind = "unregister" /\ op[t].then = "disown"
<1>1. op[t] \in CallRecord /\ CallAt(op[t], pc[t])
  BY Here
<1>2. \/ op[t].kind \in {"read", "write"} /\ op[t].then \in {"offset", "try", "wait"} /\ OnFd(op[t])
      \/ op[t].kind = "open" /\ op[t].then = "open" /\ op[t].node \in Node
      \/ op[t].kind = "unregister" /\ op[t].then = "disown" /\ op[t].node \in Node
  BY <1>1 DEF CallAt, OwnCallAt, FdCallAt, OpeningAt, SweepKinds, Unlisting
<1>3. CallAt(op[t], op[t].then) /\ op[t].then \in Place
  BY <1>2 DEF CallAt, OwnCallAt, FdCallAt, Place, FdKinds
<1>4. Moves(t) /\ Stayed(t, op[t].then)
  BY <1>3, StayMoves DEF Then, Stayed
<1> QED BY <1>2, <1>4

-----------------------------------------------------------------------------
(* The records that steps change.                                          *)

LEMMA ReleasedFields ==
    ASSUME NEW fs \in [File -> FileRecord], NEW f \in File
    PROVE  /\ Released(fs, f) \in [File -> FileRecord]
           /\ \A g \in File \ {f} : Released(fs, f)[g] = fs[g]
           /\ Released(fs, f)[f].made = fs[f].made
           /\ Released(fs, f)[f].node = fs[f].node
           /\ Released(fs, f)[f].refs = IF fs[f].refs = 0 THEN 0 ELSE fs[f].refs - 1
           /\ Released(fs, f)[f].destroyed = (fs[f].destroyed \/ fs[f].refs = 1)
<1> DEFINE k == IF fs[f].refs = 0 THEN 0 ELSE fs[f].refs - 1
           b == fs[f].destroyed \/ fs[f].refs = 1
           r == [fs[f] EXCEPT !.refs = k, !.destroyed = b]
<1>1. fs[f] \in FileRecord
  OBVIOUS
<1>2. Released(fs, f) = [fs EXCEPT ![f] = r]
  BY <1>1 DEF Released
<1>3. k \in Nat /\ b \in BOOLEAN
  BY <1>1 DEF FileRecord
<1> HIDE DEF k, b
<1> HIDE DEF k, b
<1>4. /\ r \in FileRecord /\ r.made = fs[f].made /\ r.node = fs[f].node
      /\ r.refs = k /\ r.destroyed = b
  <2> DEFINE c == fs[f]
  <2>1. c \in FileRecord
    BY <1>1
  <2> HIDE DEF c
  <2>2. /\ [c EXCEPT !.refs = k, !.destroyed = b] \in FileRecord
        /\ [c EXCEPT !.refs = k, !.destroyed = b].made = c.made
        /\ [c EXCEPT !.refs = k, !.destroyed = b].node = c.node
        /\ [c EXCEPT !.refs = k, !.destroyed = b].refs = k
        /\ [c EXCEPT !.refs = k, !.destroyed = b].destroyed = b
    BY <1>3, <2>1 DEF FileRecord
  <2> QED BY <2>2 DEF c
<1> HIDE DEF r
<1>5. [fs EXCEPT ![f] = r] \in [File -> FileRecord] /\ [fs EXCEPT ![f] = r][f] = r
  BY <1>4
<1>6. \A g \in File \ {f} : [fs EXCEPT ![f] = r][g] = fs[g]
  OBVIOUS
<1> QED BY <1>2, <1>4, <1>5, <1>6, Zenon DEF k, b

(* A node of which the listing, the entry or the mask changes.             *)
LEMMA UnlistedType ==
    ASSUME NEW r \in NodeRecord
    PROVE  [r EXCEPT !.listed = FALSE] \in NodeRecord
BY DEF NodeRecord

LEMMA DisownedType ==
    ASSUME NEW r \in NodeRecord
    PROVE  [r EXCEPT !.entry = FALSE] \in NodeRecord
BY DEF NodeRecord

LEMMA NotedType ==
    ASSUME NEW r \in NodeRecord, NEW m \in SUBSET Mask
    PROVE  [r EXCEPT !.mask = m] \in NodeRecord
BY DEF NodeRecord

LEMMA DroppedType ==
    ASSUME NEW r \in NodeRecord, NEW k \in Int, NEW b \in BOOLEAN
    PROVE  [r EXCEPT !.refs = k, !.listed = b] \in NodeRecord
BY DEF NodeRecord

LEMMA NodeCounts ==
    ASSUME NEW r \in NodeRecord
    PROVE  [r EXCEPT !.refs = @ + 1] \in NodeRecord /\ [r EXCEPT !.refs = @ - 1] \in NodeRecord
<1>1. [r EXCEPT !.refs = @ + 1] \in NodeRecord
  BY DEF NodeRecord
<1>2. [r EXCEPT !.refs = @ - 1] \in NodeRecord
  BY DEF NodeRecord
<1> QED BY <1>1, <1>2

LEMMA NodesType ==
    ASSUME RecordTypes, NEW n \in Node, NEW r \in NodeRecord, nodes' = [nodes EXCEPT ![n] = r],
           UNCHANGED <<files, tables, ended, stream, registered>>
    PROVE  RecordTypes'
BY DEF RecordTypes

LEMMA OpenKnownMoves ==
    ASSUME TypeInv, NEW t \in Task, OpenKnown(t)
    PROVE  /\ Moves(t) /\ pc'[t] = "open" /\ op'[t].kind = "open"
           /\ \E n \in Node :
                /\ nodes[n].listed /\ nodes[n].entry /\ op'[t].node = n
                /\ nodes' = [nodes EXCEPT ![n].refs = @ + 1]
<1>1. PICK n \in Node :
        /\ nodes[n].listed /\ nodes[n].entry
        /\ nodes' = [nodes EXCEPT ![n].refs = @ + 1]
        /\ op' = [op EXCEPT ![t] = [NoOp EXCEPT !.kind = "open", !.node = n]]
  BY DEF OpenKnown
<1> DEFINE o == [NoOp EXCEPT !.kind = "open", !.node = n]
<1>2. o \in CallRecord /\ o.kind = "open" /\ o.node = n
  BY DEF NoOp, CallRecord, Mask
<1>3. CallAt(o, "open") /\ "open" \in Place
  BY <1>2 DEF CallAt, OwnCallAt, Place
<1>4. RecordTypes'
  <2>1. nodes[n] \in NodeRecord /\ nodes[n].refs \in Int /\ RecordTypes
    BY Here DEF RecordTypes, NodeRecord
  <2>2. [nodes[n] EXCEPT !.refs = @ + 1] \in NodeRecord
    BY <2>1, NodeCounts, Zenon
  <2> QED BY <1>1, <2>1, <2>2, NodesType DEF OpenKnown, devVars
<1>5. op' = [op EXCEPT ![t] = o] /\ Goto(t, "open")
  BY <1>1 DEF OpenKnown
<1> HIDE DEF o
<1>6. Moves(t) /\ op'[t] = o /\ pc'[t] = "open"
  BY <1>2, <1>3, <1>4, <1>5, StepMoves
<1> QED BY <1>1, <1>2, <1>6

LEMMA OpenNewMoves ==
    ASSUME TypeInv, NEW t \in Task, OpenNew(t)
    PROVE  /\ Moves(t) /\ pc'[t] = "attach" /\ op'[t].kind = "open"
           /\ \E n \in Node :
                /\ ~nodes[n].made /\ op'[t].node = n
                /\ nodes' = [nodes EXCEPT ![n] =
                       [made |-> TRUE, refs |-> 1, listed |-> TRUE, entry |-> TRUE, mask |-> {}]]
<1>1. PICK n \in Node :
        /\ ~nodes[n].made
        /\ nodes' = [nodes EXCEPT ![n] =
                [made |-> TRUE, refs |-> 1, listed |-> TRUE, entry |-> TRUE, mask |-> {}]]
        /\ op' = [op EXCEPT ![t] = [NoOp EXCEPT !.kind = "open", !.node = n]]
  BY DEF OpenNew
<1> DEFINE o == [NoOp EXCEPT !.kind = "open", !.node = n]
           r == [made |-> TRUE, refs |-> 1, listed |-> TRUE, entry |-> TRUE, mask |-> {}]
<1>2. o \in CallRecord /\ o.kind = "open" /\ o.node = n
  BY DEF NoOp, CallRecord, Mask
<1>3. CallAt(o, "attach") /\ "attach" \in Place
  BY <1>2 DEF CallAt, OwnCallAt, Place, OpeningAt
<1>4. RecordTypes'
  <2>1. r \in NodeRecord /\ RecordTypes
    BY Here DEF NodeRecord
  <2> QED BY <1>1, <2>1, NodesType DEF OpenNew, devVars
<1>5. op' = [op EXCEPT ![t] = o] /\ Goto(t, "attach")
  BY <1>1 DEF OpenNew
<1> HIDE DEF o
<1>6. Moves(t) /\ op'[t] = o /\ pc'[t] = "attach"
  BY <1>2, <1>3, <1>4, <1>5, StepMoves
<1> QED BY <1>1, <1>2, <1>6

LEMMA OpenFileMoves ==
    ASSUME TypeInv, NEW t \in Task, OpenFile(t)
    PROVE  /\ Moves(t) /\ pc'[t] = "allocate"
           /\ op[t].kind = "open" /\ op'[t].kind = "open" /\ op[t].node \in Node
           /\ \E f \in File :
                /\ ~files[f].made /\ op'[t].file = f
                /\ files' = [files EXCEPT ![f] =
                       [made |-> TRUE, refs |-> 1, node |-> op[t].node,
                        closed |-> FALSE, destroyed |-> FALSE]]
<1>1. PICK f \in File :
        /\ ~files[f].made
        /\ files' = [files EXCEPT ![f] = [made |-> TRUE, refs |-> 1, node |-> op[t].node,
                                          closed |-> FALSE, destroyed |-> FALSE]]
        /\ op' = [op EXCEPT ![t].file = f, ![t].node = NoNode]
  BY DEF OpenFile
<1> DEFINE o == [op[t] EXCEPT !.file = f, !.node = NoNode]
           r == [made |-> TRUE, refs |-> 1, node |-> op[t].node,
                 closed |-> FALSE, destroyed |-> FALSE]
<1>2. op[t] \in CallRecord /\ CallAt(op[t], "open") /\ RecordTypes
  BY Here DEF OpenFile
<1>3. op[t].kind = "open" /\ op[t].node \in Node
  BY <1>2 DEF CallAt, OwnCallAt, FdCallAt, OpeningAt, SweepKinds, Unlisting
<1>4. o \in CallRecord /\ o.kind = "open" /\ o.file = f
  BY <1>2, <1>3 DEF CallRecord
<1>5. CallAt(o, "allocate") /\ "allocate" \in Place
  BY <1>4 DEF CallAt, OwnCallAt, Place
<1>6. RecordTypes'
  <2>1. r \in FileRecord
    BY <1>3 DEF FileRecord
  <2> QED BY <1>1, <1>2, <2>1 DEF OpenFile, devVars, RecordTypes
<1>7. op' = [op EXCEPT ![t] = o]
  BY <1>1, <1>2 DEF TypeInv, DataInv
<1> HIDE DEF o
<1>8. Moves(t) /\ op'[t] = o /\ pc'[t] = "allocate"
  BY <1>4, <1>5, <1>6, <1>7, StepMoves DEF OpenFile
<1> QED BY <1>1, <1>3, <1>4, <1>8

(* A set of descriptors that is not empty has a first one.                 *)
LEMMA FirstOf ==
    ASSUME NEW S \in SUBSET Fd, S # {}, Configured
    PROVE  (CHOOSE d \in S : \A e \in S : d <= e) \in S
<1> DEFINE R == OpToRel(<, Nat)
<1>1. IsWellFoundedOn(R, Nat) /\ S \subseteq Nat
  BY NatLessThanWellFounded DEF Configured
<1>2. PICK d \in S : \A e \in S : <<e, d>> \notin R
  BY <1>1, WFMin
<1>3. \A e \in S : ~ (e < d)
  BY <1>1, <1>2 DEF OpToRel
<1>4. ASSUME NEW e \in S PROVE d <= e
  <2>1. e \in Nat /\ d \in Nat /\ ~ (e < d)
    BY <1>1, <1>3
  <2> QED BY <2>1
<1> QED BY <1>4, Zenon

(* m_vfs_fd_allocate gives a descriptor that was free, or none.            *)
Given(t, d) ==
    /\ Vacant(JobOf[t]) # {}
    /\ tables[JobOf[t]][d] = NoFile
    /\ tables' = [tables EXCEPT ![JobOf[t]][d] = op[t].file]
    /\ files' = [files EXCEPT ![op[t].file].refs = @ + 1]

LEMMA RefsFields ==
    ASSUME NEW r \in FileRecord, NEW k \in Nat
    PROVE  /\ [r EXCEPT !.refs = k] \in FileRecord /\ [r EXCEPT !.refs = k].refs = k
           /\ [r EXCEPT !.refs = k].made = r.made /\ [r EXCEPT !.refs = k].node = r.node
           /\ [r EXCEPT !.refs = k].destroyed = r.destroyed
BY DEF FileRecord

LEMMA AcquiredFields ==
    ASSUME NEW fs \in [File -> FileRecord], NEW f \in File
    PROVE  /\ [fs EXCEPT ![f].refs = @ + 1] \in [File -> FileRecord]
           /\ \A g \in File \ {f} : [fs EXCEPT ![f].refs = @ + 1][g] = fs[g]
           /\ [fs EXCEPT ![f].refs = @ + 1][f].made = fs[f].made
           /\ [fs EXCEPT ![f].refs = @ + 1][f].node = fs[f].node
           /\ [fs EXCEPT ![f].refs = @ + 1][f].refs = fs[f].refs + 1
           /\ [fs EXCEPT ![f].refs = @ + 1][f].destroyed = fs[f].destroyed
<1> DEFINE k == fs[f].refs + 1
           r == [fs[f] EXCEPT !.refs = k]
<1>1. fs[f] \in FileRecord
  OBVIOUS
<1>2. k \in Nat
  BY <1>1 DEF FileRecord
<1>3. [fs EXCEPT ![f].refs = @ + 1] = [fs EXCEPT ![f] = r]
  OBVIOUS
<1>4. /\ r \in FileRecord /\ r.refs = k /\ r.made = fs[f].made /\ r.node = fs[f].node
      /\ r.destroyed = fs[f].destroyed
  <2> HIDE DEF k
  <2> QED BY <1>1, <1>2, RefsFields, Zenon
<1> HIDE DEF r
<1>5. [fs EXCEPT ![f] = r] \in [File -> FileRecord] /\ [fs EXCEPT ![f] = r][f] = r
  BY <1>4
<1>6. \A g \in File \ {f} : [fs EXCEPT ![f] = r][g] = fs[g]
  OBVIOUS
<1> QED BY <1>3, <1>4, <1>5, <1>6, Zenon

LEMMA AllocateMoves ==
    ASSUME TypeInv, NEW t \in Task, Allocate(t)
    PROVE  /\ Moves(t) /\ op[t].file \in File
           /\ \/ op[t].kind = "open" /\ Stayed(t, "release")
              \/ op[t].kind = "dup" /\ OnFd(op[t]) /\ Returned(t)
           /\ UNCHANGED <<files, tables>> \/ \E d \in Fd : Given(t, d)
<1>1. op[t] \in CallRecord /\ CallAt(op[t], "allocate") /\ RecordTypes /\ Configured
  BY Here DEF Allocate, TypeInv, DataInv
<1>2. /\ op[t].file \in File
      /\ op[t].kind = "open" \/ (op[t].kind = "dup" /\ OnFd(op[t]))
  BY <1>1 DEF CallAt, OwnCallAt, FdCallAt, OnFd, SweepKinds, OpeningAt, Unlisting
<1>3. UNCHANGED <<files, tables>> \/ \E d \in Fd : Given(t, d)
  <2> DEFINE vacant == Vacant(JobOf[t])
             fd == CHOOSE d \in vacant : \A e \in vacant : d <= e
  <2>1. CASE vacant = {}
    BY <2>1 DEF Allocate
  <2>2. CASE vacant # {}
    <3>1. fd \in vacant
      <4> HIDE DEF fd
      <4>1. vacant \in SUBSET Fd
        BY DEF Vacant
      <4> HIDE DEF vacant
      <4> QED BY <1>1, <2>2, <4>1, FirstOf DEF fd
    <3>2. /\ tables' = [tables EXCEPT ![JobOf[t]][fd] = op[t].file]
          /\ files' = [files EXCEPT ![op[t].file].refs = @ + 1]
      BY <2>2 DEF Allocate
    <3> HIDE DEF fd
    <3>3. fd \in Fd /\ tables[JobOf[t]][fd] = NoFile
      BY <3>1 DEF Vacant, Open
    <3> QED BY <2>2, <3>2, <3>3 DEF Given
  <2> QED BY <2>1, <2>2
<1>4. RecordTypes'
  <2>1. CASE UNCHANGED <<files, tables>>
    BY <1>1, <2>1, SameTypes DEF Allocate, devVars
  <2>2. ASSUME NEW d \in Fd, Given(t, d) PROVE RecordTypes'
    <3>1. files' \in [File -> FileRecord]
      BY <1>1, <1>2, <2>2, AcquiredFields DEF Given, RecordTypes
    <3>2. tables' \in [Job -> [Fd -> File \cup {NoFile}]]
      BY <1>1, <1>2, <2>2 DEF Given, RecordTypes
    <3> QED BY <1>1, <3>1, <3>2 DEF Allocate, RecordTypes, devVars
  <2> QED BY <1>3, <2>1, <2>2
<1>5. CASE op[t].kind = "open"
  <2>1. CallAt(op[t], "release") /\ "release" \in Place
    BY <1>2, <1>5 DEF CallAt, OwnCallAt, Place, FreeingAt, Unlisting
  <2> QED BY <1>2, <1>3, <1>4, <1>5, <2>1, StayMoves DEF Allocate, Stayed
<1>6. CASE op[t].kind = "dup"
  BY <1>2, <1>3, <1>4, <1>6, ReturnMoves DEF Allocate, Returned
<1> QED BY <1>2, <1>5, <1>6

LEMMA ReleaseMoves ==
    ASSUME TypeInv, NEW t \in Task, Release(t)
    PROVE  /\ Moves(t) /\ op[t].file \in File /\ op[t].kind \in SweepKinds \cup {"open"}
           /\ IF files[op[t].file].refs = 1 THEN Stayed(t, "free")
              ELSE Returned(t) \/ (Stayed(t, "evict") /\ op[t].kind \in SweepKinds)
<1>1. op[t] \in CallRecord /\ CallAt(op[t], "release") /\ RecordTypes
  BY Here DEF Release
<1>2. op[t].file \in File /\ op[t].kind \in SweepKinds \cup {"open"}
  BY <1>1 DEF CallAt, OwnCallAt, FdCallAt, OpeningAt, FreeingAt, Unlisting, SweepKinds
<1>3. RecordTypes'
  BY <1>1, <1>2, ReleasedFields DEF RecordTypes, Release, devVars
<1>4. CASE files[op[t].file].refs = 1
  <2>1. CallAt(op[t], "free") /\ "free" \in Place
    BY <1>2 DEF CallAt, OwnCallAt, Place, FreeingAt, Unlisting
  <2> QED BY <1>2, <1>3, <1>4, <2>1, StayMoves DEF Release, Stayed
<1>5. CASE files[op[t].file].refs # 1
  BY <1>2, <1>3, <1>5, LetGoMoves DEF Release
<1> QED BY <1>4, <1>5

LEMMA FreeFileMoves ==
    ASSUME TypeInv, NEW t \in Task, FreeFile(t), op[t].file \in File => files[op[t].file].node \in Node
    PROVE  /\ Moves(t) /\ pc'[t] = "unref" /\ op'[t].kind = op[t].kind
           /\ op[t].file \in File /\ op[t].kind \in SweepKinds \cup {"open"}
           /\ op'[t].node = files[op[t].file].node
<1>1. op[t] \in CallRecord /\ CallAt(op[t], "free") /\ RecordTypes
  BY Here DEF FreeFile
<1>2. op[t].file \in File /\ op[t].kind \in SweepKinds \cup {"open"}
  BY <1>1 DEF CallAt, OwnCallAt, FdCallAt, OpeningAt, FreeingAt, Unlisting, SweepKinds
<1> DEFINE n == files[op[t].file].node
           o == [op[t] EXCEPT !.node = n]
<1>3. n \in Node
  BY <1>2
<1>4. o \in CallRecord /\ o.kind = op[t].kind /\ o.node = n
  <2> HIDE DEF n
  <2> QED BY <1>1, <1>3 DEF CallRecord
<1> HIDE DEF n
<1>5. CallAt(o, "unref") /\ "unref" \in Place
  BY <1>2, <1>3, <1>4 DEF CallAt, OwnCallAt, Place, FreeingAt, Unlisting
<1>6. RecordTypes'
  BY <1>1, SameTypes DEF FreeFile, fileVars, devVars
<1>7. op' = [op EXCEPT ![t] = o] /\ Goto(t, "unref")
  BY DEF FreeFile, n
<1> HIDE DEF o
<1>8. Moves(t) /\ op'[t] = o /\ pc'[t] = "unref"
  BY <1>4, <1>5, <1>6, <1>7, StepMoves
<1> QED BY <1>2, <1>4, <1>8 DEF n

LEMMA UnrefMoves ==
    ASSUME TypeInv, NEW t \in Task, Unref(t)
    PROVE  /\ Moves(t) /\ op[t].node \in Node /\ op[t].kind \in SweepKinds \cup {"open"}
           /\ IF nodes[op[t].node].refs = 1 THEN Stayed(t, "entry")
              ELSE Returned(t) \/ (Stayed(t, "evict") /\ op[t].kind \in SweepKinds)
<1>1. op[t] \in CallRecord /\ CallAt(op[t], "unref") /\ RecordTypes
  BY Here DEF Unref
<1>2. op[t].node \in Node /\ op[t].kind \in SweepKinds \cup {"open"}
  BY <1>1 DEF CallAt, OwnCallAt, FdCallAt, OpeningAt, FreeingAt, Unlisting, SweepKinds
<1>3. RecordTypes'
  <2>1. nodes[op[t].node] \in NodeRecord
    BY <1>1, <1>2 DEF RecordTypes
  <2>2. [nodes[op[t].node] EXCEPT !.refs = @ - 1] \in NodeRecord
    BY <2>1, NodeCounts, Zenon
  <2> QED BY <1>1, <1>2, <2>2, NodesType DEF Unref, devVars
<1>4. CASE nodes[op[t].node].refs = 1
  <2>1. CallAt(op[t], "entry") /\ "entry" \in Place
    BY <1>2 DEF CallAt, OwnCallAt, Place, FreeingAt, Unlisting
  <2> QED BY <1>2, <1>3, <1>4, <2>1, StayMoves DEF Unref, Stayed
<1>5. CASE nodes[op[t].node].refs # 1
  BY <1>2, <1>3, <1>5, LetGoMoves DEF Unref
<1> QED BY <1>4, <1>5

LEMMA ReadEntryMoves ==
    ASSUME TypeInv, NEW t \in Task, ReadEntry(t)
    PROVE  /\ Moves(t) /\ pc'[t] = "unlist" /\ op[t].node \in Node
           /\ op[t].kind \in SweepKinds \cup {"open"}
           /\ op'[t].kind = op[t].kind /\ op'[t].node = op[t].node
<1> DEFINE l == IF nodes[op[t].node].entry THEN "detach" ELSE "idle"
           o == [op[t] EXCEPT !.then = l]
<1>1. op[t] \in CallRecord /\ CallAt(op[t], "entry") /\ RecordTypes
  BY Here DEF ReadEntry
<1>2. op[t].node \in Node /\ op[t].kind \in SweepKinds \cup {"open"}
  BY <1>1 DEF CallAt, OwnCallAt, FdCallAt, OpeningAt, FreeingAt, Unlisting, SweepKinds
<1>3. l \in {"detach", "idle"} /\ op' = [op EXCEPT ![t] = o] /\ Goto(t, "unlist")
  BY DEF ReadEntry
<1> HIDE DEF l
<1>4. o \in CallRecord /\ o.kind = op[t].kind /\ o.node = op[t].node
  BY <1>1, <1>3 DEF CallRecord
<1> HIDE DEF o
<1>5. CallAt(o, "unlist") /\ "unlist" \in Place
  BY <1>2, <1>4 DEF CallAt, OwnCallAt, Place, FreeingAt, Unlisting
<1>6. RecordTypes'
  BY <1>1, SameTypes DEF ReadEntry, fileVars, devVars
<1>7. Moves(t) /\ op'[t] = o /\ pc'[t] = "unlist"
  BY <1>3, <1>4, <1>5, <1>6, StepMoves
<1> QED BY <1>2, <1>4, <1>7

LEMMA UnlistMoves ==
    ASSUME TypeInv, NEW t \in Task, Unlist(t)
    PROVE  Moves(t) /\ Holds(t) /\ op[t].node \in Node
<1>1. op[t] \in CallRecord /\ CallAt(op[t], "unlist") /\ RecordTypes
  BY Here DEF Unlist
<1>2. op[t].node \in Node /\ op[t].kind \in SweepKinds \cup {"open"}
  BY <1>1 DEF CallAt, OwnCallAt, FdCallAt, OpeningAt, FreeingAt, Unlisting, SweepKinds
<1>3. RecordTypes'
  <2>1. nodes[op[t].node] \in NodeRecord
    BY <1>1, <1>2 DEF RecordTypes
  <2>2. [nodes[op[t].node] EXCEPT !.listed = FALSE] \in NodeRecord
    BY <2>1, UnlistedType, Zenon
  <2> QED BY <1>1, <1>2, <2>2, NodesType DEF Unlist, devVars
<1>4. Moves(t) /\ (Returned(t) \/ \E l \in {"evict", "detach"} : Stayed(t, l))
  <2>1. CASE op[t].then = "detach"
    <3>1. CallAt(op[t], "detach") /\ "detach" \in Place
      BY <1>2 DEF CallAt, OwnCallAt, Place, FreeingAt, Unlisting
    <3> QED BY <1>3, <2>1, <3>1, StayMoves DEF Unlist, Stayed
  <2>2. CASE op[t].then # "detach"
    BY <1>3, <2>2, LetGoMoves DEF Unlist
  <2> QED BY <2>1, <2>2
<1>5. Holds(t)
  BY <1>2, <1>4 DEF Holds, Returned, Stayed, NoOp, MineOf, ClaimOf, OpenAt, OpeningAt,
        SweepKinds, FdKinds, Unlist, Unlisting
<1> QED BY <1>2, <1>4, <1>5

LEMMA DetachMoves ==
    ASSUME TypeInv, NEW t \in Task, Detach(t)
    PROVE  Moves(t) /\ Holds(t) /\ stream'.node = NoNode
<1>1. op[t] \in CallRecord /\ CallAt(op[t], "detach") /\ RecordTypes
  BY Here DEF Detach
<1>2. op[t].kind \in SweepKinds \cup {"open", "unregister"}
  BY <1>1 DEF CallAt, OwnCallAt, FdCallAt, OpeningAt, FreeingAt, Unlisting, SweepKinds
<1>3. RecordTypes' /\ stream'.node = NoNode
  BY <1>1 DEF RecordTypes, Detach, fileVars
<1>4. Moves(t) /\ (Returned(t) \/ Stayed(t, "evict"))
  BY <1>3, LetGoMoves DEF Detach
<1>5. Holds(t)
  BY <1>2, <1>4 DEF Holds, Returned, Stayed, NoOp, MineOf, ClaimOf, OpenAt, OpeningAt,
        SweepKinds, FdKinds, Detach, Unlisting
<1> QED BY <1>3, <1>4, <1>5

-----------------------------------------------------------------------------
(* The calls that only wait and move bytes.                                *)

(* Where a call on a descriptor is, it holds nothing of its own.           *)
LEMMA FdKeeps ==
    ASSUME TypeInv, NEW t \in Task, op[t].kind \in FdKinds, pc[t] # "free", pc[t] # "unref",
           Returned(t) \/ \E l \in Place \ ({"free", "unref"} \cup Unlisting) : Stayed(t, l)
    PROVE  Holds(t)
<1>1. CASE Returned(t)
  BY <1>1 DEF Holds, Returned, NoOp, MineOf, ClaimOf, OpenAt, SweepKinds, FdKinds, Unlisting
<1>2. ASSUME NEW l \in Place \ ({"free", "unref"} \cup Unlisting), Stayed(t, l) PROVE Holds(t)
  BY <1>2 DEF Holds, Stayed, MineOf, ClaimOf, OpenAt, SweepKinds, FdKinds, Unlisting
<1> QED BY <1>1, <1>2

LEMMA RefreshMoves ==
    ASSUME TypeInv, NEW t \in Task, NEW n \in Nat, NEW l \in {"offset", "try", "wait"},
           pc[t] = "try", op[t].kind \in {"read", "write"}, RecordTypes',
           Refresh(t, [op[t] EXCEPT !.left = n, !.then = l])
    PROVE  Moves(t) /\ Holds(t)
<1> DEFINE o == [op[t] EXCEPT !.left = n, !.then = l]
<1>1. op[t] \in CallRecord /\ CallAt(op[t], "try")
  BY Here
<1>2. OnFd(op[t])
  BY <1>1 DEF CallAt, OwnCallAt, SweepKinds, OpeningAt
<1>3. /\ o \in CallRecord /\ o.kind = op[t].kind /\ o.fd = op[t].fd /\ o.to = op[t].to
      /\ o.file = op[t].file /\ o.then = l
  <2> DEFINE c == op[t]
  <2>1. c \in CallRecord
    BY <1>1
  <2> HIDE DEF c
  <2>2. /\ [c EXCEPT !.left = n, !.then = l] \in CallRecord
        /\ [c EXCEPT !.left = n, !.then = l].kind = c.kind
        /\ [c EXCEPT !.left = n, !.then = l].fd = c.fd
        /\ [c EXCEPT !.left = n, !.then = l].to = c.to
        /\ [c EXCEPT !.left = n, !.then = l].file = c.file
        /\ [c EXCEPT !.left = n, !.then = l].then = l
    BY <2>1 DEF CallRecord
  <2> QED BY <2>2 DEF c
<1>4. op' = [op EXCEPT ![t] = o] /\ Goto(t, "query")
  BY DEF Refresh
<1> HIDE DEF o
<1>5. CallAt(o, "query") /\ "query" \in Place
  BY <1>2, <1>3 DEF CallAt, FdCallAt, OnFd, OpeningAt, Place
<1>6. Moves(t) /\ op'[t] = o /\ pc'[t] = "query"
  BY <1>3, <1>4, <1>5, StepMoves
<1>7. Holds(t)
  BY <1>3, <1>6 DEF Holds, MineOf, ClaimOf, OpenAt, SweepKinds, FdKinds, Unlisting
<1> QED BY <1>6, <1>7

LEMMA TryMoves ==
    ASSUME TypeInv, NEW t \in Task, TryRead(t) \/ TryWrite(t)
    PROVE  Moves(t) /\ Holds(t) /\ stream'.node = stream.node
<1>1. op[t] \in CallRecord /\ RecordTypes /\ Capacity \in Nat
  BY Here DEF TypeInv, DataInv, Configured
<1>2. CASE TryRead(t)
  <2> DEFINE got  == IF stream.used < op[t].left THEN stream.used ELSE op[t].left
             left == op[t].left - got
             l    == IF left = 0 THEN "offset" ELSE IF got = 0 THEN "wait" ELSE "try"
  <2>1. op[t].left \in Nat /\ stream.used \in 0 .. Capacity
    BY <1>1 DEF CallRecord, RecordTypes
  <2>2. left \in Nat /\ stream.used - got \in 0 .. Capacity /\ l \in {"offset", "try", "wait"}
    BY <1>1, <2>1
  <2>3. /\ stream' = [stream EXCEPT !.used = @ - got]
        /\ Refresh(t, [op[t] EXCEPT !.left = left, !.then = l])
    BY <1>2 DEF TryRead
  <2> HIDE DEF left, l
  <2>4. RecordTypes' /\ stream'.node = stream.node
    BY <1>1, <1>2, <2>2, <2>3 DEF RecordTypes, TryRead, fileVars
  <2>5. pc[t] = "try" /\ op[t].kind \in {"read", "write"}
    BY <1>2 DEF TryRead
  <2> QED BY <2>2, <2>3, <2>4, <2>5, RefreshMoves
<1>3. CASE TryWrite(t)
  <2>1. pc[t] = "try" /\ op[t].kind \in {"read", "write"} /\ op[t].left \in Nat
    BY <1>1, <1>3 DEF TryWrite, CallRecord
  <2>2. RecordTypes' /\ stream'.node = stream.node
    <3>1. CASE stream.used < Capacity
      BY <1>1, <1>3, <3>1 DEF RecordTypes, TryWrite, fileVars
    <3>2. CASE ~ (stream.used < Capacity)
      BY <1>1, <1>3, <3>2, SameTypes DEF TryWrite, fileVars
    <3> QED BY <3>1, <3>2
  <2>3. \E n \in Nat, l \in {"offset", "try", "wait"} :
            Refresh(t, [op[t] EXCEPT !.left = n, !.then = l])
    <3>1. CASE stream.used < Capacity
      BY <1>3, <3>1 DEF TryWrite
    <3>2. CASE ~ (stream.used < Capacity)
      <4>1. Refresh(t, [op[t] EXCEPT !.then = "wait"])
        BY <1>3, <3>2 DEF TryWrite
      <4>2. [op[t] EXCEPT !.then = "wait"] = [op[t] EXCEPT !.left = op[t].left, !.then = "wait"]
        BY <1>1 DEF CallRecord
      <4> QED BY <2>1, <4>1, <4>2
    <3> QED BY <3>1, <3>2
  <2> QED BY <2>1, <2>2, <2>3, RefreshMoves
<1> QED BY <1>2, <1>3

LEMMA PollMaskMoves ==
    ASSUME TypeInv, NEW t \in Task, PollMask(t)
    PROVE  Moves(t) /\ Holds(t)
<1>1. op[t] \in CallRecord /\ CallAt(op[t], "poll") /\ RecordTypes
  BY Here DEF PollMask
<1>2. op[t].kind = "poll" /\ OnFd(op[t])
  BY <1>1 DEF CallAt, OwnCallAt, FdCallAt, OpeningAt, FreeingAt, Unlisting
<1>3. RecordTypes'
  BY <1>1, SameTypes DEF PollMask, fileVars, devVars
<1>4. Moves(t) /\ (Returned(t) \/ Stayed(t, "wait"))
  <2>1. CallAt(op[t], "wait") /\ "wait" \in Place
    BY <1>2 DEF CallAt, FdCallAt, Place
  <2>2. Return(t) \/ (Goto(t, "wait") /\ UNCHANGED op)
    BY DEF PollMask
  <2> QED BY <1>3, <2>1, <2>2, StayMoves, ReturnMoves DEF Returned, Stayed
<1> QED BY <1>2, <1>4, FdKeeps DEF PollMask, FdKinds, Place, Unlisting

LEMMA DeviceGoneMoves ==
    ASSUME TypeInv, NEW t \in Task, DeviceGone(t)
    PROVE  Moves(t) /\ Holds(t)
<1>1. op[t] \in CallRecord /\ CallAt(op[t], pc[t]) /\ pc[t] \in {"try", "poll"} /\ RecordTypes
  BY Here DEF DeviceGone
<1>2. op[t].kind \in FdKinds
  BY <1>1 DEF CallAt, OwnCallAt, FdCallAt, OpeningAt, FreeingAt, Unlisting, FdKinds
<1>3. RecordTypes'
  BY <1>1, SameTypes DEF DeviceGone, fileVars, devVars
<1>4. Moves(t) /\ Returned(t)
  BY <1>3, ReturnMoves DEF Returned, DeviceGone
<1> QED BY <1>1, <1>2, <1>4, FdKeeps

LEMMA SetOffsetMoves ==
    ASSUME TypeInv, NEW t \in Task, SetOffset(t)
    PROVE  Moves(t) /\ Holds(t)
<1>1. op[t] \in CallRecord /\ CallAt(op[t], "offset") /\ pc[t] = "offset" /\ RecordTypes
  BY Here DEF SetOffset
<1>2. op[t].kind \in FdKinds
  BY <1>1 DEF CallAt, OwnCallAt, FdCallAt, OpeningAt, FreeingAt, Unlisting, FdKinds
<1>3. RecordTypes'
  BY <1>1, SameTypes DEF SetOffset, fileVars, devVars
<1>4. Moves(t) /\ Returned(t)
  BY <1>3, ReturnMoves DEF Returned, SetOffset
<1> QED BY <1>1, <1>2, <1>4, FdKeeps

(* A poll that looks again has another file in hand, or none.              *)
LEMMA LookAgainMoves ==
    ASSUME TypeInv, NEW t \in Task, LookAgain(t)
    PROVE  Moves(t) /\ Holds(t)
<1> DEFINE f == tables[JobOf[t]][op[t].fd]
<1>1. op[t] \in CallRecord /\ CallAt(op[t], "look") /\ pc[t] = "look" /\ RecordTypes
  BY Here DEF LookAgain
<1>2. op[t].kind = "poll" /\ OnFd(op[t])
  BY <1>1 DEF CallAt, OwnCallAt, FdCallAt, OpeningAt, FreeingAt, Unlisting
<1>3. RecordTypes'
  BY <1>1, SameTypes DEF LookAgain, fileVars, devVars
<1>4. CASE Return(t)
  <2>1. Moves(t) /\ Returned(t)
    BY <1>3, <1>4, ReturnMoves DEF Returned
  <2> QED BY <1>1, <1>2, <2>1, FdKeeps DEF FdKinds
<1>5. CASE f # NoFile /\ Goto(t, "poll") /\ op' = [op EXCEPT ![t].file = f]
  <2>1. f \in File
    BY <1>1, <1>2, <1>5 DEF RecordTypes, OnFd, TypeInv, DataInv, Configured
  <2> HIDE DEF f
  <2> DEFINE o == [op[t] EXCEPT !.file = f]
  <2>2. o \in CallRecord /\ o.kind = "poll" /\ o.file = f /\ o.fd = op[t].fd
    BY <1>1, <1>2, <2>1 DEF CallRecord
  <2>3. op' = [op EXCEPT ![t] = o]
    BY <1>5
  <2> HIDE DEF o
  <2>4. CallAt(o, "poll") /\ "poll" \in Place
    BY <1>2, <2>1, <2>2 DEF CallAt, FdCallAt, OnFd, Place
  <2>5. Moves(t) /\ op'[t] = o /\ pc'[t] = "poll"
    BY <1>3, <1>5, <2>2, <2>3, <2>4, StepMoves
  <2>6. Holds(t)
    BY <1>1, <1>2, <2>2, <2>5 DEF Holds, MineOf, ClaimOf, OpenAt, SweepKinds, OpeningAt, Unlisting
  <2> QED BY <2>5, <2>6
<1> QED BY <1>4, <1>5 DEF LookAgain

LEMMA WaitMoves ==
    ASSUME TypeInv, NEW t \in Task, Wait(t)
    PROVE  Moves(t) /\ Holds(t)
<1>1. op[t] \in CallRecord /\ CallAt(op[t], "wait") /\ RecordTypes
  BY Here DEF Wait
<1>2. op[t].kind \in {"read", "write", "poll"} /\ OnFd(op[t])
  BY <1>1 DEF CallAt, OwnCallAt, FdCallAt, OpeningAt, FreeingAt, Unlisting
<1>3. RecordTypes'
  BY <1>1, SameTypes DEF Wait, fileVars, devVars
<1>4. Moves(t) /\ (Returned(t) \/ Stayed(t, "parked"))
  <2>1. CallAt(op[t], "parked") /\ "parked" \in Place
    BY <1>2 DEF CallAt, FdCallAt, Place
  <2>2. Return(t) \/ (Goto(t, "parked") /\ UNCHANGED op)
    BY DEF Wait
  <2> QED BY <1>3, <2>1, <2>2, StayMoves, ReturnMoves DEF Returned, Stayed
<1> QED BY <1>2, <1>4, FdKeeps DEF Wait, FdKinds, Place, Unlisting

LEMMA LeaveMoves ==
    ASSUME TypeInv, NEW t \in Task, Leave(t)
    PROVE  Moves(t) /\ Holds(t)
<1>1. op[t] \in CallRecord /\ CallAt(op[t], "leave") /\ RecordTypes
  BY Here DEF Leave
<1>2. op[t].kind \in {"read", "write", "poll"} /\ OnFd(op[t])
  BY <1>1 DEF CallAt, OwnCallAt, FdCallAt, OpeningAt, FreeingAt, Unlisting
<1>3. RecordTypes'
  BY <1>1, SameTypes DEF Leave, fileVars, devVars
<1> DEFINE l == IF op[t].kind = "poll" THEN "look" ELSE "try"
<1>4. Moves(t) /\ (Returned(t) \/ Stayed(t, l))
  <2>1. CallAt(op[t], l) /\ l \in Place
    BY <1>2 DEF CallAt, FdCallAt, Place
  <2>2. Return(t) \/ (Goto(t, l) /\ UNCHANGED op)
    BY DEF Leave
  <2> HIDE DEF l
  <2> QED BY <1>3, <2>1, <2>2, StayMoves, ReturnMoves DEF Returned, Stayed
<1>5. l \in Place \ ({"free", "unref"} \cup Unlisting)
  BY DEF Place, Unlisting
<1> QED BY <1>2, <1>4, <1>5, FdKeeps DEF Leave, FdKinds

(* A refresh that is over leaves what the call holds alone.                *)
LEMMA ThenKeeps ==
    ASSUME TypeInv, NEW t \in Task, Then(t), pc[t] \in {"store", "notify", "foreach"}, RecordTypes'
    PROVE  Moves(t) /\ Holds(t)
<1>1. CASE op[t].kind \in {"read", "write"} /\ op[t].then \in {"offset", "try", "wait"}
  BY <1>1, ThenMoves DEF Stayed, Holds, MineOf, ClaimOf, OpenAt, SweepKinds, Unlisting
<1>2. CASE op[t].kind = "open" /\ op[t].then = "open"
  BY <1>2, ThenMoves DEF Stayed, Holds, MineOf, ClaimOf, OpenAt, OpeningAt, SweepKinds, Unlisting
<1>3. CASE op[t].kind = "unregister" /\ op[t].then = "disown"
  BY <1>3, ThenMoves DEF Stayed, Holds, MineOf, ClaimOf, OpenAt, SweepKinds, Unlisting
<1> QED BY <1>1, <1>2, <1>3, ThenMoves

LEMMA StoreMoves ==
    ASSUME TypeInv, NEW t \in Task, Store(t),
           op[t].kind = "open" => stream.node \in {NoNode, op[t].node}
    PROVE  Moves(t) /\ Holds(t) /\ stream'.node = stream.node
<1>1. op[t] \in CallRecord /\ CallAt(op[t], "store") /\ RecordTypes
  BY Here DEF Store
<1>2. RecordTypes' /\ stream'.node = stream.node
  BY <1>1 DEF RecordTypes, CallRecord, Store, fileVars
<1>3. CASE /\ stream.node # NoNode
           /\ Goto(t, "notify") /\ op' = [op EXCEPT ![t].node = stream.node]
  <2> DEFINE n == stream.node
             o == [op[t] EXCEPT !.node = n]
  <2>1. n \in Node
    BY <1>1, <1>3 DEF RecordTypes
  <2>2. /\ o \in CallRecord /\ o.kind = op[t].kind /\ o.node = n /\ o.fd = op[t].fd
        /\ o.to = op[t].to /\ o.file = op[t].file /\ o.then = op[t].then
    <3> HIDE DEF n
    <3> QED BY <1>1, <2>1 DEF CallRecord
  <2>3. op' = [op EXCEPT ![t] = o] /\ Goto(t, "notify")
    BY <1>3
  <2>4. op[t].kind = "open" => n = op[t].node
    BY <1>3
  <2> HIDE DEF n, o
  <2>5. CallAt(o, "notify") /\ "notify" \in Place
    BY <1>1, <2>1, <2>2 DEF CallAt, OwnCallAt, FdCallAt, OnFd, OpeningAt, FreeingAt, Unlisting, Place,
          SweepKinds
  <2>6. Moves(t) /\ op'[t] = o /\ pc'[t] = "notify"
    BY <1>2, <2>2, <2>3, <2>5, StepMoves
  <2>7. op[t].kind \notin SweepKinds /\ pc[t] = "store"
    BY <1>1 DEF CallAt, OwnCallAt, FdCallAt, OpeningAt, FreeingAt, Unlisting, SweepKinds, Store
  <2>8. Holds(t)
    BY <2>2, <2>4, <2>6, <2>7 DEF Holds, MineOf, ClaimOf, OpenAt, OpeningAt, Unlisting
  <2> QED BY <1>2, <2>6, <2>8
<1>4. CASE Then(t)
  BY <1>2, <1>4, ThenKeeps DEF Store
<1> QED BY <1>3, <1>4 DEF Store

LEMMA NotifyMoves ==
    ASSUME TypeInv, NEW t \in Task, Notify(t)
    PROVE  Moves(t) /\ Holds(t) /\ op[t].node \in Node
<1>1. op[t] \in CallRecord /\ CallAt(op[t], "notify") /\ RecordTypes
  BY Here DEF Notify
<1>2. op[t].node \in Node /\ op[t].kind \notin SweepKinds /\ pc[t] = "notify"
  BY <1>1 DEF CallAt, OwnCallAt, FdCallAt, OpeningAt, FreeingAt, Unlisting, SweepKinds, Notify
<1>3. RecordTypes'
  <2>1. nodes[op[t].node] \in NodeRecord /\ op[t].mask \in SUBSET Mask
    BY <1>1, <1>2 DEF RecordTypes, CallRecord
  <2>2. [nodes[op[t].node] EXCEPT !.mask = op[t].mask] \in NodeRecord
    BY <2>1, NotedType, Zenon
  <2> QED BY <1>1, <1>2, <2>2, NodesType DEF Notify, devVars
<1>4. CASE Goto(t, "foreach") /\ UNCHANGED op
  <2>1. CallAt(op[t], "foreach") /\ "foreach" \in Place
    BY <1>1 DEF CallAt, OwnCallAt, FdCallAt, OnFd, OpeningAt, FreeingAt, Unlisting, Place, SweepKinds
  <2>2. Moves(t) /\ Stayed(t, "foreach")
    BY <1>3, <1>4, <2>1, StayMoves DEF Stayed
  <2>3. Holds(t)
    BY <1>2, <2>2 DEF Stayed, Holds, MineOf, ClaimOf, OpenAt, OpeningAt, Unlisting
  <2> QED BY <1>2, <2>2, <2>3
<1>5. CASE Then(t)
  BY <1>2, <1>3, <1>5, ThenKeeps
<1> QED BY <1>4, <1>5 DEF Notify

LEMMA ForeachMoves ==
    ASSUME TypeInv, NEW t \in Task, Foreach(t)
    PROVE  Moves(t) /\ Holds(t)
<1>1. RecordTypes'
  BY Here, SameTypes DEF Foreach, fileVars, devVars
<1> QED BY <1>1, ThenKeeps DEF Foreach

LEMMA NotifyClosedMoves ==
    ASSUME TypeInv, NEW t \in Task, NotifyClosed(t)
    PROVE  Moves(t) /\ Holds(t)
<1>1. op[t] \in CallRecord /\ CallAt(op[t], "closing") /\ RecordTypes
  BY Here DEF NotifyClosed
<1>2. /\ op[t].file \in File
      /\ op[t].kind \in SweepKinds \/ (op[t].kind = "close" /\ OnFd(op[t]))
  BY <1>1 DEF CallAt, OwnCallAt, FdCallAt, OpeningAt, FreeingAt, Unlisting, OnFd, SweepKinds
<1>3. RecordTypes'
  BY <1>1, SameTypes DEF NotifyClosed, fileVars, devVars
<1> DEFINE l == IF op[t].kind = "close" THEN "unlink" ELSE "release"
<1>4. CallAt(op[t], l) /\ l \in Place
  BY <1>2 DEF CallAt, OwnCallAt, FdCallAt, FreeingAt, Unlisting, Place, SweepKinds
<1>5. Moves(t) /\ op'[t] = op[t] /\ pc'[t] = l
  <2> HIDE DEF l
  <2>1. UNCHANGED op /\ Goto(t, l)
    BY DEF NotifyClosed, l
  <2> QED BY <1>3, <1>4, <2>1, StayMoves
<1>6. Holds(t)
  BY <1>2, <1>5 DEF Holds, MineOf, ClaimOf, OpenAt, OpeningAt, SweepKinds,
        NotifyClosed, Unlisting
<1> QED BY <1>5, <1>6

-----------------------------------------------------------------------------
(* The calls that have no descriptor.                                      *)

LEMMA BeginOwnMoves ==
    ASSUME TypeInv, NEW t \in Task, NEW o \in CallRecord, NEW l \in {"evict", "notify"},
           pc[t] = "idle", op' = [op EXCEPT ![t] = o], Goto(t, l), RecordTypes',
           \/ o.kind \in SweepKinds /\ l = "evict"
           \/ /\ o.kind = "unregister" /\ l = "notify" /\ o.node \in Node /\ o.then = "disown"
              /\ ~registered'
    PROVE  Moves(t) /\ Holds(t)
<1>1. op[t].kind = "none"
  BY Here DEF CallAt, OwnCallAt, FdCallAt, OpeningAt, FreeingAt, Unlisting, SweepKinds
<1>2. CallAt(o, l) /\ l \in Place
  BY DEF CallAt, OwnCallAt, Place, OpeningAt, SweepKinds
<1>3. Moves(t) /\ op'[t] = o /\ pc'[t] = l
  BY <1>2, StepMoves
<1>4. o.kind \in SweepKinds \/ (o.kind = "unregister" /\ ~registered')
  OBVIOUS
<1>5. Holds(t)
  BY <1>1, <1>3, <1>4 DEF Holds, MineOf, ClaimOf, OpenAt, OpeningAt,
        SweepKinds, FdKinds, Unlisting
<1> QED BY <1>3, <1>5

LEMMA EndJobMoves ==
    ASSUME TypeInv, NEW t \in Task, EndJob(t)
    PROVE  Moves(t) /\ Holds(t)
<1> DEFINE o == [NoOp EXCEPT !.kind = "end_job"]
<1>1. o \in CallRecord /\ o.kind \in SweepKinds
  BY DEF NoOp, CallRecord, Mask, SweepKinds
<1>2. RecordTypes /\ ended' \subseteq Job
  BY Here DEF EndJob, RecordTypes
<1>3. RecordTypes'
  BY <1>2 DEF EndJob, RecordTypes, devVars
<1>4. pc[t] = "idle" /\ op' = [op EXCEPT ![t] = o] /\ Goto(t, "evict")
  BY DEF EndJob
<1> HIDE DEF o
<1> QED BY <1>1, <1>3, <1>4, BeginOwnMoves

LEMMA CloseAllMoves ==
    ASSUME TypeInv, NEW t \in Task, CloseAll(t)
    PROVE  Moves(t) /\ Holds(t)
<1> DEFINE o == [NoOp EXCEPT !.kind = "close_all"]
<1>1. o \in CallRecord /\ o.kind \in SweepKinds
  BY DEF NoOp, CallRecord, Mask, SweepKinds
<1>2. pc[t] = "idle" /\ op' = [op EXCEPT ![t] = o] /\ Goto(t, "evict")
  BY DEF CloseAll, Begin
<1>3. RecordTypes'
  BY Here, SameTypes DEF CloseAll, Begin, fileVars, devVars
<1> HIDE DEF o
<1> QED BY <1>1, <1>2, <1>3, BeginOwnMoves

LEMMA SweepEndsMoves ==
    ASSUME TypeInv, NEW t \in Task, SweepEnds(t)
    PROVE  Moves(t) /\ Holds(t)
<1>1. CallAt(op[t], "evict") /\ RecordTypes
  BY Here DEF SweepEnds
<1>2. op[t].kind \in SweepKinds
  BY <1>1 DEF CallAt, OwnCallAt, FdCallAt, OpeningAt, FreeingAt, Unlisting, SweepKinds
<1>3. RecordTypes'
  BY <1>1, SameTypes DEF SweepEnds, fileVars, devVars
<1>4. Moves(t) /\ Returned(t)
  BY <1>3, ReturnMoves DEF Returned, SweepEnds
<1>5. Holds(t)
  BY <1>2, <1>4 DEF Returned, NoOp, Holds, MineOf, ClaimOf, OpenAt, OpeningAt,
        SweepKinds, FdKinds, SweepEnds, Unlisting
<1> QED BY <1>4, <1>5

LEMMA UnregisterMoves ==
    ASSUME TypeInv, NEW t \in Task, Unregister(t)
    PROVE  Moves(t) /\ Holds(t)
<1>1. RecordTypes /\ RecordTypes'
  BY Here DEF Unregister, RecordTypes, fileVars
<1>2. CASE UNCHANGED taskVars
  <2>1. /\ Moves(t) /\ op'[t] = op[t] /\ pc'[t] = pc[t]
    BY <1>1, <1>2, Here DEF Moves, DataInv, TypeInv, Configured, taskVars
  <2>2. op[t].kind = "none" /\ pc[t] = "idle"
    BY Here DEF CallAt, OwnCallAt, FdCallAt, OpeningAt, FreeingAt, Unlisting, SweepKinds, Unregister
  <2> QED BY <2>1, <2>2 DEF Holds, MineOf, ClaimOf, OpenAt, SweepKinds, Unlisting
<1>3. ASSUME NEW n \in Node, Goto(t, "notify"),
             op' = [op EXCEPT ![t] = [NoOp EXCEPT !.kind = "unregister",
                                        !.node = n, !.mask = {"error"}, !.then = "disown"]]
      PROVE  Moves(t) /\ Holds(t)
  <2> DEFINE o == [NoOp EXCEPT !.kind = "unregister", !.node = n, !.mask = {"error"},
                               !.then = "disown"]
  <2>1. o \in CallRecord /\ o.kind = "unregister" /\ o.node = n /\ o.then = "disown"
    BY DEF NoOp, CallRecord, Mask
  <2>2. pc[t] = "idle" /\ op' = [op EXCEPT ![t] = o] /\ ~registered'
    BY <1>3 DEF Unregister
  <2> HIDE DEF o
  <2> QED BY <1>1, <1>3, <2>1, <2>2, BeginOwnMoves
<1> QED BY <1>2, <1>3 DEF Unregister

LEMMA DisownMoves ==
    ASSUME TypeInv, NEW t \in Task, Disown(t)
    PROVE  Moves(t) /\ Holds(t) /\ op[t].node \in Node
<1>1. CallAt(op[t], "disown") /\ RecordTypes
  BY Here DEF Disown
<1>2. op[t].kind = "unregister" /\ op[t].node \in Node
  BY <1>1 DEF CallAt, OwnCallAt, FdCallAt, OpeningAt, FreeingAt, Unlisting, SweepKinds
<1>3. RecordTypes'
  <2>1. nodes[op[t].node] \in NodeRecord
    BY <1>1, <1>2 DEF RecordTypes
  <2>2. [nodes[op[t].node] EXCEPT !.entry = FALSE] \in NodeRecord
    BY <2>1, DisownedType, Zenon
  <2> QED BY <1>1, <1>2, <2>2, NodesType DEF Disown, devVars
<1>4. CallAt(op[t], "detach") /\ "detach" \in Place
  BY <1>2 DEF CallAt, OwnCallAt, Place, FreeingAt, Unlisting
<1>5. Moves(t) /\ Stayed(t, "detach")
  BY <1>3, <1>4, StayMoves DEF Disown, Stayed
<1>6. Holds(t)
  BY <1>2, <1>5 DEF Stayed, Holds, MineOf, ClaimOf, OpenAt, SweepKinds, Disown, Unlisting
<1> QED BY <1>2, <1>5, <1>6

-----------------------------------------------------------------------------
(* The steps that take a file out of a table.                              *)

LEMMA ReleaseLockedTypes ==
    ASSUME RecordTypes, NEW f \in File, ReleaseLocked(f)
    PROVE  /\ nodes' \in [Node -> NodeRecord]
           /\ stream' \in [used : 0 .. Capacity, mask : SUBSET Mask, node : Node \cup {NoNode}]
           /\ stream'.node \in {stream.node, NoNode}
<1>1. CASE files[f].refs # 1
  BY <1>1 DEF ReleaseLocked, RecordTypes
<1>2. CASE files[f].refs = 1
  <2> DEFINE n == files[f].node
             k == nodes[n].refs - 1
             b == nodes[n].listed /\ nodes[n].refs > 1
             r == [nodes[n] EXCEPT !.refs = k, !.listed = b]
  <2>1. nodes' = [nodes EXCEPT ![n] = r]
    BY <1>2 DEF ReleaseLocked, RecordTypes
  <2>2. n \in Node => r \in NodeRecord
    <3> SUFFICES ASSUME n \in Node PROVE r \in NodeRecord
      OBVIOUS
    <3> DEFINE c == nodes[n]
    <3>1. c \in NodeRecord
      BY DEF RecordTypes
    <3>2. k \in Int /\ b \in BOOLEAN
      BY <3>1 DEF NodeRecord
    <3> HIDE DEF c, k, b
    <3>3. [c EXCEPT !.refs = k, !.listed = b] \in NodeRecord
      BY <3>1, <3>2, DroppedType, Zenon
    <3> QED BY <3>3 DEF c
  <2> HIDE DEF r, n
  <2>3. nodes' \in [Node -> NodeRecord]
    BY <2>1, <2>2 DEF RecordTypes
  <2>4. stream' = stream \/ stream' = [stream EXCEPT !.node = NoNode, !.mask = {}]
    BY <1>2 DEF ReleaseLocked
  <2> QED BY <2>3, <2>4 DEF RecordTypes
<1> QED BY <1>1, <1>2

LEMMA VacatedTypes ==
    ASSUME RecordTypes, Configured, NEW t \in Task, NEW d \in Fd, Vacated(t, d),
           UNCHANGED registered
    PROVE  RecordTypes' /\ stream'.node \in {stream.node, NoNode}
<1> DEFINE f == tables[JobOf[t]][d]
<1>1. JobOf[t] \in Job /\ f \in File \cup {NoFile}
  BY DEF RecordTypes, Configured
<1>2. CASE f = NoFile
  BY <1>2, SameTypes DEF Vacated, fileVars
<1>3. CASE f # NoFile
  <2>1. /\ tables' = [tables EXCEPT ![JobOf[t]][d] = NoFile]
        /\ files' = Released(files, f) /\ ReleaseLocked(f) /\ UNCHANGED ended
    BY <1>3 DEF Vacated
  <2>2. f \in File
    BY <1>1, <1>3
  <2> HIDE DEF f
  <2>3. /\ nodes' \in [Node -> NodeRecord]
        /\ stream' \in [used : 0 .. Capacity, mask : SUBSET Mask, node : Node \cup {NoNode}]
        /\ stream'.node \in {stream.node, NoNode}
    BY <2>1, <2>2, ReleaseLockedTypes
  <2>4. files' \in [File -> FileRecord]
    BY <2>1, <2>2, ReleasedFields DEF RecordTypes
  <2>5. tables' \in [Job -> [Fd -> File \cup {NoFile}]]
    BY <1>1, <2>1 DEF RecordTypes
  <2> QED BY <2>1, <2>3, <2>4, <2>5 DEF RecordTypes
<1> QED BY <1>2, <1>3

LEMMA UnlinkMoves ==
    ASSUME TypeInv, NEW t \in Task, Unlink(t)
    PROVE  /\ Moves(t) /\ Holds(t) /\ op[t].kind = "close" /\ OnFd(op[t])
           /\ op'[t].kind \notin FdKinds /\ stream'.node \in {stream.node, NoNode}
<1>1. CallAt(op[t], "unlink") /\ RecordTypes /\ Configured
  BY Here DEF Unlink, TypeInv, DataInv
<1>2. op[t].kind = "close" /\ OnFd(op[t])
  BY <1>1 DEF CallAt, OwnCallAt, FdCallAt, OpeningAt, FreeingAt, Unlisting
<1>3. RecordTypes' /\ stream'.node \in {stream.node, NoNode}
  BY <1>1, <1>2, VacatedTypes DEF Unlink, OnFd
<1>4. Moves(t) /\ Returned(t)
  BY <1>3, ReturnMoves DEF Unlink, Returned
<1>5. Holds(t)
  BY <1>2, <1>4, FdKeeps DEF FdKinds, Unlink
<1> QED BY <1>2, <1>3, <1>4, <1>5 DEF Returned, NoOp, FdKinds

LEMMA VacateMoves ==
    ASSUME TypeInv, NEW t \in Task, Vacate(t)
    PROVE  /\ Moves(t) /\ Holds(t) /\ op[t].kind = "dup2" /\ OnFd(op[t])
           /\ op[t].to \in Fd \ {op[t].fd} /\ op'[t] = op[t]
           /\ stream'.node \in {stream.node, NoNode}
<1>1. CallAt(op[t], "vacate") /\ RecordTypes /\ Configured
  BY Here DEF Vacate, TypeInv, DataInv
<1>2. op[t].kind = "dup2" /\ OnFd(op[t]) /\ op[t].to \in Fd \ {op[t].fd}
  BY <1>1 DEF CallAt, OwnCallAt, FdCallAt, OpeningAt, FreeingAt, Unlisting
<1>3. RecordTypes' /\ stream'.node \in {stream.node, NoNode}
  BY <1>1, <1>2, VacatedTypes DEF Vacate
<1>4. CallAt(op[t], "assign") /\ "assign" \in Place
  BY <1>2 DEF CallAt, FdCallAt, Place
<1>5. Moves(t) /\ Stayed(t, "assign")
  BY <1>3, <1>4, StayMoves DEF Vacate, Stayed
<1>6. Holds(t)
  BY <1>2, <1>5, FdKeeps DEF FdKinds, Vacate, Place, Unlisting
<1> QED BY <1>2, <1>3, <1>5, <1>6 DEF Stayed

LEMMA AssignMoves ==
    ASSUME TypeInv, NEW t \in Task, Assign(t)
    PROVE  /\ Moves(t) /\ Holds(t) /\ op[t].kind = "dup2" /\ OnFd(op[t])
           /\ op[t].to \in Fd \ {op[t].fd} /\ op'[t].kind \notin FdKinds
           /\ stream'.node \in {stream.node, NoNode}
<1>1. CallAt(op[t], "assign") /\ RecordTypes /\ Configured
  BY Here DEF Assign, TypeInv, DataInv
<1>2. op[t].kind = "dup2" /\ OnFd(op[t]) /\ op[t].to \in Fd \ {op[t].fd}
  BY <1>1 DEF CallAt, OwnCallAt, FdCallAt, OpeningAt, FreeingAt, Unlisting
<1> DEFINE f == tables[JobOf[t]][op[t].to]
           fs == IF f = NoFile THEN files ELSE Released(files, f)
<1>3. f \in File \cup {NoFile} /\ JobOf[t] \in Job
  <2>1. JobOf[t] \in Job
    BY <1>1 DEF Configured
  <2>2. tables \in [Job -> [Fd -> File \cup {NoFile}]]
    BY <1>1 DEF RecordTypes
  <2> HIDE DEF fs
  <2> QED BY <1>2, <2>1, <2>2
<1>4. /\ tables' = [tables EXCEPT ![JobOf[t]][op[t].to] = op[t].file]
      /\ files' = [fs EXCEPT ![op[t].file].refs = @ + 1]
      /\ IF f = NoFile THEN UNCHANGED <<nodes, stream, waitVars>> ELSE ReleaseLocked(f)
  BY DEF Assign
<1> HIDE DEF f
<1>5. fs \in [File -> FileRecord]
  BY <1>1, <1>3, ReleasedFields DEF RecordTypes
<1> HIDE DEF fs
<1>6. /\ nodes' \in [Node -> NodeRecord]
      /\ stream' \in [used : 0 .. Capacity, mask : SUBSET Mask, node : Node \cup {NoNode}]
      /\ stream'.node \in {stream.node, NoNode}
  <2>1. CASE f = NoFile
    BY <1>1, <1>4, <2>1 DEF RecordTypes
  <2>2. CASE f # NoFile
    BY <1>1, <1>3, <1>4, <2>2, ReleaseLockedTypes
  <2> QED BY <2>1, <2>2
<1>7. files' \in [File -> FileRecord]
  BY <1>2, <1>4, <1>5, AcquiredFields DEF OnFd
<1>8. RecordTypes'
  <2>1. tables' \in [Job -> [Fd -> File \cup {NoFile}]]
    BY <1>1, <1>2, <1>3, <1>4 DEF RecordTypes, OnFd
  <2> QED BY <1>1, <1>6, <1>7, <2>1 DEF RecordTypes, Assign
<1>9. Moves(t) /\ Returned(t)
  BY <1>8, ReturnMoves DEF Assign, Returned
<1>10. Holds(t)
  BY <1>2, <1>9, FdKeeps DEF FdKinds, Assign
<1> QED BY <1>2, <1>6, <1>9, <1>10 DEF Returned, NoOp, FdKinds

(* m_vfs_fd_close_mount_fds and the end of a job take a file out of a      *)
(* table and keep the reference that the table had.                        *)
Taken(t, j, d) ==
    /\ tables[j][d] \in File
    /\ tables' = [tables EXCEPT ![j][d] = NoFile]
    /\ op'[t].file = tables[j][d]

LEMMA EvictMoves ==
    ASSUME TypeInv, NEW t \in Task, Evict(t)
    PROVE  /\ Moves(t) /\ pc'[t] = "mark" /\ op'[t].kind = op[t].kind
           /\ op[t].kind \in SweepKinds
           /\ \E j \in Job, d \in Fd : Taken(t, j, d)
<1>1. op[t] \in CallRecord /\ CallAt(op[t], "evict") /\ RecordTypes /\ Configured
  BY Here DEF Evict, TypeInv, DataInv
<1>2. op[t].kind \in SweepKinds
  BY <1>1 DEF CallAt, OwnCallAt, FdCallAt, OpeningAt, FreeingAt, Unlisting
<1>3. PICK j \in Job, d \in Fd : /\ tables[j][d] \in File
                                 /\ op' = [op EXCEPT ![t].file = tables[j][d]]
                                 /\ tables' = [tables EXCEPT ![j][d] = NoFile]
  <2>1. PICK j \in Swept(t) :
            /\ Open(j) # {}
            /\ LET fd == CHOOSE d \in Open(j) : \A e \in Open(j) : d <= e IN
                /\ op' = [op EXCEPT ![t].file = tables[j][fd]]
                /\ tables' = [tables EXCEPT ![j][fd] = NoFile]
    BY DEF Evict
  <2> DEFINE fd == CHOOSE d \in Open(j) : \A e \in Open(j) : d <= e
  <2>2. fd \in Open(j)
    <3> HIDE DEF fd
    <3>1. Open(j) \in SUBSET Fd
      BY DEF Open
    <3> QED BY <1>1, <2>1, <3>1, FirstOf DEF fd
  <2>3. /\ op' = [op EXCEPT ![t].file = tables[j][fd]]
        /\ tables' = [tables EXCEPT ![j][fd] = NoFile]
    BY <2>1
  <2> HIDE DEF fd
  <2>4. j \in Job
    BY <1>1 DEF Swept, RecordTypes
  <2>5. fd \in Fd /\ tables[j][fd] \in File
    BY <1>1, <2>2, <2>4 DEF Open, RecordTypes
  <2> QED BY <2>3, <2>4, <2>5
<1> DEFINE f == tables[j][d]
           o == [op[t] EXCEPT !.file = f]
<1>4. o \in CallRecord /\ o.kind = op[t].kind /\ o.file = f
  <2>1. f \in File
    BY <1>3
  <2> HIDE DEF f
  <2> QED BY <1>1, <2>1 DEF CallRecord
<1>5. op' = [op EXCEPT ![t] = o] /\ Goto(t, "mark") /\ f \in File
  BY <1>3 DEF Evict
<1> HIDE DEF o, f
<1>6. CallAt(o, "mark") /\ "mark" \in Place
  BY <1>2, <1>4, <1>5 DEF CallAt, OwnCallAt, Place
<1>7. RecordTypes'
  <2>1. tables' \in [Job -> [Fd -> File \cup {NoFile}]]
    BY <1>1, <1>3 DEF RecordTypes
  <2> QED BY <1>1, <2>1 DEF RecordTypes, Evict, devVars
<1>8. Moves(t) /\ op'[t] = o /\ pc'[t] = "mark"
  BY <1>4, <1>5, <1>6, <1>7, StepMoves
<1>9. Taken(t, j, d)
  BY <1>3, <1>4, <1>8 DEF Taken, f
<1> QED BY <1>2, <1>4, <1>8, <1>9

-----------------------------------------------------------------------------
(* Who holds what.                                                         *)

Mine(t)  == MineOf(op[t], pc[t])
Claim(t) == IF pc[t] = "free" THEN files[op[t].file].node ELSE ClaimOf(op[t], pc[t])
Held(f)  == IF files[f].destroyed THEN NoNode ELSE files[f].node
Opening(t) == OpenAt(op[t], pc[t])

(* A file that was never allocated is referred to by nothing; a node that  *)
(* lost its entry lost it when the device was unregistered.                *)
RecordInv ==
    /\ \A f \in File : IF files[f].made THEN files[f].node \in Node
                       ELSE files[f].refs = 0 /\ files[f].node = NoNode
    /\ \A n \in Node : ~nodes[n].made => nodes[n].refs = 0 /\ ~nodes[n].listed
    /\ \A n \in Node : nodes[n].made /\ ~nodes[n].entry => ~registered
    /\ \A t \in Task : op[t].kind = "unregister" => ~registered
    /\ \A t \in Task : pc[t] = "free" => files[op[t].file].made
    /\ \A t \in Task : pc[t] \in Unlisting => nodes[op[t].node].made

(* The node that an open has made stays listed, and the one the stream     *)
(* knows, until the open has told it of the readiness.                     *)
OpeningInv ==
    \A t \in Task : Opening(t) =>
        /\ nodes[op[t].node].listed
        /\ pc[t] # "attach" => stream.node \in {NoNode, op[t].node}
        /\ \A u \in Task \ {t} : ~Opening(u)
        /\ \A u \in Task : pc[u] \in Unlisting => op[u].node # op[t].node

Entries(f) == {p \in Job \X Fd : tables[p[1]][p[2]] = f}
Owners(f)  == {t \in Task : Mine(t) = f}
FilesOf(n) == {f \in File : Held(f) = n}
Claims(n)  == {t \in Task : Claim(t) = n}

FileCount == \A f \in File : files[f].refs = Cardinality(Entries(f)) + Cardinality(Owners(f))
NodeCount == \A n \in Node : nodes[n].refs = Cardinality(FilesOf(n)) + Cardinality(Claims(n))
FreedInv  == \A f \in File : files[f].made => (files[f].destroyed <=> files[f].refs = 0)

RefInv == /\ TypeInv /\ RecordInv /\ OpeningInv
          /\ FileCount /\ NodeCount /\ FreedInv

SameFiles ==
    \A f \in File : /\ files'[f].made = files[f].made /\ files'[f].refs = files[f].refs
                    /\ files'[f].node = files[f].node
                    /\ files'[f].destroyed = files[f].destroyed
SameNodes ==
    \A n \in Node : /\ nodes'[n].made = nodes[n].made /\ nodes'[n].refs = nodes[n].refs
                    /\ nodes'[n].listed = nodes[n].listed
                    /\ nodes'[n].entry = nodes[n].entry

(* The steps that change nothing of this: t holds what it held, and the    *)
(* stream gets no other node than the one that is being opened.            *)
Quiet(t) ==
    /\ Moves(t) /\ Holds(t) /\ SameFiles /\ SameNodes /\ UNCHANGED tables
    /\ registered' => registered
    /\ \/ stream'.node \in {stream.node, NoNode}
       \/ Opening(t) /\ stream'.node = op[t].node

QuietStep(t) ==
    \/ Attach(t) \/ OpenFails(t) \/ BlockTaken(t) \/ BlockTimeout(t) \/ MarkClosed(t)
    \/ Query(t) \/ TryRead(t) \/ TryWrite(t) \/ PollMask(t) \/ DeviceGone(t) \/ Wait(t)
    \/ SetOffset(t) \/ LookAgain(t) \/ Leave(t) \/ Store(t) \/ Notify(t) \/ Foreach(t)
    \/ NotifyClosed(t) \/ EndJob(t) \/ CloseAll(t) \/ SweepEnds(t) \/ Unregister(t) \/ Detach(t)

LEMMA QuietSteps ==
    ASSUME TypeInv, OpeningInv, NEW t \in Task, QuietStep(t)
    PROVE  Quiet(t)
<1>1. CASE Attach(t)
  <2>1. SameFiles /\ SameNodes /\ UNCHANGED <<tables, registered>>
    BY <1>1 DEF Attach, fileVars, SameFiles, SameNodes
  <2>2. /\ Moves(t) /\ Holds(t) /\ op[t].kind = "open"
        /\ stream'.node = op[t].node /\ pc[t] = "attach"
    BY <1>1, AttachMoves DEF Attach
  <2> QED BY <2>1, <2>2 DEF Quiet, Opening, OpenAt, OpeningAt
<1>2. CASE MarkClosed(t)
  <2>1. op[t].file \in File /\ RecordTypes
    BY <1>2, Here DEF MarkClosed, CallAt, OwnCallAt, FdCallAt, OnFd, SweepKinds, OpeningAt,
          FreeingAt, Unlisting
  <2>2. SameFiles
    <3> DEFINE r == [files[op[t].file] EXCEPT !.closed = TRUE]
    <3>1. /\ r.made = files[op[t].file].made /\ r.refs = files[op[t].file].refs
          /\ r.node = files[op[t].file].node /\ r.destroyed = files[op[t].file].destroyed
      <4> DEFINE c == files[op[t].file]
      <4>1. c \in FileRecord
        BY <2>1 DEF RecordTypes
      <4> HIDE DEF c
      <4>2. /\ [c EXCEPT !.closed = TRUE].made = c.made
            /\ [c EXCEPT !.closed = TRUE].refs = c.refs
            /\ [c EXCEPT !.closed = TRUE].node = c.node
            /\ [c EXCEPT !.closed = TRUE].destroyed = c.destroyed
        BY <4>1 DEF FileRecord
      <4> QED BY <4>2 DEF c
    <3>2. files' = [files EXCEPT ![op[t].file] = r]
      BY <1>2 DEF MarkClosed
    <3> HIDE DEF r
    <3> QED BY <2>1, <3>1, <3>2 DEF SameFiles, RecordTypes
  <2>3. SameNodes /\ UNCHANGED <<tables, registered, stream>>
    BY <1>2 DEF MarkClosed, devVars, SameNodes
  <2> QED BY <1>2, <2>2, <2>3, MarkClosedMoves DEF Quiet
<1>3. CASE Notify(t)
  <2>1. op[t].node \in Node /\ RecordTypes /\ Moves(t) /\ Holds(t)
    BY <1>3, Here, NotifyMoves
  <2>2. SameNodes
    <3> DEFINE r == [nodes[op[t].node] EXCEPT !.mask = op[t].mask]
    <3>1. /\ r.made = nodes[op[t].node].made /\ r.refs = nodes[op[t].node].refs
          /\ r.listed = nodes[op[t].node].listed /\ r.entry = nodes[op[t].node].entry
      <4> DEFINE c == nodes[op[t].node]
                 m == op[t].mask
      <4>1. c \in NodeRecord
        BY <2>1 DEF RecordTypes
      <4> HIDE DEF c, m
      <4>2. /\ [c EXCEPT !.mask = m].made = c.made
            /\ [c EXCEPT !.mask = m].refs = c.refs
            /\ [c EXCEPT !.mask = m].listed = c.listed
            /\ [c EXCEPT !.mask = m].entry = c.entry
        BY <4>1 DEF NodeRecord
      <4> QED BY <4>2 DEF c, m
    <3>2. nodes' = [nodes EXCEPT ![op[t].node] = r]
      BY <1>3 DEF Notify
    <3> HIDE DEF r
    <3> QED BY <2>1, <3>1, <3>2 DEF SameNodes, RecordTypes
  <2>3. SameFiles /\ UNCHANGED <<tables, registered, stream>>
    BY <1>3 DEF Notify, devVars, SameFiles
  <2> QED BY <2>1, <2>2, <2>3 DEF Quiet
<1>4. CASE Store(t)
  <2>1. op[t].kind = "open" => stream.node \in {NoNode, op[t].node}
    BY <1>4 DEF OpeningInv, Opening, OpenAt, OpeningAt, Store
  <2>2. Moves(t) /\ Holds(t) /\ stream'.node = stream.node
    BY <1>4, <2>1, StoreMoves
  <2>3. SameFiles /\ SameNodes /\ UNCHANGED <<tables, registered>>
    BY <1>4 DEF Store, fileVars, SameFiles, SameNodes
  <2> QED BY <2>2, <2>3 DEF Quiet
<1>5. CASE TryRead(t) \/ TryWrite(t)
  <2>1. SameFiles /\ SameNodes /\ UNCHANGED <<tables, registered>>
    BY <1>5 DEF TryRead, TryWrite, fileVars, SameFiles, SameNodes
  <2> QED BY <1>5, <2>1, TryMoves DEF Quiet
<1>6. CASE EndJob(t)
  <2>1. SameFiles /\ SameNodes /\ UNCHANGED <<tables, registered, stream>>
    BY <1>6 DEF EndJob, devVars, SameFiles, SameNodes
  <2> QED BY <1>6, <2>1, EndJobMoves DEF Quiet
<1>7. CASE CloseAll(t)
  <2>1. SameFiles /\ SameNodes /\ UNCHANGED <<tables, registered, stream>>
    BY <1>7 DEF CloseAll, Begin, fileVars, devVars, SameFiles, SameNodes
  <2> QED BY <1>7, <2>1, CloseAllMoves DEF Quiet
<1>8. CASE Unregister(t)
  <2>1. SameFiles /\ SameNodes /\ UNCHANGED <<tables, stream>> /\ registered
    BY <1>8 DEF Unregister, fileVars, SameFiles, SameNodes
  <2> QED BY <1>8, <2>1, UnregisterMoves DEF Quiet
<1>9. CASE Detach(t)
  <2>1. SameFiles /\ SameNodes /\ UNCHANGED <<tables, registered>>
    BY <1>9 DEF Detach, fileVars, SameFiles, SameNodes
  <2> QED BY <1>9, <2>1, DetachMoves DEF Quiet
<1>10. CASE UNCHANGED <<fileVars, devVars>> /\ Moves(t) /\ Holds(t)
  BY <1>10 DEF Quiet, fileVars, devVars, SameFiles, SameNodes
<1>11. CASE OpenFails(t) \/ BlockTaken(t) \/ BlockTimeout(t) \/ Query(t)
  BY <1>10, <1>11, OpenFailsMoves, BlockTakenMoves, BlockTimeoutMoves, QueryMoves
     DEF OpenFails, BlockTaken, BlockTimeout, Query
<1>12. CASE PollMask(t) \/ DeviceGone(t) \/ Wait(t) \/ Leave(t)
  BY <1>10, <1>12, PollMaskMoves, DeviceGoneMoves, WaitMoves, LeaveMoves
     DEF PollMask, DeviceGone, Wait, Leave
<1>14. CASE SetOffset(t) \/ LookAgain(t)
  BY <1>10, <1>14, SetOffsetMoves, LookAgainMoves DEF SetOffset, LookAgain
<1>13. CASE Foreach(t) \/ NotifyClosed(t) \/ SweepEnds(t)
  BY <1>10, <1>13, ForeachMoves, NotifyClosedMoves, SweepEndsMoves
     DEF Foreach, NotifyClosed, SweepEnds
<1> QED BY <1>1, <1>2, <1>3, <1>4, <1>5, <1>6, <1>7, <1>8, <1>9, <1>11, <1>12, <1>13, <1>14
        DEF QuietStep

-----------------------------------------------------------------------------
(* Counting. A step changes one entry of a table at most, and what one     *)
(* task holds, so that each count changes by what is lost and gained there.*)

One(a, b) == IF a = b THEN 1 ELSE 0

Puts(j, d, f) == tables' = [tables EXCEPT ![j][d] = f]

LEMMA SetsFinite ==
    ASSUME TypeInv
    PROVE  /\ \A f \in File : IsFiniteSet(Entries(f)) /\ IsFiniteSet(Owners(f))
           /\ \A n \in Node : IsFiniteSet(FilesOf(n)) /\ IsFiniteSet(Claims(n))
<1>1. IsFiniteSet(Job \X Fd) /\ IsFiniteSet(Task) /\ IsFiniteSet(File)
  BY FS_Product DEF TypeInv, DataInv, Configured
<1>2. /\ \A f \in File : Entries(f) \subseteq Job \X Fd /\ Owners(f) \subseteq Task
      /\ \A n \in Node : FilesOf(n) \subseteq File /\ Claims(n) \subseteq Task
  BY DEF Entries, Owners, FilesOf, Claims
<1> QED BY <1>1, <1>2, FS_Subset

LEMMA EntriesChange ==
    ASSUME TypeInv, NEW j \in Job, NEW d \in Fd, NEW b \in File \cup {NoFile}, Puts(j, d, b),
           NEW f \in File
    PROVE  Cardinality(Entries(f)') = Cardinality(Entries(f)) + One(b, f) - One(tables[j][d], f)
<1> DEFINE w == <<j, d>>
<1>1. tables \in [Job -> [Fd -> File \cup {NoFile}]]
  BY DEF TypeInv, DataInv, RecordTypes
<1>2. ASSUME NEW p \in Job \X Fd, p # w
      PROVE  tables'[p[1]][p[2]] = tables[p[1]][p[2]]
  <2>1. CASE p[1] = j
    <3>1. p[2] # d
      BY <1>2, <2>1
    <3> QED BY <1>1, <1>2, <2>1, <3>1 DEF Puts
  <2>2. CASE p[1] # j
    BY <1>1, <1>2, <2>2 DEF Puts
  <2> QED BY <2>1, <2>2
<1>3. Entries(f) \ {w} = Entries(f)' \ {w}
  BY <1>2 DEF Entries
<1>4. (w \in Entries(f) <=> tables[j][d] = f) /\ (w \in Entries(f)' <=> b = f)
  BY <1>1 DEF Entries, Puts
<1>5. IsFiniteSet(Entries(f))
  BY SetsFinite
<1> HIDE DEF w
<1>6. /\ Cardinality(Entries(f)) \in Nat
      /\ Cardinality(Entries(f)') = Cardinality(Entries(f))
            + (IF w \in Entries(f)' THEN 1 ELSE 0) - (IF w \in Entries(f) THEN 1 ELSE 0)
  BY <1>3, <1>5, CountChange
<1> QED BY <1>4, <1>6 DEF One

LEMMA OwnersChange ==
    ASSUME TypeInv, NEW t \in Task, Moves(t), NEW f \in File
    PROVE  Cardinality(Owners(f)') = Cardinality(Owners(f)) + One(Mine(t)', f) - One(Mine(t), f)
<1>1. \A u \in Task \ {t} : Mine(u)' = Mine(u)
  BY DEF Mine, Moves
<1>2. Owners(f) \ {t} = Owners(f)' \ {t}
  BY <1>1 DEF Owners
<1>3. (t \in Owners(f) <=> Mine(t) = f) /\ (t \in Owners(f)' <=> Mine(t)' = f)
  BY DEF Owners
<1>4. IsFiniteSet(Owners(f))
  BY SetsFinite
<1>5. /\ Cardinality(Owners(f)) \in Nat
      /\ Cardinality(Owners(f)') = Cardinality(Owners(f))
            + (IF t \in Owners(f)' THEN 1 ELSE 0) - (IF t \in Owners(f) THEN 1 ELSE 0)
  BY <1>2, <1>4, CountChange
<1> QED BY <1>3, <1>5 DEF One

LEMMA CountsAreNaturals ==
    ASSUME TypeInv
    PROVE  /\ \A f \in File : Cardinality(Entries(f)) \in Nat /\ Cardinality(Owners(f)) \in Nat
           /\ \A n \in Node : Cardinality(FilesOf(n)) \in Nat /\ Cardinality(Claims(n)) \in Nat
BY SetsFinite, FS_CardinalityType

LEMMA FileStep ==
    ASSUME TypeInv, FileCount, NEW t \in Task, Moves(t),
           NEW j \in Job, NEW d \in Fd, NEW b \in File \cup {NoFile}, Puts(j, d, b),
           \A f \in File : files'[f].refs = files[f].refs + One(b, f) - One(tables[j][d], f)
                                              + One(Mine(t)', f) - One(Mine(t), f)
    PROVE  FileCount'
<1>1. ASSUME NEW f \in File
      PROVE  files'[f].refs = Cardinality(Entries(f)') + Cardinality(Owners(f)')
  <2>1. Cardinality(Entries(f)') = Cardinality(Entries(f)) + One(b, f) - One(tables[j][d], f)
    BY EntriesChange
  <2>2. Cardinality(Owners(f)') = Cardinality(Owners(f)) + One(Mine(t)', f) - One(Mine(t), f)
    BY OwnersChange
  <2>3. files[f].refs = Cardinality(Entries(f)) + Cardinality(Owners(f))
    BY DEF FileCount
  <2>4. Cardinality(Entries(f)) \in Nat /\ Cardinality(Owners(f)) \in Nat
    BY CountsAreNaturals
  <2>5. /\ One(b, f) \in Int /\ One(tables[j][d], f) \in Int
        /\ One(Mine(t)', f) \in Int /\ One(Mine(t), f) \in Int
    BY DEF One
  <2>6. files'[f].refs = files[f].refs + One(b, f) - One(tables[j][d], f)
                                       + One(Mine(t)', f) - One(Mine(t), f)
    OBVIOUS
  <2> QED BY <2>1, <2>2, <2>3, <2>4, <2>5, <2>6
<1> QED BY <1>1 DEF FileCount

(* The same, when no table changes.                                        *)
LEMMA FileStepAlone ==
    ASSUME TypeInv, FileCount, NEW t \in Task, Moves(t), UNCHANGED tables,
           \A f \in File : files'[f].refs = files[f].refs + One(Mine(t)', f) - One(Mine(t), f)
    PROVE  FileCount'
<1>1. ASSUME NEW f \in File
      PROVE  files'[f].refs = Cardinality(Entries(f)') + Cardinality(Owners(f)')
  <2>1. Entries(f)' = Entries(f)
    BY DEF Entries
  <2>2. Cardinality(Owners(f)') = Cardinality(Owners(f)) + One(Mine(t)', f) - One(Mine(t), f)
    BY OwnersChange
  <2>3. files[f].refs = Cardinality(Entries(f)) + Cardinality(Owners(f))
    BY DEF FileCount
  <2>4. Cardinality(Entries(f)) \in Nat /\ Cardinality(Owners(f)) \in Nat
    BY CountsAreNaturals
  <2>5. One(Mine(t)', f) \in Int /\ One(Mine(t), f) \in Int
    BY DEF One
  <2>6. files'[f].refs = files[f].refs + One(Mine(t)', f) - One(Mine(t), f)
    OBVIOUS
  <2> QED BY <2>1, <2>2, <2>3, <2>4, <2>5, <2>6
<1> QED BY <1>1 DEF FileCount

(* The claim of another task is what it was: a file keeps its node.        *)
LEMMA OthersClaim ==
    ASSUME TypeInv, RecordInv, NEW t \in Task, Moves(t),
           \A f \in File : files[f].made => files'[f].node = files[f].node
    PROVE  \A u \in Task \ {t} : Claim(u)' = Claim(u)
<1>1. ASSUME NEW u \in Task \ {t}
      PROVE  Claim(u)' = Claim(u)
  <2>1. op'[u] = op[u] /\ pc'[u] = pc[u]
    BY DEF Moves
  <2>2. CASE pc[u] = "free"
    <3>1. op[u].file \in File
      BY <2>2, Here DEF CallAt, OwnCallAt, FdCallAt, OpeningAt, Unlisting
    <3> QED BY <2>1, <2>2, <3>1 DEF Claim, RecordInv
  <2>3. CASE pc[u] # "free"
    BY <2>1, <2>3 DEF Claim
  <2> QED BY <2>2, <2>3
<1> QED BY <1>1

LEMMA ClaimsChange ==
    ASSUME TypeInv, NEW t \in Task, \A u \in Task \ {t} : Claim(u)' = Claim(u), NEW n \in Node
    PROVE  Cardinality(Claims(n)') = Cardinality(Claims(n)) + One(Claim(t)', n) - One(Claim(t), n)
<1>1. Claims(n) \ {t} = Claims(n)' \ {t}
  BY DEF Claims
<1>2. (t \in Claims(n) <=> Claim(t) = n) /\ (t \in Claims(n)' <=> Claim(t)' = n)
  BY DEF Claims
<1>3. IsFiniteSet(Claims(n))
  BY SetsFinite
<1>4. /\ Cardinality(Claims(n)) \in Nat
      /\ Cardinality(Claims(n)') = Cardinality(Claims(n))
            + (IF t \in Claims(n)' THEN 1 ELSE 0) - (IF t \in Claims(n) THEN 1 ELSE 0)
  BY <1>1, <1>3, CountChange
<1> QED BY <1>2, <1>4 DEF One

LEMMA FilesOfChange ==
    ASSUME TypeInv, NEW g \in File, \A f \in File \ {g} : Held(f)' = Held(f), NEW n \in Node
    PROVE  Cardinality(FilesOf(n)') = Cardinality(FilesOf(n)) + One(Held(g)', n) - One(Held(g), n)
<1>1. FilesOf(n) \ {g} = FilesOf(n)' \ {g}
  BY DEF FilesOf
<1>2. (g \in FilesOf(n) <=> Held(g) = n) /\ (g \in FilesOf(n)' <=> Held(g)' = n)
  BY DEF FilesOf
<1>3. IsFiniteSet(FilesOf(n))
  BY SetsFinite
<1>4. /\ Cardinality(FilesOf(n)) \in Nat
      /\ Cardinality(FilesOf(n)') = Cardinality(FilesOf(n))
            + (IF g \in FilesOf(n)' THEN 1 ELSE 0) - (IF g \in FilesOf(n) THEN 1 ELSE 0)
  BY <1>1, <1>3, CountChange
<1> QED BY <1>2, <1>4 DEF One

LEMMA NodeStep ==
    ASSUME TypeInv, RecordInv, NodeCount, NEW t \in Task, Moves(t), NEW g \in File,
           \A f \in File : files[f].made => files'[f].node = files[f].node,
           \A f \in File \ {g} : Held(f)' = Held(f),
           \A n \in Node : nodes'[n].refs = nodes[n].refs + One(Held(g)', n) - One(Held(g), n)
                                              + One(Claim(t)', n) - One(Claim(t), n)
    PROVE  NodeCount'
<1>1. ASSUME NEW n \in Node
      PROVE  nodes'[n].refs = Cardinality(FilesOf(n)') + Cardinality(Claims(n)')
  <2>1. Cardinality(FilesOf(n)') = Cardinality(FilesOf(n)) + One(Held(g)', n) - One(Held(g), n)
    BY FilesOfChange
  <2>2. Cardinality(Claims(n)') = Cardinality(Claims(n)) + One(Claim(t)', n) - One(Claim(t), n)
    BY OthersClaim, ClaimsChange
  <2>3. nodes[n].refs = Cardinality(FilesOf(n)) + Cardinality(Claims(n))
    BY DEF NodeCount
  <2>4. Cardinality(FilesOf(n)) \in Nat /\ Cardinality(Claims(n)) \in Nat
    BY CountsAreNaturals
  <2>5. /\ One(Held(g)', n) \in Int /\ One(Held(g), n) \in Int
        /\ One(Claim(t)', n) \in Int /\ One(Claim(t), n) \in Int
    BY DEF One
  <2>6. nodes'[n].refs = nodes[n].refs + One(Held(g)', n) - One(Held(g), n)
                                       + One(Claim(t)', n) - One(Claim(t), n)
    OBVIOUS
  <2> QED BY <2>1, <2>2, <2>3, <2>4, <2>5, <2>6
<1> QED BY <1>1 DEF NodeCount

LEMMA NodeStepAlone ==
    ASSUME TypeInv, RecordInv, NodeCount, NEW t \in Task, Moves(t),
           \A f \in File : files[f].made => files'[f].node = files[f].node,
           \A f \in File : Held(f)' = Held(f),
           \A n \in Node : nodes'[n].refs = nodes[n].refs + One(Claim(t)', n) - One(Claim(t), n)
    PROVE  NodeCount'
<1>1. ASSUME NEW n \in Node
      PROVE  nodes'[n].refs = Cardinality(FilesOf(n)') + Cardinality(Claims(n)')
  <2>1. FilesOf(n)' = FilesOf(n)
    BY DEF FilesOf
  <2>2. Cardinality(Claims(n)') = Cardinality(Claims(n)) + One(Claim(t)', n) - One(Claim(t), n)
    BY OthersClaim, ClaimsChange
  <2>3. nodes[n].refs = Cardinality(FilesOf(n)) + Cardinality(Claims(n))
    BY DEF NodeCount
  <2>4. Cardinality(FilesOf(n)) \in Nat /\ Cardinality(Claims(n)) \in Nat
    BY CountsAreNaturals
  <2>5. One(Claim(t)', n) \in Int /\ One(Claim(t), n) \in Int
    BY DEF One
  <2>6. nodes'[n].refs = nodes[n].refs + One(Claim(t)', n) - One(Claim(t), n)
    OBVIOUS
  <2> QED BY <2>1, <2>2, <2>3, <2>4, <2>5, <2>6
<1> QED BY <1>1 DEF NodeCount

-----------------------------------------------------------------------------
(* The steps that change nothing of this keep the invariant.               *)

LEMMA SameHeld ==
    ASSUME SameFiles
    PROVE  \A f \in File : Held(f)' = Held(f)
BY DEF SameFiles, Held

LEMMA HoldsSame ==
    ASSUME NEW t \in Task, Holds(t)
    PROVE  Mine(t)' = Mine(t) /\ Claim(t)' = Claim(t)
BY DEF Holds, Mine, Claim, Unlisting

LEMMA RecordStep ==
    ASSUME TypeInv, RecordInv, NEW t \in Task, Moves(t),
           \A f \in File : /\ files'[f].made = files[f].made /\ files'[f].node = files[f].node
                           /\ ~files[f].made => files'[f].refs = files[f].refs,
           \A n \in Node : /\ nodes'[n].made = nodes[n].made
                           /\ nodes'[n].listed => nodes[n].listed
                           /\ ~nodes[n].made => nodes'[n].refs = nodes[n].refs
                           /\ nodes'[n].entry = nodes[n].entry \/ ~registered',
           registered' => registered,
           op'[t].kind = "unregister" => op[t].kind = "unregister" \/ ~registered',
           pc'[t] = "free" => files'[op'[t].file].made,
           pc'[t] \in Unlisting => nodes'[op'[t].node].made
    PROVE  RecordInv'
<1>1. \A u \in Task \ {t} : pc'[u] = pc[u] /\ op'[u] = op[u]
  BY DEF Moves
<1>2. ASSUME NEW u \in Task, pc'[u] = "free" PROVE files'[op'[u].file].made
  <2>1. CASE u # t
    <3>1. op[u].file \in File /\ pc[u] = "free"
      BY <1>1, <1>2, <2>1, Here DEF CallAt, OwnCallAt, FdCallAt, OpeningAt, Unlisting
    <3> QED BY <1>1, <2>1, <3>1 DEF RecordInv
  <2> QED BY <1>2, <2>1
<1>3. ASSUME NEW u \in Task, pc'[u] \in Unlisting PROVE nodes'[op'[u].node].made
  <2>1. CASE u # t
    <3>1. op[u].node \in Node /\ pc[u] \in Unlisting
      BY <1>1, <1>3, <2>1, Here DEF CallAt, OwnCallAt, FdCallAt, OpeningAt, Unlisting
    <3> QED BY <1>1, <2>1, <3>1 DEF RecordInv
  <2> QED BY <1>3, <2>1
<1>4. \A f \in File : IF files'[f].made THEN files'[f].node \in Node
                      ELSE files'[f].refs = 0 /\ files'[f].node = NoNode
  BY DEF RecordInv
<1>5. \A n \in Node : /\ ~nodes'[n].made => nodes'[n].refs = 0 /\ ~nodes'[n].listed
                      /\ nodes'[n].made /\ ~nodes'[n].entry => ~registered'
  BY DEF RecordInv
<1>6. \A u \in Task : op'[u].kind = "unregister" => ~registered'
  BY <1>1 DEF RecordInv
<1> QED BY <1>2, <1>3, <1>4, <1>5, <1>6 DEF RecordInv

LEMMA FreedSame ==
    ASSUME FreedInv, SameFiles
    PROVE  FreedInv'
BY DEF FreedInv, SameFiles

LEMMA FileCountSame ==
    ASSUME TypeInv, FileCount, NEW t \in Task, Moves(t), SameFiles, UNCHANGED tables,
           Mine(t)' = Mine(t)
    PROVE  FileCount'
<1>1. ASSUME NEW f \in File
      PROVE  files'[f].refs = files[f].refs + One(Mine(t)', f) - One(Mine(t), f)
  <2>1. files[f].refs \in Int
    BY DEF TypeInv, DataInv, RecordTypes, FileRecord
  <2>2. One(Mine(t), f) \in Int
    BY DEF One
  <2> QED BY <2>1, <2>2 DEF SameFiles
<1> QED BY <1>1, FileStepAlone

LEMMA NodeCountSame ==
    ASSUME TypeInv, RecordInv, NodeCount, NEW t \in Task, Moves(t), SameFiles,
           \A n \in Node : nodes'[n].refs = nodes[n].refs, Claim(t)' = Claim(t)
    PROVE  NodeCount'
<1>1. ASSUME NEW n \in Node
      PROVE  nodes'[n].refs = nodes[n].refs + One(Claim(t)', n) - One(Claim(t), n)
  <2>1. nodes[n].refs \in Int
    BY DEF TypeInv, DataInv, RecordTypes, NodeRecord
  <2>2. One(Claim(t), n) \in Int
    BY DEF One
  <2> QED BY <2>1, <2>2
<1>2. \A f \in File : files[f].made => files'[f].node = files[f].node
  BY DEF SameFiles
<1> QED BY <1>1, <1>2, SameHeld, NodeStepAlone

(* No open begins, none loses its node.                                    *)
LEMMA OpeningStep ==
    ASSUME TypeInv, OpeningInv, NEW t \in Task, Moves(t),
           Opening(t)' => Opening(t) /\ op'[t].node = op[t].node,
           \A u \in Task : Opening(u) => nodes'[op[u].node].listed,
           \A u \in Task : Opening(u)' /\ pc'[u] # "attach" =>
                stream'.node \in {NoNode, op'[u].node},
           pc'[t] \in Unlisting => \A u \in Task \ {t} : Opening(u) => op'[t].node # op[u].node
    PROVE  OpeningInv'
<1>1. \A u \in Task \ {t} : pc'[u] = pc[u] /\ op'[u] = op[u]
  BY DEF Moves
<1>2. \A u \in Task : Opening(u)' => Opening(u) /\ op'[u].node = op[u].node
  BY <1>1 DEF Opening
<1>3. ASSUME NEW u \in Task, Opening(u)'
      PROVE  /\ nodes'[op'[u].node].listed
             /\ pc'[u] # "attach" => stream'.node \in {NoNode, op'[u].node}
             /\ \A w \in Task \ {u} : ~Opening(w)'
             /\ \A w \in Task : pc'[w] \in Unlisting => op'[w].node # op'[u].node
  <2>1. Opening(u) /\ op'[u].node = op[u].node
    BY <1>2, <1>3
  <2>2. nodes'[op'[u].node].listed
    BY <2>1
  <2>3. pc'[u] # "attach" => stream'.node \in {NoNode, op'[u].node}
    BY <1>3
  <2>4. \A w \in Task \ {u} : ~Opening(w)'
    BY <1>2, <2>1 DEF OpeningInv
  <2>5. ASSUME NEW w \in Task, pc'[w] \in Unlisting
        PROVE  op'[w].node # op'[u].node
    <3>1. CASE w = t
      <4>1. u # t
        BY <1>3, <2>5, <3>1 DEF Opening, OpenAt, OpeningAt, Unlisting
      <4> QED BY <2>1, <2>5, <3>1, <4>1
    <3>2. CASE w # t
      BY <1>1, <2>1, <2>5, <3>2 DEF OpeningInv
    <3> QED BY <3>1, <3>2
  <2> QED BY <2>2, <2>3, <2>4, <2>5
<1> QED BY <1>3 DEF OpeningInv

(* While one opens a node, the stream has this node or none.               *)
LEMMA StreamStep ==
    ASSUME OpeningInv, NEW t \in Task, Moves(t),
           OpenAt(op'[t], pc'[t]) =>
                Opening(t) /\ op'[t].node = op[t].node /\ pc'[t] # "attach",
           pc[t] = "attach" => stream'.node = op[t].node,
           \/ stream'.node \in {stream.node, NoNode}
           \/ Opening(t) /\ stream'.node = op[t].node
    PROVE  /\ Opening(t)' => Opening(t) /\ op'[t].node = op[t].node
           /\ \A u \in Task : Opening(u)' /\ pc'[u] # "attach" =>
                stream'.node \in {NoNode, op'[u].node}
<1>1. Opening(t)' => Opening(t) /\ op'[t].node = op[t].node /\ pc'[t] # "attach"
  BY DEF Opening
<1>2. ASSUME NEW u \in Task, Opening(u)', pc'[u] # "attach"
      PROVE  stream'.node \in {NoNode, op'[u].node}
  <2>1. CASE u = t
    BY <1>1, <1>2, <2>1 DEF OpeningInv
  <2>2. CASE u # t
    <3>1. Opening(u) /\ op'[u] = op[u] /\ pc'[u] = pc[u]
      BY <1>2, <2>2 DEF Opening, Moves
    <3> QED BY <1>2, <2>2, <3>1 DEF OpeningInv
  <2> QED BY <2>1, <2>2
<1> QED BY <1>1, <1>2

LEMMA QuietKeeps ==
    ASSUME RefInv, NEW t \in Task, Quiet(t), pc[t] = "attach" => stream'.node = op[t].node
    PROVE  TypeInv' /\ RecordInv' /\ OpeningInv' /\ FileCount' /\ NodeCount' /\ FreedInv'
<1>1. TypeInv'
  BY MovesKeep DEF RefInv, Quiet
<1>2. RecordInv'
  BY RecordStep DEF RefInv, Quiet, Holds, SameFiles, SameNodes, Unlisting
<1>3. FileCount' /\ FreedInv'
  BY FileCountSame, FreedSame, HoldsSame DEF RefInv, Quiet
<1>4. NodeCount'
  BY NodeCountSame, HoldsSame DEF RefInv, Quiet, SameNodes
<1>5. OpeningInv'
  <2>1. ASSUME NEW u \in Task, Opening(u) PROVE nodes'[op[u].node].listed
    <3>1. op[u].node \in Node
      BY <2>1, Here DEF RefInv, Opening, OpenAt, OpeningAt, CallAt, OwnCallAt, FdCallAt,
            FreeingAt, Unlisting, SweepKinds
    <3> QED BY <2>1, <3>1 DEF RefInv, OpeningInv, Quiet, SameNodes
  <2>2. /\ Opening(t)' => Opening(t) /\ op'[t].node = op[t].node
        /\ \A u \in Task : Opening(u)' /\ pc'[u] # "attach" =>
                stream'.node \in {NoNode, op'[u].node}
    BY StreamStep DEF RefInv, Quiet, Holds, Opening, Unlisting
  <2> QED BY <2>1, <2>2, OpeningStep DEF RefInv, Quiet, Holds, Unlisting
<1> QED BY <1>1, <1>2, <1>3, <1>4, <1>5

LEMMA QuietStepKeeps ==
    ASSUME RefInv, NEW t \in Task, QuietStep(t)
    PROVE  RefInv'
<1>1. Quiet(t)
  BY QuietSteps DEF RefInv
<1>2. pc[t] = "attach" => stream'.node = op[t].node
  BY AttachMoves DEF RefInv, QuietStep, OpenFails, BlockTaken, BlockTimeout, MarkClosed, Query,
     TryRead, TryWrite, PollMask, DeviceGone, Wait, SetOffset, LookAgain, Leave, Store, Notify, Foreach,
     NotifyClosed, EndJob, CloseAll, SweepEnds, Unregister, Detach
<1> QED BY <1>1, <1>2, QuietKeeps DEF RefInv

LEMMA LookupKeeps ==
    ASSUME RefInv, NEW t \in Task,
           Read(t) \/ Write(t) \/ Poll(t) \/ Close(t) \/ Dup(t) \/ Dup2(t)
    PROVE  RefInv'
<1>1. Quiet(t)
  BY LookupMoves, LookupHolds DEF RefInv, Quiet, SameFiles, SameNodes, fileVars, devVars
<1>2. pc[t] # "attach"
  BY LookupMoves DEF RefInv, Lookup
<1> QED BY <1>1, <1>2, QuietKeeps DEF RefInv

-----------------------------------------------------------------------------
(* What is held is alive.                                                  *)

LEMMA HeldAlive ==
    ASSUME RefInv, NEW f \in File,
           (\E t \in Task : Mine(t) = f) \/ \E j \in Job, d \in Fd : tables[j][d] = f
    PROVE  /\ files[f].refs \in Nat \ {0} /\ files[f].made /\ files[f].node \in Node
           /\ files[f].destroyed = FALSE
<1>1. /\ IsFiniteSet(Entries(f)) /\ IsFiniteSet(Owners(f))
      /\ Cardinality(Entries(f)) \in Nat /\ Cardinality(Owners(f)) \in Nat
  BY SetsFinite, CountsAreNaturals DEF RefInv
<1>2. files[f].refs = Cardinality(Entries(f)) + Cardinality(Owners(f))
  BY DEF RefInv, FileCount
<1>3. files[f].refs \in Nat \ {0}
  <2>1. CASE \E t \in Task : Mine(t) = f
    <3>1. PICK t \in Task : Mine(t) = f
      BY <2>1
    <3>2. t \in Owners(f) \ {} /\ {} \subseteq Owners(f)
      BY <3>1 DEF Owners
    <3>3. Cardinality({}) + 1 <= Cardinality(Owners(f))
      BY <1>1, <3>2, CountGains
    <3> QED BY <1>1, <1>2, <3>3, FS_EmptySet
  <2>2. CASE \E j \in Job, d \in Fd : tables[j][d] = f
    <3>1. PICK j \in Job, d \in Fd : tables[j][d] = f
      BY <2>2
    <3> DEFINE p == <<j, d>>
    <3>2. p \in Entries(f) \ {} /\ {} \subseteq Entries(f)
      BY <3>1 DEF Entries
    <3> HIDE DEF p
    <3>3. Cardinality({}) + 1 <= Cardinality(Entries(f))
      BY <1>1, <3>2, CountGains
    <3> QED BY <1>1, <1>2, <3>3, FS_EmptySet
  <2> QED BY <2>1, <2>2
<1>4. files[f].made /\ files[f].node \in Node
  BY <1>3 DEF RefInv, RecordInv
<1>5. files[f].destroyed \in BOOLEAN
  BY DEF RefInv, TypeInv, DataInv, RecordTypes, FileRecord
<1> QED BY <1>3, <1>4, <1>5 DEF RefInv, FreedInv

(* A file that is referred to, by whomever, was not freed.                 *)
LEMMA ReferredAlive ==
    ASSUME RefInv, NEW f \in File, files[f].refs # 0
    PROVE  files[f].refs \in Nat \ {0} /\ files[f].made /\ files[f].destroyed = FALSE
<1>1. files[f].refs \in Nat /\ files[f].destroyed \in BOOLEAN
  BY DEF RefInv, TypeInv, DataInv, RecordTypes, FileRecord
<1>2. files[f].made
  BY DEF RefInv, RecordInv
<1> QED BY <1>1, <1>2 DEF RefInv, FreedInv

LEMMA ClaimAlive ==
    ASSUME RefInv, NEW t \in Task, Claim(t) \in Node
    PROVE  nodes[Claim(t)].refs \in Nat \ {0} /\ nodes[Claim(t)].made
<1> DEFINE n == Claim(t)
<1>1. /\ IsFiniteSet(Claims(n))
      /\ Cardinality(FilesOf(n)) \in Nat /\ Cardinality(Claims(n)) \in Nat
  BY SetsFinite, CountsAreNaturals DEF RefInv
<1>2. nodes[n].refs = Cardinality(FilesOf(n)) + Cardinality(Claims(n))
  BY DEF RefInv, NodeCount
<1>3. t \in Claims(n) \ {} /\ {} \subseteq Claims(n)
  BY DEF Claims
<1>4. Cardinality({}) + 1 <= Cardinality(Claims(n))
  BY <1>1, <1>3, CountGains
<1>5. nodes[n].refs \in Nat \ {0}
  BY <1>1, <1>2, <1>4, FS_EmptySet
<1> QED BY <1>5 DEF RefInv, RecordInv

(* A node that a file or another task holds besides t is not let go of.    *)
LEMMA ClaimNotLast ==
    ASSUME RefInv, NEW n \in Node, NEW t \in Task, Claim(t) = n,
           (\E f \in File : Held(f) = n) \/ \E u \in Task \ {t} : Claim(u) = n
    PROVE  nodes[n].refs > 1
<1>1. /\ IsFiniteSet(Claims(n)) /\ IsFiniteSet(FilesOf(n))
      /\ Cardinality(FilesOf(n)) \in Nat /\ Cardinality(Claims(n)) \in Nat
  BY SetsFinite, CountsAreNaturals DEF RefInv
<1>2. nodes[n].refs = Cardinality(FilesOf(n)) + Cardinality(Claims(n))
  BY DEF RefInv, NodeCount
<1>3. Cardinality({}) = 0 /\ Cardinality({t}) = 1
  BY FS_EmptySet, FS_Singleton
<1>4. CASE \E f \in File : Held(f) = n
  <2>1. PICK f \in File : Held(f) = n
    BY <1>4
  <2>2. Cardinality({}) + 1 <= Cardinality(FilesOf(n))
    <3>1. f \in FilesOf(n) \ {} /\ {} \subseteq FilesOf(n)
      BY <2>1 DEF FilesOf
    <3> QED BY <1>1, <3>1, CountGains
  <2>3. Cardinality({}) + 1 <= Cardinality(Claims(n))
    <3>1. t \in Claims(n) \ {} /\ {} \subseteq Claims(n)
      BY DEF Claims
    <3> QED BY <1>1, <3>1, CountGains
  <2> QED BY <1>1, <1>2, <1>3, <2>2, <2>3
<1>5. CASE \E u \in Task \ {t} : Claim(u) = n
  <2>1. PICK u \in Task \ {t} : Claim(u) = n
    BY <1>5
  <2>2. Cardinality({t}) + 1 <= Cardinality(Claims(n))
    <3>1. u \in Claims(n) \ {t} /\ {t} \subseteq Claims(n)
      BY <2>1 DEF Claims
    <3> QED BY <1>1, <3>1, CountGains
  <2> QED BY <1>1, <1>2, <1>3, <2>2
<1> QED BY <1>4, <1>5

LEMMA OpeningClaim ==
    ASSUME RefInv, NEW t \in Task, Opening(t)
    PROVE  Claim(t) = op[t].node /\ op[t].node \in Node /\ nodes[op[t].node].listed
<1>1. op[t].node \in Node
  BY Here DEF RefInv, Opening, OpenAt, OpeningAt, CallAt, OwnCallAt, FdCallAt, FreeingAt, Unlisting,
        SweepKinds
<1>2. Claim(t) = op[t].node
  BY DEF Claim, ClaimOf, Opening, OpenAt, OpeningAt
<1> QED BY <1>1, <1>2 DEF RefInv, OpeningInv

(* What steps other than OpenNew leave of OpeningInv to be shown.          *)
LEMMA OpeningKeeps ==
    ASSUME RefInv, NEW t \in Task, Moves(t), ~Opening(t)', stream'.node \in {stream.node, NoNode},
           \A n \in Node : nodes[n].listed => nodes'[n].listed
                                \/ \A u \in Task : Opening(u) => op[u].node # n,
           pc'[t] \in Unlisting => \A u \in Task \ {t} : Opening(u) => op'[t].node # op[u].node
    PROVE  OpeningInv'
<1>1. ASSUME NEW u \in Task, Opening(u) PROVE nodes'[op[u].node].listed
  BY <1>1, OpeningClaim
<1>2. ASSUME NEW u \in Task, Opening(u)', pc'[u] # "attach"
      PROVE  stream'.node \in {NoNode, op'[u].node}
  <2>1. u # t
    BY <1>2
  <2>2. Opening(u) /\ op'[u] = op[u] /\ pc'[u] = pc[u]
    BY <1>2, <2>1 DEF Opening, Moves
  <2> QED BY <1>2, <2>2 DEF RefInv, OpeningInv
<1> QED BY <1>1, <1>2, OpeningStep DEF RefInv

-----------------------------------------------------------------------------
(* Opening.                                                                *)

LEMMA NodeFieldsOf ==
    ASSUME RecordTypes, NEW n \in Node
    PROVE  nodes[n] \in NodeRecord /\ nodes[n].refs \in Int /\ DOMAIN nodes = Node
BY DEF RecordTypes, NodeRecord

(* A step that changes the count of one node.                              *)
Counts(n, i) == nodes' = [nodes EXCEPT ![n].refs = i]

LEMMA NodeCounted ==
    ASSUME RecordTypes, NEW n \in Node, NEW i \in Int, Counts(n, i)
    PROVE  \A m \in Node : /\ nodes'[m].made = nodes[m].made
                           /\ nodes'[m].listed = nodes[m].listed
                           /\ nodes'[m].entry = nodes[m].entry
                           /\ nodes'[m].refs = IF m = n THEN i ELSE nodes[m].refs
<1> DEFINE r == [nodes[n] EXCEPT !.refs = i]
<1>1. nodes' = [nodes EXCEPT ![n] = r]
  BY DEF Counts
<1>2. /\ r.made = nodes[n].made /\ r.listed = nodes[n].listed /\ r.entry = nodes[n].entry
      /\ r.refs = i
  <2> DEFINE c == nodes[n]
  <2>1. c \in NodeRecord
    BY NodeFieldsOf
  <2> HIDE DEF c
  <2>2. /\ [c EXCEPT !.refs = i].refs = i /\ [c EXCEPT !.refs = i].made = c.made
        /\ [c EXCEPT !.refs = i].listed = c.listed /\ [c EXCEPT !.refs = i].entry = c.entry
    BY <2>1 DEF NodeRecord
  <2> QED BY <2>2 DEF c
<1> HIDE DEF r
<1>3. nodes'[n] = r /\ \A m \in Node \ {n} : nodes'[m] = nodes[m]
  BY <1>1, NodeFieldsOf
<1> QED BY <1>2, <1>3

LEMMA OpenKnownKeeps ==
    ASSUME RefInv, NEW t \in Task, OpenKnown(t)
    PROVE  RefInv'
<1>1. PICK n \in Node : /\ nodes[n].listed /\ nodes[n].entry /\ op'[t].node = n
                        /\ nodes' = [nodes EXCEPT ![n].refs = @ + 1]
  BY OpenKnownMoves DEF RefInv
<1>2. Moves(t) /\ pc'[t] = "open" /\ op'[t].kind = "open"
  BY OpenKnownMoves DEF RefInv
<1>3. op[t].kind = "none" /\ pc[t] = "idle"
  BY Here DEF RefInv, OpenKnown, CallAt, OwnCallAt, FdCallAt, OpeningAt, FreeingAt, Unlisting, SweepKinds
<1>4. /\ SameFiles /\ UNCHANGED <<tables, registered, stream>>
  BY DEF OpenKnown, devVars, SameFiles
<1>5. \A m \in Node : /\ nodes'[m].made = nodes[m].made /\ nodes'[m].listed = nodes[m].listed
                      /\ nodes'[m].entry = nodes[m].entry
                      /\ nodes'[m].refs = IF m = n THEN nodes[m].refs + 1 ELSE nodes[m].refs
  <2>1. RecordTypes /\ nodes[n].refs + 1 \in Int
    BY NodeFieldsOf, Here DEF RefInv
  <2>2. Counts(n, nodes[n].refs + 1)
    BY <1>1 DEF Counts
  <2> QED BY <2>1, <2>2, NodeCounted
<1>6. nodes[n].made
  BY <1>1 DEF RefInv, RecordInv
<1>7. Mine(t)' = NoFile /\ Mine(t) = NoFile /\ Claim(t)' = n /\ Claim(t) = NoNode /\ ~Opening(t)'
  BY <1>1, <1>2, <1>3 DEF Mine, MineOf, Claim, ClaimOf, Opening, OpenAt, OpeningAt, SweepKinds
<1>8. RecordInv'
  BY <1>2, <1>4, <1>5, <1>6, RecordStep DEF RefInv, SameFiles, Unlisting
<1>9. NodeCount'
  <2>1. ASSUME NEW m \in Node
        PROVE  nodes'[m].refs = nodes[m].refs + One(Claim(t)', m) - One(Claim(t), m)
    <3>1. nodes[m].refs \in Int /\ NoNode \notin Node
      BY NodeFieldsOf, Here DEF RefInv, TypeInv, DataInv, Configured
    <3> QED BY <1>5, <1>7, <3>1 DEF One
  <2> QED BY <1>2, <1>4, <2>1, SameHeld, NodeStepAlone DEF RefInv, SameFiles
<1>10. FileCount' /\ FreedInv'
  BY <1>2, <1>4, <1>7, FileCountSame, FreedSame DEF RefInv
<1>11. OpeningInv'
  BY <1>2, <1>4, <1>5, <1>7, OpeningKeeps DEF Unlisting
<1> QED BY <1>2, <1>8, <1>9, <1>10, <1>11, MovesKeep DEF RefInv

LEMMA OpenNewKeeps ==
    ASSUME RefInv, NEW t \in Task, OpenNew(t)
    PROVE  RefInv'
<1> DEFINE r == [made |-> TRUE, refs |-> 1, listed |-> TRUE, entry |-> TRUE, mask |-> {}]
<1>1. PICK n \in Node : /\ ~nodes[n].made /\ op'[t].node = n
                        /\ nodes' = [nodes EXCEPT ![n] = r]
  BY OpenNewMoves DEF RefInv
<1>2. Moves(t) /\ pc'[t] = "attach" /\ op'[t].kind = "open"
  BY OpenNewMoves DEF RefInv
<1>3. op[t].kind = "none" /\ pc[t] = "idle"
  BY Here DEF RefInv, OpenNew, CallAt, OwnCallAt, FdCallAt, OpeningAt, FreeingAt, Unlisting, SweepKinds
<1>4. /\ SameFiles /\ UNCHANGED <<tables, registered, stream>> /\ registered
      /\ \A m \in Node : ~(nodes[m].listed /\ nodes[m].entry)
  BY DEF OpenNew, devVars, SameFiles
<1>5. nodes'[n] = r /\ \A m \in Node \ {n} : nodes'[m] = nodes[m]
  BY <1>1, NodeFieldsOf, Here DEF RefInv
<1>6. Mine(t)' = NoFile /\ Mine(t) = NoFile /\ Claim(t)' = n /\ Claim(t) = NoNode /\ ~Opening(t)
  BY <1>1, <1>2, <1>3 DEF Mine, MineOf, Claim, ClaimOf, Opening, OpenAt, OpeningAt, SweepKinds
<1>7. nodes[n].refs = 0
  BY <1>1 DEF RefInv, RecordInv
<1>8. \A u \in Task \ {t} : op'[u] = op[u] /\ pc'[u] = pc[u]
  BY <1>2 DEF Moves
<1>9. RecordInv'
  <2>1. \A f \in File : IF files'[f].made THEN files'[f].node \in Node
                        ELSE files'[f].refs = 0 /\ files'[f].node = NoNode
    BY <1>4 DEF RefInv, RecordInv, SameFiles
  <2>2. \A m \in Node : /\ ~nodes'[m].made => nodes'[m].refs = 0 /\ ~nodes'[m].listed
                        /\ nodes'[m].made /\ ~nodes'[m].entry => ~registered'
    BY <1>4, <1>5 DEF RefInv, RecordInv
  <2>3. \A u \in Task : op'[u].kind = "unregister" => ~registered'
    BY <1>2, <1>4, <1>8 DEF RefInv, RecordInv
  <2>4. ASSUME NEW u \in Task, pc'[u] = "free" PROVE files'[op'[u].file].made
    <3>1. u # t
      BY <1>2, <2>4
    <3>2. op[u].file \in File /\ pc[u] = "free"
      BY <1>8, <2>4, <3>1, Here DEF RefInv, CallAt, OwnCallAt, FdCallAt, OpeningAt, Unlisting
    <3> QED BY <1>4, <1>8, <3>1, <3>2 DEF RefInv, RecordInv, SameFiles
  <2>5. ASSUME NEW u \in Task, pc'[u] \in Unlisting PROVE nodes'[op'[u].node].made
    <3>1. u # t
      BY <1>2, <2>5 DEF Unlisting
    <3>2. op[u].node \in Node /\ pc[u] \in Unlisting
      BY <1>8, <2>5, <3>1, Here DEF RefInv, CallAt, OwnCallAt, FdCallAt, OpeningAt, Unlisting
    <3> QED BY <1>5, <1>8, <3>1, <3>2 DEF RefInv, RecordInv
  <2> QED BY <2>1, <2>2, <2>3, <2>4, <2>5 DEF RecordInv
<1>10. NodeCount'
  <2>1. ASSUME NEW m \in Node
        PROVE  nodes'[m].refs = nodes[m].refs + One(Claim(t)', m) - One(Claim(t), m)
    <3>1. nodes[m].refs \in Int /\ NoNode \notin Node
      BY NodeFieldsOf, Here DEF RefInv, TypeInv, DataInv, Configured
    <3> QED BY <1>5, <1>6, <1>7, <3>1 DEF One
  <2> QED BY <1>2, <1>4, <2>1, SameHeld, NodeStepAlone DEF RefInv, SameFiles
<1>11. FileCount' /\ FreedInv'
  BY <1>2, <1>4, <1>6, FileCountSame, FreedSame DEF RefInv
<1>12. OpeningInv'
  <2>1. ASSUME NEW u \in Task \ {t} PROVE ~Opening(u)'
    <3>1. SUFFICES ASSUME Opening(u) PROVE FALSE
      BY <1>8 DEF Opening
    <3>2. op[u].node \in Node /\ nodes[op[u].node].listed
      BY <3>1, OpeningClaim
    <3> QED BY <1>4, <3>2 DEF RefInv, RecordInv
  <2>2. ASSUME NEW u \in Task, pc'[u] \in Unlisting PROVE op'[u].node # op'[t].node
    <3>1. u # t
      BY <1>2, <2>2 DEF Unlisting
    <3> QED BY <1>1, <1>8, <2>2, <3>1 DEF RefInv, RecordInv
  <2>3. nodes'[op'[t].node].listed
    BY <1>1, <1>5
  <2>4. ASSUME NEW u \in Task, Opening(u)'
        PROVE  /\ nodes'[op'[u].node].listed
               /\ pc'[u] # "attach" => stream'.node \in {NoNode, op'[u].node}
               /\ \A w \in Task \ {u} : ~Opening(w)'
               /\ \A w \in Task : pc'[w] \in Unlisting => op'[w].node # op'[u].node
    <3>1. u = t
      BY <2>1, <2>4
    <3> QED BY <1>2, <2>1, <2>2, <2>3, <3>1
  <2> QED BY <2>4 DEF OpeningInv
<1> QED BY <1>2, <1>9, <1>10, <1>11, <1>12, MovesKeep DEF RefInv

LEMMA OpenFileKeeps ==
    ASSUME RefInv, NEW t \in Task, OpenFile(t)
    PROVE  RefInv'
<1> DEFINE n == op[t].node
           r == [made |-> TRUE, refs |-> 1, node |-> n, closed |-> FALSE, destroyed |-> FALSE]
<1>1. PICK f \in File : /\ ~files[f].made /\ op'[t].file = f
                        /\ files' = [files EXCEPT ![f] = r]
  BY OpenFileMoves DEF RefInv
<1>2. /\ Moves(t) /\ pc'[t] = "allocate" /\ op'[t].kind = "open" /\ pc[t] = "open"
      /\ op[t].kind = "open" /\ n \in Node
  BY OpenFileMoves DEF RefInv, OpenFile
<1>3. UNCHANGED <<nodes, tables, registered, stream>>
  BY DEF OpenFile, devVars
<1>4. files'[f] = r /\ \A g \in File \ {f} : files'[g] = files[g]
  BY <1>1, Here DEF RefInv, RecordTypes
<1> HIDE DEF n
<1>5. /\ Mine(t)' = f /\ Mine(t) = NoFile /\ Claim(t)' = NoNode /\ Claim(t) = n
      /\ ~Opening(t)' /\ ~Opening(t)
  BY <1>1, <1>2 DEF n, Mine, MineOf, Claim, ClaimOf, Opening, OpenAt, OpeningAt, SweepKinds
<1>6. files[f].refs = 0 /\ files[f].node = NoNode /\ NoFile \notin File /\ NoNode \notin Node
  BY <1>1 DEF RefInv, RecordInv, TypeInv, DataInv, Configured
<1>7. \A u \in Task \ {t} : op'[u] = op[u] /\ pc'[u] = pc[u]
  BY <1>2 DEF Moves
<1>8. RecordInv'
  <2>1. \A g \in File : IF files'[g].made THEN files'[g].node \in Node
                        ELSE files'[g].refs = 0 /\ files'[g].node = NoNode
    BY <1>2, <1>4 DEF RefInv, RecordInv
  <2>2. ASSUME NEW u \in Task, pc'[u] = "free" PROVE files'[op'[u].file].made
    <3>1. u # t
      BY <1>2, <2>2
    <3>2. op[u].file \in File /\ pc[u] = "free"
      BY <1>7, <2>2, <3>1, Here DEF RefInv, CallAt, OwnCallAt, FdCallAt, OpeningAt, Unlisting
    <3> QED BY <1>4, <1>7, <3>1, <3>2 DEF RefInv, RecordInv
  <2>3. \A u \in Task : /\ op'[u].kind = "unregister" => ~registered'
                        /\ pc'[u] \in Unlisting => nodes'[op'[u].node].made
    BY <1>2, <1>3, <1>7 DEF RefInv, RecordInv, Unlisting
  <2> QED BY <1>3, <2>1, <2>2, <2>3 DEF RefInv, RecordInv
<1>9. FileCount'
  <2>1. ASSUME NEW g \in File
        PROVE  files'[g].refs = files[g].refs + One(Mine(t)', g) - One(Mine(t), g)
    <3>1. files[g].refs \in Int
      BY Here DEF RefInv, RecordTypes, FileRecord
    <3> QED BY <1>4, <1>5, <1>6, <3>1 DEF One
  <2> QED BY <1>2, <1>3, <2>1, FileStepAlone DEF RefInv
<1>10. NodeCount'
  <2>1. Held(f)' = n /\ Held(f) = NoNode /\ \A g \in File \ {f} : Held(g)' = Held(g)
    BY <1>4, <1>6 DEF Held
  <2>2. ASSUME NEW m \in Node
        PROVE  nodes'[m].refs = nodes[m].refs + One(Held(f)', m) - One(Held(f), m)
                                              + One(Claim(t)', m) - One(Claim(t), m)
    <3>1. nodes[m].refs \in Int
      BY NodeFieldsOf, Here DEF RefInv
    <3>2. One(n, m) \in Int /\ One(NoNode, m) \in Int
      BY DEF One
    <3> QED BY <1>3, <1>5, <2>1, <3>1, <3>2
  <2>3. \A g \in File : files[g].made => files'[g].node = files[g].node
    BY <1>1, <1>4
  <2> QED BY <1>2, <2>1, <2>2, <2>3, NodeStep DEF RefInv
<1>11. FreedInv'
  BY <1>4 DEF RefInv, FreedInv
<1>12. OpeningInv'
  BY <1>2, <1>3, <1>5, OpeningKeeps DEF Unlisting
<1> QED BY <1>2, <1>8, <1>9, <1>10, <1>11, <1>12, MovesKeep DEF RefInv

-----------------------------------------------------------------------------
(* Giving a descriptor, and letting go.                                    *)

LEMMA AllocateKeeps ==
    ASSUME RefInv, NEW t \in Task, Allocate(t), ~Strays(t)
    PROVE  RefInv'
<1> DEFINE f == op[t].file
<1>1. /\ Moves(t) /\ f \in File /\ pc[t] = "allocate"
      /\ \/ op[t].kind = "open" /\ Stayed(t, "release")
         \/ op[t].kind = "dup" /\ OnFd(op[t]) /\ Returned(t)
  BY AllocateMoves DEF RefInv, Allocate
<1>2. UNCHANGED <<nodes, registered, stream>>
  BY DEF Allocate, devVars
<1>3. NoFile \notin File /\ JobOf[t] \in Job
  BY DEF RefInv, TypeInv, DataInv, Configured
<1>4. Mine(t)' = Mine(t) /\ Claim(t)' = Claim(t) /\ ~Opening(t)'
  BY <1>1 DEF Mine, MineOf, Claim, ClaimOf, Opening, OpenAt, OpeningAt, SweepKinds, Stayed,
     Returned, NoOp
<1>5. ASSUME NEW d \in Fd, Given(t, d)
      PROVE  files[f].refs \in Nat \ {0} /\ files[f].made /\ files[f].destroyed = FALSE
  BY <1>1, <1>5, ReferredAlive DEF Strays, Given
<1>6. OpeningInv'
  BY <1>1, <1>2, <1>4, OpeningKeeps DEF Stayed, Returned, Unlisting
<1>7. /\ pc'[t] # "free" /\ pc'[t] \notin Unlisting /\ op'[t].kind # "unregister"
  BY <1>1 DEF Stayed, Returned, NoOp, Unlisting
<1>8. CASE UNCHANGED <<files, tables>>
  <2>1. SameFiles
    BY <1>8 DEF SameFiles
  <2>2. RecordInv'
    BY <1>1, <1>2, <1>7, <2>1, RecordStep DEF RefInv, SameFiles
  <2>3. FileCount' /\ FreedInv' /\ NodeCount'
    BY <1>1, <1>2, <1>4, <1>8, <2>1, FileCountSame, FreedSame, NodeCountSame DEF RefInv
  <2> QED BY <1>1, <1>6, <2>2, <2>3, MovesKeep DEF RefInv
<1>9. ASSUME NEW d \in Fd, Given(t, d) PROVE RefInv'
  <2>0. files[f].refs \in Nat \ {0} /\ files[f].made /\ files[f].destroyed = FALSE
    BY <1>5, <1>9
  <2> HIDE DEF f
  <2>1. /\ \A g \in File \ {f} : files'[g] = files[g]
        /\ files'[f].made = files[f].made /\ files'[f].node = files[f].node
        /\ files'[f].refs = files[f].refs + 1 /\ files'[f].destroyed = files[f].destroyed
    <3>1. files' = [files EXCEPT ![f].refs = @ + 1]
      BY <1>9 DEF Given, f
    <3>2. files \in [File -> FileRecord]
      BY Here DEF RefInv, RecordTypes
    <3> QED BY <1>1, <3>1, <3>2, AcquiredFields
  <2>2. RecordInv'
    BY <1>1, <1>2, <1>7, <2>0, <2>1, RecordStep DEF RefInv
  <2>3. Puts(JobOf[t], d, f) /\ tables[JobOf[t]][d] = NoFile
    BY <1>9 DEF Given, Puts, f
  <2>4. ASSUME NEW g \in File
        PROVE  files'[g].refs = files[g].refs + One(f, g) - One(tables[JobOf[t]][d], g)
                                              + One(Mine(t)', g) - One(Mine(t), g)
    <3>1. files[g].refs \in Int
      BY Here DEF RefInv, RecordTypes, FileRecord
    <3>2. One(Mine(t), g) \in Int /\ One(Mine(t)', g) = One(Mine(t), g)
      BY <1>4 DEF One
    <3>3. One(tables[JobOf[t]][d], g) = 0
      BY <1>3, <2>3 DEF One
    <3>4. files'[g].refs = files[g].refs + One(f, g)
      BY <2>1, <3>1 DEF One
    <3>5. One(f, g) \in Int
      BY DEF One
    <3> QED BY <3>1, <3>2, <3>3, <3>4, <3>5
  <2>5. FileCount'
    BY <1>1, <1>3, <2>3, <2>4, FileStep DEF RefInv
  <2>6. FreedInv'
    BY <2>0, <2>1 DEF RefInv, FreedInv
  <2>7. NodeCount'
    <3>1. \A g \in File : Held(g)' = Held(g) /\ files'[g].node = files[g].node
      BY <2>1 DEF Held
    <3>2. ASSUME NEW m \in Node
          PROVE  nodes'[m].refs = nodes[m].refs + One(Claim(t)', m) - One(Claim(t), m)
      <4>1. nodes[m].refs \in Int /\ One(Claim(t), m) \in Int
        BY NodeFieldsOf, Here DEF RefInv, One
      <4> QED BY <1>2, <1>4, <4>1
    <3> QED BY <1>1, <3>1, <3>2, NodeStepAlone DEF RefInv
  <2> QED BY <1>1, <1>6, <2>2, <2>5, <2>6, <2>7, MovesKeep DEF RefInv
<1> QED BY <1>8, <1>9, AllocateMoves DEF RefInv

(* The release of a reference that is held.                                *)
LEMMA ReleasedHeld ==
    ASSUME RecordTypes, NEW f \in File, files' = Released(files, f),
           files[f].refs \in Nat \ {0}, files[f].destroyed = FALSE
    PROVE  /\ \A g \in File \ {f} : files'[g] = files[g]
           /\ files'[f].made = files[f].made /\ files'[f].node = files[f].node
           /\ files'[f].refs = files[f].refs - 1
           /\ files[f].refs = 1 => files'[f].destroyed = TRUE
           /\ files[f].refs # 1 => files'[f].destroyed = FALSE
<1>1. files \in [File -> FileRecord]
  BY DEF RecordTypes
<1>2. files'[f].destroyed = (files[f].destroyed \/ files[f].refs = 1)
  BY <1>1, ReleasedFields
<1>3. /\ files[f].refs = 1 => files'[f].destroyed = TRUE
      /\ files[f].refs # 1 => files'[f].destroyed = FALSE
  BY <1>2, Zenon
<1>4. files'[f].refs = files[f].refs - 1
  BY <1>1, ReleasedFields
<1> QED BY <1>1, <1>3, <1>4, ReleasedFields

LEMMA HeldIs ==
    ASSUME NEW g \in File
    PROVE  /\ files[g].destroyed = FALSE => Held(g) = files[g].node
           /\ files[g].destroyed = TRUE => Held(g) = NoNode
           /\ files'[g].destroyed = FALSE => Held(g)' = files'[g].node
           /\ files'[g].destroyed = TRUE => Held(g)' = NoNode
<1>1. /\ files[g].destroyed = FALSE => Held(g) = files[g].node
      /\ files[g].destroyed = TRUE => Held(g) = NoNode
  BY DEF Held
<1>2. /\ files'[g].destroyed = FALSE => Held(g)' = files'[g].node
      /\ files'[g].destroyed = TRUE => Held(g)' = NoNode
  BY DEF Held
<1> QED BY <1>1, <1>2

LEMMA ReleasedFreed ==
    ASSUME FreedInv, NEW f \in File, \A g \in File \ {f} : files'[g] = files[g],
           files[f].refs \in Nat \ {0}, files'[f].refs = files[f].refs - 1,
           files[f].refs = 1 => files'[f].destroyed = TRUE,
           files[f].refs # 1 => files'[f].destroyed = FALSE
    PROVE  FreedInv'
<1>1. ASSUME NEW g \in File, files'[g].made
      PROVE  files'[g].destroyed <=> files'[g].refs = 0
  <2>1. CASE g = f
    <3>1. files'[f].refs = 0 <=> files[f].refs = 1
      OBVIOUS
    <3> QED BY <2>1, <3>1, Zenon
  <2>2. CASE g # f
    BY <1>1, <2>2 DEF FreedInv
  <2> QED BY <2>1, <2>2
<1> QED BY <1>1 DEF FreedInv

LEMMA ReleaseKeeps ==
    ASSUME RefInv, NEW t \in Task, Release(t)
    PROVE  RefInv'
<1>0. PICK f \in File : op[t].file = f
  BY ReleaseMoves DEF RefInv
<1>1. /\ Moves(t) /\ f \in File /\ op[t].kind \in SweepKinds \cup {"open"} /\ pc[t] = "release"
      /\ IF files[f].refs = 1 THEN Stayed(t, "free")
         ELSE Returned(t) \/ (Stayed(t, "evict") /\ op[t].kind \in SweepKinds)
  BY <1>0, ReleaseMoves DEF RefInv, Release
<1>2. UNCHANGED <<nodes, tables, registered, stream>>
  BY DEF Release, devVars
<1>3. NoFile \notin File /\ NoNode \notin Node
  BY DEF RefInv, TypeInv, DataInv, Configured
<1>4. Mine(t)' = NoFile /\ Mine(t) = f /\ Claim(t) = NoNode /\ ~Opening(t)'
  BY <1>0, <1>1 DEF Mine, MineOf, Claim, ClaimOf, Opening, OpenAt, OpeningAt, SweepKinds,
     Stayed, Returned, NoOp
<1>5. /\ files[f].refs \in Nat \ {0} /\ files[f].made /\ files[f].destroyed = FALSE
      /\ files[f].node \in Node
  BY <1>1, <1>4, HeldAlive
<1>6. /\ \A g \in File \ {f} : files'[g] = files[g]
      /\ files'[f].made = files[f].made /\ files'[f].node = files[f].node
      /\ files'[f].refs = files[f].refs - 1
      /\ files[f].refs = 1 => files'[f].destroyed = TRUE
      /\ files[f].refs # 1 => files'[f].destroyed = FALSE
  BY <1>0, <1>1, <1>5, Here, ReleasedHeld DEF RefInv, Release
<1>7. Claim(t)' = IF files[f].refs = 1 THEN files[f].node ELSE NoNode
  BY <1>0, <1>1, <1>6 DEF Claim, ClaimOf, OpeningAt, SweepKinds, Stayed, Returned, NoOp
<1>8. /\ pc'[t] = "free" => op'[t].file = f
      /\ pc'[t] \notin Unlisting /\ op'[t].kind # "unregister" /\ op'[t].kind \notin FdKinds
  BY <1>0, <1>1 DEF Stayed, Returned, NoOp, SweepKinds, FdKinds, Unlisting
<1>9. RecordInv'
  BY <1>1, <1>2, <1>5, <1>6, <1>8, RecordStep DEF RefInv
<1>10. FileCount'
  <2>1. ASSUME NEW g \in File
        PROVE  files'[g].refs = files[g].refs + One(Mine(t)', g) - One(Mine(t), g)
    <3>1. files[g].refs \in Int
      BY Here DEF RefInv, RecordTypes, FileRecord
    <3> QED BY <1>3, <1>4, <1>6, <3>1 DEF One
  <2> QED BY <1>1, <1>2, <2>1, FileStepAlone DEF RefInv
<1>11. FreedInv'
  BY <1>1, <1>5, <1>6, ReleasedFreed DEF RefInv
<1>12. NodeCount'
  <2>1. /\ \A g \in File \ {f} : Held(g)' = Held(g)
        /\ \A g \in File : files'[g].node = files[g].node
    BY <1>6 DEF Held
  <2>2. /\ Held(f) = files[f].node
        /\ files[f].refs = 1 => Held(f)' = NoNode
        /\ files[f].refs # 1 => Held(f)' = files[f].node
    BY <1>1, <1>5, <1>6, HeldIs
  <2>3. ASSUME NEW m \in Node
        PROVE  nodes'[m].refs = nodes[m].refs + One(Held(f)', m) - One(Held(f), m)
                                              + One(Claim(t)', m) - One(Claim(t), m)
    <3>1. nodes[m].refs \in Int /\ nodes'[m].refs = nodes[m].refs
      BY <1>2, NodeFieldsOf, Here DEF RefInv
    <3>2. One(files[f].node, m) \in Int /\ One(NoNode, m) \in Int
      BY DEF One
    <3>3. CASE files[f].refs = 1
      BY <1>4, <1>7, <2>2, <3>1, <3>2, <3>3
    <3>4. CASE files[f].refs # 1
      BY <1>4, <1>7, <2>2, <3>1, <3>2, <3>4
    <3> QED BY <3>3, <3>4
  <2>4. \A g \in File : files[g].made => files'[g].node = files[g].node
    BY <2>1
  <2>5. Moves(t) /\ f \in File
    BY <1>1
  <2> QED BY <2>1, <2>3, <2>4, <2>5, NodeStep DEF RefInv
<1>13. OpeningInv'
  BY <1>1, <1>2, <1>4, <1>8, OpeningKeeps
<1> QED BY <1>1, <1>9, <1>10, <1>11, <1>12, <1>13, MovesKeep DEF RefInv

LEMMA FreeFileKeeps ==
    ASSUME RefInv, NEW t \in Task, FreeFile(t)
    PROVE  RefInv'
<1>0. op[t].file \in File => files[op[t].file].node \in Node
  BY DEF RefInv, RecordInv, FreeFile
<1>1. /\ Moves(t) /\ pc'[t] = "unref" /\ op'[t].kind = op[t].kind /\ pc[t] = "free"
      /\ op[t].file \in File /\ op[t].kind \in SweepKinds \cup {"open"}
      /\ op'[t].node = files[op[t].file].node
  BY <1>0, FreeFileMoves DEF RefInv, FreeFile
<1>2. UNCHANGED <<files, nodes, tables, registered, stream>>
  BY DEF FreeFile, fileVars, devVars
<1>3. Mine(t)' = Mine(t) /\ Claim(t)' = Claim(t) /\ ~Opening(t)'
  BY <1>1 DEF Mine, MineOf, Claim, ClaimOf, Opening, OpenAt, OpeningAt, SweepKinds
<1>4. SameFiles /\ op'[t].kind \notin FdKinds /\ op'[t].kind # "unregister"
  BY <1>1, <1>2 DEF SameFiles, FdKinds, SweepKinds
<1>5. RecordInv'
  BY <1>1, <1>2, <1>4, RecordStep DEF RefInv, SameFiles, Unlisting
<1>6. FileCount' /\ FreedInv' /\ NodeCount'
  BY <1>1, <1>2, <1>3, <1>4, FileCountSame, FreedSame, NodeCountSame DEF RefInv
<1>7. OpeningInv'
  BY <1>1, <1>2, <1>3, OpeningKeeps DEF Unlisting
<1> QED BY <1>1, <1>5, <1>6, <1>7, MovesKeep DEF RefInv

LEMMA UnrefKeeps ==
    ASSUME RefInv, NEW t \in Task, Unref(t)
    PROVE  RefInv'
<1> DEFINE n == op[t].node
           k == nodes[n].refs - 1
<1>1. /\ Moves(t) /\ n \in Node /\ op[t].kind \in SweepKinds \cup {"open"} /\ pc[t] = "unref"
      /\ IF nodes[n].refs = 1 THEN Stayed(t, "entry")
         ELSE Returned(t) \/ (Stayed(t, "evict") /\ op[t].kind \in SweepKinds)
  BY UnrefMoves DEF RefInv, Unref
<1>2. UNCHANGED <<files, tables, registered, stream>> /\ Counts(n, k)
  BY DEF Unref, devVars, Counts
<1>3. NoNode \notin Node /\ k \in Int
  BY <1>1, NodeFieldsOf, Here DEF RefInv, TypeInv, DataInv, Configured
<1>4. Mine(t)' = Mine(t) /\ Claim(t)' = NoNode /\ Claim(t) = n /\ ~Opening(t)'
  BY <1>1 DEF Mine, MineOf, Claim, ClaimOf, Opening, OpenAt, OpeningAt, SweepKinds, Stayed,
     Returned, NoOp
<1>5. \A m \in Node : /\ nodes'[m].made = nodes[m].made /\ nodes'[m].listed = nodes[m].listed
                      /\ nodes'[m].entry = nodes[m].entry
                      /\ nodes'[m].refs = IF m = n THEN k ELSE nodes[m].refs
  <2> HIDE DEF k, n
  <2> QED BY <1>1, <1>2, <1>3, NodeCounted, Here DEF RefInv
<1>6. nodes[n].made
  BY <1>1, <1>4, ClaimAlive
<1>7. /\ pc'[t] \in Unlisting => op'[t].node = n /\ nodes[n].refs = 1
      /\ pc'[t] # "free" /\ op'[t].kind # "unregister" /\ op'[t].kind \notin FdKinds
  BY <1>1 DEF Stayed, Returned, NoOp, SweepKinds, FdKinds, Unlisting
<1> HIDE DEF n
<1>8. SameFiles
  BY <1>2 DEF SameFiles
<1>9. RecordInv'
  BY <1>1, <1>2, <1>5, <1>6, <1>7, RecordStep DEF RefInv
<1>10. FileCount' /\ FreedInv'
  BY <1>1, <1>2, <1>4, <1>8, FileCountSame, FreedSame DEF RefInv
<1>11. NodeCount'
  <2>1. ASSUME NEW m \in Node
        PROVE  nodes'[m].refs = nodes[m].refs + One(Claim(t)', m) - One(Claim(t), m)
    <3>1. nodes[m].refs \in Int
      BY NodeFieldsOf, Here DEF RefInv
    <3> QED BY <1>3, <1>4, <1>5, <3>1 DEF One
  <2> QED BY <1>1, <1>2, <1>8, <2>1, SameHeld, NodeStepAlone DEF RefInv
<1>12. OpeningInv'
  <2>1. ASSUME pc'[t] \in Unlisting, NEW u \in Task \ {t}, Opening(u)
        PROVE  op'[t].node # op[u].node
    <3>1. Claim(u) = op[u].node
      BY <2>1, OpeningClaim
    <3>2. SUFFICES ASSUME op[u].node = n PROVE FALSE
      BY <1>7, <2>1
    <3>3. nodes[n].refs > 1
      BY <1>1, <1>4, <2>1, <3>1, <3>2, ClaimNotLast
    <3> QED BY <1>7, <2>1, <3>3
  <2> QED BY <1>1, <1>2, <1>4, <1>5, <2>1, OpeningKeeps
<1> QED BY <1>1, <1>9, <1>10, <1>11, <1>12, MovesKeep DEF RefInv

LEMMA ReadEntryKeeps ==
    ASSUME RefInv, NEW t \in Task, ReadEntry(t)
    PROVE  RefInv'
<1>1. /\ Moves(t) /\ pc[t] = "entry" /\ pc'[t] = "unlist" /\ op[t].node \in Node
      /\ op[t].kind \in SweepKinds \cup {"open"}
      /\ op'[t].kind = op[t].kind /\ op'[t].node = op[t].node
  BY ReadEntryMoves DEF RefInv, ReadEntry
<1>2. UNCHANGED <<files, nodes, tables, registered, stream>>
  BY DEF ReadEntry, fileVars, devVars
<1>3. Mine(t)' = Mine(t) /\ Claim(t)' = Claim(t) /\ ~Opening(t)' /\ SameFiles
  BY <1>1, <1>2 DEF Mine, MineOf, Claim, ClaimOf, Opening, OpenAt, OpeningAt, SweepKinds, SameFiles
<1>4. pc[t] \in Unlisting /\ op'[t].kind # "unregister"
  BY <1>1 DEF Unlisting, SweepKinds
<1>5. RecordInv'
  <2>1. nodes[op[t].node].made
    BY <1>4 DEF RefInv, RecordInv
  <2> QED BY <1>1, <1>2, <1>3, <1>4, <2>1, RecordStep DEF RefInv, SameFiles
<1>6. FileCount' /\ FreedInv' /\ NodeCount'
  BY <1>1, <1>2, <1>3, FileCountSame, FreedSame, NodeCountSame DEF RefInv
<1>7. OpeningInv'
  <2>1. ASSUME NEW u \in Task, Opening(u) PROVE op'[t].node # op[u].node
    BY <1>1, <1>4, <2>1 DEF RefInv, OpeningInv
  <2> QED BY <1>1, <1>2, <1>3, <2>1, OpeningKeeps
<1> QED BY <1>1, <1>5, <1>6, <1>7, MovesKeep DEF RefInv

(* A step that changes the listing or the entry of one node.               *)
Relists(n, b)  == nodes' = [nodes EXCEPT ![n].listed = b]
Disowns(n)  == nodes' = [nodes EXCEPT ![n].entry = FALSE]
Drops(n, i, b) == nodes' = [nodes EXCEPT ![n].refs = i, ![n].listed = b]

LEMMA NodeChanged ==
    ASSUME RecordTypes, NEW n \in Node, NEW r \in NodeRecord, nodes' = [nodes EXCEPT ![n] = r]
    PROVE  nodes'[n] = r /\ \A m \in Node \ {n} : nodes'[m] = nodes[m]
BY NodeFieldsOf

LEMMA NodeRelisted ==
    ASSUME RecordTypes, NEW n \in Node, Relists(n, FALSE)
    PROVE  \A m \in Node : /\ nodes'[m].made = nodes[m].made /\ nodes'[m].refs = nodes[m].refs
                           /\ nodes'[m].entry = nodes[m].entry
                           /\ nodes'[m].listed => nodes[m].listed
                           /\ nodes[m].listed => nodes'[m].listed \/ m = n
<1> DEFINE c == nodes[n]
           r == [c EXCEPT !.listed = FALSE]
<1>1. c \in NodeRecord /\ nodes' = [nodes EXCEPT ![n] = r]
  BY NodeFieldsOf DEF Relists
<1> HIDE DEF c
<1>2. /\ r.made = c.made /\ r.refs = c.refs /\ r.entry = c.entry /\ r.listed = FALSE
      /\ r \in NodeRecord
  BY <1>1 DEF NodeRecord
<1> HIDE DEF r
<1>3. nodes'[n] = r /\ \A m \in Node \ {n} : nodes'[m] = nodes[m]
  BY <1>1, <1>2, NodeChanged
<1> QED BY <1>2, <1>3 DEF c

LEMMA NodeDisowned ==
    ASSUME RecordTypes, NEW n \in Node, Disowns(n)
    PROVE  \A m \in Node : /\ nodes'[m].made = nodes[m].made /\ nodes'[m].refs = nodes[m].refs
                           /\ nodes'[m].listed = nodes[m].listed
                           /\ nodes'[m].entry = nodes[m].entry \/ m = n
<1> DEFINE c == nodes[n]
           r == [c EXCEPT !.entry = FALSE]
<1>1. c \in NodeRecord /\ nodes' = [nodes EXCEPT ![n] = r]
  BY NodeFieldsOf DEF Disowns
<1> HIDE DEF c
<1>2. /\ r.made = c.made /\ r.refs = c.refs /\ r.listed = c.listed /\ r \in NodeRecord
  BY <1>1 DEF NodeRecord
<1> HIDE DEF r
<1>3. nodes'[n] = r /\ \A m \in Node \ {n} : nodes'[m] = nodes[m]
  BY <1>1, <1>2, NodeChanged
<1> QED BY <1>2, <1>3 DEF c

LEMMA NodeDropped ==
    ASSUME RecordTypes, NEW n \in Node, NEW i \in Int, NEW b \in BOOLEAN, Drops(n, i, b)
    PROVE  /\ nodes'[n].refs = i /\ nodes'[n].listed = b
           /\ nodes'[n].made = nodes[n].made /\ nodes'[n].entry = nodes[n].entry
           /\ \A m \in Node \ {n} : nodes'[m] = nodes[m]
<1> DEFINE c == nodes[n]
           r == [c EXCEPT !.refs = i, !.listed = b]
<1>1. c \in NodeRecord /\ nodes' = [nodes EXCEPT ![n] = r]
  BY NodeFieldsOf DEF Drops
<1> HIDE DEF c
<1>2. /\ r.made = c.made /\ r.refs = i /\ r.listed = b /\ r.entry = c.entry
      /\ r \in NodeRecord
  BY <1>1 DEF NodeRecord
<1> HIDE DEF r
<1>3. nodes'[n] = r /\ \A m \in Node \ {n} : nodes'[m] = nodes[m]
  BY <1>1, <1>2, NodeChanged
<1> QED BY <1>2, <1>3 DEF c

LEMMA UnlistKeeps ==
    ASSUME RefInv, NEW t \in Task, Unlist(t)
    PROVE  RefInv'
<1>1. PICK n \in Node : op[t].node = n
  BY UnlistMoves DEF RefInv
<1>2. /\ Moves(t) /\ Holds(t) /\ pc[t] = "unlist"
      /\ UNCHANGED <<files, tables, registered, stream>> /\ Relists(n, FALSE)
  BY <1>1, UnlistMoves DEF RefInv, Unlist, devVars, Relists
<1>3. \A m \in Node : /\ nodes'[m].made = nodes[m].made /\ nodes'[m].refs = nodes[m].refs
                      /\ nodes'[m].entry = nodes[m].entry
                      /\ nodes'[m].listed => nodes[m].listed
                      /\ nodes[m].listed => nodes'[m].listed \/ m = n
  BY <1>2, NodeRelisted, Here DEF RefInv
<1>4. Mine(t)' = Mine(t) /\ Claim(t)' = Claim(t) /\ SameFiles
  BY <1>2, HoldsSame DEF SameFiles
<1>5. ~Opening(t) /\ ~Opening(t)' /\ pc'[t] # "free" /\ pc'[t] \notin Unlisting
  BY <1>2 DEF Holds, Opening, OpenAt, OpeningAt, Unlisting
<1>6. RecordInv'
  BY <1>2, <1>3, <1>5, RecordStep DEF RefInv, Holds, Unlisting
<1>7. FileCount' /\ FreedInv' /\ NodeCount'
  BY <1>2, <1>3, <1>4, FileCountSame, FreedSame, NodeCountSame DEF RefInv
<1>8. OpeningInv'
  <2>1. \A u \in Task : Opening(u) => op[u].node # n
    BY <1>1, <1>2 DEF RefInv, OpeningInv, Unlisting
  <2> QED BY <1>2, <1>3, <1>5, <2>1, OpeningKeeps
<1> QED BY <1>2, <1>6, <1>7, <1>8, MovesKeep DEF RefInv

LEMMA DisownKeeps ==
    ASSUME RefInv, NEW t \in Task, Disown(t)
    PROVE  RefInv'
<1>1. PICK n \in Node : op[t].node = n
  BY DisownMoves DEF RefInv
<1>2. /\ Moves(t) /\ Holds(t) /\ pc[t] = "disown"
      /\ UNCHANGED <<files, tables, registered, stream>> /\ Disowns(n)
  BY <1>1, DisownMoves DEF RefInv, Disown, devVars, Disowns
<1>3. \A m \in Node : /\ nodes'[m].made = nodes[m].made /\ nodes'[m].refs = nodes[m].refs
                      /\ nodes'[m].listed = nodes[m].listed
  BY <1>2, NodeDisowned, Here DEF RefInv
<1>4. Mine(t)' = Mine(t) /\ Claim(t)' = Claim(t) /\ SameFiles
  BY <1>2, HoldsSame DEF SameFiles
<1>5. ~Opening(t)' /\ pc'[t] # "free" /\ pc'[t] \notin Unlisting
  BY <1>2 DEF Holds, Opening, OpenAt, OpeningAt, Unlisting
<1>6. ~registered'
  <2>1. op[t].kind = "unregister"
    BY <1>2, Here DEF RefInv, CallAt, OwnCallAt, FdCallAt, OpeningAt, FreeingAt, Unlisting, SweepKinds
  <2> QED BY <1>2, <2>1 DEF RefInv, RecordInv
<1>7. RecordInv'
  BY <1>2, <1>3, <1>5, <1>6, RecordStep DEF RefInv
<1>8. FileCount' /\ FreedInv' /\ NodeCount'
  BY <1>2, <1>3, <1>4, FileCountSame, FreedSame, NodeCountSame DEF RefInv
<1>9. OpeningInv'
  BY <1>2, <1>3, <1>5, OpeningKeeps
<1> QED BY <1>2, <1>7, <1>8, <1>9, MovesKeep DEF RefInv

LEMMA EvictKeeps ==
    ASSUME RefInv, NEW t \in Task, Evict(t)
    PROVE  RefInv'
<1>1. /\ Moves(t) /\ pc'[t] = "mark" /\ op'[t].kind = op[t].kind /\ op[t].kind \in SweepKinds
      /\ pc[t] = "evict"
  BY EvictMoves DEF RefInv, Evict
<1>2. PICK j \in Job, d \in Fd : Taken(t, j, d)
  BY EvictMoves DEF RefInv
<1>3. PICK f \in File : tables[j][d] = f
  BY <1>2 DEF Taken
<1>4. UNCHANGED <<files, nodes, registered, stream>> /\ Puts(j, d, NoFile)
  BY <1>2 DEF Evict, devVars, Taken, Puts
<1>5. NoFile \notin File
  BY DEF RefInv, TypeInv, DataInv, Configured
<1>6. Mine(t) = NoFile /\ Mine(t)' = f /\ Claim(t)' = Claim(t) /\ ~Opening(t)'
  BY <1>1, <1>2, <1>3 DEF Mine, MineOf, Claim, ClaimOf, Opening, OpenAt, OpeningAt, SweepKinds,
     Taken
<1>7. SameFiles /\ op'[t].kind # "unregister"
  BY <1>1, <1>4 DEF SameFiles, SweepKinds
<1>8. RecordInv'
  BY <1>1, <1>4, <1>7, RecordStep DEF RefInv, SameFiles, Unlisting
<1>9. FileCount'
  <2>1. ASSUME NEW g \in File
        PROVE  files'[g].refs = files[g].refs + One(NoFile, g) - One(tables[j][d], g)
                                              + One(Mine(t)', g) - One(Mine(t), g)
    <3>1. files[g].refs \in Int
      BY Here DEF RefInv, RecordTypes, FileRecord
    <3> QED BY <1>3, <1>4, <1>5, <1>6, <3>1 DEF One
  <2> QED BY <1>1, <1>4, <2>1, FileStep DEF RefInv
<1>10. FreedInv' /\ NodeCount'
  BY <1>1, <1>4, <1>6, <1>7, FreedSame, NodeCountSame DEF RefInv
<1>11. OpeningInv'
  BY <1>1, <1>4, <1>6, OpeningKeeps DEF Unlisting
<1> QED BY <1>1, <1>8, <1>9, <1>10, <1>11, MovesKeep DEF RefInv

-----------------------------------------------------------------------------
(* The release of what a descriptor had, inside the critical section of    *)
(* its table.                                                              *)

LEMMA LockedNodes ==
    ASSUME RecordTypes, NEW f \in File, files[f].node \in Node, ReleaseLocked(f)
    PROVE  \A m \in Node :
              /\ nodes'[m].made = nodes[m].made /\ nodes'[m].entry = nodes[m].entry
              /\ nodes'[m].refs = IF files[f].refs = 1 /\ m = files[f].node THEN nodes[m].refs - 1
                                                                           ELSE nodes[m].refs
              /\ nodes'[m].listed => nodes[m].listed
              /\ nodes[m].listed =>
                    nodes'[m].listed \/ (m = files[f].node /\ ~(nodes[m].refs > 1))
<1>1. PICK n \in Node : files[f].node = n
  OBVIOUS
<1>2. CASE files[f].refs # 1
  BY <1>2 DEF ReleaseLocked
<1>3. CASE files[f].refs = 1
  <2> DEFINE k == nodes[n].refs - 1
             b == nodes[n].listed /\ nodes[n].refs > 1
  <2>1. k \in Int /\ b \in BOOLEAN
    BY NodeFieldsOf
  <2>2. Drops(n, k, b)
    <3>1. nodes' = [nodes EXCEPT ![n].refs = @ - 1, ![n].listed = @ /\ nodes[n].refs > 1]
      BY <1>1, <1>3 DEF ReleaseLocked
    <3>2. nodes[n] \in NodeRecord /\ DOMAIN nodes = Node
      BY NodeFieldsOf
    <3> QED BY <3>1, <3>2 DEF Drops
  <2>3. /\ nodes'[n].refs = k /\ nodes'[n].listed = b
        /\ nodes'[n].made = nodes[n].made /\ nodes'[n].entry = nodes[n].entry
        /\ \A m \in Node \ {n} : nodes'[m] = nodes[m]
    <3> HIDE DEF k, b
    <3> QED BY <2>1, <2>2, NodeDropped
  <2> QED BY <1>1, <1>3, <2>3
<1> QED BY <1>2, <1>3

LEMMA HeldNode ==
    ASSUME RefInv, NEW f \in File, NEW n \in Node, Held(f) = n
    PROVE  nodes[n].refs \in Nat \ {0} /\ nodes[n].made
<1>1. /\ IsFiniteSet(FilesOf(n))
      /\ Cardinality(FilesOf(n)) \in Nat /\ Cardinality(Claims(n)) \in Nat
  BY SetsFinite, CountsAreNaturals DEF RefInv
<1>2. nodes[n].refs = Cardinality(FilesOf(n)) + Cardinality(Claims(n))
  BY DEF RefInv, NodeCount
<1>3. f \in FilesOf(n) \ {} /\ {} \subseteq FilesOf(n)
  BY DEF FilesOf
<1>4. Cardinality({}) + 1 <= Cardinality(FilesOf(n))
  BY <1>1, <1>3, CountGains
<1>5. nodes[n].refs \in Nat \ {0}
  BY <1>1, <1>2, <1>4, FS_EmptySet
<1> QED BY <1>5 DEF RefInv, RecordInv

(* The descriptor d of j, which had f, has b after the step, which acquires*)
(* b and releases f.                                                       *)
Replaces(j, d, f, b) ==
    /\ Puts(j, d, b) /\ tables[j][d] = f
    /\ \A g \in File :
        /\ files'[g].made = files[g].made /\ files'[g].node = files[g].node
        /\ files'[g].refs = files[g].refs + One(b, g) - One(f, g)
        /\ files[g].refs = 1 /\ g = f => files'[g].destroyed = TRUE
        /\ ~(files[g].refs = 1 /\ g = f) => files'[g].destroyed = files[g].destroyed
    /\ IF f = NoFile THEN UNCHANGED <<nodes, stream>> ELSE ReleaseLocked(f)
    /\ b \in File => files[b].refs > 0 /\ (b = f => files[b].refs > 1)

LEMMA ReplacedNode ==
    ASSUME RefInv, NEW t \in Task, Moves(t), Holds(t),
           NEW j \in Job, NEW d \in Fd, NEW f \in File, NEW b \in File \cup {NoFile},
           Replaces(j, d, f, b)
    PROVE  NodeCount'
<1>1. files[f].refs \in Nat \ {0} /\ files[f].node \in Node /\ files[f].destroyed = FALSE
  BY HeldAlive DEF Replaces
<1>2. NoNode \notin Node /\ NoFile \notin File
  BY DEF RefInv, TypeInv, DataInv, Configured
<1>3. Claim(t)' = Claim(t)
  BY HoldsSame
<1>4. /\ \A g \in File \ {f} : Held(g)' = Held(g)
      /\ \A g \in File : files[g].made => files'[g].node = files[g].node
  BY DEF Replaces, Held
<1>5. /\ Held(f) = files[f].node
      /\ files[f].refs = 1 => Held(f)' = NoNode
      /\ files[f].refs # 1 => Held(f)' = files[f].node
  <2>1. /\ files'[f].node = files[f].node
        /\ files[f].refs = 1 => files'[f].destroyed = TRUE
        /\ files[f].refs # 1 => files'[f].destroyed = FALSE
    BY <1>1 DEF Replaces
  <2> QED BY <1>1, <2>1, HeldIs
<1>6. ReleaseLocked(f)
  BY <1>2 DEF Replaces
<1>7. ASSUME NEW m \in Node
      PROVE  nodes'[m].refs = nodes[m].refs + One(Held(f)', m) - One(Held(f), m)
                                            + One(Claim(t)', m) - One(Claim(t), m)
  <2>1. /\ nodes[m].refs \in Int /\ One(Claim(t), m) \in Int
        /\ One(files[f].node, m) = IF m = files[f].node THEN 1 ELSE 0
        /\ One(NoNode, m) = 0
    BY <1>2, NodeFieldsOf, Here DEF RefInv, One
  <2>2. nodes'[m].refs = IF files[f].refs = 1 /\ m = files[f].node THEN nodes[m].refs - 1
                                                                   ELSE nodes[m].refs
    BY <1>1, <1>6, LockedNodes, Here DEF RefInv
  <2>3. CASE files[f].refs = 1
    BY <1>3, <1>5, <2>1, <2>2, <2>3
  <2>4. CASE files[f].refs # 1
    BY <1>3, <1>5, <2>1, <2>2, <2>4
  <2> QED BY <2>3, <2>4
<1> QED BY <1>4, <1>7, NodeStep DEF RefInv

LEMMA ReplacedFiles ==
    ASSUME RefInv, NEW t \in Task, Moves(t), Holds(t),
           NEW j \in Job, NEW d \in Fd, NEW f \in File \cup {NoFile}, NEW b \in File \cup {NoFile},
           Replaces(j, d, f, b)
    PROVE  FileCount' /\ FreedInv' /\ \A g \in File : ~files[g].made => files'[g].refs = files[g].refs
<1>0. \A g \in File : files[g].refs \in Nat /\ One(b, g) \in Int /\ One(f, g) \in Int
  BY Here DEF RefInv, RecordTypes, FileRecord, One
<1>1. Mine(t)' = Mine(t)
  BY HoldsSame
<1>2. ASSUME f \in File
      PROVE  files[f].refs > 0 /\ files[f].made /\ files[f].destroyed = FALSE
  <2>1. tables[j][d] = f
    BY DEF Replaces
  <2>2. files[f].refs \in Nat \ {0} /\ files[f].made /\ files[f].destroyed = FALSE
    BY <1>2, <2>1, HeldAlive
  <2> QED BY <2>2
<1>3. FileCount'
  <2>1. ASSUME NEW g \in File
        PROVE  files'[g].refs = files[g].refs + One(b, g) - One(tables[j][d], g)
                                              + One(Mine(t)', g) - One(Mine(t), g)
    <3>1. One(Mine(t), g) \in Int
      BY DEF One
    <3> QED BY <1>0, <1>1, <3>1 DEF Replaces
  <2> QED BY <2>1, FileStep DEF RefInv, Replaces
<1>4. ASSUME NEW g \in File, files'[g].made
      PROVE  files'[g].destroyed <=> files'[g].refs = 0
  <2>0. /\ files[g].made /\ files[g].refs \in Nat
        /\ files'[g].refs = files[g].refs + One(b, g) - One(f, g)
    BY <1>0, <1>4 DEF Replaces
  <2>1. CASE files[g].refs = 1 /\ g = f
    <3>1. b # g
      BY <2>1 DEF Replaces
    <3>2. files'[g].refs = 0
      BY <2>0, <2>1, <3>1 DEF One
    <3>3. files'[g].destroyed = TRUE
      BY <2>1 DEF Replaces
    <3> QED BY <3>2, <3>3, Zenon
  <2>2. CASE ~(files[g].refs = 1 /\ g = f)
    <3>1. files'[g].destroyed = files[g].destroyed
      BY <2>2 DEF Replaces
    <3>2. files[g].destroyed <=> files[g].refs = 0
      BY <2>0 DEF RefInv, FreedInv
    <3>3. files'[g].refs = 0 <=> files[g].refs = 0
      <4>1. b = g => files[g].refs > 0
        BY DEF Replaces
      <4>2. f = g => files[g].refs > 0 /\ files[g].refs # 1
        BY <1>2, <2>2
      <4>3. /\ One(b, g) = IF b = g THEN 1 ELSE 0
            /\ One(f, g) = IF f = g THEN 1 ELSE 0
        BY DEF One
      <4> QED BY <2>0, <4>1, <4>2, <4>3
    <3> QED BY <3>1, <3>2, <3>3, Zenon
  <2> QED BY <2>1, <2>2
<1>5. ASSUME NEW g \in File, ~files[g].made PROVE files'[g].refs = files[g].refs
  <2>1. files[g].refs = 0
    BY <1>5 DEF RefInv, RecordInv
  <2>2. g # f
    BY <1>2, <1>5
  <2>3. g # b
    <3>1. b \in File => files[b].refs > 0
      BY DEF Replaces
    <3> QED BY <2>1, <3>1
  <2> QED BY <1>0, <2>2, <2>3 DEF Replaces, One
<1>6. FreedInv'
  BY <1>4 DEF FreedInv
<1> QED BY <1>3, <1>5, <1>6

LEMMA ReplacedKeeps ==
    ASSUME RefInv, NEW t \in Task, Moves(t), Holds(t), ~Opening(t)',
           UNCHANGED registered, stream'.node \in {stream.node, NoNode},
           op[t].kind \in FdKinds,
           NEW j \in Job, NEW d \in Fd, NEW f \in File \cup {NoFile}, NEW b \in File \cup {NoFile},
           Replaces(j, d, f, b)
    PROVE  RefInv'
<1>1. FileCount' /\ FreedInv' /\ \A g \in File : ~files[g].made => files'[g].refs = files[g].refs
  BY ReplacedFiles
<1>2. pc'[t] # "free" /\ pc'[t] \notin Unlisting /\ (op'[t].kind = "unregister" => ~registered')
  BY DEF Holds, FdKinds, Unlisting
<1>3. \A g \in File : files'[g].made = files[g].made /\ files'[g].node = files[g].node
  BY DEF Replaces
<1>4. CASE f = NoFile
  <2>1. UNCHANGED <<nodes, stream>>
    BY <1>4 DEF Replaces
  <2>2. RecordInv'
    BY <1>1, <1>2, <1>3, <2>1, RecordStep DEF RefInv
  <2>3. OpeningInv'
    BY <1>2, <2>1, OpeningKeeps
  <2>4. NodeCount'
    <3>1. NoFile \notin File
      BY DEF RefInv, TypeInv, DataInv, Configured
    <3>2. \A g \in File : Held(g)' = Held(g)
      BY <1>4, <3>1 DEF Replaces, Held
    <3>3. Claim(t)' = Claim(t)
      BY HoldsSame
    <3>4. ASSUME NEW m \in Node
          PROVE  nodes'[m].refs = nodes[m].refs + One(Claim(t)', m) - One(Claim(t), m)
      <4>1. nodes[m].refs \in Int /\ One(Claim(t), m) \in Int
        BY NodeFieldsOf, Here DEF RefInv, One
      <4> QED BY <2>1, <3>3, <4>1
    <3> QED BY <1>3, <3>2, <3>4, NodeStepAlone DEF RefInv
  <2> QED BY <1>1, <2>2, <2>3, <2>4, MovesKeep DEF RefInv
<1>5. CASE f \in File
  <2>0. NoFile \notin File
    BY DEF RefInv, TypeInv, DataInv, Configured
  <2>1. files[f].node \in Node /\ files[f].destroyed = FALSE /\ ReleaseLocked(f)
    BY <1>5, <2>0, HeldAlive DEF Replaces
  <2>2. Held(f) = files[f].node
    BY <1>5, <2>1, HeldIs
  <2>3. \A m \in Node :
              /\ nodes'[m].made = nodes[m].made /\ nodes'[m].entry = nodes[m].entry
              /\ nodes'[m].refs = IF files[f].refs = 1 /\ m = files[f].node THEN nodes[m].refs - 1
                                                                           ELSE nodes[m].refs
              /\ nodes'[m].listed => nodes[m].listed
              /\ nodes[m].listed =>
                    nodes'[m].listed \/ (m = files[f].node /\ ~(nodes[m].refs > 1))
    BY <1>5, <2>1, LockedNodes, Here DEF RefInv
  <2>4. ASSUME NEW m \in Node, ~nodes[m].made PROVE nodes'[m].refs = nodes[m].refs
    BY <1>5, <2>1, <2>2, <2>3, <2>4, HeldNode
  <2>5. RecordInv'
    BY <1>1, <1>2, <1>3, <2>3, <2>4, RecordStep DEF RefInv
  <2>6. ASSUME NEW u \in Task, Opening(u), op[u].node = files[f].node
        PROVE  nodes[files[f].node].refs > 1
    BY <1>5, <2>1, <2>2, <2>6, OpeningClaim, ClaimNotLast
  <2>7. OpeningInv'
    BY <1>2, <2>3, <2>6, OpeningKeeps
  <2>8. NodeCount'
    BY <1>5, ReplacedNode
  <2> QED BY <1>1, <2>5, <2>7, <2>8, MovesKeep DEF RefInv
<1> QED BY <1>4, <1>5

(* What m_vfs_fd_release does to a descriptor.                             *)
LEMMA VacatedReplaces ==
    ASSUME RefInv, NEW t \in Task, NEW d \in Fd, Vacated(t, d)
    PROVE  \E f \in File \cup {NoFile} : Replaces(JobOf[t], d, f, NoFile)
<1>1. /\ NoFile \notin File /\ JobOf[t] \in Job /\ tables \in [Job -> [Fd -> File \cup {NoFile}]]
      /\ files \in [File -> FileRecord]
  BY Here DEF RefInv, TypeInv, DataInv, Configured, RecordTypes
<1>2. PICK j \in Job : JobOf[t] = j
  BY <1>1
<1>3. PICK f \in File \cup {NoFile} : tables[j][d] = f
  BY <1>1
<1>4. CASE f = NoFile
  <2>1. UNCHANGED <<files, nodes, tables, stream>>
    BY <1>2, <1>3, <1>4 DEF Vacated, fileVars
  <2>2. Puts(j, d, NoFile)
    BY <1>1, <1>3, <1>4, <2>1 DEF Puts
  <2>3. \A g \in File : files[g].refs \in Int /\ One(NoFile, g) = 0
    BY <1>1 DEF FileRecord, One
  <2> QED BY <1>1, <1>2, <1>3, <1>4, <2>1, <2>2, <2>3 DEF Replaces
<1>5. CASE f \in File
  <2>1. /\ tables' = [tables EXCEPT ![j][d] = NoFile] /\ files' = Released(files, f)
        /\ ReleaseLocked(f)
    BY <1>1, <1>2, <1>3, <1>5 DEF Vacated
  <2>2. files[f].refs \in Nat \ {0} /\ files[f].destroyed = FALSE
    BY <1>3, <1>5, HeldAlive
  <2>3. /\ \A g \in File \ {f} : files'[g] = files[g]
        /\ files'[f].made = files[f].made /\ files'[f].node = files[f].node
        /\ files'[f].refs = files[f].refs - 1
        /\ files[f].refs = 1 => files'[f].destroyed = TRUE
        /\ files[f].refs # 1 => files'[f].destroyed = FALSE
    BY <1>5, <2>1, <2>2, ReleasedHeld, Here DEF RefInv
  <2>4. \A g \in File : /\ files[g].refs \in Int /\ One(NoFile, g) = 0
                        /\ One(f, g) = IF g = f THEN 1 ELSE 0
    BY <1>1 DEF FileRecord, One
  <2>5. \A g \in File :
          /\ files'[g].made = files[g].made /\ files'[g].node = files[g].node
          /\ files'[g].refs = files[g].refs + One(NoFile, g) - One(f, g)
    BY <2>3, <2>4
  <2>6. ASSUME NEW g \in File
        PROVE  /\ files[g].refs = 1 /\ g = f => files'[g].destroyed = TRUE
               /\ ~(files[g].refs = 1 /\ g = f) => files'[g].destroyed = files[g].destroyed
    <3>1. CASE g = f
      BY <2>2, <2>3, <3>1, Zenon
    <3>2. CASE g # f
      BY <2>3, <3>2, Zenon
    <3> QED BY <3>1, <3>2
  <2> QED BY <1>1, <1>2, <1>3, <1>5, <2>1, <2>5, <2>6 DEF Replaces, Puts
<1> QED BY <1>4, <1>5

LEMMA UnlinkKeeps ==
    ASSUME RefInv, NEW t \in Task, Unlink(t)
    PROVE  RefInv'
<1>1. /\ Moves(t) /\ Holds(t) /\ op[t].kind \in FdKinds /\ op[t].fd \in Fd
      /\ pc'[t] = "idle" /\ stream'.node \in {stream.node, NoNode}
      /\ UNCHANGED registered /\ Vacated(t, op[t].fd)
  <2>1. pc \in [Task -> Place]
    BY DEF RefInv, TypeInv, DataInv
  <2> QED BY <2>1, UnlinkMoves DEF RefInv, Unlink, OnFd, FdKinds, Return, Goto
<1>2. PICK f \in File \cup {NoFile} : Replaces(JobOf[t], op[t].fd, f, NoFile)
  BY <1>1, VacatedReplaces
<1>3. JobOf[t] \in Job /\ ~Opening(t)'
  BY <1>1 DEF RefInv, TypeInv, DataInv, Configured, Opening, OpenAt, OpeningAt
<1> QED BY <1>1, <1>2, <1>3, ReplacedKeeps

LEMMA VacateKeeps ==
    ASSUME RefInv, NEW t \in Task, Vacate(t)
    PROVE  RefInv'
<1>1. /\ Moves(t) /\ Holds(t) /\ op[t].kind \in FdKinds /\ op[t].to \in Fd
      /\ pc'[t] = "assign" /\ stream'.node \in {stream.node, NoNode}
      /\ UNCHANGED registered /\ Vacated(t, op[t].to)
  <2>1. pc \in [Task -> Place]
    BY DEF RefInv, TypeInv, DataInv
  <2> QED BY <2>1, VacateMoves DEF RefInv, Vacate, FdKinds, Goto
<1>2. PICK f \in File \cup {NoFile} : Replaces(JobOf[t], op[t].to, f, NoFile)
  BY <1>1, VacatedReplaces
<1>3. JobOf[t] \in Job /\ ~Opening(t)'
  BY <1>1 DEF RefInv, TypeInv, DataInv, Configured, Opening, OpenAt, OpeningAt
<1> QED BY <1>1, <1>2, <1>3, ReplacedKeeps

(* What m_vfs_fd_assign does: it acquires the file and releases the one    *)
(* that the descriptor had, which may be the same.                         *)
LEMMA AssignReplaces ==
    ASSUME RefInv, NEW t \in Task, Assign(t), ~Strays(t)
    PROVE  \E f \in File \cup {NoFile} : Replaces(JobOf[t], op[t].to, f, op[t].file)
<1>1. /\ NoFile \notin File /\ JobOf[t] \in Job /\ tables \in [Job -> [Fd -> File \cup {NoFile}]]
      /\ files \in [File -> FileRecord]
  BY Here DEF RefInv, TypeInv, DataInv, Configured, RecordTypes
<1>2. PICK j \in Job : JobOf[t] = j
  BY <1>1
<1>3. op[t].kind = "dup2" /\ OnFd(op[t]) /\ op[t].to \in Fd \ {op[t].fd}
  BY AssignMoves DEF RefInv
<1>4. PICK d \in Fd \ {op[t].fd} : op[t].to = d
  BY <1>3
<1>5. PICK b \in File : op[t].file = b
  BY <1>3 DEF OnFd
<1>6. PICK f \in File \cup {NoFile} : tables[j][d] = f
  BY <1>1
<1>7. files[b].refs # 0 /\ ~(files[b].refs = 1 /\ b = f)
  BY <1>2, <1>4, <1>5, <1>6 DEF Strays, Assign
<1>8. files[b].refs \in Nat \ {0} /\ (b = f => files[b].refs > 1)
  <2>1. files[b].refs \in Nat \ {0}
    BY <1>7, ReferredAlive
  <2> QED BY <1>7, <2>1
<1> DEFINE fs == IF f = NoFile THEN files ELSE Released(files, f)
<1>9. /\ Puts(j, d, b) /\ files' = [fs EXCEPT ![b].refs = @ + 1]
      /\ IF f = NoFile THEN UNCHANGED <<nodes, stream, waitVars>> ELSE ReleaseLocked(f)
  BY <1>2, <1>4, <1>5, <1>6 DEF Assign, Puts
<1>10. \A g \in File : /\ files[g].refs \in Int
                       /\ One(f, g) = IF g = f THEN 1 ELSE 0
                       /\ One(b, g) = IF g = b THEN 1 ELSE 0
  BY <1>1 DEF FileRecord, One
<1>11. f \in File => files[f].refs \in Nat \ {0} /\ files[f].destroyed = FALSE
  BY <1>6, HeldAlive
<1>12. fs \in [File -> FileRecord]
  BY <1>1, ReleasedFields
<1>13. ASSUME NEW g \in File
       PROVE  /\ fs[g].made = files[g].made /\ fs[g].node = files[g].node
              /\ fs[g].refs = files[g].refs - One(f, g)
              /\ files[g].refs = 1 /\ g = f => fs[g].destroyed = TRUE
              /\ ~(files[g].refs = 1 /\ g = f) => fs[g].destroyed = files[g].destroyed
  <2>1. CASE f = NoFile
    BY <1>1, <1>10, <2>1
  <2>2. CASE f \in File /\ g # f
    BY <1>1, <1>10, <2>2, ReleasedFields
  <2>3. CASE f \in File /\ g = f
    <3>1. fs[f].destroyed = (files[f].destroyed \/ files[f].refs = 1)
      BY <1>1, <2>3, ReleasedFields
    <3>2. /\ files[f].refs = 1 => fs[f].destroyed = TRUE
          /\ files[f].refs # 1 => fs[f].destroyed = files[f].destroyed
      BY <1>11, <2>3, <3>1, Zenon
    <3>3. /\ fs[f].made = files[f].made /\ fs[f].node = files[f].node
          /\ fs[f].refs = files[f].refs - 1
      BY <1>1, <1>11, <2>3, ReleasedFields
    <3> QED BY <1>10, <2>3, <3>2, <3>3
  <2> QED BY <2>1, <2>2, <2>3
<1> HIDE DEF fs
<1>14. /\ \A g \in File \ {b} : files'[g] = fs[g]
       /\ files'[b].made = fs[b].made /\ files'[b].node = fs[b].node
       /\ files'[b].refs = fs[b].refs + 1 /\ files'[b].destroyed = fs[b].destroyed
  BY <1>9, <1>12, AcquiredFields
<1>15. ASSUME NEW g \in File
       PROVE  /\ files'[g].made = files[g].made /\ files'[g].node = files[g].node
              /\ files'[g].refs = files[g].refs + One(b, g) - One(f, g)
  <2>1. /\ fs[g].made = files[g].made /\ fs[g].node = files[g].node
        /\ fs[g].refs = files[g].refs - One(f, g)
    BY <1>13
  <2>2. /\ files'[g].made = fs[g].made /\ files'[g].node = fs[g].node
        /\ files'[g].refs = IF g = b THEN fs[g].refs + 1 ELSE fs[g].refs
    BY <1>14
  <2> QED BY <1>10, <2>1, <2>2
<1>16. ASSUME NEW g \in File
       PROVE  /\ files[g].refs = 1 /\ g = f => files'[g].destroyed = TRUE
              /\ ~(files[g].refs = 1 /\ g = f) => files'[g].destroyed = files[g].destroyed
  <2>1. /\ files[g].refs = 1 /\ g = f => fs[g].destroyed = TRUE
        /\ ~(files[g].refs = 1 /\ g = f) => fs[g].destroyed = files[g].destroyed
    BY <1>13
  <2>2. files'[g].destroyed = fs[g].destroyed
    BY <1>14, Zenon
  <2> QED BY <2>1, <2>2, Zenon
<1>17. IF f = NoFile THEN UNCHANGED <<nodes, stream>> ELSE ReleaseLocked(f)
  BY <1>9 DEF waitVars
<1>18. files[b].refs > 0 /\ (b = f => files[b].refs > 1)
  BY <1>8
<1>19. Replaces(j, d, f, b)
  BY <1>6, <1>9, <1>15, <1>16, <1>17, <1>18, Zenon DEF Replaces
<1> QED BY <1>2, <1>4, <1>5, <1>19

LEMMA AssignKeeps ==
    ASSUME RefInv, NEW t \in Task, Assign(t), ~Strays(t)
    PROVE  RefInv'
<1>1. /\ Moves(t) /\ Holds(t) /\ op[t].kind \in FdKinds /\ op[t].to \in Fd /\ op[t].file \in File
      /\ pc'[t] = "idle" /\ stream'.node \in {stream.node, NoNode} /\ UNCHANGED registered
  <2>1. pc \in [Task -> Place]
    BY DEF RefInv, TypeInv, DataInv
  <2> QED BY <2>1, AssignMoves DEF RefInv, Assign, OnFd, FdKinds, Return, Goto
<1>2. PICK f \in File \cup {NoFile} : Replaces(JobOf[t], op[t].to, f, op[t].file)
  BY AssignReplaces
<1>3. JobOf[t] \in Job /\ ~Opening(t)'
  BY <1>1 DEF RefInv, TypeInv, DataInv, Configured, Opening, OpenAt, OpeningAt
<1> QED BY <1>1, <1>2, <1>3, ReplacedKeeps

-----------------------------------------------------------------------------
(* The invariant.                                                          *)

LEMMA RefInit ==
    ASSUME Configured, Init
    PROVE  RefInv
<1>1. \A t \in Task : op[t] = NoOp /\ pc[t] = "idle"
  BY DEF Init
<1>2. NoFile \notin File /\ NoNode \notin Node
  BY DEF Configured
<1>3. \A f \in File : /\ files[f].made = FALSE /\ files[f].refs = 0 /\ files[f].node = NoNode
                      /\ files[f].destroyed = FALSE
  BY DEF Init
<1>4. \A n \in Node : nodes[n].made = FALSE /\ nodes[n].refs = 0 /\ nodes[n].listed = FALSE
  BY DEF Init
<1>5. \A j \in Job, d \in Fd : tables[j][d] = NoFile
  BY DEF Init, NoEntries
<1>6. TypeInv
  <2>1. pc \in [Task -> Place] /\ op \in [Task -> CallRecord]
    BY NoOpType DEF Init, Place
  <2>2. CallInv
    BY <1>1, NoOpType DEF CallInv
  <2>3. files \in [File -> FileRecord]
    BY DEF Init, FileRecord
  <2>4. nodes \in [Node -> NodeRecord]
    BY DEF Init, NodeRecord
  <2>5. tables \in [Job -> [Fd -> File \cup {NoFile}]]
    BY DEF Init, NoEntries
  <2>6. stream \in [used : 0 .. Capacity, mask : SUBSET Mask, node : Node \cup {NoNode}]
    BY DEF Init, Configured, Mask
  <2>7. RecordTypes
    BY <2>3, <2>4, <2>5, <2>6 DEF RecordTypes, Init
  <2> QED BY <2>1, <2>2, <2>7 DEF TypeInv, DataInv
<1>7. RecordInv
  BY <1>1, <1>3, <1>4 DEF RecordInv, NoOp, Unlisting
<1>8. OpeningInv
  BY <1>1 DEF OpeningInv, Opening, OpenAt, OpeningAt
<1>9. \A t \in Task : Mine(t) = NoFile /\ Claim(t) = NoNode
  BY <1>1 DEF Mine, MineOf, Claim, ClaimOf, NoOp, SweepKinds, OpeningAt
<1>10. FileCount
  <2>1. ASSUME NEW f \in File PROVE Entries(f) = {} /\ Owners(f) = {}
    BY <1>2, <1>5, <1>9 DEF Entries, Owners
  <2> QED BY <1>3, <2>1, FS_EmptySet DEF FileCount
<1>11. NodeCount
  <2>1. ASSUME NEW n \in Node PROVE FilesOf(n) = {} /\ Claims(n) = {}
    BY <1>2, <1>3, <1>9 DEF FilesOf, Claims, Held
  <2> QED BY <1>4, <2>1, FS_EmptySet DEF NodeCount
<1>12. FreedInv
  BY <1>3 DEF FreedInv
<1> QED BY <1>6, <1>7, <1>8, <1>10, <1>11, <1>12 DEF RefInv

LEMMA RefStutter ==
    ASSUME RefInv, UNCHANGED system
    PROVE  RefInv'
<1>1. UNCHANGED <<files, nodes, tables, ended, stream, registered, pc, op>>
  BY DEF system, fileVars, devVars, taskVars
<1>2. TypeInv'
  BY <1>1 DEF RefInv, TypeInv, DataInv, CallInv, RecordTypes, Configured
<1>3. RecordInv' /\ FreedInv'
  BY <1>1 DEF RefInv, RecordInv, FreedInv
<1>4. OpeningInv'
  BY <1>1 DEF RefInv, OpeningInv, Opening
<1>5. \A f \in File : Entries(f)' = Entries(f) /\ Owners(f)' = Owners(f)
  BY <1>1 DEF Entries, Owners, Mine
<1>6. \A n \in Node : FilesOf(n)' = FilesOf(n) /\ Claims(n)' = Claims(n)
  BY <1>1 DEF FilesOf, Held, Claims, Claim
<1>7. FileCount'
  BY <1>1, <1>5 DEF RefInv, FileCount
<1>8. NodeCount'
  BY <1>1, <1>6 DEF RefInv, NodeCount
<1> QED BY <1>2, <1>3, <1>4, <1>7, <1>8 DEF RefInv

LEMMA RefNext ==
    ASSUME RefInv, NEW t \in Task, Calls(t) \/ (Step(t) /\ ~Strays(t))
    PROVE  RefInv'
<1>0. Calls(t) => ~(Allocate(t) \/ Assign(t))
  BY DEF Calls, OpenKnown, OpenNew, Read, Write, Poll, Close, Dup, Dup2, Lookup, EndJob, CloseAll,
     Unregister, Allocate, Assign
<1>1. CASE Read(t) \/ Write(t) \/ Poll(t) \/ Close(t) \/ Dup(t) \/ Dup2(t)
  BY <1>1, LookupKeeps
<1>2. CASE QuietStep(t)
  BY <1>2, QuietStepKeeps
<1>3. CASE OpenKnown(t)
  BY <1>3, OpenKnownKeeps
<1>4. CASE OpenNew(t)
  BY <1>4, OpenNewKeeps
<1>5. CASE OpenFile(t)
  BY <1>5, OpenFileKeeps
<1>6. CASE Allocate(t)
  BY <1>0, <1>6, AllocateKeeps
<1>7. CASE Release(t)
  BY <1>7, ReleaseKeeps
<1>8. CASE FreeFile(t)
  BY <1>8, FreeFileKeeps
<1>9. CASE Unref(t)
  BY <1>9, UnrefKeeps
<1>10. CASE Unlist(t)
  BY <1>10, UnlistKeeps
<1>11. CASE Unlink(t)
  BY <1>11, UnlinkKeeps
<1>12. CASE Vacate(t)
  BY <1>12, VacateKeeps
<1>13. CASE Assign(t)
  BY <1>0, <1>13, AssignKeeps
<1>14. CASE Evict(t)
  BY <1>14, EvictKeeps
<1>15. CASE Disown(t)
  BY <1>15, DisownKeeps
<1>16. CASE ReadEntry(t)
  BY <1>16, ReadEntryKeeps
<1> QED BY <1>1, <1>2, <1>3, <1>4, <1>5, <1>6, <1>7, <1>8, <1>9, <1>10, <1>11, <1>12, <1>13,
           <1>14, <1>15, <1>16 DEF Calls, Step, QuietStep

(* The reference counts are those of the properties.                       *)
LEMMA RefImplies ==
    ASSUME RefInv
    PROVE  RefsCounted
<1>1. NoFile \notin File /\ NoNode \notin Node
  BY DEF RefInv, TypeInv, DataInv, Configured
<1>2. ASSUME NEW f \in File
      PROVE  files[f].refs = Cardinality({p \in Job \X Fd : tables[p[1]][p[2]] = f})
                                + Cardinality(Holders(f))
  <2>1. Owners(f) = Holders(f)
    BY <1>1 DEF Owners, Holders, Mine, MineOf, SweepKinds
  <2> QED BY <2>1 DEF RefInv, FileCount, Entries
<1>3. ASSUME NEW n \in Node
      PROVE  nodes[n].refs =
                Cardinality({f \in File : files[f].node = n /\ ~files[f].destroyed})
              + Cardinality({t \in Task : /\ pc[t] \in {"attach", "query", "store", "notify",
                                                        "foreach", "open", "unref"}
                                          /\ op[t].kind = "open" /\ op[t].node = n})
              + Cardinality({t \in Task : \/ pc[t] = "free" /\ files[op[t].file].node = n
                                          \/ pc[t] = "unref" /\ op[t].kind # "open" /\ op[t].node = n})
  <2> DEFINE A == {t \in Task : /\ pc[t] \in {"attach", "query", "store", "notify",
                                              "foreach", "open", "unref"}
                                /\ op[t].kind = "open" /\ op[t].node = n}
             B == {t \in Task : \/ pc[t] = "free" /\ files[op[t].file].node = n
                                \/ pc[t] = "unref" /\ op[t].kind # "open" /\ op[t].node = n}
  <2>1. FilesOf(n) = {f \in File : files[f].node = n /\ ~files[f].destroyed}
    BY <1>1 DEF FilesOf, Held
  <2>2. Claims(n) = A \cup B /\ A \cap B = {}
    BY <1>1 DEF Claims, Claim, ClaimOf, OpeningAt
  <2>3. nodes[n].refs = Cardinality(FilesOf(n)) + Cardinality(Claims(n))
    BY DEF RefInv, NodeCount
  <2>4. A \subseteq Task /\ B \subseteq Task /\ IsFiniteSet(Task)
    BY DEF RefInv, TypeInv, DataInv, Configured
  <2> HIDE DEF A, B
  <2>5. IsFiniteSet(A) /\ IsFiniteSet(B)
    BY <2>4, FS_Subset
  <2>6. Cardinality(A) \in Nat /\ Cardinality(B) \in Nat /\ Cardinality(FilesOf(n)) \in Nat
    BY <2>5, CountsAreNaturals, FS_CardinalityType DEF RefInv
  <2>7. Cardinality(A \cup B) = Cardinality(A) + Cardinality(B)
    <3>1. Cardinality(A \cup B) = Cardinality(A) + Cardinality(B) - Cardinality(A \cap B)
      BY <2>5, FS_Union
    <3>2. Cardinality(A \cap B) = 0
      BY <2>2, FS_EmptySet
    <3> QED BY <2>6, <3>1, <3>2
  <2>8. nodes[n].refs = Cardinality(FilesOf(n)) + Cardinality(A) + Cardinality(B)
    BY <2>2, <2>3, <2>6, <2>7
  <2> QED BY <2>1, <2>8 DEF A, B
<1> QED BY <1>2, <1>3 DEF RefsCounted, RefInv, FreedInv

(* A call keeps the invariant, and so does a step of one under way; where  *)
(* the next one would use what was freed, nothing changes but that the     *)
(* model stops.                                                            *)
LEMMA RefSteps ==
    ASSUME RefInv, Next
    PROVE  RefInv'
<1>1. PICK t \in Task : Begins(t) \/ Runs(t)
  BY DEF Next
<1>2. CASE Halt
  BY <1>2, RefStutter DEF Halt
<1>3. CASE Calls(t) \/ (Step(t) /\ ~Strays(t))
  BY <1>3, RefNext
<1> QED BY <1>1, <1>2, <1>3 DEF Begins, Runs

(* Every reference that m_vfs_object.c counts is one of a descriptor or of *)
(* a call on its way, and a file is freed with the last of them, whatever  *)
(* is opened, duplicated, assigned over, closed and swept in whatever      *)
(* order, up to where somebody uses what was freed: for any number of      *)
(* tasks, jobs, descriptors, files and nodes.                              *)
THEOREM FilesKept ==
    ASSUME Configured
    PROVE  Spec => []RefsCounted
<1>1. Init => RefInv
  BY RefInit
<1>2. RefInv /\ [Next]_vars => RefInv'
  BY RefStutter, RefSteps DEF vars
<1>3. RefInv => RefsCounted
  BY RefImplies
<1> QED BY <1>1, <1>2, <1>3, PTL DEF Spec

=============================================================================
