----------------------------- MODULE ShmStream -----------------------------
(***************************************************************************)
(* What a shared memory region promises its readers: the bytes of a ring   *)
(* come out in the order they went in, without a gap unless the policy     *)
(* lets a writer drop the oldest ones, and a packet comes out whole. There *)
(* is no memory, no index and no waiting here.                             *)
(***************************************************************************)
EXTENDS Naturals, Sequences, SequencesExt

CONSTANTS
    HeaderSize,     \* the bytes a packet takes beside its payload
    Errors          \* why a call may move nothing

VARIABLES
    size,           \* the size of the region, in bytes
    kind,           \* "ring", "packet", "raw", or "none": there is no region
    lossy,          \* writers may drop what is oldest
    stream,         \* the bytes, or the packets, not read yet, oldest first
    reply           \* what the last step answered to a call

vars == <<size, kind, lossy, stream, reply>>

NoReply == [call |-> "none", error |-> "none", data |-> << >>]

Init ==
    /\ size = 0
    /\ kind = "none" /\ lossy = FALSE /\ stream = << >>
    /\ reply = NoReply

Replies(c, e, d) == reply' = [call |-> c, error |-> e, data |-> d]

(* The bytes a sequence of packets takes.                                  *)
Bytes(s) == FoldLeft(LAMBDA n, p : n + HeaderSize + Len(p), 0, s)

Fits(s) == IF kind = "packet" THEN Bytes(s) <= size ELSE Len(s) < size

Written(s, d) == IF kind = "packet" THEN Append(s, d) ELSE s \o d

(* A write appends to what is there; where it may, it drops as many of the *)
(* oldest bytes as it must, and no more.                                   *)
Write(d) ==
    /\ kind \in {"ring", "packet"}
    /\ \E k \in IF lossy THEN 0 .. Len(stream) ELSE {0} :
        /\ stream' = Written(SubSeq(stream, k + 1, Len(stream)), d)
        /\ Fits(stream')
        /\ k > 0 => ~Fits(Written(SubSeq(stream, k, Len(stream)), d))
    /\ Replies("write", "ok", << >>)
    /\ UNCHANGED <<size, kind, lossy>>

(* A lossy write that fits no ring drops everything and never returns.     *)
Overrun ==
    /\ lossy
    /\ stream' = << >>
    /\ reply' = NoReply
    /\ UNCHANGED <<size, kind, lossy>>

(* A read takes the oldest bytes...                                        *)
ReadBytes ==
    /\ kind = "ring"
    /\ \E n \in 1 .. Len(stream) :
        /\ Replies("read", "ok", SubSeq(stream, 1, n))
        /\ stream' = SubSeq(stream, n + 1, Len(stream))
    /\ UNCHANGED <<size, kind, lossy>>

(* ... or the oldest packet.                                               *)
ReadPacket ==
    /\ kind = "packet"
    /\ stream # << >>
    /\ Replies("read", "ok", Head(stream))
    /\ stream' = Tail(stream)
    /\ UNCHANGED <<size, kind, lossy>>

(* Raw memory keeps no order.                                              *)
Access ==
    /\ kind = "raw"
    /\ reply'.call \in {"read", "write"}
    /\ UNCHANGED <<size, kind, lossy, stream>>

(* A new call begins, a call fails, or it is not about the data.           *)
Answer ==
    /\ \/ reply' = NoReply
       \/ \E c \in {"read", "write", "control", "create", "attach", "detach", "destroy"},
             e \in Errors : Replies(c, e, << >>)
       \/ \E c \in {"control", "attach", "detach", "destroy"} :
             Replies(c, "ok", << >>)
    /\ UNCHANGED <<size, kind, lossy, stream>>

(* A flush empties the region.                                             *)
Flush ==
    /\ stream' = << >>
    /\ Replies("control", "ok", << >>)
    /\ UNCHANGED <<size, kind, lossy>>

(* A region begins and ends with nothing in it.                            *)
Open ==
    /\ kind = "none"
    /\ size' \in Nat /\ kind' \in {"ring", "packet", "raw"}
    /\ lossy' \in BOOLEAN
    /\ stream' = << >>
    /\ Replies("create", "ok", << >>)

Close ==
    /\ kind # "none"
    /\ size' = 0 /\ kind' = "none" /\ lossy' = FALSE /\ stream' = << >>
    /\ reply' \in {NoReply, [call |-> "create", error |-> "no_space", data |-> << >>]}

Next ==
    \/ \E n \in 1 .. size : Write([i \in 1 .. n |-> i])
    \/ Overrun \/ ReadBytes \/ ReadPacket \/ Access
    \/ Answer \/ Flush \/ Open \/ Close

Spec == Init /\ [][Next]_vars
=============================================================================
