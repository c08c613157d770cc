------------------------------- MODULE VfsPath -------------------------------
(***************************************************************************)
(* Path names (kernel/core/vfs/path/m_vfs_path.c): m_vfs_path_normalize    *)
(* reads a path segment by segment and keeps those that its normal form    *)
(* has; m_vfs_path_parse splits the normal form again.                     *)
(*                                                                         *)
(* The characters of a name are left out, and so is the failure when the   *)
(* normal form is longer than its buffer.  The slashes between segments    *)
(* are not counted: any number of them is one.                             *)
(***************************************************************************)
EXTENDS Integers, Sequences, SequencesExt, Folds

CONSTANTS
    Name,           \* names of files, "." and ".." not among them
    LongName,       \* any name of M_VFS_NAME_MAX_LEN characters or more
    SegmentMax,     \* M_VFS_PATH_SEGMENT_MAX
    MaxLength       \* bound: the segments of the paths that are read

Dot    == "."
DotDot == ".."

VARIABLES
    absolute,       \* the path begins with a slash
    path,           \* its segments up to cursor
    segments,       \* those its normal form has so far
    actual_count,   \* how many of them are names
    rejected        \* m_vfs_path_normalize returned false

vars == <<absolute, path, segments, actual_count, rejected>>

Init ==
    /\ absolute \in BOOLEAN
    /\ path = << >> /\ segments = << >> /\ actual_count = 0
    /\ rejected = FALSE

-----------------------------------------------------------------------------
Reject == rejected' = TRUE /\ UNCHANGED <<segments, actual_count>>

(* A segment is kept while there is room for it.                           *)
Keep(segment, names) ==
    IF Len(segments) >= SegmentMax
    THEN Reject
    ELSE /\ segments' = Append(segments, segment)
         /\ actual_count' = actual_count + names
         /\ UNCHANGED rejected

(* Mutant: the name that goes is still counted.                            *)
BackUncounted(i) == segments' = SubSeq(segments, 1, i - 1) /\ UNCHANGED <<actual_count, rejected>>

(* Back to before segment i.                                               *)
Back(i) ==
    /\ segments' = SubSeq(segments, 1, i - 1)
    /\ actual_count' = IF segments[i] = DotDot THEN actual_count ELSE actual_count - 1
    /\ UNCHANGED rejected

LastName == CHOOSE i \in DOMAIN segments :
    segments[i] # DotDot /\ \A k \in i + 1 .. Len(segments) : segments[k] = DotDot

Up ==
    CASE absolute /\ segments # << >> -> Back(Len(segments))
      [] absolute /\ segments = << >> -> UNCHANGED <<segments, actual_count, rejected>>
      [] ~absolute /\ actual_count > 0 -> Back(LastName)
      [] OTHER -> Keep(DotDot, 0)

Read(segment) ==
    /\ ~rejected /\ Len(path) < MaxLength
    /\ path' = Append(path, segment)
    /\ CASE segment = LongName -> Reject
         [] segment = Dot      -> UNCHANGED <<segments, actual_count, rejected>>
         [] segment = DotDot   -> Up
         [] OTHER              -> Keep(segment, 1)
    /\ UNCHANGED absolute

Next == \E segment \in Name \cup {Dot, DotDot, LongName} : Read(segment)

Spec == Init /\ [][Next]_vars

-----------------------------------------------------------------------------
(* m_vfs_path_parse: the normal form of the empty path is a dot.           *)
Parsed == IF segments = << >> /\ ~absolute THEN <<Dot>> ELSE segments

TypeOK ==
    /\ absolute \in BOOLEAN /\ rejected \in BOOLEAN
    /\ path \in Seq(Name \cup {Dot, DotDot, LongName})
    /\ segments \in Seq(Name \cup {DotDot}) /\ actual_count \in 0 .. SegmentMax

(* Where one comes from a directory by a segment, the parent of the root   *)
(* being the root.                                                         *)
Step(place, segment) ==
    CASE segment = Dot -> place
      [] segment = DotDot -> IF place = << >> THEN << >> ELSE Front(place)
      [] OTHER -> Append(place, segment)

Walk(place, p) == FoldLeft(Step, place, p)

(* Where paths begin: the root, or some directory.                         *)
Starts ==
    IF absolute THEN {<< >>}
    ELSE {[i \in 1 .. depth |-> i] : depth \in 0 .. MaxLength}

(* The normal form leads from everywhere to where the path leads (in a     *)
(* tree: no name is that of a link), and is the shortest that does: dots   *)
(* come only at the start of a relative path, or alone.                    *)
PathsCanonical ==
    ~rejected =>
        /\ \A start \in Starts : Walk(start, Parsed) = Walk(start, path)
        /\ \A i \in DOMAIN segments : segments[i] = DotDot =>
              ~absolute /\ \A k \in 1 .. i : segments[k] = DotDot
        /\ actual_count = Len(SelectSeq(segments, LAMBDA s : s # DotDot))
=============================================================================
