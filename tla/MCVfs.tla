------------------------------- MODULE MCVfs --------------------------------
(***************************************************************************)
(* Instances of VfsMount, VfsFile, ReadCache and VfsPath for TLC, side by  *)
(* side: a run begins in one of them and stays there.                      *)
(*   mounts  - (the constants of the .cfg) two tasks mount, unmount and    *)
(*             open on one mount point;                                    *)
(*   crowd   - three tasks on one mount point, for the lock;               *)
(*   full    - one task, more mounts than slots, two mount points, one     *)
(*             below the other;                                            *)
(*   sharing - two tasks of one job share a table and its files;           *)
(*   jobs    - two tasks of two jobs, one of which may end;                *)
(*   stream  - two tasks wait, without a deadline, to read or write;       *)
(*   removal - and on one that is unregistered meanwhile;                  *)
(*   cache   - one task reads two files through the read cache;            *)
(*   races   - two tasks read, write and seek in two files, two entries;   *)
(*   device  - two tasks read two devices, one entry;                      *)
(*   paths   - a path is normalised, segment by segment.                   *)
(***************************************************************************)
EXTENDS VfsMount

CONSTANTS t1, t2, t3, m1, f1, f2, n1, n2, j1, k0, NoFile, NoNode

VARIABLES
    instance,
    nodes, tables, ended, stream, registered, waiters, op, waiter,  \* of VfsFile
    table, recent, offset, position, size, transfer,                \* of ReadCache
    absolute, path, segments, actual_count, rejected                \* of VfsPath

Two   == {t1, t2}
Three == {t1, t2, t3}
Same(tasks) == [t \in tasks |-> 1]
In(j) == [t \in Two |-> IF t = t1 THEN j ELSE k0]

Crowd == INSTANCE VfsMount WITH
    Task <- Three, Fresh <- Fresh, Target <- {1},
    Kinds <- {"mount", "open"}

Full == INSTANCE VfsMount WITH
    Task <- {t1}, Fresh <- Mount, Target <- {1, 2},
    Kinds <- {"mount", "unmount", "force", "open"}

Sharing == INSTANCE VfsFile WITH
    Task <- Two, Prio <- Same(Two), File <- {f1, f2}, Node <- {n1},
    Job <- {k0}, JobOf <- In(k0), Kernel <- k0, Fd <- {3, 4}, Capacity <- 1,
    Lengths <- {1}, Timeouts <- {"finite"},
    Kinds <- {"open", "close", "dup", "dup2", "read"}

Jobs == INSTANCE VfsFile WITH
    Task <- Two, Prio <- Same(Two), File <- {f1, f2}, Node <- {n1},
    Job <- {j1, k0}, JobOf <- In(j1), Kernel <- k0, Fd <- {3, 4}, Capacity <- 1,
    Lengths <- {1}, Timeouts <- {"finite"},
    Kinds <- {"open", "close", "end_job", "close_all"}

Stream == INSTANCE VfsFile WITH
    Task <- Two, Prio <- Same(Two), File <- {f1}, Node <- {n1},
    Job <- {k0}, JobOf <- In(k0), Kernel <- k0, Fd <- {3, 4}, Capacity <- 1,
    Lengths <- {1}, Timeouts <- {"forever"},
    Kinds <- {"open", "close", "dup", "read", "write"}

Removal == INSTANCE VfsFile WITH
    Task <- Two, Prio <- Same(Two), File <- {f1}, Node <- {n1},
    Job <- {k0}, JobOf <- In(k0), Kernel <- k0, Fd <- {3, 4}, Capacity <- 1,
    Lengths <- {1}, Timeouts <- {"forever"},
    Kinds <- {"open", "close", "read", "poll", "unregister"}

Cache == INSTANCE ReadCache WITH
    Task <- {t1}, File <- {f1, f2}, Entries <- 2, Block <- 2, Lengths <- {1, 3},
    Size <- 5, MaxByte <- 5, Device <- FALSE, Kinds <- {"read", "close"}

Races == INSTANCE ReadCache WITH
    Task <- Two, File <- {f1}, Entries <- 1, Block <- 2, Lengths <- {2},
    Size <- 2, MaxByte <- 3, Device <- FALSE, Kinds <- {"read", "write", "seek", "flush"}

Device == INSTANCE ReadCache WITH
    Task <- Two, File <- {f1, f2}, Entries <- 1, Block <- 2, Lengths <- {3},
    Size <- 1, MaxByte <- 2, Device <- TRUE, Kinds <- {"read"}

Paths == INSTANCE VfsPath WITH
    Name <- {"a", "b"}, LongName <- "long", SegmentMax <- 3, MaxLength <- 6

(* What VfsFileProofs assumes of the constants, of those chosen here.      *)
ASSUME InstancesConfigured ==
    Sharing!Configured /\ Jobs!Configured /\ Stream!Configured /\ Removal!Configured

fileOnly  == <<nodes, tables, ended, stream, registered, waiters, op, waiter>>
cacheOnly == <<table, recent, offset, position, size, transfer>>
pathOnly  == <<absolute, path, segments, actual_count, rejected>>
mountOnly == <<types, slots, count, sequence, writer, readers, mounts>>
vfsOnly   == <<files, fileOnly, mountOnly, halted>>
notMount  == <<fileOnly, cacheOnly, pathOnly, instance>>
notFile   == <<mountOnly, call, cacheOnly, pathOnly, instance>>
notCache  == <<vfsOnly, pathOnly, instance>>

noFile  == /\ nodes = << >> /\ tables = << >> /\ ended = {} /\ stream = << >>
           /\ registered = FALSE /\ waiters = << >> /\ op = << >> /\ waiter = << >>
noMount == /\ types = {} /\ slots = [i \in Slot |-> NoMount] /\ count = 0 /\ sequence = 0
           /\ writer = FALSE /\ readers = 0 /\ mounts = [m \in Mount |-> [index |-> 0]]
noFiles == files = << >> /\ noFile /\ noMount /\ halted = FALSE
noPath  == absolute = FALSE /\ path = << >> /\ segments = << >> /\ actual_count = 0
           /\ rejected = FALSE
noCache == /\ table = << >> /\ recent = << >> /\ offset = << >> /\ position = << >>
           /\ size = << >> /\ transfer = << >>

MCInit ==
    \/ instance = "mounts" /\ Init /\ noFile /\ noCache /\ noPath
    \/ instance = "crowd" /\ Crowd!Init /\ noFile /\ noCache /\ noPath
    \/ instance = "full" /\ Full!Init /\ noFile /\ noCache /\ noPath
    \/ instance = "sharing" /\ Sharing!Init /\ noMount /\ noCache /\ noPath /\ call = << >>
    \/ instance = "jobs" /\ Jobs!Init /\ noMount /\ noCache /\ noPath /\ call = << >>
    \/ instance = "stream" /\ Stream!Init /\ noMount /\ noCache /\ noPath /\ call = << >>
    \/ instance = "removal" /\ Removal!Init /\ noMount /\ noCache /\ noPath /\ call = << >>
    \/ instance = "cache" /\ Cache!Init /\ noFiles /\ noPath
    \/ instance = "races" /\ Races!Init /\ noFiles /\ noPath
    \/ instance = "device" /\ Device!Init /\ noFiles /\ noPath
    \/ instance = "paths" /\ Paths!Init /\ noFiles /\ noCache /\ pc = << >> /\ call = << >>

MCNext ==
    \/ instance = "mounts" /\ Next /\ UNCHANGED notMount
    \/ instance = "crowd" /\ Crowd!Next /\ UNCHANGED notMount
    \/ instance = "full" /\ Full!Next /\ UNCHANGED notMount
    \/ instance = "sharing" /\ Sharing!Next /\ UNCHANGED notFile
    \/ instance = "jobs" /\ Jobs!Next /\ UNCHANGED notFile
    \/ instance = "stream" /\ Stream!Next /\ UNCHANGED notFile
    \/ instance = "removal" /\ Removal!Next /\ UNCHANGED notFile
    \/ instance = "cache" /\ Cache!Next /\ UNCHANGED notCache
    \/ instance = "races" /\ Races!Next /\ UNCHANGED notCache
    \/ instance = "device" /\ Device!Next /\ UNCHANGED notCache
    \/ instance = "paths" /\ Paths!Next /\ UNCHANGED <<vfsOnly, pc, call, cacheOnly, instance>>

allVars == <<vars, fileOnly, cacheOnly, pathOnly, instance>>

(* What fairness demands of a task, in the instances that wait.            *)
StepOf(t) ==
    \/ instance = "crowd" /\ Crowd!Step(t) /\ UNCHANGED notMount
    \/ instance = "stream" /\ t \in Two /\ Stream!Runs(t) /\ UNCHANGED notFile
    \/ instance = "removal" /\ t \in Two /\ Removal!Runs(t) /\ UNCHANGED notFile

MCSpec == MCInit /\ [][MCNext]_allVars /\ \A t \in Three : WF_allVars(StepOf(t))

-----------------------------------------------------------------------------
(* The properties, each in the instances it is about.                      *)

(* Every variable has its type.                                            *)
TypesOK ==
    CASE instance = "mounts" -> TypeOK
      [] instance = "crowd" -> Crowd!TypeOK
      [] instance = "full" -> Full!TypeOK
      [] instance = "sharing" -> Sharing!TypeOK
      [] instance = "jobs" -> Jobs!TypeOK
      [] instance = "stream" -> Stream!TypeOK
      [] instance = "removal" -> Removal!TypeOK
      [] instance = "cache" -> Cache!TypeOK
      [] instance = "races" -> Races!TypeOK
      [] instance = "device" -> Device!TypeOK
      [] OTHER -> Paths!TypeOK

(* A reader of the registry has no freed mount in hand.                    *)
MCReadersSeeLive ==
    CASE instance = "mounts" -> ReadersSeeLive
      [] instance = "crowd" -> Crowd!ReadersSeeLive
      [] instance = "full" -> Full!ReadersSeeLive
      [] OTHER -> TRUE

(* References to files and nodes are counted, and the last one frees.      *)
MCFilesKept ==
    CASE instance = "sharing" -> Sharing!RefsCounted
      [] instance = "jobs" -> Jobs!RefsCounted
      [] OTHER -> TRUE

(* Nobody waits for ever: a writer of the registry gets in, however many   *)
(* readers come again, and nobody stays parked on a file that was closed   *)
(* (while nobody uses what was freed: there the model stops).              *)
Draining(t) == instance = "crowd" /\ pc[t] = "write_drain"

OnClosed(t) ==
    \/ instance = "stream" /\ Stream!OnClosed(t)
    \/ instance = "removal" /\ Removal!OnClosed(t)

MCWaitersGetOn ==
    /\ \A t \in Three : Draining(t) ~> ~Draining(t)
    /\ \A t \in Two : OnClosed(t) ~> (instance \in {"stream", "removal"} => pc[t] = "idle" \/ halted)

(* Whoever reads a file from its start gets its bytes, through the cache.  *)
MCTransparent == instance = "cache" => Cache!Transparent

(* The normal form of a path leads where the path leads.                   *)
MCPathsCanonical == instance = "paths" => Paths!PathsCanonical
=============================================================================
