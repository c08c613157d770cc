------------------------------ MODULE VfsFile -------------------------------
(***************************************************************************)
(* Descriptors, open files and nodes of the VFS (m_vfs_core.c, m_vfs_fd.c, *)
(* m_vfs_object.c) over one stream device of devfs (devfs.c,               *)
(* devfs_stream.c): tasks open, duplicate, read, write, poll and close its *)
(* descriptors, the device is unregistered, a job ends, a mount is closed  *)
(* by force.                                                               *)
(*                                                                         *)
(* The core has one CPU: what runs between portENTER_CRITICAL and          *)
(* portEXIT_CRITICAL is one step, also where critical sections nest (the   *)
(* release of a descriptor frees the file, its node and its device record  *)
(* in one), and the reference counts are atomic. Everything else is cut,   *)
(* except that the walk over all tables of m_vfs_fd_foreach is one step.   *)
(* The memory of a file or node that was freed is not given out again      *)
(* (bound), so that who still uses it is seen: the model stops there. The  *)
(* ring of the device is the number of bytes in it (ShmStream has the      *)
(* bytes); offsets and the read cache are in ReadCache. A call that fails  *)
(* at once and changes nothing is no step.                                 *)
(***************************************************************************)
EXTENDS IpcWait, FiniteSets

CONSTANTS
    File, NoFile,   \* the m_vfs_file_t that can be allocated (bound), NULL
    Node, NoNode,   \* the nodes that can be (bound), NULL
    Job, JobOf,     \* who owns a descriptor table; the job of each task
    Kernel,         \* the job whose table is the kernel's: it does not end
    Fd,             \* the descriptors: an interval, the first three reserved
    Capacity,       \* the bytes the ring of the device can hold
    Lengths,        \* the lengths of reads
    Timeouts,       \* the deadlines of calls: "finite", "forever"
    Kinds           \* what the tasks call

(* The sets of a system that is built: finite, and NULL in none of them.   *)
Configured ==
    /\ IsFiniteSet(Task) /\ IsFiniteSet(Job) /\ JobOf \in [Task -> Job]
    /\ IsFiniteSet(File) /\ NoFile \notin File
    /\ IsFiniteSet(Node) /\ NoNode \notin Node
    /\ IsFiniteSet(Fd) /\ Fd \subseteq Nat
    /\ Capacity \in Nat /\ Lengths \subseteq Nat

VARIABLES
    files,          \* m_vfs_file_t: refs, node, closed, destroyed; made: allocated
    nodes,          \* m_vfs_node_t: refs; its device record: listed, entry, mask
    tables,         \* the descriptor tables: m_vfs_fd_entry_t of every job
    ended,          \* the jobs that were destroyed: their table is not found
    stream,         \* devfs_stream_context_t: the bytes used, ready_mask, node
    registered,     \* the device is in s_devfs_entries
    waiters,        \* the wait queue of every file
    pc, op, waiter, \* each task's place, its call, its waiter on the stack
    halted          \* somebody used what was freed: the model stops

fileVars == <<files, nodes, tables, ended>>
devVars  == <<stream, registered>>
taskVars == <<pc, op>>
waitVars == <<waiters, waiter>>
system   == <<fileVars, devVars, taskVars, waitVars>>
vars     == <<system, halted>>

Mask == {"readable", "writable", "error"}

NoOp == [kind |-> "none", fd |-> 0, to |-> 0, file |-> NoFile, node |-> NoNode,
         left |-> 0, timeout |-> "forever", mask |-> {}, then |-> "idle"]

NoEntries == [d \in Fd |-> NoFile]
FirstFd == 3
Open(j) == {d \in Fd : tables[j][d] # NoFile}
Vacant(j) == {d \in Fd \ Open(j) : d >= FirstFd}

(* m_vfs_fd_foreach and m_vfs_fd_close_mount_fds reach the tables of jobs  *)
(* that have not ended.                                                    *)
Reachable == {tables[j][d] : j \in Job \ ended, d \in Fd} \ {NoFile}

-----------------------------------------------------------------------------
(* The steps of a call.                                                    *)
Goto(t, l) == pc' = [pc EXCEPT ![t] = l]

Return(t) ==
    /\ Goto(t, "idle")
    /\ op' = [op EXCEPT ![t] = NoOp]

(* Where a file is let go of in a loop over descriptors, the loop goes on. *)
LetGo(t) == IF op[t].kind \in {"end_job", "close_all"} THEN Goto(t, "evict") /\ UNCHANGED op
                                                       ELSE Return(t)

(* m_vfs_file_wake: every waiter of the files fs.                          *)
Wake(fs, r) ==
    /\ waiters' = [f \in File |-> IF f \in fs THEN << >> ELSE waiters[f]]
    /\ waiter' = [t \in Task |->
            IF \E f \in fs : Contains(waiters[f], t) THEN Woken(waiter[t], r) ELSE waiter[t]]

(* Mutant: it also frees the file when another reference is left.          *)
ReleasedEarly(fs, f) ==
    [fs EXCEPT ![f].refs = IF @ = 0 THEN 0 ELSE @ - 1,
               ![f].destroyed = @ \/ fs[f].refs \in {1, 2}]

(* m_vfs_file_release as the files see it.                                 *)
Released(fs, f) ==
    [fs EXCEPT ![f].refs = IF @ = 0 THEN 0 ELSE @ - 1,
               ![f].destroyed = @ \/ fs[f].refs = 1]

(* m_vfs_file_release of f inside the critical section of a table: with    *)
(* the last reference go the file, its node and the node's device record.  *)
ReleaseLocked(f) ==
    IF files[f].refs # 1 THEN UNCHANGED <<nodes, stream, waitVars>>
    ELSE LET n == files[f].node IN
         /\ Wake({f}, "destroyed")
         /\ nodes' = [nodes EXCEPT ![n].refs = @ - 1, ![n].listed = @ /\ nodes[n].refs > 1]
         /\ stream' = IF nodes[n].refs = 1 /\ nodes[n].entry
                      THEN [stream EXCEPT !.node = NoNode, !.mask = {}] ELSE stream

(* m_vfs_fd_lookup gives the file without a reference to it.               *)
Lookup(t, k, d) ==
    /\ pc[t] = "idle" /\ k \in Kinds /\ JobOf[t] \notin ended
    /\ d \in Open(JobOf[t])

(* What a call on a descriptor is at its beginning.                        *)
On(t, k, d) == [NoOp EXCEPT !.kind = k, !.fd = d, !.file = tables[JobOf[t]][d]]

Begin(t, o, l) ==
    /\ op' = [op EXCEPT ![t] = o]
    /\ Goto(t, l)
    /\ UNCHANGED <<fileVars, devVars, waitVars>>

Read(t) ==
    \E d \in Fd, n \in Lengths, m \in Timeouts :
        Lookup(t, "read", d) /\ Begin(t, [On(t, "read", d) EXCEPT !.left = n, !.timeout = m], "try")

Write(t) ==
    \E d \in Fd, m \in Timeouts :
        Lookup(t, "write", d) /\ Begin(t, [On(t, "write", d) EXCEPT !.left = 1, !.timeout = m], "try")

(* m_vfs_poll on one descriptor.                                           *)
Poll(t) ==
    \E d \in Fd, m \in Timeouts, e \in {"readable", "writable"} :
        /\ Lookup(t, "poll", d)
        /\ Begin(t, [On(t, "poll", d) EXCEPT !.timeout = m, !.mask = {e}], "poll")

Close(t) == \E d \in Fd : Lookup(t, "close", d) /\ Begin(t, On(t, "close", d), "mark")

Dup(t) == \E d \in Fd : Lookup(t, "dup", d) /\ Begin(t, On(t, "dup", d), "allocate")

Dup2(t) ==
    \E d \in Fd, e \in Fd :
        /\ Lookup(t, "dup2", d) /\ d # e
        /\ Begin(t, [On(t, "dup2", d) EXCEPT !.to = e], "vacate")

-----------------------------------------------------------------------------
(* m_vfs_open: devfs_fs_lookup finds the node of the device...             *)
OpenKnown(t) ==
    /\ pc[t] = "idle" /\ "open" \in Kinds /\ JobOf[t] \notin ended
    /\ \E n \in Node :
        /\ nodes[n].listed /\ nodes[n].entry /\ nodes[n].refs > 0
        /\ nodes' = [nodes EXCEPT ![n].refs = @ + 1]
        /\ op' = [op EXCEPT ![t] = [NoOp EXCEPT !.kind = "open", !.node = n]]
    /\ Goto(t, "open")
    /\ UNCHANGED <<files, tables, ended, devVars, waitVars>>

(* ... or makes one, which becomes the stream's.                           *)
OpenNew(t) ==
    /\ pc[t] = "idle" /\ "open" \in Kinds /\ JobOf[t] \notin ended
    /\ registered /\ \A n \in Node : ~(nodes[n].listed /\ nodes[n].entry)
    /\ \E n \in Node :
        /\ ~nodes[n].made
        /\ nodes' = [nodes EXCEPT ![n] =
                [made |-> TRUE, refs |-> 1, listed |-> TRUE, entry |-> TRUE, mask |-> {}]]
        /\ op' = [op EXCEPT ![t] = [NoOp EXCEPT !.kind = "open", !.node = n]]
    /\ Goto(t, "attach")
    /\ UNCHANGED <<files, tables, ended, devVars, waitVars>>

Attach(t) ==
    /\ pc[t] = "attach"
    /\ stream' = [stream EXCEPT !.node = op[t].node]
    /\ op' = [op EXCEPT ![t].then = "open"]
    /\ Goto(t, "query")
    /\ UNCHANGED <<fileVars, registered, waitVars>>

(* devfs_fs_open: the new file takes the reference to the node over from   *)
(* the lookup (m_vfs_open releases it after m_vfs_file_create acquired it).*)
OpenFile(t) ==
    /\ pc[t] = "open" /\ nodes[op[t].node].entry
    /\ \E f \in File :
        /\ ~files[f].made
        /\ files' = [files EXCEPT ![f] = [made |-> TRUE, refs |-> 1, node |-> op[t].node,
                                          closed |-> FALSE, destroyed |-> FALSE]]
        /\ op' = [op EXCEPT ![t].file = f, ![t].node = NoNode]
    /\ Goto(t, "allocate")
    /\ UNCHANGED <<nodes, tables, ended, devVars, waitVars>>

(* The device is gone, or there is no memory for the file.                 *)
OpenFails(t) ==
    /\ pc[t] = "open"
    /\ Goto(t, "unref")
    /\ UNCHANGED <<op, fileVars, devVars, waitVars>>

(* Mutant: the table forgets to acquire the file.                          *)
AllocateUnacquired(t) ==
    /\ pc[t] = "allocate"
    /\ LET j == JobOf[t]
           fd == CHOOSE d \in Vacant(j) : \A e \in Vacant(j) : d <= e
       IN  /\ tables' = IF Vacant(j) = {} THEN tables ELSE [tables EXCEPT ![j][fd] = op[t].file]
           /\ UNCHANGED files
    /\ IF op[t].kind = "open" THEN Goto(t, "release") /\ UNCHANGED op ELSE Return(t)
    /\ UNCHANGED <<nodes, ended, devVars, waitVars>>

(* m_vfs_fd_allocate, for open and dup: the first free descriptor that is  *)
(* not reserved. Then open releases its own reference, whether the table   *)
(* was full or has one now.                                                *)
Allocate(t) ==
    /\ pc[t] = "allocate"
    /\ LET j == JobOf[t]
           fd == CHOOSE d \in Vacant(j) : \A e \in Vacant(j) : d <= e
       IN  IF Vacant(j) = {} THEN UNCHANGED <<files, tables>>
           ELSE /\ tables' = [tables EXCEPT ![j][fd] = op[t].file]
                /\ files' = [files EXCEPT ![op[t].file].refs = @ + 1]
    /\ IF op[t].kind = "open" THEN Goto(t, "release") /\ UNCHANGED op ELSE Return(t)
    /\ UNCHANGED <<nodes, ended, devVars, waitVars>>

(* m_vfs_file_release outside a critical section, which may free the file, *)
Release(t) ==
    /\ pc[t] = "release"
    /\ files' = Released(files, op[t].file)
    /\ IF files[op[t].file].refs = 1 THEN Goto(t, "free") /\ UNCHANGED op ELSE LetGo(t)
    /\ UNCHANGED <<nodes, tables, ended, devVars, waitVars>>

FreeFile(t) ==
    /\ pc[t] = "free"
    /\ Wake({op[t].file}, "destroyed")
    /\ op' = [op EXCEPT ![t].node = files[op[t].file].node]
    /\ Goto(t, "unref")
    /\ UNCHANGED <<fileVars, devVars>>

(* m_vfs_node_release, and with the last reference devfs_node_destroy,     *)
Unref(t) ==
    /\ pc[t] = "unref"
    /\ nodes' = [nodes EXCEPT ![op[t].node].refs = @ - 1]
    /\ IF nodes[op[t].node].refs = 1 THEN Goto(t, "entry") /\ UNCHANGED op ELSE LetGo(t)
    /\ UNCHANGED <<files, tables, ended, devVars, waitVars>>

(* which looks at the entry of the node before it takes the lock,          *)
ReadEntry(t) ==
    /\ pc[t] = "entry"
    /\ op' = [op EXCEPT ![t].then = IF nodes[op[t].node].entry THEN "detach" ELSE "idle"]
    /\ Goto(t, "unlist")
    /\ UNCHANGED <<fileVars, devVars, waitVars>>

Unlist(t) ==
    /\ pc[t] = "unlist"
    /\ nodes' = [nodes EXCEPT ![op[t].node].listed = FALSE]
    /\ IF op[t].then = "detach" THEN Goto(t, "detach") /\ UNCHANGED op ELSE LetGo(t)
    /\ UNCHANGED <<files, tables, ended, devVars, waitVars>>

(* and detaches the stream from whatever node it has.                      *)
Detach(t) ==
    /\ pc[t] = "detach"
    /\ stream' = [stream EXCEPT !.node = NoNode, !.mask = {}]
    /\ LetGo(t)
    /\ UNCHANGED <<fileVars, registered, waitVars>>

-----------------------------------------------------------------------------
(* The loops of _m_vfs_read_internal and _m_vfs_write_internal. An attempt *)
(* of the driver moves what it can; then, also when it moved nothing, the  *)
(* stream refreshes its readiness (the "query" step and what follows).     *)
Refresh(t, o) == op' = [op EXCEPT ![t] = o] /\ Goto(t, "query")

TryRead(t) ==
    /\ pc[t] = "try" /\ op[t].kind = "read" /\ nodes[files[op[t].file].node].entry
    /\ LET got  == IF stream.used < op[t].left THEN stream.used ELSE op[t].left
           left == op[t].left - got
       IN  /\ stream' = [stream EXCEPT !.used = @ - got]
           /\ Refresh(t, [op[t] EXCEPT !.left = left,
                    !.then = IF left = 0 THEN "offset" ELSE IF got = 0 THEN "wait" ELSE "try"])
    /\ UNCHANGED <<fileVars, registered, waitVars>>

TryWrite(t) ==
    /\ pc[t] = "try" /\ op[t].kind = "write" /\ nodes[files[op[t].file].node].entry
    /\ IF stream.used < Capacity
       THEN /\ stream' = [stream EXCEPT !.used = @ + 1]
            /\ Refresh(t, [op[t] EXCEPT !.left = 0, !.then = "offset"])
       ELSE /\ UNCHANGED stream
            /\ Refresh(t, [op[t] EXCEPT !.then = "wait"])
    /\ UNCHANGED <<fileVars, registered, waitVars>>

(* m_vfs_file_set_offset, after the last bytes.                            *)
SetOffset(t) ==
    /\ pc[t] = "offset"
    /\ Return(t)
    /\ UNCHANGED <<fileVars, devVars, waitVars>>

(* Every turn of m_vfs_poll looks the descriptor up again;                 *)
LookAgain(t) ==
    /\ pc[t] = "look"
    /\ LET f == tables[JobOf[t]][op[t].fd] IN
        IF f = NoFile THEN Return(t) ELSE Goto(t, "poll") /\ op' = [op EXCEPT ![t].file = f]
    /\ UNCHANGED <<fileVars, devVars, waitVars>>

(* devfs_stream_poll reads the readiness that was stored last.             *)
PollMask(t) ==
    /\ pc[t] = "poll" /\ nodes[files[op[t].file].node].entry
    /\ IF op[t].mask \cap stream.mask # {} THEN Return(t)
                                           ELSE Goto(t, "wait") /\ UNCHANGED op
    /\ UNCHANGED <<fileVars, devVars, waitVars>>

(* The device was unregistered: the call returns.                          *)
DeviceGone(t) ==
    /\ pc[t] \in {"try", "poll"} /\ ~nodes[files[op[t].file].node].entry
    /\ Return(t)
    /\ UNCHANGED <<fileVars, devVars, waitVars>>

(* Mutant: the wait does not look at what the file has become.             *)
WaitUnchecked(t) ==
    /\ pc[t] = "wait"
    /\ waiters' = [waiters EXCEPT ![op[t].file] = Append(@, t)]
    /\ waiter' = [waiter EXCEPT ![t] = PreparedWaiter]
    /\ Goto(t, "parked") /\ UNCHANGED op
    /\ UNCHANGED <<fileVars, devVars>>

(* m_vfs_file_wait: a file that was closed is not waited on.               *)
Wait(t) ==
    /\ pc[t] = "wait"
    /\ IF files[op[t].file].closed \/ files[op[t].file].destroyed
       THEN Return(t) /\ UNCHANGED waitVars
       ELSE /\ waiters' = [waiters EXCEPT ![op[t].file] = Append(@, t)]
            /\ waiter' = [waiter EXCEPT ![t] = PreparedWaiter]
            /\ Goto(t, "parked") /\ UNCHANGED op
    /\ UNCHANGED <<fileVars, devVars>>

BlockTaken(t) ==
    /\ pc[t] = "parked" /\ waiter[t].given
    /\ Goto(t, "leave")
    /\ UNCHANGED <<op, fileVars, devVars, waitVars>>

BlockTimeout(t) ==
    /\ pc[t] = "parked" /\ op[t].timeout = "finite" /\ ~waiter[t].given
    /\ waiter' = [waiter EXCEPT ![t] = TimedOut(@)]
    /\ Goto(t, "leave")
    /\ UNCHANGED <<op, waiters, fileVars, devVars>>

(* Back under wait_lock; a wait that ended well is followed by a new       *)
(* attempt, even when it was the close that ended it.                      *)
Leave(t) ==
    /\ pc[t] = "leave"
    /\ waiters' = [waiters EXCEPT ![op[t].file] = SelectSeq(@, LAMBDA u : u # t)]
    /\ waiter' = [waiter EXCEPT ![t] = NoWaiter]
    /\ IF waiter[t].result # "ok" THEN Return(t)
       ELSE Goto(t, IF op[t].kind = "poll" THEN "look" ELSE "try") /\ UNCHANGED op
    /\ UNCHANGED <<fileVars, devVars>>

-----------------------------------------------------------------------------
(* devfs_stream_refresh_ready: the readiness of the ring is computed,      *)
Ready(s) == (IF s.used > 0 THEN {"readable"} ELSE {})
                \cup (IF s.used < Capacity THEN {"writable"} ELSE {})

Query(t) ==
    /\ pc[t] = "query"
    /\ op' = [op EXCEPT ![t].mask = Ready(stream)]
    /\ Goto(t, "store")
    /\ UNCHANGED <<fileVars, devVars, waitVars>>

Then(t) == Goto(t, op[t].then) /\ UNCHANGED op

(* stored, and told to the node the stream has if it is new (or if the     *)
(* node is).                                                               *)
Store(t) ==
    /\ pc[t] = "store"
    /\ stream' = [stream EXCEPT !.mask = op[t].mask]
    /\ IF stream.node # NoNode /\ (op[t].mask # stream.mask \/ op[t].kind = "open")
       THEN Goto(t, "notify") /\ op' = [op EXCEPT ![t].node = stream.node]
       ELSE Then(t)
    /\ UNCHANGED <<fileVars, registered, waitVars>>

(* devfs_notify: the device record takes the mask over, and if it was      *)
(* another, or an error,                                                   *)
Notify(t) ==
    /\ pc[t] = "notify"
    /\ nodes' = [nodes EXCEPT ![op[t].node].mask = op[t].mask]
    /\ IF nodes[op[t].node].mask # op[t].mask \/ "error" \in op[t].mask
       THEN Goto(t, "foreach") /\ UNCHANGED op
       ELSE Then(t)
    /\ UNCHANGED <<files, tables, ended, devVars, waitVars>>

(* who waits on a file of the node is woken.                               *)
Foreach(t) ==
    /\ pc[t] = "foreach"
    /\ Wake({f \in Reachable : files[f].node = op[t].node}, "ok")
    /\ Then(t)
    /\ UNCHANGED <<fileVars, devVars>>

-----------------------------------------------------------------------------
(* m_vfs_close marks the file closed, even if other descriptors share it,  *)
MarkClosed(t) ==
    /\ pc[t] = "mark"
    /\ files' = [files EXCEPT ![op[t].file].closed = TRUE]
    /\ Goto(t, "closing")
    /\ UNCHANGED <<op, nodes, tables, ended, devVars, waitVars>>

(* wakes who waits on it,                                                  *)
NotifyClosed(t) ==
    /\ pc[t] = "closing"
    /\ Wake({op[t].file}, "ok")
    /\ Goto(t, IF op[t].kind = "close" THEN "unlink" ELSE "release")
    /\ UNCHANGED <<op, fileVars, devVars>>

(* m_vfs_fd_release, of the descriptor fd with whatever is there by then.  *)
Vacated(t, fd) ==
    LET j == JobOf[t]
        f == tables[j][fd]
    IN  IF f = NoFile THEN UNCHANGED <<fileVars, stream, waitVars>>
        ELSE /\ tables' = [tables EXCEPT ![j][fd] = NoFile]
             /\ files' = Released(files, f)
             /\ ReleaseLocked(f)
             /\ UNCHANGED ended

(* and releases the descriptor.                                            *)
Unlink(t) ==
    /\ pc[t] = "unlink"
    /\ Vacated(t, op[t].fd)
    /\ Return(t)
    /\ UNCHANGED registered

(* m_vfs_dup2 first releases the descriptor it is to assign.               *)
Vacate(t) ==
    /\ pc[t] = "vacate"
    /\ Vacated(t, op[t].to)
    /\ Goto(t, "assign") /\ UNCHANGED op
    /\ UNCHANGED registered

(* m_vfs_fd_assign: by now the descriptor may have been given out again.   *)
Assign(t) ==
    /\ pc[t] = "assign"
    /\ LET j == JobOf[t]
           f == tables[j][op[t].to]
       IN  /\ tables' = [tables EXCEPT ![j][op[t].to] = op[t].file]
           /\ files' = [(IF f = NoFile THEN files ELSE Released(files, f))
                            EXCEPT ![op[t].file].refs = @ + 1]
           /\ IF f = NoFile THEN UNCHANGED <<nodes, stream, waitVars>> ELSE ReleaseLocked(f)
    /\ Return(t)
    /\ UNCHANGED <<ended, registered>>

-----------------------------------------------------------------------------
(* _m_vfs_job_destroyed_cb takes the table of a job whose calls are over   *)
(* out of the list, and m_vfs_fd_close_mount_fds goes through all of them; *)
(* each closes one file after another.                                     *)
EndJob(t) ==
    /\ pc[t] = "idle" /\ "end_job" \in Kinds /\ JobOf[t] \notin ended
    /\ \E j \in Job \ (ended \cup {JobOf[t], Kernel}) :
        /\ \A u \in Task : JobOf[u] = j => pc[u] = "idle"
        /\ ended' = ended \cup {j}
    /\ op' = [op EXCEPT ![t] = [NoOp EXCEPT !.kind = "end_job"]]
    /\ Goto(t, "evict")
    /\ UNCHANGED <<files, nodes, tables, devVars, waitVars>>

CloseAll(t) ==
    /\ pc[t] = "idle" /\ "close_all" \in Kinds
    /\ Begin(t, [NoOp EXCEPT !.kind = "close_all"], "evict")

(* The tables the loop looks into.                                         *)
Swept(t) == IF op[t].kind = "end_job" THEN ended ELSE Job \ ended

Evict(t) ==
    /\ pc[t] = "evict"
    /\ \E j \in Swept(t) :
        /\ Open(j) # {}
        /\ LET fd == CHOOSE d \in Open(j) : \A e \in Open(j) : d <= e IN
            /\ op' = [op EXCEPT ![t].file = tables[j][fd]]
            /\ tables' = [tables EXCEPT ![j][fd] = NoFile]
    /\ Goto(t, "mark")
    /\ UNCHANGED <<files, nodes, ended, devVars, waitVars>>

SweepEnds(t) ==
    /\ pc[t] = "evict" /\ \A j \in Swept(t) : Open(j) = {}
    /\ Return(t)
    /\ UNCHANGED <<fileVars, devVars, waitVars>>

(* devfs_unregister: the entry leaves the list; its node is told of an     *)
(* error and a hangup, and only then loses the entry.                      *)
Unregister(t) ==
    /\ pc[t] = "idle" /\ "unregister" \in Kinds /\ registered
    /\ registered' = FALSE
    /\ LET known == {n \in Node : nodes[n].listed /\ nodes[n].entry} IN
        IF known = {} THEN UNCHANGED taskVars
        ELSE /\ \E n \in known : op' = [op EXCEPT ![t] = [NoOp EXCEPT !.kind = "unregister",
                                        !.node = n, !.mask = {"error"}, !.then = "disown"]]
             /\ Goto(t, "notify")
    /\ UNCHANGED <<fileVars, stream, waitVars>>

Disown(t) ==
    /\ pc[t] = "disown"
    /\ nodes' = [nodes EXCEPT ![op[t].node].entry = FALSE]
    /\ Goto(t, "detach")
    /\ UNCHANGED <<op, files, tables, ended, devVars, waitVars>>

-----------------------------------------------------------------------------
Init ==
    /\ files = [f \in File |-> [made |-> FALSE, refs |-> 0, node |-> NoNode,
                                closed |-> FALSE, destroyed |-> FALSE]]
    /\ nodes = [n \in Node |-> [made |-> FALSE, refs |-> 0, listed |-> FALSE,
                                entry |-> FALSE, mask |-> {}]]
    /\ tables = [j \in Job |-> NoEntries] /\ ended = {}
    /\ stream = [used |-> 0, mask |-> {"writable"}, node |-> NoNode]
    /\ registered = TRUE
    /\ waiters = [f \in File |-> << >>]
    /\ pc = [t \in Task |-> "idle"] /\ op = [t \in Task |-> NoOp]
    /\ waiter = [t \in Task |-> NoWaiter]
    /\ halted = FALSE

Calls(t) ==
    \/ OpenKnown(t) \/ OpenNew(t) \/ Read(t) \/ Write(t) \/ Poll(t) \/ Close(t)
    \/ Dup(t) \/ Dup2(t) \/ EndJob(t) \/ CloseAll(t) \/ Unregister(t)

Step(t) ==
    \/ Attach(t) \/ OpenFile(t) \/ OpenFails(t) \/ Allocate(t) \/ Release(t) \/ FreeFile(t)
    \/ Unref(t) \/ ReadEntry(t) \/ Unlist(t) \/ Detach(t) \/ TryRead(t) \/ TryWrite(t)
    \/ SetOffset(t) \/ LookAgain(t) \/ PollMask(t) \/ DeviceGone(t) \/ Wait(t)
    \/ BlockTaken(t) \/ BlockTimeout(t) \/ Leave(t)
    \/ Query(t) \/ Store(t) \/ Notify(t) \/ Foreach(t) \/ MarkClosed(t) \/ NotifyClosed(t)
    \/ Unlink(t) \/ Vacate(t) \/ Assign(t) \/ Evict(t) \/ SweepEnds(t) \/ Disown(t)

(* A file is freed once its last release is through, a node once           *)
(* devfs_node_destroy is, an entry at the end of devfs_unregister.         *)
FileGone(f) == files[f].destroyed /\ \A t \in Task : pc[t] = "free" => op[t].file # f

NodeGone(n) ==
    /\ nodes[n].refs = 0
    /\ \A t \in Task : pc[t] \in {"entry", "unlist", "detach"} =>
            op[t].node # n \/ op[t].kind = "unregister"

EntryGone == ~registered /\ \A t \in Task : op[t].kind # "unregister"

(* What t does next is to use what was freed, or to take a reference to    *)
(* what will be freed all the same: nothing on the way checks that.        *)
Strays(t) ==
    LET f == op[t].file IN
    \/ /\ pc[t] \in {"try", "poll", "wait", "leave", "offset", "mark", "closing"}
       /\ FileGone(f)
    \/ pc[t] = "allocate" /\ Vacant(JobOf[t]) # {} /\ files[f].refs = 0
    \/ /\ pc[t] = "assign"
       /\ files[f].refs = 0 \/ (files[f].refs = 1 /\ tables[JobOf[t]][op[t].to] = f)
    \/ pc[t] \in {"notify", "disown"} /\ NodeGone(op[t].node)
    \/ pc[t] = "attach" /\ EntryGone
    \/ pc[t] \in {"unlist", "detach"} /\ op[t].then = "detach" /\ EntryGone

FindsFreed(t) ==
    /\ pc[t] = "idle" /\ "open" \in Kinds /\ JobOf[t] \notin ended
    /\ \E n \in Node : nodes[n].listed /\ nodes[n].entry /\ nodes[n].refs = 0

Halt == halted' = TRUE /\ UNCHANGED system

Begins(t) ==
    /\ ~halted
    /\ \/ Calls(t) /\ UNCHANGED halted
       \/ FindsFreed(t) /\ Halt

Runs(t) == ~halted /\ IF Strays(t) THEN Halt ELSE Step(t) /\ UNCHANGED halted

Next == \E t \in Task : Begins(t) \/ Runs(t)

Spec == Init /\ [][Next]_vars

(* The scheduler runs every ready task, and deadlines pass.                *)
FairSpec == Spec /\ \A t \in Task : WF_vars(Runs(t))

-----------------------------------------------------------------------------
(* Properties.                                                             *)

(* Every variable has its type.                                            *)
TypeOK ==
    /\ files \in [File -> [made : BOOLEAN, refs : Nat, node : Node \cup {NoNode},
                           closed : BOOLEAN, destroyed : BOOLEAN]]
    /\ nodes \in [Node -> [made : BOOLEAN, refs : Nat, listed : BOOLEAN, entry : BOOLEAN,
                           mask : SUBSET Mask]]
    /\ tables \in [Job -> [Fd -> File \cup {NoFile}]] /\ ended \subseteq Job
    /\ stream \in [used : 0 .. Capacity, mask : SUBSET Mask, node : Node \cup {NoNode}]
    /\ registered \in BOOLEAN /\ waiters \in [File -> Seq(Task)]
    /\ DOMAIN pc = Task /\ DOMAIN op = Task /\ waiter \in [Task -> Waiter]
    /\ halted \in BOOLEAN

(* The tasks that hold a reference of their own to the file: an open that  *)
(* has not released its own yet, a sweep that took it out of a table.      *)
Holders(f) ==
    {t \in Task : /\ op[t].file = f
                  /\ \/ op[t].kind = "open" /\ pc[t] \in {"allocate", "release"}
                     \/ /\ op[t].kind \in {"end_job", "close_all"}
                        /\ pc[t] \in {"mark", "closing", "release"}}

(* Every reference to an open file is one of a descriptor or of a task on  *)
(* its way, and the file is freed with the last of them: none is lost and  *)
(* none counted twice, whatever descriptors were duplicated, assigned over *)
(* or swept; and a node is held by the files and lookups it has.           *)
RefsCounted ==
    /\ \A f \in File :
        /\ files[f].refs = Cardinality({p \in Job \X Fd : tables[p[1]][p[2]] = f})
                                + Cardinality(Holders(f))
        /\ files[f].made => (files[f].destroyed <=> files[f].refs = 0)
    /\ \A n \in Node : nodes[n].refs =
            Cardinality({f \in File : files[f].node = n /\ ~files[f].destroyed})
          + Cardinality({t \in Task : /\ pc[t] \in {"attach", "query", "store", "notify",
                                                    "foreach", "open", "unref"}
                                      /\ op[t].kind = "open" /\ op[t].node = n})
          + Cardinality({t \in Task : \/ pc[t] = "free" /\ files[op[t].file].node = n
                                      \/ pc[t] = "unref" /\ op[t].kind # "open" /\ op[t].node = n})

(* "pipe close wakes reader" (devfs_tests.c): nobody stays parked on a     *)
(* file that has been closed, through whatever descriptor.                 *)
OnClosed(t) == pc[t] = "parked" /\ files[op[t].file].closed
CloseWakes == \A t \in Task : OnClosed(t) ~> pc[t] = "idle" \/ halted
=============================================================================
