---------------------------- MODULE MCIpcNotify ----------------------------
(***************************************************************************)
(* Instances of IpcEventFlags, IpcSignal, IpcShm and IpcChannel for TLC,   *)
(* side by side: a run begins in one of them and stays there.              *)
(*   flags     - (the constants of the .cfg) two tasks and one listener;   *)
(*   told      - one task, all it can do, and three listeners;             *)
(*   waiting   - three tasks that wait for bits, without listeners;        *)
(*   signal, signal_told, signal_waiting - the same for a signal;          *)
(*   shm       - two tasks that wait forever to move a byte;               *)
(*   channel   - three tasks that wait forever to send and to receive      *)
(*           messages that fit every buffer.                               *)
(***************************************************************************)
EXTENDS IpcEventFlags

CONSTANTS t1, t2, t3, l1, l2, l3

VARIABLES
    instance,
    signal,                                             \* of IpcSignal
    generation, allocated, issued, ret,                 \* of IpcShm and IpcChannel
    region, queue, link, waiting, attachment, halted, scan,
    destroyed, capacity, messages, head, tail, depth,   \* of IpcChannel
    waiting_senders, waiting_receivers, send_waiters, recv_waiters, lock

Three == {t1, t2, t3}
Same(tasks) == [t \in tasks |-> 1]
One == {t1}
Two == {t1, t2}
PrioTwo == Same(Two)

One_listener == {l1}
Some == {{1}, {1, 2}}

AllKinds == {"set", "clear", "try_wait", "wait", "subscribe", "unsubscribe", "destroy"}
Unheard == {"set", "clear", "try_wait", "wait", "destroy"}

Told == INSTANCE IpcEventFlags WITH
    Task <- One, Prio <- Same(One), Listener <- {l1, l2, l3}, MaxListeners <- 2,
    Bits <- {1, 2}, Modes <- {"auto_clear", "manual_clear"}, MaskModes <- {"superset"},
    Changes <- {{1}, {2}}, Wanted <- {{1}}, WaitTypes <- {"any", "all"},
    Timeouts <- {"zero"}, Kinds <- AllKinds

Waiting == INSTANCE IpcEventFlags WITH
    Task <- Three, Prio <- Same(Three), Listener <- {}, MaxListeners <- 0,
    Bits <- {1, 2}, Modes <- {"auto_clear", "manual_clear"},
    MaskModes <- {"exact", "superset"},
    Changes <- {{1}, {2}}, Wanted <- {{1}, {1, 2}},
    WaitTypes <- {"any", "all", "mask"}, Timeouts <- {"forever"}, Kinds <- Unheard

Signal == INSTANCE IpcSignal WITH
    Task <- Two, Prio <- PrioTwo, Listener <- {l1}, MaxListeners <- 1,
    Modes <- {"counting", "one_shot"}, Timeouts <- {"finite", "zero"}, Kinds <- AllKinds,
    MaxCounter <- 2

SignalTold == INSTANCE IpcSignal WITH
    Task <- One, Prio <- Same(One), Listener <- {l1, l2, l3}, MaxListeners <- 2,
    Modes <- {"counting", "one_shot"}, Timeouts <- {"zero"}, Kinds <- AllKinds,
    MaxCounter <- 2

SignalWaiting == INSTANCE IpcSignal WITH
    Task <- Three, Prio <- Same(Three), Listener <- {l1}, MaxListeners <- 1,
    Modes <- {"counting", "one_shot"}, Timeouts <- {"forever"},
    Kinds <- {"set", "try_wait", "wait", "subscribe", "destroy"}, MaxCounter <- 2

Shm == INSTANCE IpcShm WITH
    Task <- Two, Prio <- PrioTwo,
    RegionSize <- [m \in {"raw", "ring", "packet"} |-> IF m = "packet" THEN 4 ELSE 2],
    PacketMax <- 0, RegionModes <- {"ring"}, Policies <- {"block"},
    Lengths <- {1}, BufferSizes <- {1}, Waits <- {"forever"},
    Accesses <- {"r", "w"}, Commands <- {},
    MaxGen <- 1, MaxAttached <- 3, MaxWaiting <- 2, Null <- NoListener

Channel == INSTANCE IpcChannel WITH
    Task <- Three, Prio <- [t \in Three |-> IF t = t3 THEN 2 ELSE 1], NoTask <- NoListener,
    Capacity <- 2, MessageSize <- 1, Lengths <- {1}, BufferSizes <- {1},
    Modes <- {"forever"}, MaxGen <- 1, OrderlyReuse <- TRUE

(* What IpcSignalProofs assumes of the constants, of those chosen here.    *)
ASSUME NotifyConfigured ==
    /\ Configured /\ Told!Configured /\ Waiting!Configured
    /\ Signal!Configured /\ SignalTold!Configured /\ SignalWaiting!Configured

flagVars    == <<flags, listeners, told, walk>>
shmVars     == <<region, queue, link, waiting, attachment, halted, scan>>
channelVars == <<destroyed, capacity, messages, head, tail, depth,
                 waiting_senders, waiting_receivers, send_waiters, recv_waiters, lock>>

(* What an instance does not have stays what it is.                        *)
noSignal  == signal = << >>
noFlags   == flags = << >> /\ listeners = << >> /\ told = << >> /\ walk = << >>
noQueue   == waiters = << >> /\ waiting_tasks = 0
noSlot    == generation = 0 /\ allocated = FALSE /\ issued = 0 /\ ret = << >>
noShm     == /\ region = << >> /\ queue = << >> /\ link = << >> /\ waiting = << >>
             /\ attachment = << >> /\ halted = FALSE /\ scan = << >>
noChannel == /\ destroyed = FALSE /\ capacity = 0 /\ messages = << >>
             /\ head = 0 /\ tail = 0 /\ depth = 0
             /\ waiting_senders = 0 /\ waiting_receivers = 0
             /\ send_waiters = << >> /\ recv_waiters = << >> /\ lock = NoListener

slotVars      == <<generation, allocated, issued, ret>>
flagsOthers   == <<signal, slotVars, shmVars, channelVars, instance>>
signalOthers  == <<flags, slotVars, shmVars, channelVars, instance>>
shmOthers     == <<signal, flagVars, waiters, waiting_tasks, channelVars, instance>>
channelOthers == <<signal, flagVars, waiters, shmVars, instance>>
allVars       == <<vars, signal, slotVars, shmVars, channelVars, instance>>

MCInit ==
    \/ /\ noSlot /\ noShm /\ noChannel
       /\ \/ /\ noSignal
             /\ \/ instance = "flags" /\ Init
                \/ instance = "told" /\ Told!Init
                \/ instance = "waiting" /\ Waiting!Init
          \/ /\ flags = << >>
             /\ \/ instance = "signal" /\ Signal!Init
                \/ instance = "signal_told" /\ SignalTold!Init
                \/ instance = "signal_waiting" /\ SignalWaiting!Init
    \/ /\ noSignal /\ noFlags
       /\ \/ instance = "shm" /\ Shm!Init /\ noQueue /\ noChannel
          \/ instance = "channel" /\ Channel!Init /\ waiters = << >> /\ noShm

MCNext ==
    \/ instance = "flags" /\ Next /\ UNCHANGED flagsOthers
    \/ instance = "told" /\ Told!Next /\ UNCHANGED flagsOthers
    \/ instance = "waiting" /\ Waiting!Next /\ UNCHANGED flagsOthers
    \/ instance = "signal" /\ Signal!Next /\ UNCHANGED signalOthers
    \/ instance = "signal_told" /\ SignalTold!Next /\ UNCHANGED signalOthers
    \/ instance = "signal_waiting" /\ SignalWaiting!Next /\ UNCHANGED signalOthers
    \/ instance = "shm" /\ Shm!Next /\ UNCHANGED shmOthers
    \/ instance = "channel" /\ Channel!Next /\ UNCHANGED channelOthers

(* What fairness demands of a task, in the instance that runs.             *)
StepOf(t) ==
    \/ instance = "flags" /\ t \in Two /\ Step(t) /\ UNCHANGED flagsOthers
    \/ instance = "waiting" /\ Waiting!Step(t) /\ UNCHANGED flagsOthers
    \/ instance = "signal" /\ t \in Two /\ Signal!Step(t) /\ UNCHANGED signalOthers
    \/ instance = "signal_waiting" /\ SignalWaiting!Step(t) /\ UNCHANGED signalOthers
    \/ instance = "shm" /\ t \in Two /\ Shm!Step(t) /\ UNCHANGED shmOthers
    \/ instance = "channel" /\ Channel!Step(t) /\ UNCHANGED channelOthers

MCSpec == MCInit /\ [][MCNext]_allVars /\ \A t \in Three : WF_allVars(StepOf(t))

-----------------------------------------------------------------------------
(* The properties, each in the instances it is about.                      *)

(* Every variable has its type.                                            *)
TypesOK ==
    CASE instance = "flags" -> TypeOK
      [] instance = "told" -> Told!TypeOK
      [] instance = "waiting" -> Waiting!TypeOK
      [] instance = "signal" -> Signal!TypeOK
      [] instance = "signal_told" -> SignalTold!TypeOK
      [] instance = "signal_waiting" -> SignalWaiting!TypeOK
      [] instance = "shm" -> Shm!TypeOK
      [] OTHER -> Channel!TypeOK

(* Who waits on flags or a signal can be woken, and is counted: the queues *)
(* survive deadlines, wakes and a destroy that is cut in two by listeners. *)
MCWaitersCounted ==
    CASE instance = "flags" -> WaitersCounted
      [] instance = "waiting" -> Waiting!WaitersCounted
      [] instance = "signal" -> Signal!WaitersCounted
      [] instance = "signal_waiting" -> SignalWaiting!WaitersCounted
      [] OTHER -> TRUE

(* Nobody is forgotten in a queue beside what he waits for, although a set *)
(* leaves the critical section between the indication and the wake.        *)
MCNobodyForgotten ==
    CASE instance = "flags" -> SatisfiedServed
      [] instance = "waiting" -> Waiting!SatisfiedServed
      [] instance = "signal_waiting" -> SignalWaiting!NoLostWakeup
      [] OTHER -> TRUE

(* After each call of a task that is alone, every listener knows the       *)
(* readiness: no operation changes it without telling.                     *)
MCListenersCurrent ==
    /\ instance = "told" => Told!ListenersCurrent
    /\ instance = "signal_told" => SignalTold!ListenersCurrent

(* A bit that clears itself wakes one task.                                *)
MCBitServesOne == [][instance = "waiting" => Waiting!ServesOne]_allVars

(* Who is called back is subscribed.                                       *)
MCCallbacksSubscribed == [][instance = "flags" => CallbackSubscribed]_allVars

(* Every message in a channel, while receivers wait, has a woken receiver, *)
(* and every free slot, while senders wait, a woken sender.                *)
MCChannelWakes == instance = "channel" => Channel!NoLostWakeup

(* A task waits on a channel beside a message ("Wakes once a slot is       *)
(* populated", ipc_channel.h says of the receive) or a free slot ("block   *)
(* until space is available", of the send), or is in a call on one that is *)
(* destroyed.                                                              *)
LingersOnChannel(t) ==
    \/ pc[t] = "wait" /\ op[t].kind = "recv" /\ ~Channel!Empty
    \/ pc[t] = "wait" /\ op[t].kind = "send" /\ ~Channel!Full
    \/ pc[t] # "idle" /\ destroyed

LingersAnywhere(t) ==
    CASE instance = "waiting" -> Waiting!Lingers(t)
      [] instance = "signal_waiting" -> SignalWaiting!Lingers(t)
      [] instance = "shm" -> t \in Two /\ Shm!Lingers(t)
      [] instance = "channel" -> LingersOnChannel(t)
      [] OTHER -> FALSE

(* Nobody waits for ever beside what he waits for, or for an object that   *)
(* is destroyed: on flags, on a signal, on a shared memory region, on a    *)
(* channel.                                                                *)
MCWaitersWake == \A t \in Three : LingersAnywhere(t) ~> ~LingersAnywhere(t)
=============================================================================
