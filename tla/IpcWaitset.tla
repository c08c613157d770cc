----------------------------- MODULE IpcWaitset -----------------------------
(***************************************************************************)
(* The listeners that signals and event flags tell about their readiness   *)
(* (ipc_waitset.h), as operators on values. The listener structures belong *)
(* to the subscribers and are linked into a list of the object:            *)
(*   head - the first listener, or NoListener;                             *)
(*   next - the next field of every listener, linked or not;               *)
(*   count - waitset_listeners.                                            *)
(* A task that tells the listeners drops the object's lock for each        *)
(* callback. Its walk is a record                                          *)
(*   now   - the listener whose callback is to run;                        *)
(*   next  - the one after it, read before the lock was dropped;           *)
(*   ready - what it tells.                                                *)
(***************************************************************************)
EXTENDS IpcWait, FiniteSets

CONSTANTS
    Listener,       \* the listeners subscribers own
    NoListener,     \* NULL
    MaxListeners    \* CONFIG_MAGNOLIA_IPC_WAITSET_MAX_ENTRIES

ASSUME ListenerAssumption == NoListener \notin Listener /\ MaxListeners \in Nat

(* The lists of listeners out of a set, and the list of none of them.      *)
ListenerList(ls) ==
    [head : ls \cup {NoListener}, next : [ls -> ls \cup {NoListener}], count : Nat]

NoListeners(ls) ==
    [head |-> NoListener, next |-> [l \in ls |-> NoListener], count |-> 0]

Walk(ls) == [now : ls \cup {NoListener}, next : ls \cup {NoListener}, ready : BOOLEAN]
NoWalk == [now |-> NoListener, next |-> NoListener, ready |-> FALSE]

(* The listeners one reaches from the head.                                *)
Subscribed(list) ==
    LET reached[k \in 0 .. Cardinality(Listener)] ==
            IF k = 0 THEN list.head
            ELSE IF reached[k - 1] = NoListener THEN NoListener
            ELSE list.next[reached[k - 1]]
    IN  {reached[k] : k \in DOMAIN reached} \ {NoListener}

(* A subscription links the listener in front.                             *)
Subscribe(list, l) ==
    [head |-> l, next |-> [list.next EXCEPT ![l] = list.head],
     count |-> list.count + 1]

Decrement(n) == IF n > 0 THEN n - 1 ELSE 0

(* Its end unlinks a listener that is linked and clears its next field.    *)
Unsubscribe(list, l) ==
    [head  |-> IF list.head = l THEN list.next[l] ELSE list.head,
     next  |-> [k \in Listener |->
                   IF k = l THEN NoListener
                   ELSE IF list.next[k] = l /\ k \in Subscribed(list) THEN list.next[l]
                   ELSE list.next[k]],
     count |-> Decrement(list.count)]

(* The walk as it is when it has read a listener, with the lock held.      *)
WalkTo(list, l, ready) ==
    [now |-> l, next |-> list.next[l], ready |-> ready]
=============================================================================
