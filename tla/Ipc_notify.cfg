\* Two tasks and one listener on event flags; see MCIpcNotify for the rest.
CONSTANTS
    t1 = t1
    t2 = t2
    t3 = t3
    l1 = l1
    l2 = l2
    l3 = l3
    Task <- Two
    Prio <- PrioTwo
    Listener <- One_listener
    NoListener = NoListener
    MaxListeners = 1
    Bits = {1, 2}
    Modes = {"auto_clear", "manual_clear"}
    MaskModes = {"exact"}
    Changes <- Some
    Wanted <- Some
    WaitTypes = {"any", "mask"}
    Timeouts = {"finite", "zero"}
    Kinds <- AllKinds
SPECIFICATION MCSpec
INVARIANTS TypesOK MCWaitersCounted MCNobodyForgotten MCListenersCurrent MCChannelWakes
PROPERTIES MCBitServesOne MCWaitersWake
CHECK_DEADLOCK FALSE
