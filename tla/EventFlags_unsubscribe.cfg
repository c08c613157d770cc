\* The instances of Ipc_notify; the event flags with a listener are asked.
CONSTANTS
    t1 = t1
    t2 = t2
    t3 = t3
    l1 = l1
    l2 = l2
    l3 = l3
    Task <- Two
    Prio <- PrioTwo
    Listener <- One_listener
    NoListener = NoListener
    MaxListeners = 1
    Bits = {1, 2}
    Modes = {"auto_clear", "manual_clear"}
    MaskModes = {"exact"}
    Changes <- Some
    Wanted <- Some
    WaitTypes = {"any", "mask"}
    Timeouts = {"finite", "zero"}
    Kinds <- AllKinds
SPECIFICATION MCSpec
PROPERTIES MCCallbacksSubscribed
CHECK_DEADLOCK FALSE
