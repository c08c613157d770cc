\* At most two tasks at a time on a ring of one byte; see MCIpcShm for the other instances.
CONSTANTS
    t1 = t1
    t2 = t2
    t3 = t3
    Null = Null
    Task <- ThreeTasks
    Prio <- PrioThree
    RegionSize <- SmallSizes
    PacketMax = 0
    RegionModes = {"ring"}
    Policies = {"block"}
    Lengths = {1}
    BufferSizes = {1}
    Waits = {"finite"}
    Accesses = {"r", "w"}
    Commands = {}
    MaxGen = 2
    MaxAttached = 2
    MaxWaiting = 2
SPECIFICATION MCSpec
INVARIANTS TypesOK RegionKept
PROPERTIES MCImplementsShmStream
SYMMETRY Equals
CHECK_DEADLOCK FALSE
