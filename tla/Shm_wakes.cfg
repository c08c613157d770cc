\* One writer and two readers that wait for ever to move a byte: the instance three of
\* MCIpcShm. (The other constants are those of Shm_region.)
CONSTANTS
    t1 = t1
    t2 = t2
    t3 = t3
    Null = Null
    Task <- ThreeTasks
    Prio <- PrioThree
    RegionSize <- SmallSizes
    PacketMax = 0
    RegionModes = {"ring"}
    Policies = {"block"}
    Lengths = {1}
    BufferSizes = {1}
    Waits = {"finite"}
    Accesses = {"r", "w"}
    Commands = {}
    MaxGen = 2
    MaxAttached = 2
    MaxWaiting = 2
SPECIFICATION WakesSpec
PROPERTIES MCWaiterWakes
CHECK_DEADLOCK FALSE
