\* Every call of three tasks; see MCIpcCalls for which of them make which.
CONSTANTS
    t1 = t1
    t2 = t2
    t3 = t3
    NoTask = NoTask
    Task <- ThreeTasks
    Prio <- ThreePrio
    Capacity = 2
    MessageSize = 2
    Lengths = {0, 1, 2}
    BufferSizes = {0, 1, 2}
    Modes = {"try", "zero", "finite", "forever"}
    MaxGen = 2
    OrderlyReuse = TRUE
SPECIFICATION MCSpec
INVARIANTS TypeOK RingConsistent QueuedAreParked ParkedAreQueued WaitersCounted
PROPERTIES WakeOrder ImplementsBoundedChannel
SYMMETRY Equals
CHECK_DEADLOCK FALSE
