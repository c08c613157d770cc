\* A call with timeout 0 finds the channel full or empty.
CONSTANTS
    t1 = t1
    t2 = t2
    t3 = t3
    NoTask = NoTask
    Task <- TwoTasks
    Prio <- TwoPrio
    Capacity = 1
    MessageSize = 1
    Lengths = {1}
    BufferSizes = {1}
    Modes = {"try", "zero"}
    MaxGen = 1
    OrderlyReuse = TRUE
SPECIFICATION FairSpec
PROPERTY TryReturns
CHECK_DEADLOCK FALSE
