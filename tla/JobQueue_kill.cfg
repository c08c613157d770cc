\* The queue is destroyed while a handler runs.
CONSTANTS
    NoTask = NoTask
    NoJob = NoJob
    Client = {c1, c2}
    Worker = {w1}
    Task <- Tasks
    Prio <- SamePrio
    Job = {j1}
    Capacity = 1
    Ops = {"submit", "wait", "queue_destroy"}
    Modes = {"forever"}
    AllocFails = FALSE
    OrderlyDestroy = TRUE
SPECIFICATION FairSpec
PROPERTY WaiterReturns
CHECK_DEADLOCK FALSE
