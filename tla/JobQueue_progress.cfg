\* Clients that wait without a deadline, for a slot and for a result.
CONSTANTS
    w1 = w1
    NoTask = NoTask
    NoJob = NoJob
    Client = {c1, c2}
    Worker = {w1}
    Task <- Tasks
    Prio <- SamePrio
    Job = {j1, j2, j3}
    Capacity = 1
    Ops = {"submit", "wait"}
    Modes = {"forever"}
    AllocFails = FALSE
    OrderlyDestroy = TRUE
    Kinds = {"given"}
SPECIFICATION MCFairSpec
PROPERTIES JobCompletes WaiterReturns BlockedSubmitterWakes
CHECK_DEADLOCK FALSE
