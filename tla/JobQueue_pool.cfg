\* Two workers; the queue is destroyed once nobody submits; jobs are cancelled; see MCJobs for the other instances.
CONSTANTS
    w1 = w1
    c1 = d1
    c2 = d2
    j1 = k1
    j2 = k2
    v1 = v1
    v2 = v2
    l1 = l1
    l2 = l2
    NoValue = NoValue
    NoTask = NoTask
    NoJob = NoJob
    Client = {c1, c2}
    Worker = {w1, w2}
    Task <- Tasks
    Prio <- SamePrio
    Job = {j1, j2, j3}
    Capacity = 2
    Ops = {"submit", "cancel", "queue_destroy"}
    Modes = {"timed"}
    AllocFails = FALSE
    OrderlyDestroy = TRUE
    Kinds = {"given", "pool"}
SPECIFICATION JobsSpec
INVARIANTS TypeOK WaitListsMatch NothingFreedInUse DestroyCancels MCHeapSound MCContextsSound MCTasksSound MCTimeKept
PROPERTY ImplementsJobPool
SYMMETRY Equals
CHECK_DEADLOCK FALSE
