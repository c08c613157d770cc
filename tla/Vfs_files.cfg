\* Two tasks on one mount point; see MCVfs for the other instances.
CONSTANTS
    t1 = t1
    t2 = t2
    t3 = t3
    m1 = m1
    f1 = f1
    f2 = f2
    n1 = n1
    n2 = n2
    j1 = j1
    k0 = k0
    NoFile = NoFile
    NoNode = NoNode
    NoMount = NoMount
    Task <- Two
    Mount = {m1, m2, m3}
    Fresh = {m1, m2}
    Target = {1}
    FsType = {y1}
    MaxMounts = 2
    MaxOpen = 1
    Kinds = {"mount", "unmount", "force", "open", "types"}
SPECIFICATION MCSpec
INVARIANTS TypesOK RegistryConsistent MCReadersSeeLive MCFilesKept MCTransparent MCPathsCanonical
PROPERTIES MCWaitersGetOn
CHECK_DEADLOCK FALSE
