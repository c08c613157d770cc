\* One reader of one device that delivers what it has.
CONSTANTS
    Task = {t1}
    File = {f1}
    Entries = 2
    Block = 2
    Lengths = {1, 2}
    Size = 8
    MaxByte = 8
    Device = TRUE
    Kinds = {"read"}
SPECIFICATION Spec
INVARIANT Transparent
CHECK_DEADLOCK FALSE
