\* Two regions that do not touch; three pointers.
CONSTANTS
    Place = {s1, s2, s3}
    Header = 1
    RegionSize = 6
    MaxRegions = 4
    Bases = {10, 20}
    Sizes = {1, 2, 4}
    Word = 64
SPECIFICATION Spec
INVARIANT BlocksInRegions
