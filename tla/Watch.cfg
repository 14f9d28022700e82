\* A directory b in a, a file in each; five changes of the disk and one rescan.
CONSTANTS
    a = a
    b = b
    x = x
    y = y
    Dirs = {a, b}
    Files = {x, y}
    Root = root
    NoDir = none
    Parent <- MCParent
    MaxOps = 5
    MaxRescans = 1
CHECK_DEADLOCK FALSE
SPECIFICATION Spec
INVARIANTS
    FilesAreSeen
PROPERTIES
    StopEndsOwner
