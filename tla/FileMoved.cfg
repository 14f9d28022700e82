\* A directory is moved away with its files.
CONSTANTS
    a = a
    b = b
    d1 = d1
    Paths = {a, b}
    Dirs = {d1}
    NoDir = NoDir
    Under <- MCUnder
    Flat <- MCFlat
    Dirty = {b}
    Kinds <- AllKinds
    MaxOverflow = 1
    MaxSlack = 0
    MaxPaths = 2
    MaxChanges = 1
\* The system really stops: the disk is left alone at some point.
CHECK_DEADLOCK FALSE
SPECIFICATION Spec
INVARIANT MovesAreSeen
