\* Two files of one directory, and room for one more than the walk found.
CONSTANTS
    a = a
    b = b
    d1 = d1
    Paths = {a, b}
    Dirs = {d1}
    NoDir = NoDir
    Under <- MCUnder
    Flat <- MCFlat
    Dirty = {b}
    Kinds <- AllKinds
    MaxOverflow = 1
    MaxSlack = 0
    MaxPaths = 2
    MaxChanges = 4
\* The system really stops: the disk is left alone at some point.
CHECK_DEADLOCK FALSE
SPECIFICATION Spec
INVARIANTS
    TypeOK
    NoPathTwice
    IndexIsCurrent
PROPERTIES
    EventuallyCurrent
    ImplementsTrackedFiles
