\* Files are created while the directory they are in is listed.
CONSTANTS
    a = a
    b = b
    d1 = d1
    Paths = {a, b}
    Dirs = {d1}
    NoDir = NoDir
    Under <- MCUnder
    Flat <- MCFlat
    Dirty = {b}
    Kinds <- AllKinds
    MaxOverflow = 1
    MaxSlack = 1
    MaxPaths = 2
    MaxChanges = 3
\* The system really stops: the disk is left alone at some point.
CHECK_DEADLOCK FALSE
SPECIFICATION Spec
PROPERTY LossIsRescanned
