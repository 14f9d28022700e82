\* Two pickers, one after the other, and a rescan of either.
CONSTANTS
    Pickers = {p1, p2}
    Jobs <- ThreeJobs
    Callers = {c1}
    HostOps = {"take"}
    Configs <- OneConfig
    NoPicker = NoPicker
    NoJob = NoJob
    NoSnapshot = NoSnapshot
    Fresh = Fresh
    MaxRequests = 1
\* The system really stops: every thread ends and nobody has to ask again.
CHECK_DEADLOCK FALSE
SPECIFICATION Spec
SYMMETRY PickerSymmetry
INVARIANTS
    TypeOK
    ScanningHasScanner
    IndexingHasHolder
    WaitForScanSeesFiles
