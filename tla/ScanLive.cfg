\* One picker that may be cancelled, taken or left alone, and one rescan.
CONSTANTS
    Pickers = {p1}
    Jobs <- TwoJobs
    Callers = {c1}
    HostOps = {"cancel", "take"}
    Configs <- BothConfigs
    NoPicker = NoPicker
    NoJob = NoJob
    NoSnapshot = NoSnapshot
    Fresh = Fresh
    MaxRequests = 1
\* The system really stops: every thread ends and nobody has to ask again.
CHECK_DEADLOCK FALSE
SPECIFICATION Spec
PROPERTIES
    ScanSettles
    WatcherReadyEventually
    DeferredRescanRuns
