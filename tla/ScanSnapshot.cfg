\* One picker that stays, one request.
CONSTANTS
    Pickers = {p1}
    Jobs <- TwoJobs
    Callers = {c1}
    HostOps = {}
    Configs <- OneConfig
    NoPicker = NoPicker
    NoJob = NoJob
    NoSnapshot = NoSnapshot
    Fresh = Fresh
    MaxRequests = 1
\* The system really stops: every thread ends and nobody has to ask again.
CHECK_DEADLOCK FALSE
SPECIFICATION Spec
INVARIANT SnapshotIsLive
