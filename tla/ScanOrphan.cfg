\* Two pickers, the first cancelled before the second is created.
CONSTANTS
    Pickers = {p1, p2}
    Jobs <- TwoJobs
    Callers = {c1}
    HostOps = {"cancel"}
    Configs <- OneConfig
    NoPicker = NoPicker
    NoJob = NoJob
    NoSnapshot = NoSnapshot
    Fresh = Fresh
    MaxRequests = 0
\* The system really stops: every thread ends and nobody has to ask again.
CHECK_DEADLOCK FALSE
SPECIFICATION Spec
INVARIANT OrphansDiscard
