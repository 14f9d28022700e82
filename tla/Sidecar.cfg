\* Two clients that run twice between them, one cleanup, one fault.
CONSTANTS
    Clients = {c1, c2}
    NoClient = NoClient
    MaxPids = 4
    MaxCalls = 2
    MaxCleanups = 1
    MaxFaults = 1
CHECK_DEADLOCK FALSE
SPECIFICATION Spec
INVARIANTS
    OneSidecar
    NoSidecarLeaks
    OneFailureIsHidden
PROPERTIES
    EveryRunEnds
