\* One typo in the middle of three letters, for which one is allowed.
CONSTANTS
    Bytes = {"a", "b", "t"}
    Printable = {"a", "b"}
    Literals <- MCLiterals
    Classes <- MCClasses
    Counts <- MCCounts
    MaxClass = 2
    MaxLen = 4
    MaxSteps = 0
    MaxNeedle = 6
    Probes = 7
\* The needle is as long as it may be.
CHECK_DEADLOCK FALSE
SPECIFICATION QuerySpec
INVARIANTS
    EveryTypoPasses
