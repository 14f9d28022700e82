\* Up to three operators; a class of two bytes is expanded, one of three is not.
CONSTANTS
    Bytes = {"a", "b", "t"}
    Printable = {"a", "b"}
    Literals <- MCLiterals
    Classes <- MCClasses
    Counts <- MCCounts
    MaxClass = 2
    MaxLen = 4
    MaxSteps = 3
    MaxNeedle = 9
    Probes = 7
\* Expressions are as large as they may be.
CHECK_DEADLOCK FALSE
SPECIFICATION QuerySpec
INVARIANTS
    MatchesPass
    EndsAreKnown
    OneTypoPasses
