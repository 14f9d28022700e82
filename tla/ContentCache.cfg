\* Two files, one of them pushed after the scan; two threads of searches and one
\* worker of the post-scan phase.
CONSTANTS
    Items = {f, o}
    Overflow = {o}
    Searchers = {s1, s2}
    Workers = {w1}
    NoItem = NoItem
    SizeOf <- MCSizeOf
    Limits <- MCLimits
    MaxEdits = 1
SPECIFICATION CacheSpec
INVARIANTS
    CacheTypeOK
    EveryCellCounted
    OvershootIsBounded
    CacheIsFresh
