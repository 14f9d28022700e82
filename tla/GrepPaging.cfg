\* Three files in chunks of two, pages of two matches.
CONSTANTS
    NumFiles = 3
    MaxHits = 2
    PageLimit = 2
    ChunkSize = 2
    MaxResults = 2
    MaxCursors = 1
    MaxPages = 4
\* The client stops at the last page.
CHECK_DEADLOCK FALSE
SPECIFICATION PagingSpec
INVARIANTS
    NoMatchSkipped
    NoMatchTwice
PROPERTIES
    PagingEnds
