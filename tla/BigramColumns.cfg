\* Two threads, three bigrams and a column to spare; the counter wraps after
\* seven.
CONSTANTS
    Threads = {t1, t2}
    Chunks = {0, 1}
    FilesOf <- MCFilesOf
    WordOf <- MCWordOf
    Keys = {"ab", "bc", "cd"}
    KeysOf <- MCKeysOf
    MaxColumns = 4
    Wrap = 7
    NoColumn = NoColumn
    NoChunk = NoChunk
    NoFile = NoFile
    NoKey = NoKey
\* The build ends.
CHECK_DEADLOCK FALSE
SPECIFICATION Spec
INVARIANTS
    TypeOK
    ColumnsAreComplete
    NothingDropped
PROPERTIES
    BuildEnds
