---------------------------- MODULE BigramColumns ----------------------------
(***************************************************************************)
(* The parallel build of a bigram index (BigramIndexBuilder in             *)
(* bigram_filter.rs): threads take chunks of files, allocate a column for  *)
(* a bigram the first time any of them meets it, with a shared counter and *)
(* a compare-and-swap, and set the file's bit in the column with a plain   *)
(* read and write of the word that holds it.                               *)
(*                                                                         *)
(* The counter is a u16 that goes on counting once the columns are used    *)
(* up, and wraps.                                                          *)
(***************************************************************************)
EXTENDS Naturals, FiniteSets

CONSTANTS
    Threads,
    Chunks,             \* BIGRAM_CHUNK_FILES files each
    FilesOf,            \* [Chunks -> files]
    WordOf,             \* [files -> words]: file_idx / 64
    Keys, KeysOf,       \* bigrams, and those of each file
    MaxColumns,         \* MAX_BIGRAM_COLUMNS
    Wrap,               \* the values of next_column
    NoColumn, NoChunk, NoFile, NoKey

Files == UNION {FilesOf[c] : c \in Chunks}
Words == {WordOf[f] : f \in Files}
Columns == 0..(MaxColumns - 1)

(* The chunks are as large as whole words: par_chunks(4 * 64).             *)
ASSUME ColumnAssumption ==
    /\ FilesOf \in [Chunks -> SUBSET Files]
    /\ DOMAIN WordOf = Files /\ KeysOf \in [Files -> SUBSET Keys]
    /\ \A c, d \in Chunks : \A f \in FilesOf[c], g \in FilesOf[d] :
            WordOf[f] = WordOf[g] => c = d
    /\ MaxColumns \in Nat /\ Wrap \in Nat /\ MaxColumns < Wrap
    /\ NoColumn \notin Nat /\ NoChunk \notin Chunks /\ NoFile \notin Files /\ NoKey \notin Keys

VARIABLES
    lookup,             \* [Keys -> column]
    next,               \* next_column
    refused,            \* GHOST: some thread found the columns used up
    slab,               \* [Columns -> [Words -> set of files whose bit is set]]
    todo,               \* chunks no thread has taken
    at,                 \* per thread: what it does next
    chunk, file, key,   \* ... its chunk, file and bigram
    seen,               \* ... the bigrams it has recorded of its file
    got,                \* ... the column it was given
    word,               \* ... the value of the word it read
    done                \* files whose content is in

thread == <<at, chunk, file, key, seen, got, word>>
vars == <<lookup, next, refused, slab, todo, thread, done>>

TypeOK ==
    /\ lookup \in [Keys -> Columns \cup {NoColumn}]
    /\ next \in 0..(Wrap - 1) /\ refused \in BOOLEAN
    /\ slab \in [Columns -> [Words -> SUBSET Files]]
    /\ todo \subseteq Chunks
    /\ at \in [Threads -> {"idle", "file", "key", "alloc", "swap", "read", "write"}]
    /\ chunk \in [Threads -> Chunks \cup {NoChunk}]
    /\ file \in [Threads -> Files \cup {NoFile}]
    /\ key \in [Threads -> Keys \cup {NoKey}]
    /\ seen \in [Threads -> SUBSET Keys]
    /\ got \in [Threads -> Columns \cup {NoColumn}]
    /\ word \in [Threads -> SUBSET Files]
    /\ done \subseteq Files

Goes(t, step) == at' = [at EXCEPT ![t] = step]
-----------------------------------------------------------------------------
\* rayon's par_chunks, and the files of a chunk one after the other.
TakeChunk(t) ==
    /\ at[t] = "idle"
    /\ \E c \in todo :
        /\ chunk' = [chunk EXCEPT ![t] = c]
        /\ todo' = todo \ {c}
    /\ Goes(t, "file")
    /\ UNCHANGED <<lookup, next, refused, slab, file, key, seen, got, word, done>>

NextFile(t) ==
    /\ at[t] = "file"
    /\ \E f \in FilesOf[chunk[t]] \ done : file' = [file EXCEPT ![t] = f]
    /\ seen' = [seen EXCEPT ![t] = {}]
    /\ Goes(t, "key")
    /\ UNCHANGED <<lookup, next, refused, slab, todo, chunk, key, got, word, done>>

EndChunkEarly(t) ==
    /\ at[t] = "file"
    /\ chunk' = [chunk EXCEPT ![t] = NoChunk]
    /\ Goes(t, "idle")
    /\ UNCHANGED <<lookup, next, refused, slab, todo, file, key, seen, got, word, done>>

EndChunk(t) ==
    /\ at[t] = "file"
    /\ FilesOf[chunk[t]] \subseteq done
    /\ chunk' = [chunk EXCEPT ![t] = NoChunk]
    /\ Goes(t, "idle")
    /\ UNCHANGED <<lookup, next, refused, slab, todo, file, key, seen, got, word, done>>

\* record_bigram, once for each bigram of the file: load the lookup table.
LoadColumn(t) ==
    /\ at[t] = "key"
    /\ \E k \in KeysOf[file[t]] \ seen[t] :
        /\ key' = [key EXCEPT ![t] = k]
        /\ seen' = [seen EXCEPT ![t] = @ \cup {k}]
        /\ got' = [got EXCEPT ![t] = lookup[k]]
        /\ Goes(t, IF lookup[k] = NoColumn THEN "alloc" ELSE "read")
    /\ UNCHANGED <<lookup, next, refused, slab, todo, chunk, file, word, done>>

EndFile(t) ==
    /\ at[t] = "key"
    /\ KeysOf[file[t]] \subseteq seen[t]
    /\ done' = done \cup {file[t]}
    /\ Goes(t, "file")
    /\ UNCHANGED <<lookup, next, refused, slab, todo, chunk, file, key, seen, got, word>>

UsedUpLate == next > MaxColumns
UsedUpEarly == next + 1 >= MaxColumns
UsedUp == next >= MaxColumns

\* get_or_alloc_column: past the cap there is no column for the bigram.
FetchAdd(t) ==
    /\ at[t] = "alloc"
    /\ next' = (next + 1) % Wrap
    /\ refused' = (refused \/ next >= MaxColumns)
    /\ IF UsedUp
       THEN Goes(t, "key") /\ UNCHANGED got
       ELSE Goes(t, "swap") /\ got' = [got EXCEPT ![t] = next]
    /\ UNCHANGED <<lookup, slab, todo, chunk, file, key, seen, word, done>>

CompareExchangeOwn(t) ==
    /\ at[t] = "swap"
    /\ lookup' = IF lookup[key[t]] = NoColumn THEN [lookup EXCEPT ![key[t]] = got[t]] ELSE lookup
    /\ Goes(t, "read")
    /\ UNCHANGED <<next, refused, slab, todo, chunk, file, key, seen, got, word, done>>

\* compare_exchange: the loser takes the winner's column, and its own is lost.
CompareExchange(t) ==
    /\ at[t] = "swap"
    /\ IF lookup[key[t]] = NoColumn
       THEN lookup' = [lookup EXCEPT ![key[t]] = got[t]] /\ UNCHANGED got
       ELSE got' = [got EXCEPT ![t] = lookup[key[t]]] /\ UNCHANGED lookup
    /\ Goes(t, "read")
    /\ UNCHANGED <<next, refused, slab, todo, chunk, file, key, seen, word, done>>

\* *p |= bit_mask, which is not atomic.
ReadWord(t) ==
    /\ at[t] = "read"
    /\ word' = [word EXCEPT ![t] = slab[got[t]][WordOf[file[t]]]]
    /\ Goes(t, "write")
    /\ UNCHANGED <<lookup, next, refused, slab, todo, chunk, file, key, seen, got, done>>

WriteWord(t) ==
    /\ at[t] = "write"
    /\ slab' = [slab EXCEPT ![got[t]][WordOf[file[t]]] = word[t] \cup {file[t]}]
    /\ Goes(t, "key")
    /\ UNCHANGED <<lookup, next, refused, todo, chunk, file, key, seen, got, word, done>>

Init ==
    /\ lookup = [k \in Keys |-> NoColumn]
    /\ next = 0 /\ refused = FALSE
    /\ slab = [c \in Columns |-> [w \in Words |-> {}]]
    /\ todo = Chunks
    /\ at = [t \in Threads |-> "idle"]
    /\ chunk = [t \in Threads |-> NoChunk]
    /\ file = [t \in Threads |-> NoFile]
    /\ key = [t \in Threads |-> NoKey]
    /\ seen = [t \in Threads |-> {}]
    /\ got = [t \in Threads |-> NoColumn]
    /\ word = [t \in Threads |-> {}]
    /\ done = {}

Step(t) ==
    \/ TakeChunk(t) \/ NextFile(t) \/ EndChunk(t)
    \/ LoadColumn(t) \/ EndFile(t)
    \/ FetchAdd(t) \/ CompareExchange(t) \/ ReadWord(t) \/ WriteWord(t)

Next == \E t \in Threads : Step(t)

\* The pool runs its threads, and a thread runs to its end.
Spec == Init /\ [][Next]_vars /\ \A t \in Threads : WF_vars(Step(t))
-----------------------------------------------------------------------------
HasBit(f, c) == f \in slab[c][WordOf[f]]

(* What a prefilter needs: a bigram that has a column has in it every file *)
(* that is in, and is alone in it, whatever the threads raced for; a lost  *)
(* bit or a shared column would hide matches.  Once a thread was refused a *)
(* column it is not so: another may hold one for the same bigram that it   *)
(* has not published yet (bigram_filter.rs 69-90, 178-194).                *)
ColumnsAreComplete ==
    ~refused => \A k \in Keys :
        lookup[k] # NoColumn =>
            /\ \A f \in done : k \in KeysOf[f] => HasBit(f, lookup[k])
            /\ \A f \in Files : HasBit(f, lookup[k]) => k \in KeysOf[f]
            /\ \A j \in Keys : lookup[j] = lookup[k] => j = k

(* Until then a bigram of a file that is in has a column at all: a thread  *)
(* that loses the swap records its bit in the winner's column.             *)
NothingDropped ==
    ~refused => \A f \in done : \A k \in KeysOf[f] : lookup[k] # NoColumn

(* Every file is in at the end, whoever took its chunk.                    *)
BuildEnds == <>(done = Files)
=============================================================================
