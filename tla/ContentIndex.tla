---------------------------- MODULE ContentIndex ----------------------------
(***************************************************************************)
(* The bigram index over the contents of a picker's base files             *)
(* (bigram_filter.rs), the overlay that follows the edits made since it    *)
(* was built, the scan's post phase that builds it off the picker's lock   *)
(* (scan.rs) and the sets of files each grep path searches (grep.rs).      *)
(*                                                                         *)
(* The index speaks of positions of the file table, so here the table is a *)
(* sequence.  A text is the set of words it holds: those within the first  *)
(* 64 KiB (head), and those that only occur further on (tail).  A word has *)
(* bigrams; whatever contains the word has them too.                       *)
(*                                                                         *)
(* The initial state is the one a walk leaves.  Files that are binary by   *)
(* extension or larger than the index accepts behave as the empty ones do  *)
(* and are left out.  A rescan waits for the build, as the test of         *)
(* post_scan_indexing_active means it to (ScanLifecycle shows when it does *)
(* not); the content cache is ContentCache's.  A directory that goes is    *)
(* removed: one that is moved away, of which the table keeps the files, is *)
(* FileIndex's, and a search that reads such a file finds nothing in it.   *)
(***************************************************************************)
EXTENDS Naturals, FiniteSets, Sequences, FiniteSetsExt

CONSTANTS
    Paths,              \* the files there may be
    Sorted,             \* [SUBSET Paths -> Seq(Paths)] the order of (parent_dir, filename)
    Below,              \* those of a directory that may be removed as a whole
    Words, Grams,       \* words to search for; bigrams that occur
    SkipGrams,          \* the bigrams of stride two (skip_index)
    GramsOf,            \* [Words -> SUBSET Grams]; a single character has none
    Texts, NoFile,      \* contents of a file, or none
    FirstDisks,         \* BOUND: the disks the first walk may find
    MaxEdits            \* BOUND: how often something happens on the disk

ASSUME ContentAssumption ==
    /\ IsFiniteSet(Paths) /\ Below \subseteq Paths
    /\ Sorted \in [SUBSET Paths -> Seq(Paths)]
    /\ \A S \in SUBSET Paths :
        /\ {Sorted[S][i] : i \in DOMAIN Sorted[S]} = S
        /\ \A i, j \in DOMAIN Sorted[S] : Sorted[S][i] = Sorted[S][j] => i = j
    /\ IsFiniteSet(Grams) /\ SkipGrams \subseteq Grams
    /\ GramsOf \in [Words -> SUBSET Grams]
    /\ Texts \subseteq [head : SUBSET Words, tail : SUBSET Words, nul : BOOLEAN]
    /\ NoFile \notin Texts
    /\ FirstDisks \subseteq [Paths -> Texts \cup {NoFile}]
    /\ MaxEdits \in Nat

VARIABLES
    disk, edits,        \* what is on the disk; how often it has changed
    dirty, dirGone,     \* paths and the directory with an event still to be handled
    files, baseCount, indexable,    \* FileSync: the table and its two partitions
    build,              \* run_post_scan: the round, its snapshot and what it read
    index,              \* bigram_index and bigram_overlay
    lost,               \* GHOST: positions whose last change the index never saw
    shifted             \* GHOST: positions moved below the index or the build

vars == <<disk, edits, dirty, dirGone, files, baseCount, indexable, build, index, lost, shifted>>

Entry == [path : Paths, empty : BOOLEAN, binary : BOOLEAN, deleted : BOOLEAN, overflow : BOOLEAN]
Outcome == [kind : {"skipped", "binary", "indexed"}, grams : SUBSET Grams]
Unread == [kind |-> "unread", grams |-> {}]
Skipped == [kind |-> "skipped", grams |-> {}]
NoBuild == [round |-> 0, read |-> << >>]
NoIndex == [ready |-> FALSE, boundary |-> 0, column |-> [g \in {} |-> {}],
            tombs |-> {}, modified |-> [i \in {} |-> {}]]

TypeOK ==
    /\ disk \in [Paths -> Texts \cup {NoFile}] /\ edits \in 0..MaxEdits
    /\ dirty \subseteq Paths /\ dirGone \in BOOLEAN
    /\ files \in Seq(Entry)
    /\ indexable \in Nat /\ baseCount \in Nat
    /\ build.round \in 0..3 /\ build.read \in Seq(Outcome \cup {Unread})
    /\ index.ready \in BOOLEAN /\ index.boundary \in Nat
    /\ index.tombs \subseteq 1..index.boundary
    /\ DOMAIN index.column \subseteq Grams
    /\ index.column \in [DOMAIN index.column -> SUBSET (1..index.boundary)]
    /\ DOMAIN index.modified \subseteq 1..index.boundary
    /\ index.modified \in [DOMAIN index.modified -> SUBSET Grams]
    /\ lost \subseteq Nat /\ shifted \in BOOLEAN
-----------------------------------------------------------------------------
(***************************************************************************)
(* Contents and their bigrams.                                             *)
(***************************************************************************)
OnDisk(p) == disk[p] # NoFile
WordsOf(t) == t.head \cup t.tail
GramsIn(words) == UNION {GramsOf[w] : w \in words}
ExtractBigrams(t) == GramsIn(WordsOf(t)) \ SkipGrams
IsEmpty(t) == WordsOf(t) = {} /\ ~t.nul

NewEntryBase(p, over) ==
    [path |-> p, empty |-> ~OnDisk(p) \/ IsEmpty(disk[p]),
     binary |-> FALSE, deleted |-> FALSE, overflow |-> FALSE]

\* FileItem::new: the size is 0 when the file cannot be examined.
NewEntry(p, over) ==
    [path |-> p, empty |-> ~OnDisk(p) \/ IsEmpty(disk[p]),
     binary |-> FALSE, deleted |-> FALSE, overflow |-> over]

\* find_file_index, find_overflow_index: at most one position each.
BaseAt(p) == {i \in DOMAIN files : i <= baseCount /\ files[i].path = p}
OverflowAt(p) == {i \in DOMAIN files : i > baseCount /\ files[i].path = p}

Indexed(p) == OnDisk(p) /\ ~IsEmpty(disk[p])
IndexedPaths == {p \in Paths : Indexed(p)}
Walked == Sorted[IndexedPaths] \o Sorted[{p \in Paths : OnDisk(p)} \ IndexedPaths]
WalkedFiles == [i \in DOMAIN Walked |-> NewEntry(Walked[i], FALSE)]
-----------------------------------------------------------------------------
(***************************************************************************)
(* The disk.  Every change queues an event; what the handler then reads is *)
(* the disk of that moment.                                                *)
(***************************************************************************)
Edit(p) ==
    /\ edits < MaxEdits
    /\ \E t \in (Texts \cup {NoFile}) \ {disk[p]} : disk' = [disk EXCEPT ![p] = t]
    /\ edits' = edits + 1
    /\ dirty' = dirty \cup {p}
    /\ UNCHANGED <<dirGone, files, baseCount, indexable, build, index, lost, shifted>>

EraseDir ==
    /\ edits < MaxEdits
    /\ \E p \in Below : OnDisk(p)
    /\ disk' = [p \in Paths |-> IF p \in Below THEN NoFile ELSE disk[p]]
    /\ edits' = edits + 1
    /\ dirGone' = TRUE
    /\ UNCHANGED <<dirty, files, baseCount, indexable, build, index, lost, shifted>>
-----------------------------------------------------------------------------
(***************************************************************************)
(* Building the index.  One snapshot serves two rounds, each of which      *)
(* reads every indexable file and then replaces the index and its overlay. *)
(***************************************************************************)
Word == 64      \* bits of a column's word

Columns(read) ==
    LET populated == Cardinality({i \in DOMAIN read : read[i].kind = "indexed"})
        Column(g) == {i \in DOMAIN read : g \in read[i].grams}
        Dense(g) ==
            IF g \in SkipGrams
            THEN 100 * Cardinality(Column(g)) >= 12 * populated
            ELSE Cardinality(Column(g)) >= 2 * ((Len(read) + Word - 1) \div Word)
        Kept == {g \in Grams : Dense(g) /\ 10 * Cardinality(Column(g)) < 9 * populated}
    IN [ready |-> populated > 0, column |-> [g \in Kept |-> Column(g)]]

\* process_file, off the lock: a size or a mark still to be refreshed by the
\* handler decides what is read, and how much of it.
Outcomes(i) ==
    IF i > Len(files)       \* a slot of the vector that retain() has emptied
    THEN Outcome
    ELSE LET p == files[i].path IN
         IF files[i].binary \/ files[i].empty \/ ~Indexed(p) THEN {Skipped}
         ELSE IF disk[p].nul THEN {[kind |-> "binary", grams |-> {}]}
         ELSE {[kind |-> "indexed", grams |-> gs] :
                 gs \in IF p \in dirty THEN SUBSET GramsIn(disk[p].head)
                                       ELSE {GramsIn(disk[p].head)}}

TakeSnapshot ==
    /\ build.round = 0
    /\ build' = [round |-> 1, read |-> [i \in 1..indexable |-> Unread]]
    /\ UNCHANGED <<disk, edits, dirty, dirGone, files, baseCount, indexable, index, lost, shifted>>

ReadFile(i) ==
    /\ build.round \in {1, 2}
    /\ build.read[i] = Unread
    /\ \E o \in Outcomes(i) : build' = [build EXCEPT !.read[i] = o]
    /\ UNCHANGED <<disk, edits, dirty, dirGone, files, baseCount, indexable, index, lost, shifted>>

\* The build saw something else than there is once the handler has run.
Stale(i) ==
    \/ i > Len(files)
    \/ files[i].path \notin dirty /\ build.read[i] \notin Outcomes(i)

Install ==
    /\ build.round \in {1, 2}
    /\ \A i \in DOMAIN build.read : build.read[i] # Unread
    /\ LET built == Columns(build.read) IN
       index' = [ready |-> built.ready, boundary |-> Len(build.read), column |-> built.column,
                 tombs |-> {}, modified |-> [i \in {} |-> {}]]
    /\ files' = [i \in DOMAIN files |->
                    [files[i] EXCEPT !.binary = @ \/ (i \in DOMAIN build.read
                                                      /\ build.read[i].kind = "binary")]]
    /\ lost' = {i \in DOMAIN build.read : Stale(i)}
    /\ build' = IF build.round = 1
                THEN [round |-> 2, read |-> [i \in DOMAIN build.read |-> Unread]]
                ELSE [round |-> 3, read |-> << >>]
    /\ UNCHANGED <<disk, edits, dirty, dirGone, baseCount, indexable, shifted>>
-----------------------------------------------------------------------------
(***************************************************************************)
(* The handlers of the watcher, each under the picker's write lock.        *)
(***************************************************************************)
\* Neither touches an entry past the index, nor the index of an overflow file.
InOverlay(i) == i <= baseCount /\ i <= index.boundary

Refreshed(i) == [files EXCEPT ![i].deleted = FALSE, ![i].empty = IsEmpty(disk[files[i].path])]

\* handle_create_or_modify.  When a known file cannot be examined nothing
\* changes (and FileIndex asks for a rescan).
HandleModify(p) ==
    /\ p \in dirty /\ ~(dirGone /\ p \in Below)
    /\ LET at == IF BaseAt(p) # {} THEN BaseAt(p) ELSE OverflowAt(p) IN
       \/ \E i \in at :
            /\ OnDisk(p)
            /\ files' = Refreshed(i)
            /\ index' = IF InOverlay(i)
                        THEN [index EXCEPT !.modified =
                                [j \in DOMAIN @ \cup {i} |->
                                    IF j = i THEN ExtractBigrams(disk[p]) ELSE @[j]]]
                        ELSE index
            /\ lost' = IF InOverlay(i) THEN lost \ {i} ELSE lost
       \/ /\ at = {}
          /\ files' = Append(files, NewEntry(p, TRUE))
          /\ UNCHANGED <<index, lost>>
    /\ dirty' = IF OnDisk(p) THEN dirty \ {p} ELSE dirty
    /\ UNCHANGED <<disk, edits, dirGone, baseCount, indexable, build, shifted>>

\* BigramOverlay::delete_file
TombedAlways(i) == index.tombs \cup {i}
Tombed(i) == IF i <= index.boundary THEN index.tombs \cup {i} ELSE index.tombs

\* remove_file_by_path: a tombstone in the base part, a removal in the other.
HandleRemove(p) ==
    /\ p \in dirty /\ ~(dirGone /\ p \in Below)
    /\ \/ \E i \in BaseAt(p) :
            /\ files' = [files EXCEPT ![i].deleted = TRUE]
            /\ index' = [index EXCEPT
                            !.tombs = Tombed(i),
                            !.modified = [j \in DOMAIN @ \ {i} |-> @[j]]]
            /\ lost' = lost \ {i}
       \/ \E i \in OverflowAt(p) :
            /\ BaseAt(p) = {}
            /\ files' = SubSeq(files, 1, i - 1) \o SubSeq(files, i + 1, Len(files))
            /\ UNCHANGED <<index, lost>>
       \/ /\ BaseAt(p) = {} /\ OverflowAt(p) = {}
          /\ UNCHANGED <<files, index, lost>>
    /\ dirty' = IF OnDisk(p) THEN dirty ELSE dirty \ {p}
    /\ UNCHANGED <<disk, edits, dirGone, baseCount, indexable, build, shifted>>

\* retain_files_with_arena: the new positions of the entries it keeps, in their
\* order, and how many of those stood among the first few.
Retained ==
    LET kept == {i \in DOMAIN files : files[i].path \notin Below} IN
    {e \in UNION {[1..n -> kept] : n \in 0..Len(files)} :
        /\ \A j, k \in DOMAIN e : j < k => e[j] < e[k]
        /\ \A i \in kept : \E k \in DOMAIN e : e[k] = i}
CountBelow(e, old, new) ==
    new <= Len(e) /\ \A k \in DOMAIN e : k <= new <=> e[k] <= old

\* remove_all_files_in_dir takes the entries out of the vector, below the
\* index, the overlay and the build as they are.
HandleDirGone ==
    /\ dirGone
    /\ \E e \in Retained, b, n \in 0..Len(files) :
        /\ files' = [k \in DOMAIN e |-> files[e[k]]]
        /\ CountBelow(e, baseCount, b) /\ baseCount' = b
        /\ CountBelow(e, indexable, n) /\ indexable' = n
    /\ shifted' = (shifted \/ (build.round > 0 /\ baseCount' # baseCount))
    /\ dirGone' = FALSE
    /\ UNCHANGED <<disk, edits, dirty, build, index, lost>>

\* ScanJob::run: a new table from the disk, with no index, and commit_new_sync.
Rescan ==
    /\ build.round \in {0, 3}
    /\ files' = WalkedFiles
    /\ baseCount' = Len(Walked)
    /\ indexable' = Len(Sorted[IndexedPaths])
    /\ build' = NoBuild /\ index' = NoIndex
    /\ lost' = {} /\ shifted' = FALSE
    /\ UNCHANGED <<disk, edits, dirty, dirGone>>

Init ==
    /\ disk \in FirstDisks /\ edits = 0
    /\ dirty = {} /\ dirGone = FALSE
    /\ files = WalkedFiles
    /\ baseCount = Len(Walked)
    /\ indexable = Len(Sorted[IndexedPaths])
    /\ build = NoBuild /\ index = NoIndex
    /\ lost = {} /\ shifted = FALSE

Next ==
    \/ \E p \in Paths : Edit(p) \/ HandleModify(p) \/ HandleRemove(p)
    \/ EraseDir \/ HandleDirGone
    \/ TakeSnapshot \/ (\E i \in DOMAIN build.read : ReadFile(i)) \/ Install
    \/ Rescan

Spec == Init /\ [][Next]_vars
=============================================================================
