---------------------------- MODULE ContentCache ----------------------------
(***************************************************************************)
(* The cache of file contents (types.rs): a cell in every file that        *)
(* parallel readers fill, and two counters shared by all that they test    *)
(* before and bump after.  Searches read under the picker's read lock; the *)
(* warmup and the index build of the post-scan phase read through raw      *)
(* pointers with no lock; the watcher refreshes files under the write      *)
(* lock.                                                                   *)
(*                                                                         *)
(* A content is the number of edits it has seen.  Files are small enough   *)
(* to be read into a buffer (a mapped file shows the disk by itself).      *)
(***************************************************************************)
EXTENDS Integers, FiniteSets

CONSTANTS
    Items,              \* files of the table
    Overflow,           \* those of them in its overflow part
    Searchers, Workers, \* reader threads with the lock, and without it
    NoItem,
    SizeOf,             \* the size of a file after so many edits
    Limits,             \* max_files, max_bytes of the first and the auto-scaled budget
    MaxEdits            \* BOUND: edits of one file

Readers == Searchers \cup Workers

ASSUME CacheAssumption ==
    /\ IsFiniteSet(Items) /\ Overflow \subseteq Items /\ NoItem \notin Items
    /\ IsFiniteSet(Readers) /\ Readers # {} /\ Searchers \cap Workers = {}
    /\ MaxEdits \in Nat /\ SizeOf \in [0..MaxEdits -> Nat \ {0}]
    /\ Limits \in [{"first", "auto"} -> [files : Nat, bytes : Nat]]

VARIABLES
    disk, dirty,        \* the content on the disk; files with an event to handle
    known,              \* FileItem.size: the content whose size the table holds
    cell,               \* FileItem.content, or -1
    count, bytes, limit,    \* ContentCacheBudget; a negative counter has wrapped
    phase,              \* of the scan: committed, swapped, post, idle
    stage, reading, loaded, \* per reader: its step, its file, what it loaded
    overtaken,          \* GHOST: workers whose file was refreshed since they loaded
    uncounted,          \* GHOST: cells filled before the counters were replaced
    outdated            \* GHOST: cells filled by an overtaken worker

table == <<disk, dirty, known, cell>>
budget == <<count, bytes, limit>>
reader == <<stage, reading, loaded>>
ghosts == <<overtaken, uncounted, outdated>>
cacheVars == <<table, budget, phase, reader, ghosts>>

Empty == -1
Cached == {f \in Items : cell[f] # Empty}

CacheTypeOK ==
    /\ disk \in [Items -> 0..MaxEdits] /\ known \in [Items -> 0..MaxEdits]
    /\ dirty \subseteq Items
    /\ cell \in [Items -> -1..MaxEdits]
    /\ count \in Int /\ bytes \in Int /\ limit \in {"first", "auto"}
    /\ phase \in {"committed", "swapped", "post", "idle"}
    /\ stage \in [Readers -> {"out", "load", "fill", "count", "bytes"}]
    /\ reading \in [Readers -> Items \cup {NoItem}]
    /\ \A r \in Readers : stage[r] # "out" => reading[r] \in Items
    /\ loaded \in [Readers -> 0..MaxEdits]
    /\ overtaken \subseteq Workers
    /\ uncounted \subseteq Items /\ outdated \subseteq Items
-----------------------------------------------------------------------------
(***************************************************************************)
(* get_content, step by step.  The counters are unsigned and wrap: one     *)
(* below zero is larger than any limit, and a sum is what is left of it.   *)
(***************************************************************************)
BytesWith(f) == bytes + SizeOf[known[f]]
FullBytes(f) == BytesWith(f) < 0 \/ BytesWith(f) > Limits[limit].bytes

Full(f) ==
    \/ count < 0 \/ count >= Limits[limit].files
    \/ BytesWith(f) < 0 \/ BytesWith(f) > Limits[limit].bytes

BeginUnnamed(r, f) ==
    /\ stage[r] = "out"
    /\ r \in Workers => phase = "post" /\ f \notin Overflow
    /\ cell[f] = Empty /\ ~Full(f)
    /\ stage' = [stage EXCEPT ![r] = "load"]
    /\ overtaken' = overtaken \ {r}
    /\ UNCHANGED <<table, budget, phase, reading, loaded, uncounted, outdated>>

\* The cell is empty and both counters leave room: the test comes first.
Begin(r, f) ==
    /\ stage[r] = "out"
    /\ r \in Workers => phase = "post" /\ f \notin Overflow
    /\ cell[f] = Empty /\ ~Full(f)
    /\ stage' = [stage EXCEPT ![r] = "load"]
    /\ reading' = [reading EXCEPT ![r] = f]
    /\ overtaken' = overtaken \ {r}
    /\ UNCHANGED <<table, budget, phase, loaded, uncounted, outdated>>

Load(r) ==
    /\ stage[r] = "load"
    /\ loaded' = [loaded EXCEPT ![r] = disk[reading[r]]]
    /\ stage' = [stage EXCEPT ![r] = "fill"]
    /\ overtaken' = overtaken \ {r}
    /\ UNCHANGED <<table, budget, phase, reading, uncounted, outdated>>

\* OnceLock::get_or_init: whoever comes second keeps the first one's content.
Fill(r) ==
    /\ stage[r] = "fill"
    /\ LET f == reading[r] IN
       IF cell[f] = Empty
       THEN /\ cell' = [cell EXCEPT ![f] = loaded[r]]
            /\ outdated' = IF r \in overtaken THEN outdated \cup {f} ELSE outdated
       ELSE UNCHANGED <<cell, outdated>>
    /\ stage' = [stage EXCEPT ![r] = "count"]
    /\ UNCHANGED <<disk, dirty, known, budget, phase, reading, loaded, overtaken, uncounted>>

BumpCount(r) ==
    /\ stage[r] = "count"
    /\ count' = count + 1
    /\ stage' = [stage EXCEPT ![r] = "bytes"]
    /\ UNCHANGED <<table, bytes, limit, phase, reading, loaded, ghosts>>

BumpBytes(r) ==
    /\ stage[r] = "bytes"
    /\ bytes' = bytes + SizeOf[known[reading[r]]]
    /\ stage' = [stage EXCEPT ![r] = "out"]
    /\ UNCHANGED <<table, count, limit, phase, reading, loaded, ghosts>>
-----------------------------------------------------------------------------
(***************************************************************************)
(* The disk and the watcher.                                               *)
(***************************************************************************)
Edit(f) ==
    /\ disk[f] < MaxEdits
    /\ disk' = [disk EXCEPT ![f] = @ + 1]
    /\ dirty' = dirty \cup {f}
    /\ UNCHANGED <<known, cell, budget, phase, reader, ghosts>>

WriteLockShared == TRUE

\* No search holds the read lock.
WriteLock == \A r \in Searchers : stage[r] = "out"

Passed(f) == {r \in Workers : stage[r] = "fill" /\ reading[r] = f}

\* invalidate_mmap
CountLess(f) == count - 1
CountWithout(f) == IF f \in Cached THEN count - 1 ELSE count

\* update_metadata: invalidate_mmap takes off the size the file had, then the
\* size is replaced.
Refresh(f) ==
    /\ f \in dirty /\ WriteLock
    /\ count' = CountWithout(f)
    /\ bytes' = IF f \in Cached THEN bytes - SizeOf[known[f]] ELSE bytes
    /\ cell' = [cell EXCEPT ![f] = Empty]
    /\ known' = [known EXCEPT ![f] = disk[f]]
    /\ dirty' = dirty \ {f}
    /\ outdated' = outdated \ {f}
    /\ overtaken' = overtaken \cup Passed(f)
    /\ UNCHANGED <<disk, limit, phase, reader, uncounted>>

\* remove_file_by_path takes an overflow file out of the vector, content and
\* all, and leaves the counters; its next event pushes it again.
Repush(f) ==
    /\ f \in Overflow /\ f \in dirty /\ WriteLock
    /\ cell' = [cell EXCEPT ![f] = Empty]
    /\ known' = [known EXCEPT ![f] = disk[f]]
    /\ dirty' = dirty \ {f}
    /\ outdated' = outdated \ {f}
    /\ UNCHANGED <<disk, budget, phase, reader, overtaken, uncounted>>
-----------------------------------------------------------------------------
(***************************************************************************)
(* The scan: run_post_scan scales the budget of a repository that did not  *)
(* set one, takes its snapshot, and lets go of it.  A rescan commits a new *)
(* table.                                                                  *)
(***************************************************************************)
SwapBudget ==
    /\ phase = "committed" /\ WriteLock
    /\ limit' = "auto" /\ count' = 0 /\ bytes' = 0
    /\ uncounted' = Cached
    /\ phase' = "swapped"
    /\ UNCHANGED <<table, reader, overtaken, outdated>>

KeepBudget ==
    /\ phase = "committed"
    /\ phase' = "swapped"
    /\ UNCHANGED <<table, budget, reader, ghosts>>

Snapshot ==
    /\ phase = "swapped"
    /\ phase' = "post"
    /\ UNCHANGED <<table, budget, reader, ghosts>>

EndPost ==
    /\ phase = "post" /\ \A r \in Workers : stage[r] = "out"
    /\ phase' = "idle"
    /\ UNCHANGED <<table, budget, reader, ghosts>>

\* commit_new_sync
Commit ==
    /\ phase = "idle" /\ WriteLock
    /\ cell' = [f \in Items |-> Empty]
    /\ known' = disk
    /\ count' = 0 /\ bytes' = 0
    /\ uncounted' = {} /\ outdated' = {}
    /\ phase' = "committed"
    /\ UNCHANGED <<disk, dirty, limit, reader, overtaken>>

CacheInit ==
    /\ disk = [f \in Items |-> 0] /\ known = [f \in Items |-> 0] /\ dirty = {}
    /\ cell = [f \in Items |-> Empty]
    /\ count = 0 /\ bytes = 0 /\ limit = "first"
    /\ phase = "committed"
    /\ stage = [r \in Readers |-> "out"]
    /\ reading = [r \in Readers |-> NoItem]
    /\ loaded = [r \in Readers |-> 0]
    /\ overtaken = {} /\ uncounted = {} /\ outdated = {}

Read(r) == (\E f \in Items : Begin(r, f)) \/ Load(r) \/ Fill(r) \/ BumpCount(r) \/ BumpBytes(r)

CacheNext ==
    \/ \E r \in Readers : Read(r)
    \/ \E f \in Items : Edit(f) \/ Refresh(f) \/ Repush(f)
    \/ SwapBudget \/ KeepBudget \/ Snapshot \/ EndPost \/ Commit

CacheSpec == CacheInit /\ [][CacheNext]_cacheVars
-----------------------------------------------------------------------------
Unbumped == {r \in Readers : stage[r] = "count"}
Admitted == {r \in Readers : stage[r] \in {"load", "fill"}}

(* Every filled cell is counted, or will be by the reader that filled it,  *)
(* or was filled before the budget was replaced: no order of readers, of   *)
(* the watcher's decrement and of a second fill makes the counter too low. *)
EveryCellCounted ==
    Cardinality(Cached) <= count + Cardinality(Unbumped) + Cardinality(uncounted)

(* "the overshoot is bounded by rayon thread count" (types.rs:497): the    *)
(* test and the bump are apart, yet no more cells are filled than the      *)
(* limit and the readers that passed the test together.                   *)
OvershootIsBounded ==
    Cardinality(Cached) + Cardinality(Admitted) <=
        Limits[limit].files + Cardinality(Readers) - 1 + Cardinality(uncounted)

(* A cell whose file has no event left to handle shows the file's content, *)
(* unless a worker of the post-scan phase filled it with what it read      *)
(* before the watcher emptied it (types.rs:453-460, 494).                  *)
CacheIsFresh ==
    \A f \in Items \ (dirty \cup outdated) : f \in Cached => cell[f] = disk[f]
=============================================================================
