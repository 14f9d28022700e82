------------------------------ MODULE FileIndex ------------------------------
(***************************************************************************)
(* The file table of a picker (FileSync in file_picker.rs) and the threads *)
(* that keep it in step with the disk: the debouncer thread that applies   *)
(* batches of filesystem events (background_watcher.rs), the owner thread  *)
(* that lists directories, and the scan that replaces the whole table.     *)
(*                                                                         *)
(* A file is its path.  The table has a base part, fixed by the walk, in   *)
(* which a deleted file leaves a tombstone, and an overflow part to which  *)
(* new files are pushed and from which deleted ones are removed.  Where in *)
(* the base part a file stands, which only the bigram index relies on, is  *)
(* left out.                                                               *)
(* A directory may also be moved out of the tree, which leaves its files   *)
(* in the table (Stranding), and back in or newly made with files in it.   *)
(* A rescan that was asked for is run: ScanLifecycle is about when it is.  *)
(* Every directory is watched; the watcher starts after the first scan.    *)
(***************************************************************************)
EXTENDS Naturals, FiniteSets, Sequences, FiniteSetsExt

CONSTANTS
    Paths,          \* files that may come and go under base_path
    Dirs, NoDir,    \* directories that may be removed, moved, created or listed
    Under,          \* [Dirs -> SUBSET Paths] everything below a directory
    Flat,           \* [Dirs -> SUBSET Paths] its immediate files
    Dirty,          \* paths that git reports a status for
    Kinds,          \* what may happen on the disk
    MaxOverflow,    \* MAX_OVERFLOW_FILES
    MaxSlack,       \* BOUND: how much more than asked Vec::reserve may allocate
    MaxPaths,       \* MAX_PATHS_THRESHOLD
    MaxChanges      \* BOUND: how often something happens on the disk

AllKinds == {"create", "delete", "rmdir", "mvdir", "mkdir", "git", "rescan"}

ASSUME PathAssumption == IsFiniteSet(Paths) /\ Dirty \subseteq Paths
ASSUME DirAssumption ==
    /\ NoDir \notin Dirs
    /\ Under \in [Dirs -> SUBSET Paths]
    /\ Flat \in [Dirs -> SUBSET Paths]
    /\ \A d \in Dirs : Flat[d] \subseteq Under[d]
ASSUME LimitAssumption ==
    /\ MaxOverflow \in Nat /\ MaxSlack \in Nat /\ MaxPaths \in Nat /\ MaxChanges \in Nat
    /\ Kinds \subseteq AllKinds

VARIABLES
    disk,           \* the files that exist
    events, changes,            \* the debouncer's queue; how much has happened
    base, tombstones,           \* base files, and those of them marked deleted
    overflow,                   \* [Paths -> Nat] entries of the overflow part
    capacity,                   \* of the Vec behind StableVec
    status,                     \* files of the table with a cached git status
    scan, seen, rescan,         \* the scan thread, what it read, rescan_pending
    watching,                   \* the watcher is installed
    stage, batch,               \* the debouncer thread, and the batch it works on
    toTrack, ownerStage, ownerDir, listing,     \* the owner thread
    overlooked, stranded        \* GHOSTS: see IndexIsCurrent

env     == <<disk, events, changes>>
table   == <<base, tombstones, overflow, capacity>>
scanner == <<scan, seen>>
handler == <<stage, batch>>
tracker == <<toTrack, ownerStage, ownerDir, listing>>
ghosts  == <<overlooked, stranded>>
vars    == <<env, table, status, scanner, rescan, watching, handler, tracker, ghosts>>

Event == ({"touch", "remove"} \X Paths) \cup ({"rmdir", "dir"} \X Dirs)
            \cup ({"git", "rescan"} \X {NoDir})
Batch == [dirs : SUBSET Dirs, removed : SUBSET Paths, touched : SUBSET Paths,
          made : SUBSET Dirs, moved : SUBSET Dirs, git : BOOLEAN]
NoBatch == [dirs |-> {}, removed |-> {}, touched |-> {}, made |-> {}, moved |-> {}, git |-> FALSE]

TypeOK ==
    /\ disk \subseteq Paths
    /\ events \in Seq(Event) /\ changes \in 0..MaxChanges
    /\ base \subseteq Paths /\ tombstones \subseteq base
    /\ overflow \in [Paths -> Nat]
    /\ capacity \in Nat
    /\ status \subseteq base \cup {p \in Paths : overflow[p] > 0}
    /\ scan \in {"idle", "walk", "git", "watch"}
    /\ seen \in [Paths -> {"unread", "absent", "present"}]
    /\ rescan \in BOOLEAN /\ watching \in BOOLEAN
    /\ stage \in {"idle", "apply", "status"} /\ batch \in Batch
    /\ toTrack \subseteq Dirs /\ ownerStage \in {"idle", "add", "status"}
    /\ ownerDir \in Dirs \cup {NoDir} /\ listing \subseteq Paths
    /\ overlooked \subseteq Paths /\ stranded \subseteq Paths
-----------------------------------------------------------------------------
(***************************************************************************)
(* The disk, and the events it puts in the debouncer's queue.  A change is *)
(* overlooked when no event tells of it, or when some thread is about to   *)
(* write back what it read of the path before the change.  It is stranded  *)
(* when the only event is that of a directory that was moved.              *)
(***************************************************************************)
OwnerHolds(p) == ownerStage = "add" /\ p \in Flat[ownerDir]
Held(p) == OwnerHolds(p) \/ (scan = "walk" /\ seen[p] # "unread")

Happens(kind, ps, es) ==
    /\ kind \in Kinds
    /\ changes < MaxChanges
    /\ changes' = changes + 1
    /\ events' = IF watching THEN es ELSE events
    /\ overlooked' = (overlooked \ ps) \cup {p \in ps : Held(p) \/ ~watching}
    /\ UNCHANGED <<table, status, scanner, rescan, watching, handler, tracker>>

\* Of the changed paths, none is stranded, or only those given.
Stranding(ps, left) == stranded' = (stranded \ ps) \cup left

Create(p) ==
    /\ p \notin disk
    /\ disk' = disk \cup {p}
    /\ Stranding({p}, {})
    /\ Happens("create", {p}, Append(events, <<"touch", p>>))

\* A removal is told as a removal or, by FSEvents, as a change of name.
Delete(p) ==
    /\ p \in disk
    /\ disk' = disk \ {p}
    /\ Stranding({p}, {})
    /\ \E kind \in {"touch", "remove"} : Happens("delete", {p}, Append(events, <<kind, p>>))

\* One Remove(Folder) event for a whole tree.
DeleteDir(d) ==
    /\ Under[d] \cap disk # {}
    /\ disk' = disk \ Under[d]
    /\ Stranding(Under[d] \cap disk, {})
    /\ Happens("rmdir", Under[d] \cap disk, Append(events, <<"rmdir", d>>))

\* A tree that is renamed, or moved out: the directory changes its name, and of
\* what is in it there is no event.
MoveDir(d) ==
    /\ Under[d] \cap disk # {}
    /\ disk' = disk \ Under[d]
    /\ Stranding(Under[d] \cap disk, Under[d] \cap disk)
    /\ Happens("mvdir", Under[d] \cap disk, Append(events, <<"dir", d>>))

\* An event of a directory itself, which may be new: with files in it if it was
\* moved here, of which only its own will be listed.
MakeDir(d) ==
    \E brought \in SUBSET Under[d] :
        /\ brought # {} => Under[d] \cap disk = {}
        /\ disk' = disk \cup brought
        /\ Stranding(brought, brought \ Flat[d])
        /\ Happens("mkdir", brought, Append(events, <<"dir", d>>))

GitChange ==
    /\ UNCHANGED <<disk, stranded>>
    /\ Happens("git", {}, Append(events, <<"git", NoDir>>))

\* The kernel drops its events and says so, or a .gitignore is edited.
RescanEvent ==
    /\ UNCHANGED <<disk, stranded>>
    /\ \/ Happens("rescan", {}, << <<"rescan", NoDir>> >>)
       \/ Happens("rescan", {}, Append(events, <<"rescan", NoDir>>))
-----------------------------------------------------------------------------
(***************************************************************************)
(* The table.  Over stands for the overflow part.                          *)
(***************************************************************************)
InOverflow(over) == {p \in Paths : over[p] > 0}
OverflowLen(over) == MapThenSumSet(LAMBDA p : over[p], Paths)
Table == base \cup InOverflow(overflow)
Live == (base \ tombstones) \cup InOverflow(overflow)
Below(dirs) == UNION {Under[d] : d \in dirs}

\* Mutant: only the base part is searched before a file is pushed.
KnownBase(base1, over) == base1

\* find_file_index, then find_overflow_index.
Known(base1, over) == base1 \cup InOverflow(over)

\* StableVec::push as often as there is room.
Pushed(fresh, base1, over) ==
    LET room == capacity - (Cardinality(base1) + OverflowLen(over))
    IN  {added \in SUBSET fresh :
            added = fresh \/ (Cardinality(added) = room /\ room < Cardinality(fresh))}

\* Mutant: a file that is back keeps its tombstone.
UndeletedNot(tomb, ps) == tomb

\* handle_file_modify of ps: undeletes those whose metadata can be read.
Undeleted(tomb, ps) == tomb \ (ps \cap disk)

\* handle_create_or_modify of each of ps, in a table that has base1, tomb and
\* over, where there is room for those in added.
CreateOrModify(ps, base1, tomb, over, added) ==
    /\ base' = base1
    /\ tombstones' = Undeleted(tomb, ps)
    /\ overflow' = [p \in Paths |-> over[p] + (IF p \in added THEN 1 ELSE 0)]
    /\ UNCHANGED capacity

\* Those of ps for which it returns None.
Refused(ps, base1, over, added) ==
    ((ps \cap Known(base1, over)) \ disk) \cup (ps \ (Known(base1, over) \cup added))
-----------------------------------------------------------------------------
(***************************************************************************)
(* handle_debounced_events.  The queue is handed over from its head; what  *)
(* is removed and what is touched is decided from the event and the disk,  *)
(* before the write lock is taken.  A directory that is gone, which is one *)
(* without files or may be, is taken for a file that was removed.          *)
(***************************************************************************)
\* Mutant: a dropped batch asks for nothing.
RequestedNot == rescan

\* trigger_full_rescan_async, which defers the request while a scan runs.
Requested == TRUE

TakeBatch(n) ==
    LET es == {events[i] : i \in 1..n} IN
    /\ stage = "idle"
    /\ events' = SubSeq(events, n + 1, Len(events))
    /\ IF <<"rescan", NoDir>> \in es \/ n > MaxPaths
       THEN rescan' = Requested /\ UNCHANGED handler
       ELSE /\ \E gone \in SUBSET {d \in Dirs : Under[d] \cap disk = {}} :
                batch' = [dirs    |-> {d \in Dirs : <<"rmdir", d>> \in es},
                          removed |-> {p \in Paths : \/ <<"remove", p>> \in es
                                                     \/ <<"touch", p>> \in es /\ p \notin disk},
                          touched |-> {p \in disk : <<"touch", p>> \in es},
                          made    |-> {d \in Dirs \ gone : <<"dir", d>> \in es},
                          moved   |-> {d \in gone : <<"dir", d>> \in es},
                          git     |-> <<"git", NoDir>> \in es]
            /\ stage' = "apply"
            /\ UNCHANGED rescan
    /\ UNCHANGED <<disk, changes, table, status, scanner, watching, tracker, ghosts>>

\* Mutant: tombstones outlive the base files they stand for.
TombLeftKeep == tombstones \cup (batch.removed \cap base)

\* The table after remove_all_files_in_dir and remove_file_by_path: files of a
\* removed directory leave it, base files leave a tombstone, others leave it.  No
\* entry has the path of a directory that was moved.
BaseLeft == base \ Below(batch.dirs)
TombLeft == (tombstones \ Below(batch.dirs)) \cup (batch.removed \cap BaseLeft)
OverLeft == [p \in Paths |->
    IF p \in Below(batch.dirs) THEN 0
    ELSE IF p \in batch.removed \ BaseLeft /\ overflow[p] > 0 THEN overflow[p] - 1
    ELSE overflow[p]]

\* Mutant: files are added before the removals of the batch are applied.
ApplyBatchSwapped ==
    /\ stage = "apply"
    /\ \E added \in Pushed(batch.touched \ Known(base, overflow), base, overflow) :
        LET over == [p \in Paths |-> overflow[p] + (IF p \in added THEN 1 ELSE 0)]
            gone == Below(batch.dirs) \cup batch.removed
        IN  /\ base' = BaseLeft
            /\ tombstones' = Undeleted(tombstones \ Below(batch.dirs), batch.touched)
                                \cup (batch.removed \cap BaseLeft)
            /\ overflow' = [p \in Paths |-> IF p \in gone THEN 0 ELSE over[p]]
            /\ rescan' = (rescan \/ Refused(batch.touched, base, overflow, added) # {})
            /\ UNCHANGED capacity
    /\ status' = status \ (Below(batch.dirs) \cup batch.removed)
    /\ stage' = "status"
    /\ UNCHANGED <<env, scanner, watching, batch, tracker, ghosts>>

\* Whether a batch says anything about files at all.
Changes(b) == b.dirs # {} \/ b.removed # {} \/ b.moved # {} \/ b.touched # {}

\* What git is asked about for a batch: all, or what was taken into the table.
Asked(refused) ==
    [batch EXCEPT !.git = batch.git /\ refused = {},
                  !.touched = IF batch.git THEN {} ELSE batch.touched \ refused]

\* One write lock for the whole batch; a batch without file changes does not
\* look at the table.
ApplyBatch ==
    /\ stage = "apply"
    /\ \E added \in Pushed(batch.touched \ Known(BaseLeft, OverLeft), BaseLeft, OverLeft) :
        LET refused == Refused(batch.touched, BaseLeft, OverLeft, added)
        IN  /\ CreateOrModify(batch.touched, BaseLeft, TombLeft, OverLeft, added)
            /\ rescan' = (rescan \/ refused # {}
                            \/ (Changes(batch) /\ OverflowLen(overflow') > MaxOverflow))
            /\ batch' = Asked(refused)
    /\ status' = status \ (Below(batch.dirs) \cup batch.removed)
    /\ stage' = "status"
    /\ UNCHANGED <<env, scanner, watching, tracker, ghosts>>

\* update_git_statuses: git names paths, and those in the table get a status,
\* unless there is no repository or git fails.
Reported(ps) == {status, status \cup (Dirty \cap ps \cap Table)}

UpdateStatus ==
    /\ stage = "status"
    /\ status' \in Reported(IF batch.git THEN Paths ELSE batch.touched)
    /\ toTrack' = toTrack \cup batch.made
    /\ stage' = "idle"
    /\ batch' = NoBatch
    /\ UNCHANGED <<env, table, scanner, rescan, watching, ownerStage, ownerDir,
                   listing, ghosts>>
-----------------------------------------------------------------------------
\* Undelivered events that will make the table look at p again.
Concerns(e, p) ==
    \/ e[2] = p /\ e[1] \in {"touch", "remove"}
    \/ e[1] = "rmdir" /\ p \in Under[e[2]]
    \/ e[1] = "rescan"
Pending(p) == \E i \in 1..Len(events) : Concerns(events[i], p)
InBatch(p) == stage = "apply" /\ p \in batch.removed \cup batch.touched \cup Below(batch.dirs)
\* A directory is on its way to the owner, which has listed p or will.
ToList(p) ==
    \/ \E i \in 1..Len(events) : events[i][1] = "dir" /\ p \in Flat[events[i][2]]
    \/ \E d \in batch.made \cup toTrack : p \in Flat[d]
    \/ ownerStage = "add" /\ p \in listing
-----------------------------------------------------------------------------
(***************************************************************************)
(* The owner thread: track_files_from_new_directories lists a directory,   *)
(* then adds what it found under the write lock, and ignores a refusal.    *)
(***************************************************************************)
ListDir(d) ==
    /\ ownerStage = "idle"
    /\ d \in toTrack
    /\ toTrack' = toTrack \ {d}
    /\ listing' = Flat[d] \cap disk
    /\ IF Flat[d] \cap disk = {}
       THEN UNCHANGED <<ownerStage, ownerDir>>
       ELSE ownerStage' = "add" /\ ownerDir' = d
    /\ UNCHANGED <<env, table, status, scanner, rescan, watching, handler, ghosts>>

AddListed ==
    /\ ownerStage = "add"
    /\ \E added \in Pushed(listing \ Known(base, overflow), base, overflow) :
        /\ CreateOrModify(listing, base, tombstones, overflow, added)
        /\ overlooked' = overlooked \cup (listing \ (Known(base, overflow) \cup added))
    /\ ownerStage' = "status"
    /\ UNCHANGED <<env, status, scanner, rescan, watching, handler, toTrack, ownerDir, listing,
                   stranded>>

UpdateListed ==
    /\ ownerStage = "status"
    /\ status' \in Reported(listing)
    /\ ownerStage' = "idle"
    /\ ownerDir' = NoDir
    /\ listing' = {}
    /\ UNCHANGED <<env, table, scanner, rescan, watching, handler, toTrack, ghosts>>
-----------------------------------------------------------------------------
(***************************************************************************)
(* The scan: a walk that reads the disk path by path, the commit, the git  *)
(* statuses, and after the first scan the watcher.                         *)
(***************************************************************************)
Unread == [p \in Paths |-> "unread"]

StartWalk ==
    /\ scan = "idle"
    /\ rescan
    /\ rescan' = FALSE
    /\ scan' = "walk"
    /\ seen' = Unread
    /\ UNCHANGED <<env, table, status, watching, handler, tracker, ghosts>>

WalkRead(p) ==
    /\ scan = "walk"
    /\ seen[p] = "unread"
    /\ seen' = [seen EXCEPT ![p] = IF p \in disk THEN "present" ELSE "absent"]
    /\ overlooked' = IF OwnerHolds(p) THEN overlooked ELSE overlooked \ {p}
    /\ UNCHANGED <<env, table, status, scan, stranded, rescan, watching, handler, tracker>>

\* commit_new_sync, and rescubscribe_watcher_post_scan when the watcher runs.
CommitWalk ==
    LET found == {p \in Paths : seen[p] = "present"} IN
    /\ scan = "walk"
    /\ \A p \in Paths : seen[p] # "unread"
    /\ base' = found
    /\ tombstones' = {}
    /\ overflow' = [p \in Paths |-> 0]
    /\ \E slack \in 0..MaxSlack : capacity' = Cardinality(found) + MaxOverflow + slack
    /\ status' = {}
    /\ scan' = "git"
    /\ toTrack' = IF watching THEN toTrack \cup {d \in Dirs : Under[d] \cap found # {}}
                  ELSE toTrack
    /\ stranded' = {p \in stranded : Pending(p) \/ InBatch(p)}
    /\ UNCHANGED <<env, seen, rescan, watching, handler, ownerStage, ownerDir, listing,
                   overlooked>>

\* apply_git_status_and_frecency writes the status of every base file, if git
\* knows any and the snapshot is not refused.
ApplyGit ==
    /\ scan = "git"
    /\ status' \in {status, (status \ base) \cup (base \cap Dirty)}
    /\ scan' = IF watching THEN "idle" ELSE "watch"
    /\ UNCHANGED <<env, table, seen, rescan, watching, handler, tracker, ghosts>>

StartWatcher ==
    /\ scan = "watch"
    /\ scan' = "idle"
    /\ watching' = TRUE
    /\ UNCHANGED <<env, table, status, seen, rescan, handler, tracker, ghosts>>
-----------------------------------------------------------------------------
Init ==
    /\ disk \in SUBSET Paths
    /\ events = <<>> /\ changes = 0
    /\ base = {} /\ tombstones = {} /\ overflow = [p \in Paths |-> 0]
    /\ capacity = MaxOverflow
    /\ status = {}
    /\ scan = "walk" /\ seen = Unread /\ rescan = FALSE /\ watching = FALSE
    /\ stage = "idle" /\ batch = NoBatch
    /\ toTrack = {} /\ ownerStage = "idle" /\ ownerDir = NoDir /\ listing = {}
    /\ overlooked = {} /\ stranded = {}

Change ==
    \/ \E p \in Paths : Create(p) \/ Delete(p)
    \/ \E d \in Dirs : DeleteDir(d) \/ MoveDir(d) \/ MakeDir(d)
    \/ GitChange \/ RescanEvent

HandlerStep == (\E n \in 1..Len(events) : TakeBatch(n)) \/ ApplyBatch \/ UpdateStatus
OwnerStep == (\E d \in Dirs : ListDir(d)) \/ AddListed \/ UpdateListed
ScanStep ==
    \/ StartWalk \/ (\E p \in Paths : WalkRead(p)) \/ CommitWalk \/ ApplyGit \/ StartWatcher

Next == Change \/ HandlerStep \/ OwnerStep \/ ScanStep

\* The debouncer thread, the owner thread and the scan thread are scheduled.
Fairness == WF_vars(HandlerStep) /\ WF_vars(OwnerStep) /\ WF_vars(ScanStep)

Spec == Init /\ [][Next]_vars /\ Fairness
-----------------------------------------------------------------------------
\* The table never holds a path twice, not even as a tombstone and an overflow
\* file: every lookup of handle_create_or_modify and remove_file_by_path
\* stops at the first entry it finds.
NoPathTwice == \A p \in Paths : overflow[p] <= 1 /\ (p \in base => overflow[p] = 0)

\* What the table says of a path is true, unless it will be looked at again, or
\* its last change fell between a thread's reading of the disk and the use of
\* it (or nothing was watching), or came with a directory that was moved away,
\* or moved here with directories in it, and no walk has come since (or one has,
\* with a removal of the path still on its way): the ways in which the code
\* loses changes, and no others.
IndexIsCurrent ==
    \A p \in Paths :
        \/ p \in Live <=> p \in disk
        \/ p \in overlooked \/ p \in stranded
        \/ Pending(p) \/ InBatch(p)
        \/ p \in disk /\ ToList(p)
        \/ rescan \/ scan = "walk"

\* When the disk has been still for long enough the table agrees with it, but
\* for what was overlooked or is stranded, which waits for the next rescan.
EventuallyCurrent ==
    \A p \in Paths :
        <>[]((p \in Live <=> p \in disk) \/ p \in overlooked \/ p \in stranded)

\* The table implements a set of files.
Files == INSTANCE TrackedFiles WITH
    live <- Live,
    walking <- scan = "walk",
    batch <- IF stage = "apply"
             THEN [gone |-> Below(batch.dirs) \cup batch.removed, touched |-> batch.touched]
             ELSE [gone |-> {}, touched |-> {}],
    listing <- IF ownerStage = "add" THEN listing ELSE {}
ImplementsTrackedFiles == Files!Spec
-----------------------------------------------------------------------------
\* file_picker.rs, handle_create_or_modify: when it returns None "a new rescan
\* needs to be triggered".
LossIsRescanned ==
    [][\A p \in Paths :
        (ownerStage = "add" /\ ownerStage' = "status" /\ p \in listing)
            => (p \in Live' \/ rescan')]_vars

\* file_picker.rs, remove_file_by_path: "keeping the invariant tombstone =>
\* git_status=None".
TombstoneHasNoStatus == status \cap tombstones = {}

\* background_watcher.rs: "macOS FSEvents uses Modify(Name(Any)) for both rename-in
\* and rename-out, so we must stat the path to disambiguate": what was renamed
\* away leaves the table with the batch that tells of it.
MovesAreSeen ==
    \A p \in Paths :
        \/ p \in Live => p \in disk
        \/ p \in overlooked
        \/ \E i \in 1..Len(events) : Concerns(events[i], p) \/ events[i][1] = "dir"
        \/ InBatch(p) \/ (stage = "apply" /\ batch.moved # {})
        \/ rescan \/ scan = "walk"
=============================================================================
