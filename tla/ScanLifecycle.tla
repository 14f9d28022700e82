---------------------------- MODULE ScanLifecycle ----------------------------
(***************************************************************************)
(* The scan orchestrator of fff-core (scan.rs, shared.rs and the scan      *)
(* related parts of file_picker.rs): one shared slot that holds at most    *)
(* one FilePicker, scan threads that walk the tree off-lock and commit     *)
(* into the slot, callers that ask for rescans, and a host (the nvim       *)
(* plugin or the C API) that creates, restarts and destroys the picker.    *)
(*                                                                         *)
(* The picker slot is guarded by a readers-writer lock.  A critical        *)
(* section is one action, except the one in which two readers can          *)
(* interleave with an effect (post_scan_snapshot): it is two actions and   *)
(* writers wait while a reader is between them.                            *)
(*                                                                         *)
(* A FileSync (the file table a walk produces) is named by the scan job    *)
(* that walked it, a cache budget by the job that installed it; Fresh is   *)
(* the value FilePicker::new starts with.                                  *)
(***************************************************************************)
EXTENDS Naturals, FiniteSets

CONSTANTS
    Pickers,        \* identities of FilePicker values, each used once
    Jobs,           \* identities of scan threads, each used once
    Callers,        \* threads that call trigger_full_rescan_async
    HostOps,        \* how the host gives a picker up: "cancel" and/or "take"
    Configs,        \* the FilePickerOptions a host may ask for
    NoPicker, NoJob, NoSnapshot, Fresh,
    MaxRequests     \* BOUND: how many rescans are requested

Config == [warmup: BOOLEAN, content_indexing: BOOLEAN, watch: BOOLEAN,
           explicit_budget: BOOLEAN]

\* PostScanUnsafeSnapshot: which picker, FileSync and budget its pointers are into.
Snapshot == [picker: Pickers, sync: Jobs \cup {Fresh}, budget: Jobs \cup {Fresh}]

ASSUME BoundAssumption == MaxRequests \in Nat
ASSUME ConfigAssumption == Configs \subseteq Config /\ HostOps \subseteq {"cancel", "take"}
ASSUME NameAssumption ==
    /\ NoPicker \notin Pickers
    /\ NoJob \notin Jobs
    /\ Fresh \notin Jobs
    /\ Jobs \subseteq Nat
    /\ NoSnapshot \notin Snapshot

VARIABLES
    picker,         \* the shared slot: a picker or NoPicker
    life,           \* [Pickers -> {"new", "shared", "dropped"}]
    config,         \* [Pickers -> Config] the options the picker was built with
    scanning, watcherReady, cancelled, pending, indexing,   \* its ScanSignals
    sync,           \* [Pickers -> Jobs \cup {Fresh}] whose walk sync_data is
    budget,         \* [Pickers -> Jobs \cup {Fresh}] who installed cache_budget
    index,          \* [Pickers -> Jobs \cup {Fresh, NoJob}] the FileSync bigram_index was built from
    watcher,        \* [Pickers -> Jobs \cup {NoJob}] the job that installed background_watcher
    pc, owner, initial, target, snap,   \* scan threads
    callerPc, callerTarget, requests,   \* callers of trigger_full_rescan_async
    host                                \* the host's position in a (re)start

signals == <<scanning, watcherReady, cancelled, pending, indexing>>
data    == <<sync, budget, index, watcher>>
slot    == <<picker, life, config>>
jobs    == <<pc, owner, initial, target, snap>>
callers == <<callerPc, callerTarget, requests>>
vars    == <<slot, signals, data, jobs, callers, host>>

JobPc == {"unused", "start", "walk", "commit", "flip", "git", "gitLoad",
          "gitStore", "gitApply", "watch", "watchInstall", "post", "budget",
          "postLoad", "postStore", "build1", "install1", "build2", "install2",
          "release", "drain", "renew", "rearm", "respawn", "drop", "done",
          "abort", "aborted"}

TypeOK ==
    /\ picker \in Pickers \cup {NoPicker}
    /\ life \in [Pickers -> {"new", "shared", "dropped"}]
    /\ config \in [Pickers -> Config]
    /\ scanning \in [Pickers -> BOOLEAN]
    /\ watcherReady \in [Pickers -> BOOLEAN]
    /\ cancelled \in [Pickers -> BOOLEAN]
    /\ pending \in [Pickers -> BOOLEAN]
    /\ indexing \in [Pickers -> BOOLEAN]
    /\ sync \in [Pickers -> Jobs \cup {Fresh}]
    /\ budget \in [Pickers -> Jobs \cup {Fresh}]
    /\ index \in [Pickers -> Jobs \cup {Fresh, NoJob}]
    /\ watcher \in [Pickers -> Jobs \cup {NoJob}]
    /\ pc \in [Jobs -> JobPc]
    /\ owner \in [Jobs -> Pickers \cup {NoPicker}]
    /\ \A j \in Jobs : pc[j] # "unused" => owner[j] \in Pickers
    /\ initial \in [Jobs -> BOOLEAN]
    /\ target \in [Jobs -> Pickers \cup {NoPicker}]
    /\ \A j \in Jobs : pc[j] = "respawn" => target[j] \in Pickers
    /\ snap \in [Jobs -> Snapshot \cup {NoSnapshot}]
    /\ callerPc \in [Callers -> {"idle", "arm", "spawn"}]
    /\ callerTarget \in [Callers -> Pickers \cup {NoPicker}]
    /\ \A c \in Callers : callerPc[c] = "spawn" => callerTarget[c] \in Pickers
    /\ requests \in 0..MaxRequests
    /\ host \in {"idle", "install", "spawn"}
    /\ host = "spawn" => picker \in Pickers
-----------------------------------------------------------------------------
(***************************************************************************)
(* The lock of the slot.  A thread inside post_scan_snapshot holds the     *)
(* read lock between its load and its store of the flag.                   *)
(***************************************************************************)
Readers == {j \in Jobs : pc[j] \in {"gitStore", "postStore"}}
WriteLock == Readers = {}

\* Positions in ScanJob::run before `scanning.store(false)`: the scan is visible.
Scanning == {"start", "walk", "commit", "flip", "abort"}
Finished == {"unused", "done", "aborted"}
\* Positions after the walk was committed.
Committed == JobPc \ (Finished \cup Scanning)

Goto(j, next) == pc' = [pc EXCEPT ![j] = next]

\* new_rescan returns Ok(None): a scan is running or a snapshot is out.
Busy(p) == scanning[p] \/ indexing[p]

\* Mutant: `scanning` is raised by the thread only, not by spawn.
SpawnJobLate(k, p, isInitial) ==
    /\ pc[k] = "unused"
    /\ \A i \in Jobs : i < k => pc[i] # "unused"
    /\ owner' = [owner EXCEPT ![k] = p]
    /\ initial' = [initial EXCEPT ![k] = isInitial]
    /\ UNCHANGED scanning

\* ScanJob::spawn: publish `scanning` before the thread exists.  Thread
\* identities are handed out in order, so that no two name the same history.
SpawnJob(k, p, isInitial) ==
    /\ pc[k] = "unused"
    /\ \A i \in Jobs : i < k => pc[i] # "unused"
    /\ scanning' = [scanning EXCEPT ![p] = TRUE]
    /\ owner' = [owner EXCEPT ![k] = p]
    /\ initial' = [initial EXCEPT ![k] = isInitial]
-----------------------------------------------------------------------------
(***************************************************************************)
(* Callers of trigger_full_rescan_async: the watcher's overflow path, the  *)
(* nvim command and the C API.                                             *)
(***************************************************************************)
Request(c) ==
    /\ callerPc[c] = "idle"
    /\ requests < MaxRequests
    /\ picker # NoPicker                \* otherwise Err(FilePickerMissing)
    /\ requests' = requests + 1
    /\ callerPc' = [callerPc EXCEPT ![c] = IF Busy(picker) THEN "arm" ELSE "spawn"]
    /\ callerTarget' = [callerTarget EXCEPT ![c] = IF Busy(picker) THEN NoPicker ELSE picker]
    /\ UNCHANGED <<slot, signals, data, jobs, host>>

RequestSpawn(c) ==
    /\ callerPc[c] = "spawn"
    /\ \E k \in Jobs : SpawnJob(k, callerTarget[c], FALSE) /\ Goto(k, "start")
    /\ callerPc' = [callerPc EXCEPT ![c] = "idle"]
    /\ callerTarget' = [callerTarget EXCEPT ![c] = NoPicker]
    /\ UNCHANGED <<slot, watcherReady, cancelled, pending, indexing, data, target,
                   snap, requests, host>>

\* The lock is taken again: the flag armed is the one of the picker found now.
RequestArm(c) ==
    /\ callerPc[c] = "arm"
    /\ pending' = [p \in Pickers |-> p = picker \/ pending[p]]
    /\ callerPc' = [callerPc EXCEPT ![c] = "idle"]
    /\ UNCHANGED <<slot, scanning, watcherReady, cancelled, indexing, data, jobs,
                   callerTarget, requests, host>>
-----------------------------------------------------------------------------
(***************************************************************************)
(* ScanJob::run, phases 1 and 2: walk, and commit unless cancelled.        *)
(***************************************************************************)
Start(j) ==
    /\ pc[j] = "start"
    /\ Goto(j, "walk")
    /\ scanning' = [scanning EXCEPT ![owner[j]] = TRUE]     \* ScanningGuard::new
    /\ UNCHANGED <<slot, watcherReady, cancelled, pending, indexing, data, owner,
                   initial, target, snap, callers, host>>

\* The walk takes its time and touches nothing shared; the cancellation is
\* read when it is over.
Walk(j) ==
    /\ pc[j] = "walk"
    /\ \/ Goto(j, "abort")              \* the walk failed, or the picker is cancelled
       \/ ~cancelled[owner[j]] /\ Goto(j, "commit")
    /\ UNCHANGED <<slot, signals, data, owner, initial, target, snap, callers, host>>

\* The commit goes to whatever picker is in the slot, and drops the old index
\* together with the old FileSync.
Commit(j) ==
    /\ pc[j] = "commit"
    /\ WriteLock
    /\ IF picker = NoPicker
       THEN Goto(j, "abort") /\ UNCHANGED <<sync, index>>
       ELSE /\ Goto(j, "flip")
            /\ sync' = [sync EXCEPT ![picker] = j]
            /\ index' = [index EXCEPT ![picker] = NoJob]
    /\ UNCHANGED <<slot, signals, budget, watcher, owner, initial, target, snap,
                   callers, host>>

\* "flip the scan signal early".  The resubscription of the watcher that
\* follows changes nothing that this module keeps.
FlipScanning(j) ==
    /\ pc[j] = "flip"
    /\ scanning' = [scanning EXCEPT ![owner[j]] = FALSE]
    /\ Goto(j, "git")
    /\ UNCHANGED <<slot, watcherReady, cancelled, pending, indexing, data, owner,
                   initial, target, snap, callers, host>>
-----------------------------------------------------------------------------
(***************************************************************************)
(* post_scan_snapshot: under a read lock, load the flag; if it is clear,   *)
(* store it and leave with raw pointers into the picker.  The snapshot's   *)
(* drop clears the flag of the picker it came from.                        *)
(***************************************************************************)
SnapshotLoad(j, at, taken, refused) ==
    /\ pc[j] = at
    /\ Goto(j, IF picker # NoPicker /\ ~indexing[picker] THEN taken ELSE refused)
    /\ UNCHANGED <<slot, signals, data, owner, initial, target, snap, callers, host>>

SnapshotStore(j, at, next) ==
    /\ pc[j] = at
    /\ indexing' = [indexing EXCEPT ![picker] = TRUE]
    /\ snap' = [snap EXCEPT ![j] = [picker |-> picker, sync |-> sync[picker],
                                    budget |-> budget[picker]]]
    /\ Goto(j, next)
    /\ UNCHANGED <<slot, scanning, watcherReady, cancelled, pending, data, owner,
                   initial, target, callers, host>>

\* Mutant: the drop clears the flag of the picker that is in the slot by now.
SnapshotDropInSlot(j, at, next) ==
    /\ pc[j] = at
    /\ indexing' = [p \in Pickers |-> p # picker /\ indexing[p]]
    /\ snap' = [snap EXCEPT ![j] = NoSnapshot]
    /\ Goto(j, next)
    /\ UNCHANGED <<slot, scanning, watcherReady, cancelled, pending, data, owner,
                   initial, target, callers, host>>

SnapshotDrop(j, at, next) ==
    /\ pc[j] = at
    /\ indexing' = [indexing EXCEPT ![snap[j].picker] = FALSE]
    /\ snap' = [snap EXCEPT ![j] = NoSnapshot]
    /\ Goto(j, next)
    /\ UNCHANGED <<slot, scanning, watcherReady, cancelled, pending, data, owner,
                   initial, target, callers, host>>
-----------------------------------------------------------------------------
(***************************************************************************)
(* Phase 3: apply_git_status_and_frecency writes through the snapshot.     *)
(***************************************************************************)
GitCheck(j) ==
    /\ pc[j] = "git"
    /\ \/ ~cancelled[owner[j]] /\ Goto(j, "gitLoad")
       \/ Goto(j, "watch")      \* cancelled, not a repository, or no status
    /\ UNCHANGED <<slot, signals, data, owner, initial, target, snap, callers, host>>

GitSnapshotLoad(j) == SnapshotLoad(j, "gitLoad", "gitStore", "watch")
GitSnapshotStore(j) == SnapshotStore(j, "gitStore", "gitApply")
GitApplied(j) == SnapshotDrop(j, "gitApply", "watch")
-----------------------------------------------------------------------------
(***************************************************************************)
(* Phase 4: the initial scan installs the filesystem watcher.              *)
(***************************************************************************)
WatchCheck(j) ==
    /\ pc[j] = "watch"
    /\ \/ /\ initial[j] /\ config[owner[j]].watch /\ ~cancelled[owner[j]]
          /\ Goto(j, "watchInstall")
       \/ Goto(j, "post")       \* a rescan, cancelled, or the watcher failed to start
    /\ UNCHANGED <<slot, signals, data, owner, initial, target, snap, callers, host>>

WatchInstall(j) ==
    /\ pc[j] = "watchInstall"
    /\ WriteLock
    /\ watcher' = [p \in Pickers |-> IF p = picker THEN j ELSE watcher[p]]
    /\ Goto(j, "post")
    /\ UNCHANGED <<slot, signals, sync, budget, index, owner, initial, target, snap,
                   callers, host>>
-----------------------------------------------------------------------------
(***************************************************************************)
(* Phase 5: run_post_scan sizes the cache budget, takes a snapshot and     *)
(* builds the bigram index from it, twice.  Each build ends with a write   *)
(* lock under which the index goes to whatever picker is in the slot.      *)
(***************************************************************************)
PostCheck(j) ==
    LET wanted == config[owner[j]].warmup \/ config[owner[j]].content_indexing IN
    /\ pc[j] = "post"
    /\ Goto(j, IF wanted /\ ~cancelled[owner[j]] THEN "budget" ELSE "drain")
    /\ UNCHANGED <<slot, signals, data, owner, initial, target, snap, callers, host>>

\* A rescan of a picker with an explicit budget has auto_cache_budget = false;
\* the initial scan has it set but the picker itself is asked again.
SetBudget(j) ==
    LET auto == initial[j] \/ ~config[owner[j]].explicit_budget IN
    /\ pc[j] = "budget"
    /\ WriteLock
    /\ IF /\ auto /\ ~cancelled[owner[j]] /\ picker # NoPicker
          /\ ~config[picker].explicit_budget
       THEN budget' = [budget EXCEPT ![picker] = j]
       ELSE UNCHANGED budget
    /\ Goto(j, "postLoad")
    /\ UNCHANGED <<slot, signals, sync, index, watcher, owner, initial, target, snap,
                   callers, host>>

PostSnapshotLoad(j) == SnapshotLoad(j, "postLoad", "postStore", "drain")
PostSnapshotStore(j) == SnapshotStore(j, "postStore", "build1")

BuildIndex(j, at, built, skipped) ==
    LET wanted == config[owner[j]].content_indexing /\ ~cancelled[owner[j]] IN
    /\ pc[j] = at
    /\ Goto(j, IF wanted THEN built ELSE skipped)
    /\ UNCHANGED <<slot, signals, data, owner, initial, target, snap, callers, host>>

InstallIndex(j, at, next) ==
    /\ pc[j] = at
    /\ WriteLock
    /\ index' = [p \in Pickers |-> IF p = picker THEN snap[j].sync ELSE index[p]]
    /\ Goto(j, next)
    /\ UNCHANGED <<slot, signals, sync, budget, watcher, owner, initial, target, snap,
                   callers, host>>

BuildFirst(j)    == BuildIndex(j, "build1", "install1", "build2")
InstallFirst(j)  == InstallIndex(j, "install1", "build2")
BuildSecond(j)   == BuildIndex(j, "build2", "install2", "release")
InstallSecond(j) == InstallIndex(j, "install2", "release")
\* Mutant: the snapshot lives to the end of run, as if run_post_scan returned it.
PostDoneLate(j) ==
    /\ pc[j] = "release"
    /\ Goto(j, "drain")
    /\ UNCHANGED <<slot, signals, data, owner, initial, target, snap, callers, host>>
PostDone(j)      == SnapshotDrop(j, "release", "drain")
-----------------------------------------------------------------------------
(***************************************************************************)
(* Phase 6: run the rescan that was requested while this scan was busy,    *)
(* then drop the ScanningGuard.                                            *)
(***************************************************************************)
Drain(j) ==
    /\ pc[j] = "drain"
    /\ \/ /\ ~cancelled[owner[j]] /\ pending[owner[j]]
          /\ pending' = [pending EXCEPT ![owner[j]] = FALSE]
          /\ Goto(j, "renew")
       \/ /\ cancelled[owner[j]] \/ ~pending[owner[j]]
          /\ Goto(j, "drop")
          /\ UNCHANGED pending
    /\ UNCHANGED <<slot, scanning, watcherReady, cancelled, indexing, data, owner,
                   initial, target, snap, callers, host>>

\* Mutant: new_rescan without its FilePickerMissing return.
RenewUnchecked(j) ==
    /\ pc[j] = "renew"
    /\ IF picker # NoPicker /\ Busy(picker)
       THEN Goto(j, "rearm") /\ UNCHANGED target
       ELSE Goto(j, "respawn") /\ target' = [target EXCEPT ![j] = picker]
    /\ UNCHANGED <<slot, signals, data, owner, initial, snap, callers, host>>

\* new_rescan, asked of the picker that is in the slot by now.
Renew(j) ==
    /\ pc[j] = "renew"
    /\ \/ picker = NoPicker /\ Goto(j, "drop") /\ UNCHANGED target
       \/ picker # NoPicker /\ Busy(picker) /\ Goto(j, "rearm") /\ UNCHANGED target
       \/ /\ picker # NoPicker /\ ~Busy(picker) /\ Goto(j, "respawn")
          /\ target' = [target EXCEPT ![j] = picker]
    /\ UNCHANGED <<slot, signals, data, owner, initial, snap, callers, host>>

Rearm(j) ==
    /\ pc[j] = "rearm"
    /\ pending' = [pending EXCEPT ![owner[j]] = TRUE]
    /\ Goto(j, "drop")
    /\ UNCHANGED <<slot, scanning, watcherReady, cancelled, indexing, data, owner,
                   initial, target, snap, callers, host>>

Respawn(j) ==
    /\ pc[j] = "respawn"
    /\ \E k \in Jobs :
          /\ SpawnJob(k, target[j], FALSE)
          /\ pc' = [pc EXCEPT ![j] = "drop", ![k] = "start"]
    /\ target' = [target EXCEPT ![j] = NoPicker]
    /\ UNCHANGED <<slot, watcherReady, cancelled, pending, indexing, data, snap,
                   callers, host>>

\* Mutant: no guard: the early returns leave `scanning` as it is.
DropGuardNoReset(j) ==
    /\ pc[j] \in {"drop", "abort"}
    /\ scanning' = [scanning EXCEPT ![owner[j]] = @ /\ pc[j] = "abort"]
    /\ watcherReady' = [watcherReady EXCEPT ![owner[j]] = @ \/ initial[j]]
    /\ Goto(j, IF pc[j] = "drop" THEN "done" ELSE "aborted")
    /\ UNCHANGED <<slot, cancelled, pending, indexing, data, owner, initial, target,
                   snap, callers, host>>

\* Mutant: watcher_ready is raised where the watcher is, not by the guard.
DropGuardNotReady(j) ==
    /\ pc[j] \in {"drop", "abort"}
    /\ scanning' = [scanning EXCEPT ![owner[j]] = FALSE]
    /\ watcherReady' = [watcherReady EXCEPT ![owner[j]] = @ \/ (initial[j] /\ pc[j] = "drop")]
    /\ Goto(j, IF pc[j] = "drop" THEN "done" ELSE "aborted")
    /\ UNCHANGED <<slot, cancelled, pending, indexing, data, owner, initial, target,
                   snap, callers, host>>

DropGuard(j) ==
    /\ pc[j] \in {"drop", "abort"}
    /\ scanning' = [scanning EXCEPT ![owner[j]] = FALSE]
    /\ watcherReady' = [watcherReady EXCEPT ![owner[j]] = @ \/ initial[j]]
    /\ Goto(j, IF pc[j] = "drop" THEN "done" ELSE "aborted")
    /\ UNCHANGED <<slot, cancelled, pending, indexing, data, owner, initial, target,
                   snap, callers, host>>
-----------------------------------------------------------------------------
(***************************************************************************)
(* The host.  A restart in fff-nvim cancels the old picker and leaves it   *)
(* in the slot; a restart in fff-c, and the cleanup of both, take it out   *)
(* and never cancel it.  Pickers are created with new_with_shared_state:   *)
(* a write lock to install one, then spawn.  FilePicker::new may refuse    *)
(* the path (it is the root, or gone) after the old picker was cancelled.  *)
(***************************************************************************)
DropPicker ==
    /\ sync' = [p \in Pickers |-> IF p = picker THEN Fresh ELSE sync[p]]
    /\ budget' = [p \in Pickers |-> IF p = picker THEN Fresh ELSE budget[p]]
    /\ index' = [p \in Pickers |-> IF p = picker THEN NoJob ELSE index[p]]
    /\ watcher' = [p \in Pickers |-> IF p = picker THEN NoJob ELSE watcher[p]]
Retire(p) == [q \in Pickers |-> IF q = p THEN "dropped" ELSE life[q]]

CancelForRestart ==
    /\ host = "idle"
    /\ "cancel" \in HostOps
    /\ picker # NoPicker
    /\ WriteLock
    /\ cancelled' = [cancelled EXCEPT ![picker] = TRUE]
    /\ watcher' = [watcher EXCEPT ![picker] = NoJob]
    /\ host' = "install"
    /\ UNCHANGED <<slot, scanning, watcherReady, pending, indexing, sync, budget,
                   index, jobs, callers>>

TakePicker ==
    /\ host = "idle"
    /\ "take" \in HostOps
    /\ picker # NoPicker
    /\ WriteLock
    /\ picker' = NoPicker
    /\ life' = Retire(picker)
    /\ DropPicker
    /\ UNCHANGED <<config, signals, jobs, callers, host>>

InstallPicker(q) ==
    /\ host = "install" \/ (host = "idle" /\ picker = NoPicker)
    /\ life[q] = "new"
    /\ WriteLock
    /\ picker' = q
    /\ life' = [Retire(picker) EXCEPT ![q] = "shared"]
    /\ DropPicker
    /\ \E c \in Configs : config' = [config EXCEPT ![q] = c]
    /\ host' = "spawn"
    /\ UNCHANGED <<signals, jobs, callers>>

RestartFails ==
    /\ host = "install"
    /\ host' = "idle"
    /\ UNCHANGED <<slot, signals, data, jobs, callers>>

SpawnInitial ==
    /\ host = "spawn"
    /\ \E k \in Jobs : SpawnJob(k, picker, TRUE) /\ Goto(k, "start")
    /\ host' = "idle"
    /\ UNCHANGED <<slot, watcherReady, cancelled, pending, indexing, data, target,
                   snap, callers>>
-----------------------------------------------------------------------------
Init ==
    /\ picker = NoPicker
    /\ life = [p \in Pickers |-> "new"]
    /\ config \in [Pickers -> {[warmup |-> FALSE, content_indexing |-> FALSE,
                                watch |-> FALSE, explicit_budget |-> FALSE]}]
    /\ scanning = [p \in Pickers |-> FALSE]
    /\ watcherReady = [p \in Pickers |-> FALSE]
    /\ cancelled = [p \in Pickers |-> FALSE]
    /\ pending = [p \in Pickers |-> FALSE]
    /\ indexing = [p \in Pickers |-> FALSE]
    /\ sync = [p \in Pickers |-> Fresh]
    /\ budget = [p \in Pickers |-> Fresh]
    /\ index = [p \in Pickers |-> NoJob]
    /\ watcher = [p \in Pickers |-> NoJob]
    /\ pc = [j \in Jobs |-> "unused"]
    /\ owner = [j \in Jobs |-> NoPicker]
    /\ initial = [j \in Jobs |-> FALSE]
    /\ target = [j \in Jobs |-> NoPicker]
    /\ snap = [j \in Jobs |-> NoSnapshot]
    /\ callerPc = [c \in Callers |-> "idle"]
    /\ callerTarget = [c \in Callers |-> NoPicker]
    /\ requests = 0
    /\ host = "idle"

JobStep(j) ==
    \/ Start(j) \/ Walk(j) \/ Commit(j) \/ FlipScanning(j)
    \/ GitCheck(j) \/ GitSnapshotLoad(j) \/ GitSnapshotStore(j) \/ GitApplied(j)
    \/ WatchCheck(j) \/ WatchInstall(j)
    \/ PostCheck(j) \/ SetBudget(j) \/ PostSnapshotLoad(j) \/ PostSnapshotStore(j)
    \/ BuildFirst(j) \/ InstallFirst(j) \/ BuildSecond(j) \/ InstallSecond(j)
    \/ PostDone(j)
    \/ Drain(j) \/ Renew(j) \/ Rearm(j) \/ Respawn(j) \/ DropGuard(j)

CallerStep(c) == RequestSpawn(c) \/ RequestArm(c)

Next ==
    \/ \E j \in Jobs : JobStep(j)
    \/ \E c \in Callers : Request(c) \/ CallerStep(c)
    \/ CancelForRestart \/ TakePicker \/ RestartFails \/ SpawnInitial
    \/ \E q \in Pickers : InstallPicker(q)

\* A thread that has been started runs to its end: the OS schedules every
\* scan thread and every caller that is inside a call.  Nobody is obliged to
\* request, cancel, take or create anything.
Fairness ==
    /\ \A j \in Jobs : WF_vars(JobStep(j))
    /\ \A c \in Callers : WF_vars(CallerStep(c))
    /\ WF_vars(SpawnInitial)

Spec == Init /\ [][Next]_vars /\ Fairness
-----------------------------------------------------------------------------
(***************************************************************************)
(* Safety.                                                                 *)
(***************************************************************************)

\* The progress flag is never stuck: while `scanning` is up, a thread of that
\* picker is still before the commit and will lower it, through whichever of
\* the three early returns of run() it leaves.
ScanningHasScanner ==
    \A p \in Pickers : scanning[p] => \E j \in Jobs : owner[j] = p /\ pc[j] \in Scanning

\* post_scan_indexing_active is never left up by nobody (it would refuse every
\* later rescan): some thread holds a snapshot of that picker and will drop it.
IndexingHasHolder ==
    \A p \in Pickers : indexing[p] =>
        \E j \in Jobs : snap[j] # NoSnapshot /\ snap[j].picker = p

\* What wait_for_scan promises the caller of new_with_shared_state: once that
\* call has returned and `scanning` is seen low, the picker has its files, or
\* a walk of it failed or was discarded.
WaitForScanSeesFiles ==
    (picker # NoPicker /\ host # "spawn" /\ ~scanning[picker] /\ sync[picker] = Fresh) =>
        \E j \in Jobs : owner[j] = picker /\ pc[j] = "aborted"
-----------------------------------------------------------------------------
(***************************************************************************)
(* Liveness.                                                               *)
(***************************************************************************)

\* wait_for_scan returns: every scan that became visible stops being visible.
ScanSettles == \A p \in Pickers : scanning[p] ~> ~scanning[p]

\* wait_for_watcher returns: the initial scan raises the flag however it ends.
WatcherReadyEventually ==
    \A j \in Jobs : (pc[j] = "start" /\ initial[j]) ~>
        (pc[j] \in {"done", "aborted"} /\ watcherReady[owner[j]])

Used == Cardinality({j \in Jobs : pc[j] # "unused"})

\* A rescan deferred while the only live scan has committed and not yet
\* drained is run: that scan drains after it let go of its snapshot, so the
\* follow-up is not refused.
DeferredRescanRuns ==
    \A j \in Jobs, p \in Pickers, n \in 1..Cardinality(Jobs) :
        ( /\ owner[j] = p /\ picker = p /\ pending[p] /\ Used = n
          /\ pc[j] \in Committed \ {"renew", "rearm", "respawn", "drop"}
          /\ \A k \in Jobs \ {j} : pc[k] \in Finished )
        ~> (Used > n \/ picker # p \/ cancelled[p])
-----------------------------------------------------------------------------
(***************************************************************************)
(* What the documentation of the code says and the code does not keep.     *)
(***************************************************************************)

\* shared.rs, trigger_full_rescan_async: "If many rescans requested the last one guaranteed to
\* be finished."  A deferred rescan has somebody left who will run it (or a walk
\* failed, which run() answers with an early return).
LastRescanRuns ==
    (picker # NoPicker /\ host = "idle" /\ pending[picker] /\ ~cancelled[picker]) =>
        \/ \E j \in Jobs : pc[j] \notin Finished
        \/ \E c \in Callers : callerPc[c] # "idle"
        \/ \E j \in Jobs : pc[j] = "aborted"

\* file_picker.rs: "the pointers are derived from Vec/Arc storage that outlives
\* any use of this struct".
SnapshotIsLive ==
    \A j \in Jobs : snap[j] # NoSnapshot =>
        /\ snap[j].picker = picker
        /\ snap[j].sync = sync[picker]
        /\ pc[j] # "gitApply" => snap[j].budget = budget[picker]

\* fff-nvim lib.rs: cancellation comes first "so any orphaned scan/post-scan
\* threads discard their results instead of racing with the new picker".
OrphansDiscard ==
    picker # NoPicker =>
        /\ sync[picker] \in Jobs => owner[sync[picker]] = picker
        /\ index[picker] \in Jobs => owner[index[picker]] = picker
=============================================================================
