# TLA+ models of fff

fff is a file picker: a Rust core (`crates/fff-core`) that indexes a directory
tree, keeps the index in step with the disk and answers fuzzy, path and content
queries, and front ends (Neovim plugin, C interface, MCP server, the `fffq`
command, Node and Bun packages). This directory models the parts in which threads,
processes, locks and events meet, and the pure parts whose result everybody relies
on: queries, filters, pages. Paths below are relative to `src/`; `core/` stands for
`crates/fff-core/src/`.

Run a model with `tlc -config ScanLive.cfg MCScanLifecycle.tla`, check the proofs
with `tlapm FileIndexProofs.tla`.

## 1. Inventory

| Component | State | Operations | Module |
|---|---|---|---|
| **Scan orchestrator** `core/scan.rs`, `core/shared.rs`, part of `core/file_picker.rs` | the picker slot under a readers-writer lock; five atomic flags per picker (`scanning`, `watcher_ready`, `cancelled`, `rescan_pending`, `post_scan_indexing_active`); one thread per scan | create, restart, destroy a picker; request a rescan; the six phases of `ScanJob::run` | `ScanLifecycle` |
| **File index** `FileSync` in `core/file_picker.rs`, `core/stable_vec.rs` | base files, tombstones, overflow files, capacity, git status | create or modify, remove file, remove directory, update statuses, replace | `FileIndex`, `TrackedFiles` |
| **Directory watching** `core/background_watcher.rs` | watches, event queue, the owner thread's channel | register, list a new directory, handle a batch, resubscribe, stop | `Watch` |
| **Bigram content index** `core/bigram_filter.rs`, `core/bigram_query.rs` | columns of file bits, an overlay of modified, added and removed files | build in parallel, install, query, overlay | `BigramColumns`, `ContentIndex`, `BigramQuery` |
| **Grep** `core/grep.rs`, `crates/fff-grep` | none (an offset travels with the caller) | five searches: candidates, chunks, time budget, paging | `ContentSearch`, `GrepPaging` |
| **Content cache** `core/types.rs` | bytes and files cached, a cell per file | get, warm up, invalidate, replace the budget | `ContentCache` |
| **Frecency database** `core/dbs/frecency.rs`, `core/dbs/lmdb.rs` | LMDB: access times per file | track, score, purge, destroy, reopen | `Stores` |
| **Locks** `core/shared.rs`, `core/git.rs`, the hosts | picker, frecency, query, debouncer locks | every call that nests them | `Stores` |
| **Query history** `core/dbs/query_tracker.rs` | LMDB: files opened per query | record, look up | its lock in `Stores` |
| **Query parser, constraints** `crates/fff-query-parser`, `core/constraints.rs` | none | parse a query, filter items | `QueryParser` |
| **Scoring and sorting** `core/score.rs`, `core/sort_buffer.rs` | none | match, combine, sort, cut a page | `FuzzySearch` |
| **Sidecar protocol** `crates/fffq/src/main.rs`, `crates/fff-mcp/src/main.rs` | a registry file, a lock directory, server processes | find or start a server, ask, retry, clean up | `Sidecar` |
| **Path store** `core/simd_path.rs` | read-only after a walk | | not modelled |
| **Front ends** `lua/`, `crates/fff-nvim`, `crates/fff-c`, `crates/fff-mcp`, `packages/` | handles to the shared picker, cursors | marshal, page and render | their life cycle, locks, paging |

How they interact. The picker sits in `SharedFilePicker`, an
`Arc<RwLock<Option<FilePicker>>>`. Scan threads walk off-lock and commit under the
write lock; after the commit they work through raw pointers taken under a read
lock (`PostScanUnsafeSnapshot`): warm-up of the cache, git status, the bigram
index. The debouncer thread of `notify` calls `handle_debounced_events`, which reads
the disk first and takes the write lock afterwards; the owner thread lists new
directories the same way. Both may ask for a full rescan, which is refused and
deferred while a scan is busy. Searches read under the read lock. `fffq` processes
meet each other and the servers only through files and HTTP.

What makes each component correct:

- *Scan orchestrator*: the waits of the API end, a low `scanning` flag means the
  files are there, deferred rescans run, no snapshot outlives its table.
- *File index and watching*: a path is in the table at most once, and the table
  agrees with the disk except for what is still in flight; nothing appears unseen.
- *Bigram index and grep*: no search drops a file that holds the pattern, whatever
  was edited between building, installing and asking; pages cover the matches.
- *Content cache*: the counters cover what is cached, nothing stale is served.
- *Databases and locks*: no access is lost, nobody waits for ever.
- *Queries*: a filter means what its token says, a page is a part of one ranking.
- *Sidecars*: one server per project, none that cannot be found again, a run ends.

## 2. Modules

| Module | Models | Code it follows |
|---|---|---|
| `ScanLifecycle` | scan orchestrator, hosts' life cycle calls | `core/scan.rs` 58-489, `core/shared.rs` 88-184, `core/file_picker.rs` 685-773, 1234-1293, `crates/fff-nvim/src/lib.rs` 92-109, `crates/fff-c/src/lib.rs` 876-916 |
| `FileIndex` | file table, debouncer handler, owner thread, walk and commit | `core/file_picker.rs` 126-336, 1305-1557, 1814-1966, `core/stable_vec.rs`, `core/background_watcher.rs` 38-105, 395-756 |
| `TrackedFiles` | what the table promises: a set of files | |
| `Watch` | registration of watches, the owner's channel, stop | `core/background_watcher.rs`, `core/scan.rs`, `core/file_picker.rs` 560-600 |
| `BigramColumns` | the parallel builder | `core/bigram_filter.rs` 30-200, 603-710 |
| `ContentIndex` | a table with positions, its index and overlay, build and installation | `core/bigram_filter.rs`, `core/file_picker.rs`, `core/scan.rs` 286-367 |
| `ContentSearch` | which files each kind of grep reads; EXTENDS `ContentIndex` | `core/grep.rs` 960-1040, 1930-2175 |
| `BigramQuery` | regex and fuzzy needle to bigram query | `core/bigram_query.rs` |
| `GrepPaging` | chunks, limits and offsets of a search; its clients | `core/grep.rs` 1230-1530, `crates/fff-mcp/src` |
| `ContentCache` | cells, counters, invalidation | `core/types.rs` 440-560 |
| `Stores` | the locks of the shared handles, the row of one file in the frecency database | `core/shared.rs`, `core/dbs/`, `core/git.rs`, `crates/fff-nvim/src/lib.rs`, `crates/fff-c/src/lib.rs` |
| `QueryParser` | tokens, constraints, filtering | `crates/fff-query-parser/src`, `core/constraints.rs` |
| `FuzzySearch` | search, sort, pages and four clients; EXTENDS `QueryParser` | `core/score.rs`, `core/sort_buffer.rs`, `core/file_picker.rs` 853-1136, `lua/fff/picker_ui.lua`, `crates/fff-c/src/lib.rs`, `crates/fff-mcp/src/server.rs`, `packages/pi-fff/src/index.ts` |
| `Sidecar` | registry, start lock, retry, cleanup | `crates/fffq/src/main.rs`, `crates/fff-mcp/src/main.rs` 471-601 |
| `MC...` | constants for TLC | |
| `ScanLifecycleProofs`, `FileIndexProofs`, `ContentProofs`, `ContentPartsProofs`, `StoresProofs`, `WatchProofs`, `SearchProofs`, `SidecarProofs` | inductive invariants and theorems | |

Composition: `FileIndex` implements `TrackedFiles`; `ContentSearch` is `ContentIndex`
asked five ways; `FuzzySearch` runs on what `QueryParser` parses and filters. `Watch`
examines what `FileIndex` assumes of watches, `ContentIndex` what a table with
positions adds to it, and `ContentCache` what is read through the same snapshot.

A convention that several modules share: where the code has a window in which it
does lose something, a *ghost* variable names what fell into it (`overlooked`,
`stranded`, `lost`, `shifted`, `missed`, `uncounted`, `outdated`, `excuse`), and the property
says that there is *no other* way to lose it. Section 5 lists the windows.

### ScanLifecycle

`picker` is the slot; `life`, `config` and the five flags are functions of the
picker, so that a thread can hold on to the flags of a picker that left the slot,
as the `Arc`s of the code allow. `sync`, `budget` and `index` say *whose* file
table, cache budget and bigram index a picker has: a table is named by the scan
that walked it. `pc[j]` is the position of scan thread `j` in `ScanJob::run`.

A critical section is one action: its effect is atomic for everybody else who
takes the lock. The exception is `post_scan_snapshot`, which loads a flag and
stores it *under a read lock*: two readers can interleave, so it is two actions
(`SnapshotLoad`, `SnapshotStore`), and `WriteLock` keeps writers out while a
thread is between them. The atomics that are touched outside the lock
(`scanning`, `rescan_pending`, `cancelled`) are actions of their own, in the order
of the code. `Request` and `RequestArm` are two critical sections because
`trigger_full_rescan_async` drops the lock between asking `new_rescan` and storing
`rescan_pending`.

The walk, the git query and the builds change nothing shared and may fail, so they
are nondeterministic outcomes of one step (`Walk`, `GitCheck`, `BuildIndex`). Both
hosts are there: fff-nvim cancels the old picker and leaves it in the slot until
the new one is installed (`CancelForRestart`, `InstallPicker`, `RestartFails`), fff-c
takes it out and never cancels it (`TakePicker`).

### FileIndex

A file is its path. `base`, `tombstones` and `overflow` are the three parts of a
`FileSync`; `overflow` counts entries, so that a double entry can be expressed.
`capacity` is what `Vec::reserve` was given, and up to `MaxSlack` more.
`status` is the set of files with a cached git status.

`events` is the debouncer's queue; a removal can be told as a rename (`touch`),
a deleted tree as one event, and the kernel may drop everything and say so. A tree
that is renamed or moved out (`MoveDir`) is told by one event too, but of the directory
itself: `TakeBatch` finds it gone and takes it for a removed *file* (`moved`), which no
entry of the table is. One that is moved in, or made (`MakeDir`), may bring files, of
which only the immediate ones will be listed.
`TakeBatch` decides from the events and from *the disk at that moment* what was
removed and touched, without the lock; `ApplyBatch` applies it under the lock,
removals first. `ListDir`/`AddListed` is the owner thread, `WalkRead` (path by
path), `CommitWalk` the scan. Between any two of these the disk may change.

`overlooked` is a ghost: it holds the paths whose last change fell between a
thread's reading of the path and the use it makes of it (the walk until its
commit, the owner thread until it has the lock), or happened while nothing was
watched, or was a file of a listing that found no room. These are the windows in
which the code does lose changes; the ghost names them so that `IndexIsCurrent` can
say that there are *no others*. A new reading of the path takes it out again.
`stranded` is another: the files below a directory that was moved away, and those
that came with one and are deeper in it. Nobody looks at them again until
something happens to the file itself, its directory is removed or a rescan walks the
tree; a directory that goes with its files one by one, or as `Remove(Folder)`, strands
none.

`TrackedFiles` is the abstract specification: one set of files, replaced by a scan,
changed by a batch (what is gone goes first, what was touched is there or a rescan
is asked for) and grown by a listing. `FileIndex` implements it under
`live <- (base \ tombstones) \cup overflow files`.

Assumed by `FileIndex`, shown or refuted elsewhere: a rescan that was asked for is
run (`ScanLast.cfg` shows the one interleaving in which it is not); every directory
is watched (`Watch` says which are not). Positions in the base vector are
`ContentIndex`'s subject, frecency is `Stores`'.

### ContentIndex and ContentSearch

The index speaks of positions, so here the table is a sequence: base files in the
order of the walk, the indexable ones first, then the overflow. A text is the set of
words in its first 64 KiB and the set of those beyond; a word has bigrams. `build` is
the post-scan phase: a snapshot, then file by file what was read, then the
installation of index and fresh overlay under the lock, twice, as `run_post_scan`
does. The handlers that run in between (`HandleModify`, `HandleRemove`,
`HandleDirGone`) change table and overlay together. Directories are removed here; one
that is moved away changes nothing in the table (`FileIndex`), and a search that reads its
files finds nothing in them. Which bigrams keep a column is
decided by `Columns` from their density, as in `compress`.

`ContentSearch` has one operator per search of `grep.rs` (plain, plain with
constraints, regular expression, fuzzy, several patterns): a search runs under the
read lock, so it is a function of the state. `lost` holds positions edited after
the build read them and before the overlay that could say so was installed;
`shifted` is set when a directory's removal moved positions below an index or a
build.

### BigramColumns

Threads take chunks, files and bigrams; allocation is a load of `lookup`, a
`fetch_add` on `next_column`, a compare-and-swap, and, when it is lost, the winner's
column; a bit is a load and a store of the word that holds it. The counter goes on
past the cap and wraps (`Wrap`). That chunks consist of whole words is an
assumption, taken from `par_chunks(4 * 64)`: the property fails without it.

### BigramQuery

A regular expression is grown one operator at a time, together with its language up
to `MaxLen` bytes: the language is the reference definition, and what `decompose`
computes (query, first and last bytes, whether it may be empty) is carried along.
Each step applies a constructor of the parser's tree to what was grown before, and
so the run enumerates expressions rather than executions. A class is the sequence
of its ranges: `ExpandClass` counts the bytes of each against what it has listed so far,
which are the printable ones only. Needles with typos grow byte by byte; where a byte
cannot be printed the bigrams have no key and are dropped before anything is counted
(`KeysTyped`). `Evaluate`
is a recursive function over the trees a query can be (`Tree`), `Chain` one over the
parts of a concatenation.

### GrepPaging

The distribution of matches over files and the files the prefilter keeps are chosen
at the start. `Fetch` is a request: it searches chunk by chunk, in parallel (which
files a time budget cut off is arbitrary), and returns an offset as
`perform_grep` (`chunks`) or `collect_grep_results` (`batch`) compute it. Clients
follow it directly or through the MCP server's store of cursors, which other
sessions fill (`StoreOther`). `Shown` is what that server shows of a page: it stops at
`max_results`, then takes out import lines and stops again where the answer has the
characters it may have, so any part of the first matches that is not empty may be left.
`excuse` says `hidden` when that is less than the page. The offset counts candidates or all files, depending on
whether there are constraints (`Before`).

### ContentCache

A content is the number of edits it has seen. A reader tests the limits, loads,
fills the cell if it is still empty, and bumps the two counters, in five steps;
searches hold the read lock meanwhile, the post-scan workers hold nothing. The
handler refreshes a file under the write lock, `SwapBudget` replaces the counters as
the post-scan phase does, `Commit` the table. Counters are kept as integers;
a negative value stands for one that has wrapped, and so does a negative sum
(`BytesWith`): a byte counter just below zero still admits a file that lifts it above.

### Stores

A call is the list of the steps the code takes: locks acquired, kept and dropped,
in its order, and database transactions between them. `CallsOf` lists every entry
point of the host that was chosen at the start (fff-nvim, or the C interface), the
watcher, the scan, the purge thread and the handles. After `fff_destroy` the C host
calls nothing any more (`gone`), while its threads finish what they began. A lock
admits a reader only when no writer holds or waits for it. One row of the database
stands for all: `copy` and `stamp` are what `track_access` read, `row` what it puts,
and `FirstFresh` is where its binary search cuts what is older than the window.

### Watch

inotify has no recursion: each directory is registered by itself, the first ones
from the scanned table, later ones by the owner thread, which takes a directory off
its channel, watches it, lists its files and puts the directories it found on the
channel. Events are produced only for what is watched at the moment. A file is
known to the picker or not; `missed` holds those that may be absent for one of three
reasons, each an operator: `Untold` (its directory was neither watched nor on its way to
the owner, and no walk was ahead), `Dropped` (it was added to the table that a scan
then replaced, and its directory is none of the new table's) and `Swept` (its directory
was removed and made again, and the late removal took it out). Files and directories
come and go one by one; trees that are moved are in `FileIndex`.

### QueryParser and FuzzySearch

A token is a record of its shape (extension, glob, path segment, file name,
location, git status, type, text) and a value; a configuration says which shapes a
kind of search recognises. `ApplyConstraints` follows `constraints.rs` with its
precomputed sets of glob matches. `Accepted` is the reference: it reads each token
on its own and knows nothing of the parser's data structures. In `FuzzySearch` the
matcher's score of one text against one path is a constant; combination of parts,
filters, the two arenas, partial sort and pages are the code's. A sort leaves ties in
any order, so a page is chosen among those the code may return. `Combo` is what a
file gains as the last choice for the query; it is another for a query that the Neovim
picker recalls from its history, of which only the first page is searched as "recalled"
(`Type`), later ones as usual (`LoadPage`). `asked.first` remembers how a session began. The index stands
still here: what every search finds in it is computed once, into `filesFound` and
`dirsFound`, and the pages are cut from that.

### Sidecar

`registry` is the file, `linked` the writers between truncation and writing of the
file that has the name: a file removed in between keeps its writer and loses its
name. `lock` is the directory. A client is at one of four places where
`ensure_sidecar` reads the registry (`site`: before the lock, in the loop for the
lock, again under it, waiting for the server) and at a step within. `Miss` is what
each place does without a server. A request is answered, refused (the server is
gone), lost, or hangs; `RequestFails` is `restart_sidecar`. `cleanup` looks at the
file, then acts on its name. `excuse` names the faults so far and the times a file
or lock was taken from somebody. A client's limits (20 s for the lock, 15 s for the
server) and the lock's age (30 s) pass for nothing only when nothing is under way
that would end the wait; otherwise it is a fault (`slow`).

## 3. Runs

| Run | Properties | What it shows |
|---|---|---|
| `ScanRestart.cfg` | TypeOK, ScanningHasScanner, IndexingHasHolder, WaitForScanSeesFiles | two pickers one after the other, three scan threads, one caller, every interleaving (6.1 million states) |
| `ScanLive.cfg` | ScanSettles, WatcherReadyEventually, DeferredRescanRuns | the two waits of the API end; a rescan deferred before the drain runs |
| `FileIndex.cfg` | TypeOK, NoPathTwice, IndexIsCurrent, EventuallyCurrent, ImplementsTrackedFiles | two files, one directory, four changes, trees moved in and out among them, all threads (1.7 million states) |
| `Content.cfg` | GrepFindsAll, GoneIsNotSearched, PositionsAreValid | four files, two changes, against build, installation, handlers and rescan: none of five searches drops a match (1.8 million states) |
| `ContentCache.cfg` | CacheTypeOK, EveryCellCounted, OvershootIsBounded, CacheIsFresh | two searches and a warm-up worker against handler, replaced budget and rescan (0.7 million states) |
| `BigramColumns.cfg` | TypeOK, ColumnsAreComplete, NothingDropped, BuildEnds | two threads race for columns up to and past the cap (0.15 million states) |
| `BigramQuery.cfg` | MatchesPass, EndsAreKnown, OneTypoPasses | expressions of three operators, needles of nine bytes: what matches passes the prefilter (0.23 million states) |
| `GrepPaging.cfg` | NoMatchSkipped, NoMatchTwice, PagingEnds | every distribution of matches over three files, both collectors, both clients, any part of a page kept back by the server (62 000 states) |
| `Stores.cfg` | NoCircularWait, AccessesAreKept | the host's thread and two workers run every call that takes a lock, for the plugin and for the C interface (3.4 million states) |
| `Watch.cfg` | FilesAreSeen, StopEndsOwner | a directory in a directory, five changes, one rescan (0.5 million states) |
| `Search.cfg` | FilterMeansQuery, PagesAreTheRanking, NoResultSkipped | queries of up to three tokens in every kind of search, four clients, queries recalled from the history (9 000 states) |
| `Sidecar.cfg` | OneSidecar, NoSidecarLeaks, OneFailureIsHidden, EveryRunEnds | two runs of fffq, one cleanup, one fault (0.24 million states) |

`ContentIndex`, `GrepPaging`, `Stores`, `Watch`, `BigramQuery` and `Sidecar` define a
type invariant as well; it holds under the same bounds and is left out of the runs, which
are for what is less plain. Nine configurations are kept *counterexamples* of
statements the code's comments make; TLC finds each violated:

| Configuration | Property | Statement |
|---|---|---|
| `ScanLast.cfg` | LastRescanRuns | `core/shared.rs:160`: the last of many requested rescans is finished |
| `ScanSnapshot.cfg` | SnapshotIsLive | `core/file_picker.rs:1669`: the flag keeps the table in place under a snapshot |
| `ScanOrphan.cfg` | OrphansDiscard | `crates/fff-nvim/src/lib.rs:99-101`: cancelled scans discard their results |
| `FileTombstone.cfg` | TombstoneHasNoStatus | `core/file_picker.rs:1510-1516`: "tombstone => git_status=None" |
| `FileLoss.cfg` | LossIsRescanned | `core/file_picker.rs:1396`: no room means a rescan |
| `SearchPages.cfg` | PiSeesAll | `packages/pi-fff/src/index.ts:82-84`: the cursor is the next page index |
| `FileMoved.cfg` | MovesAreSeen | `core/background_watcher.rs:463-464`: "we must stat the path to disambiguate" renames in from renames out |
| `FuzzyTypos.cfg` | EveryTypoPasses | `core/bigram_query.rs:166-168`: what a typo destroys is allowed for |
| `SearchRecall.cfg` | RecallSkipsNothing | `lua/fff/picker_ui.lua:1306`: no boost for page navigation |

Three more are stated next to the properties they would strengthen and do not hold:
`AnyPatternMatches` in `ContentSearch`, `EveryFileVisited` in `GrepPaging`,
`KeysAreGuaranteed` in `BigramQuery`.

Bounds. *Scans*: a picker needs its initial scan, one rescan and one more to race the
other two; two pickers are enough for every "old thread, new picker" race, since a
thread remembers one owner and looks at one slot; one request is enough to be refused,
deferred and drained. `ScanLive` has one picker and two scans, because every liveness
property speaks of one scan, of what it leaves behind and of the follow-up.
*File index*: two paths let a file and its neighbour in the same batch, one in the
directory's own listing and one deeper, compete for a reserve of one entry, without
slack, since one more is only a larger reserve; four changes suffice for create, delete,
create again and one event of another kind, or to move a tree out, in and out again; a batch of more than two events exceeds `MaxPaths`.
*Content*: three indexable files let a bigram be in some files but not in all, which
decides whether its column is kept; one word beyond the first 64 KiB, one without
bigrams, one binary text and one file that is empty at the walk are the cases the
code tells apart; two changes are one before and one after any step of the build.
*Cache*: two files for a limit of one, three readers to overshoot it, one edit to make
a content stale. *Columns*: two threads race pairwise; a cap of four with three
bigrams is reached only by lost races, and seven values wrap after it.
*BigramQuery*: three operators nest a repetition in a concatenation in an
alternative; a class of two bytes is expanded, one of three is not if they come in
one range or the last range does not fit, and is if the first of them cannot be printed;
nine letters give more bigrams than there are probes, and needles with unprintable
bytes among them have any smaller number of keys. *GrepPaging*: three files in chunks of two, pages
of two matches: a page ends before, in and after a chunk; four requests are more
than the files. *Stores*: two workers and the editor's thread make the shortest
circle through a waiting writer (three threads); a cap of two stamps and a
window of one tick make trimming and purging happen. *Watch*: a directory inside
another one with a file each is what registration can miss; five changes create both
with their files, and remove one. *Search*: three tokens are needed for a
constraint, a file name and a text in one query; five files with two ties exceed
`PartialAbove`; a boost of 1000 on recall, and of 300 or none without, puts a file first
in one ranking and elsewhere in the other. *Sidecar*: two clients race for every step; one fault or cleanup is
what a retry hides, and together they are two. The invariants were also checked with
two faults (5.4 million states) and with three clients and no fault. The proofs found
a case that none of these instances has: three clients, two faults, and one client
that writes down a server while another live one is registered. `excuse` counts it
as `renamed`.
`CHECK_DEADLOCK FALSE` is set where the system really stops: when nobody asks for
anything and the disk is still, every thread is done.

Fairness. `ScanLifecycle`: weak fairness of each scan thread that was started, of each
caller inside `trigger_full_rescan_async`, and of the host between installing a
picker and spawning its first scan. These are threads in straight-line code that the
OS schedules; the only waits are for the slot's lock, whose readers leave after one
step. Nobody is obliged to request, cancel, take or create.
`FileIndex`: weak fairness of the debouncer, the owner and the scan thread, each a
loop that blocks on its queue only. The disk is not fair: it may change or not.
`BigramColumns`: of each thread of the pool, none of which blocks. `Watch`: of the
scan, the handler and the owner; stop and the disk are free. `GrepPaging`: of the
client that asks for the next page; the liveness property is about a client that
does. `Sidecar`: of each client and of each server that starts (processes run), of a
client's deadline and of the lock's ageing (time passes); nobody is obliged to run,
to clean up or to fail. Weak fairness suffices: an enabled step of a thread stays
enabled until that thread takes it, except for the lock, and each scan thread is a
reader of it at most twice, so that a waiting writer finds it free for good once those
threads have moved on.

## 4. Proofs

All proofs are checked by TLAPS for every value of the constants: any finite set of
paths and any sets of pickers, threads, callers, clients and directories, any tree of
directories, any words, bigrams and texts, and any limits. They use only the named assumptions of the modules (names are distinct, jobs are numbers,
limits are natural numbers, a directory's immediate files are among those below it,
every path has one parent, a path has one entry, a sort of a set lists it without
repetition, chunks consist of whole words, a repetition's bounds are numbers, threads are finitely many, scores are integers).

`ScanLifecycleProofs`. The properties are not inductive by themselves. `IndInv` adds
- `LockInv`: while a reader is inside `post_scan_snapshot` the slot is not empty;
- `LifeInv`: threads and requests belong to pickers that were installed, so a picker
  that is installed next has no old threads;
- `HoldInv`: a thread holds a snapshot exactly at the positions between taking and
  dropping it;
- `CommittedInv`, `FilesInv`: a thread past its commit has left files in its picker, and
  a picker without files has a thread that still owes them, or gave up.

From it follow `TypeCorrect`, `ProgressNeverStuck`, `IndexingNeverLeaked` and
`WaitForScanIsHonest`. Each conjunct has a lemma with one step per action.

`FileIndexProofs`. `IndexIsCurrent` says the table is right about a path, or the path is
excused: overlooked, stranded, in the queue, in the batch, to be listed, or about to be
rescanned. What makes it inductive is that everything in flight keeps a promise:
- `WatchedFirst`: no event and no batch before the watcher runs;
- `QueueTold`: a removal in the queue of a file that exists and is not stranded is
  followed by what brought it back: its creation, or that of the directory it came with;
- `BatchTold`: where the batch in hand is wrong about a path by now, the queue still
  has an event of that path, or a directory that was made will be listed with it
  (`Announced`), or it is stranded; between batches none is to be listed
  (`BatchIdle`). It is established from `QueueTold` when the batch is
  taken: this is why applying removals before additions, in disregard of their order
  in the batch, is right;
- `OwnerTold`, `WalkTold`: where a listing or a walk is wrong by now, the path is
  overlooked.

`ListedStep` follows a file of a new directory from the event over the owner's channel
to its listing. `ApplyEffect` and `AddEffect` say what a batch and a listing do to each path; they need
`NoPathTwice`, since a removal takes out one entry. The same two lemmas carry the
refinement: `MappedStep` maps every step to a step of `TrackedFiles` or a stutter, and
`TableIsASet` concludes `Spec => ImplementsTrackedFiles`.

`ContentPartsProofs` is about two memories that threads share without a lock, and about
the bigram query. For the parallel build (`BigramColumns`), `ColumnsInv` adds to the type invariant
- `ThreadInv`: what a thread has in hand belongs together (its file is of its chunk,
  its bigram of its file, and at each step it has a column, or not yet);
- `ChunkInv`: two threads never have the same chunk, so that, by the assumption on
  words, nobody else writes the word a thread has read;
- and, until a thread is refused, `ColumnInv` (a column that was handed out is below
  the counter, and no two bigrams have the same), `HandInv` (a column that a thread was given but has not
  published is nobody else's), `BitInv` (a set bit is of a file that has the
  bigram), `RecordInv` (what a thread has recorded of its file is there, and the word
  it read lacks nothing).

From it `ColumnsTypeCorrect`, `Complete` and `Dropped`.

For the cache (`ContentCache`), `Counted` and `Bounded` follow from `Accounted`, which is about
sets of readers: the cells, the count, the bumps to come and the readers that have
passed the test against the limit. A reader at the test is admitted only while
the count is below it, and each cell filled uses up an admission. `Fresh` needs
`WorkerInv` (who is where in which phase), and `LoadedInv` (a reader that holds the read
lock and has loaded a file that has no event left has its content, for the handler
needs the write lock). Cardinalities are taken apart with the theorems of
`FiniteSetTheorems`.

For the query (`BigramQuery`) the invariant, `NodeOK`, is about the expression with the
operators it is made of, and each constructor has a lemma that keeps it (`LiteralOK`,
`ClassOK`, `AlternationOK`, `ConcatOK`, `RepetitionOK`). It says that
- the query is a tree at most one deeper than its operators, so `Evaluate` is defined on it;
- the language lies between the least and the greatest length, which is why a part that
  is "one byte wide" is one byte;
- the bytes at both ends are all there can be (`EndsAreComplete`);
- if the expression is not loose, a file passes its query whenever it has the keys of
  a word of its language, *whichever* keys have a column. `MatchesPass` only speaks of
  one key without a column and of a file that is a word, and is not inductive: a part's
  query goes into a larger one, whose file holds more than the word of the part.

A word of a concatenation is cut into a word of each part (`ChainWords`); where two parts
that are not empty meet, the key of the word's bytes on either side is one that `Cross`
asks for. From it `QueriesAdmitMatches`. Depth grows by one with each operator, since the
queries of the parts and the keys where they meet become operands of one conjunction.
Strings may have any bound `MaxLen` below 99, which stands for "unbounded".

For needles, `PlacesRise` says that the probes are at different places (a quotient rises
with each of them), so `TwoProbes`: a wrong letter spoils two bigrams and thus at most two
probes, and what is left of them is a conjunction the query asks for (`OneTypoIsFound`). The
places are those that have a key; a letter in more of them than typos are allowed, or in
all of them, is excluded, and there the code does hide the file (section 5).

The values of `Evaluate`, `Chain` and `Sum` are functions defined by recursion; that such a
function exists, and what it is at the next number, is shown by induction over the *set* of
numbers at which it does (`Counting`), which the provers can instantiate.

`ContentProofs`. `GrepFindsAll` is about a state and says nothing of how index and
overlay came to be right. `IndInv` adds
- `Sole`, `EntriesInv`, `GoneInv`: a path has one entry, which, when the path has no
  event left, is true of the disk; what went with its directory is gone;
- `PositionsInv`: boundary, build and the two partitions of the table fit together,
  until a removed directory shifts them;
- `IndexInv`: at each position that no build has missed, the overlay has the bigrams of
  an edited file, the columns those of one that was not edited, and a file that is gone
  is in no column or has a tombstone.

The step that needs them together is `Install`: `InstalledIsTrue` concludes from
`EntriesInv` that what a build read of a file without an event is what is there, so that
a fresh overlay loses nothing but what `lost` names. `retain()` needs the lemma
`RisingStays`: when as many base files are kept as there were, none has moved. The four
theorems are `ContentInvariant`, `PositionsStayValid`, `GoneStaysUnsearched` and
`GrepFindsEveryFile`. Columns may have any density: nothing in the proofs depends on
which bigrams keep one.

The module also proves the pages of such a search (`GrepPaging`). `Position` is the
place of a file among those its offset counts, and an offset leaves the candidates with a
later one (`ToSearchCovers`). `PagingInv` then says two things of it: a file with a match
was shown, or the next offset does not pass it by (`ShownOrAhead`); and a file that was
shown is not ahead of it (`ShownOnce`). What makes a step keep them is `ConsumedIs`: the
files that are looked at up to the one an offset is taken from are those that were shown, wherever in
a chunk the page was filled, by either way of collecting. From it `NoMatchIsSkipped`
and `NoMatchIsShownTwice`, for any number of files and matches and any size of chunks and
pages.

`StoresProofs`. `IndInv` describes what is left of each call and not the list of calls:
- `CallsInv`: each remaining step is followed and preceded by what the code has there
  (`FitsLocks`, `FitsData`, `FitsBefore`); `CallsAreOrderly` shows it of every call once;
- `LocksInv`: a writer is alone, and who holds a lock is at one of few steps (`Held`).
  What a holder asks for next is later in one order of the locks, with the waiting
  writers between them, so a set of threads that wait for each other has a
  member that waits for nobody: `NobodyWaitsInACircle`;
- `RowsInv`: a row is sorted, within the cap, and of the past (`Row`); what a thread has
  read is the row, unless it was replaced since (`Copied`); and the row is the end of the
  ghost `recent`, but for what is out of the window (`Keeps`): `AccessesStayKept`. The
  directory is removed after the handle is emptied (`Removal`).

`WatchProofs`. `FilesAreSeen` speaks of the states in which nothing is under way.
`SeenInv` says of all states what is: a file that is there is known, or missed, or ahead
of it is an event, a batch, a walk, a listing, or its directory on the way to the owner.
`RetoldInv` is about the file that comes after its directory was listed and before the
listing is added: a removal of it, or of a directory above it, that is still in the queue
is followed by its creation. `Beginning` and `OwnerInv` say who can be at work when. From
it `FilesAreKnown` and `TypeCorrect` (that nothing is watched that is gone).

`SearchProofs`. A search finds a *listing*: a sequence of hits of different items, since
neither parsing nor filtering nor scoring repeats one (`ArenaIs`, `FoundAre`). Its ranking
leaves ties open, so a page is described by what may stand at each place: fewer than `k`
hits are better than the `k`-th, and `k` or more are not worse (`AtPlace`). `TopsRank`
shows this of any `n` best in any order of their ties, and from it
- `PagesArePages`: both ways of sorting (all, or the selected best) and both of cutting (a
  slice, or the whole list where it fits the limit) yield a page of the ranking;
- `MergedIsRanked`: the mixed search takes two pages' worth of files and as many
  directories, merges and sorts them. What was left out of either list has that many hits
  of its own list above or level with it, so it cannot reach the page.

`AnswerInv` (the index stands, and what is on the screen is an answer to what was asked)
is then inductive, and `PagesFollowTheRanking` concludes. For `NobodySkips`, `SessionInv`
says of the Neovim picker and of the MCP server that all hits of a rank up to the end of
the page have been shown (`SeenIn`), in a session that began with a recalled query from
the end of its first page on, which is of another ranking; the picker's page offset is a product, so that the
pages before the last one are full (`WholePages`). `FiltersMeanTheQuery` goes token by
token: what a token is parsed to is satisfied when the token says so (`TokenIs`,
`KindMeans`); each recognised token is in the list once, but for a file name that is
promoted to text or follows another one (`ManyTokens`); and the set of matches of a glob is found by counting
the globs before it, as many as were computed before it (`GlobFound`).
Queries are of any length, and nothing is assumed of the scores but that they are numbers.

`SidecarProofs`. `Base` says which step belongs to which reading of the registry, who
writes, and that what is named has run. Each theorem has an invariant of its own on top,
conditional on the faults so far: `LeakInv` (the lock has one owner, one server is alive,
a server that starts is awaited, a live one is registered or being written down) for
`NoSidecarIsLeaked`; `StartInv` (until a server lives nobody takes the lock away) for
`OneSidecarIsStarted`; `Hope` for `OneFailureStaysHidden`: who waits for a server has one
that starts, is registered, or is being written down, and a client at its second
attempt has seen the one fault already.

Only model-checked: the liveness properties, since the prover does not reach
fairness and ENABLED (`ScanSettles`, `WatcherReadyEventually`,
`DeferredRescanRuns`, `EventuallyCurrent`, `BuildEnds`, `PagingEnds`, `StopEndsOwner`,
`EveryRunEnds`). Every invariant and every action property of the passing runs is stated
by a theorem. The counterexamples are TLC's, nothing is proved of them.

## 5. What the code does otherwise

Statements of comments and docs that a kept configuration refutes:

1. `core/shared.rs:160` promises that the last of many requested rescans is finished. It
   is lost when `rescan_pending` is stored (`:175`) after the running scan has drained it.
2. `core/file_picker.rs:1669` relies on `post_scan_indexing_active` to keep the table in
   place under a snapshot. The flag is down between `scanning.store(false)` and the
   snapshot of the post-scan phase, so a rescan is admitted there; its commit does not
   look at the flag.
3. `crates/fff-nvim/src/lib.rs:99-101` expects cancelled scans to discard their results;
   a scan that has read the flag commits into the new picker.
4. `core/file_picker.rs:1510-1516` states "tombstone => git_status=None"; a full status
   refresh stores the status of a deleted file on its tombstone.
5. `core/file_picker.rs:1396` asks for a rescan when a file finds no room;
   `track_files_from_new_directories` drops the refusal.
6. `packages/pi-fff/src/index.ts:82-84` says native `fileSearch` takes a page index;
   `crates/fff-c/src/lib.rs:389` passes it on as the offset of the first result. The
   pages of the tool overlap in all but one result, and it reports the end too early.
7. `core/background_watcher.rs:463-475` looks at the path to tell a rename in from a rename
   out. Of a directory that is gone it cannot tell that it was one (`:482`):
   `remove_file_by_path` (`core/file_picker.rs:1504`) finds no entry of that path, and the files
   below stay in the table until the next rescan.
8. `core/bigram_query.rs:166-168` allows for what typos destroy, two bigrams each. The code
   requires `n - max_typos` of the probes (`:221`). One wrong letter hides the file in
   the middle of a needle of three to five letters, for which one typo is allowed, and wherever a
   needle has so few bigrams with a key that the letter is in all of them (`:179-182`). Two typos,
   which spoil up to four probes, may hide it too.
9. `lua/fff/picker_ui.lua:1306` ranks the pages after the first without the boost that a
   query recalled from the history has on its first page (`:1165-1169`): the file that
   the boost pushed off the end of the first page is on neither.

Windows that the ghosts of the models name, and divergences seen while modelling:

*Scan and table.* A restart in fff-nvim whose `FilePicker::new` fails leaves the
cancelled picker in the slot, and every later rescan of it is discarded. The restart
and the destruction in fff-c never cancel. A file deleted while the owner thread waits
for the lock comes back until the next rescan. `remove_all_files_in_dir`
(`core/file_picker.rs:1544`) takes base entries out of the vector, while index, overlay and a
running build keep their positions; with a path outside `base_path` its prefix is empty.
`post_scan_snapshot` looks at `post_scan_indexing_active` and raises it in two steps under
a read lock (`core/file_picker.rs:1266`): two holders share one flag, and the first that is
done lowers it for both. `IndexingHasHolder` says only that a flag that is up has a
holder.

*Index and grep.* `set_bigram_index` (`core/scan.rs:341,363`) installs a fresh overlay:
an edit handled between the reading of its file and the installation is in neither.
Only the first 64 KiB of a file are indexed (`core/bigram_filter.rs:738,743`): a
word further on is not found by the prefilter. `multi_grep` drops a pattern none of whose
bigrams has a column beside one that has (`core/grep.rs` 978-990), while the tool says
"ANY query matches" (`crates/fff-mcp/src/server.rs:573`). The branch with constraints
does not look at the boundary (`core/grep.rs` 2151-2163): a file that was empty when
walked is dropped. `content_binary` is never cleared. Three shapes of regular
expressions are asked for bigrams that a match may lack (`loose` in `BigramQuery`): a
class with unprintable bytes, which is expanded to its printable ones whatever its size
(`core/bigram_query.rs` 471-485); a part that may be empty, of unknown bytes, at an end; a
repetition of what may be empty.
At the cap a thread that is refused a column may drop a bigram that another is about
to publish.

*Pages.* A page cut off by the time budget or an abort skips the files not visited
before the last one that was (`core/grep.rs` 1301). The MCP server shows
`max_results` matches of a page (`crates/fff-mcp/src/output.rs:179`), fewer where they exceed
a budget of characters (`:209-215`, `:356-358`), and no import lines once a definition was
expanded (`:287-291`); its cursor goes on after the whole page (`:366-368`), so that what
was kept back is never shown. An evicted cursor starts over silently
(`server.rs:384`). With constraints the offset counts files left by the prefilter but
skips among all. `find_files` that retried with a shorter query keeps the original one in
its cursor. `sort_and_paginate` returns items before the offset when all results fit
the limit (`core/score.rs:928`), and ties may change places from call to call. The
average of a query's parts divides by their number in every round. Two readers of
overflow files (`apply_constraints`, the fuzzy grep) look their paths up in the base
arena.

*Cache.* Invalidation takes the size known by then out of the byte counter, not the one
added: it drifts, and may wrap. Retained and overlay entries that are removed leave
their count behind. Two readers of one file both bump. A replaced budget knows nothing of the
cells filled before. A post-scan worker may fill a cell with what it read before an
edit was handled.

*Databases.* `track_access` reads a row in one transaction and writes it in another;
a concurrent access or purge is lost (`core/dbs/frecency.rs` 165, 230). `destroy`
removes the directory after it let go of the lock (`core/shared.rs:297`). A score
computed before an access may be stored after it by a rescan.

*Watching.* Directories without an indexed file are never watched
(`core/file_picker.rs:593`); files created between the initial walk and the
registration are never listed (`core/background_watcher.rs:287`); a batch that asks
for a rescan drops its new directories (`:520`); a late removal of a directory takes
out the files of one created anew. Of a new directory only the immediate files are listed
(`:692-718`): a directory made in it before its watch was there is never seen, nor are
its files. A file added to a known directory between the walk and the commit goes with
the old table, and is listed again only if its directory is one of the new one's. The
files of a directory that is moved away stay (statement 7 above).

*Queries.* `!*` excludes everything while `*` is ignored; `type:` is accepted and
ignored, `!type:x` rejects everything (`core/constraints.rs` 205). `!Text` with an upper-case
letter excludes nothing: the path is lowered and the text is not (`:10`, `:222-225`). The
models take such a text for one that no path holds.

*Sidecars.* A registry read between truncation and writing counts as missing: the
reader removes the file and starts a second server, and the first is left running
without a name. A lock that is gone when its age is asked for counts as stale
(`crates/fffq/src/main.rs:441`), and what is removed next may be another client's;
dropping a lock removes whoever's directory is there. A lost request to a live
server removes its registry without the lock, and so leaves it running where cleanup
does not look. A server that answers no read within 10 s is not retried: the message
of that error is not in the list (`:728`). `cleanup` acts on the name of a file it
looked at before. A recycled process number is only told apart by its command line.

## 6. Not modelled

- How a matcher finds a text in a line (`crates/fff-grep`, `case_insensitive_memmem.rs`),
  and the score of one text against one path: an external library's and tables of
  weights, better covered by the crate's tests.
- Regular expressions that turn Unicode on themselves (`(?u)`): the parser is told not to
  (`core/bigram_query.rs:260`), and the classes of `BigramQuery` are classes of bytes.
- Path store and arenas: read-only after a walk. Which arena a function reads is
  modelled only where the code takes the wrong one.
- Records of the query history: one transaction under one lock.
- The decay of frecency scores, the limit on inotify watches, LMDB itself.
- Marshalling in the C, Node, Bun and MCP front ends; windows, preview and rendering of
  the Neovim plugin; update check, healthcheck, logging, build files and scripts.

What remains to be done: for `ScanLifecycle` the conditions under which `SnapshotIsLive`
and `OrphansDiscard` do hold (no rescan in the gap, no restart).
