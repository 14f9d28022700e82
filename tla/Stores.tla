------------------------------- MODULE Stores -------------------------------
(***************************************************************************)
(* The shared handles (shared.rs) and the frecency database behind one of  *)
(* them (dbs/frecency.rs, dbs/lmdb.rs): who takes which lock in which      *)
(* order, and what reaches the row of one file.                            *)
(*                                                                         *)
(* A thread runs one entry point at a time: a call is the list of steps    *)
(* the code takes.  "read" and "write" acquire a lock and keep it until a  *)
(* "drop" or the return; "peek" and "set" are a section under one lock in  *)
(* which no other lock is asked for.  The plugin's entry points run one    *)
(* after another on the thread of the editor; everything else has threads  *)
(* of its own.  The locks let a reader in only when no writer holds or     *)
(* waits for them, which is what std::sync and parking_lot do.             *)
(***************************************************************************)
EXTENDS Integers, Sequences, FiniteSets, SequencesExt

CONSTANTS
    Ui,                 \* the thread of the editor
    Workers,            \* spawned threads, the debouncer's and the watcher's owner
    Cap,                \* MAX_TIMESTAMPS_PER_FILE
    Window,             \* MAX_HISTORY_DAYS
    MaxTime             \* BOUND: the clock

ASSUME StoresAssumption ==
    /\ IsFiniteSet(Workers) /\ Ui \notin Workers
    /\ Cap \in Nat \ {0} /\ Window \in Nat /\ MaxTime \in Nat

Threads == Workers \cup {Ui}
Locks == {"picker", "frecency", "queries", "debouncer"}

VARIABLES
    host,               \* "nvim", "c", or "gone": an instance the C host has destroyed
    todo,               \* per thread: the steps left of its call, none when it has none
    readers, writer,    \* per lock: who holds it
    waiting,            \* writers parked on the lock of their next step
    tracker,            \* SharedFrecency: none, open, or open on a removed directory
    oversized,          \* data.mdb is larger than SIZE_CAP_BYTES
    row,                \* the stamps of the file, oldest first
    copy, stamp,        \* per thread: the row it read, the time it took then
    clock,
    recent,             \* GHOST: the last Cap stamps put since the last lost update
    outdated            \* GHOST: threads whose copy is of a row replaced since

locks == <<readers, writer, waiting>>
database == <<tracker, oversized, row, recent, outdated>>
local == <<copy, stamp>>
vars == <<host, todo, locks, database, local, clock>>

Stamps == 0..MaxTime
Rows == UNION {[1..n -> Stamps] : n \in 0..Cap}

TypeOK ==
    /\ host \in {"nvim", "c", "gone"}
    /\ DOMAIN todo = Threads
    /\ readers \in [Locks -> SUBSET Threads]
    /\ writer \in [Locks -> SUBSET Threads]
    /\ \A l \in Locks : Cardinality(writer[l]) <= 1 /\ (writer[l] # {} => readers[l] = {})
    /\ waiting \subseteq Threads
    /\ tracker \in {"none", "open", "unlinked"} /\ oversized \in BOOLEAN
    /\ row \in Rows
    /\ copy \in [Threads -> Rows] /\ stamp \in [Threads -> Stamps]
    /\ clock \in Stamps
    /\ recent \in Rows /\ outdated \subseteq Threads
-----------------------------------------------------------------------------
(***************************************************************************)
(* The calls.                                                              *)
(***************************************************************************)
Read(l) == <<"read", l>>
Write(l) == <<"write", l>>
Drop(l) == <<"drop", l>>
Peek(l) == <<"peek", l>>
Set(l) == <<"set", l>>
Do(e) == <<"do", e>>

\* update_git_statuses and the refresh of one score, always under the picker's write lock.
Rescore == <<Write("picker"), Peek("frecency")>>

\* FrecencyTracker::track_access under the read lock of its handle.
Record == <<Read("frecency"), Do("tracked"), Do("load"), Do("now"), Do("put"), Drop("frecency")>>

\* The watcher is stopped, or the picker that owns it dropped, under the picker's write lock.
Stop == <<Write("picker"), Set("debouncer")>>

\* A search; live grep and the queries of the past, which have let go of the picker.
SearchFiles == <<Read("picker"), Peek("queries")>>
LiveGrep == <<Peek("picker"), Peek("queries")>>

InitDb == <<Write("frecency"), Do("open"), Drop("frecency"), Set("queries")>>
DestroyDb == <<Write("frecency"), Do("take"), Drop("frecency"), Do("remove_dir")>>

\* The one call that takes the two locks the other way round.
UpdateSingleFrecency == <<Read("frecency"), Do("tracked"), Set("picker")>>

RefreshGitStatus == <<Peek("picker")>> \o Rescore
InitPicker == <<Peek("picker")>> \o Stop

PluginCalls ==
    {SearchFiles, LiveGrep, InitDb, DestroyDb, UpdateSingleFrecency, RefreshGitStatus, Stop, InitPicker}

TrackAccess == Record \o Rescore
Gc == <<Read("frecency"), Do("tracked"), Do("purge"), Do("prune")>>
TrackQuery == <<Peek("picker"), Set("queries")>>

\* Walk, commit, snapshot, scores off the lock, index.
ScanRun == <<Peek("frecency"), Set("picker"), Peek("picker"), Peek("frecency"), Set("picker")>>

\* A batch of events, without and with the accesses of the AI mode.
HandleEvents == <<Set("picker")>> \o Rescore
HandleEventsAi == <<Set("picker")>> \o Record \o Rescore

\* The owner of the watches.
TrackNewDirectory == <<Set("debouncer"), Set("picker")>> \o Rescore

Restart == Stop \o <<Drop("picker")>> \o Stop
RestartIndex == <<Peek("picker")>> \o Restart

PluginThreads == {TrackAccess, TrackQuery, RestartIndex}
Background == {Gc, ScanRun, HandleEvents, HandleEventsAi, TrackNewDirectory}

\* The C interface: what asks for the picker alone, for the past, for the state of all.
Inspect == <<Peek("picker")>>
HistoricalQuery == <<Peek("picker"), Peek("queries")>>
HealthCheck == <<Peek("picker"), Peek("frecency"), Peek("queries")>>
Destroy == Stop \o <<Drop("picker"), Write("frecency"), Do("close"), Drop("frecency"), Set("queries")>>

CCalls ==
    {SearchFiles, Inspect, HistoricalQuery, HealthCheck, Restart, RefreshGitStatus, TrackQuery, Destroy}

HostCalls == CASE host = "nvim" -> PluginCalls [] host = "c" -> CCalls [] OTHER -> {}
WorkerCalls == Background \cup (IF host = "nvim" THEN PluginThreads ELSE {})

CallsOfReversed(t) ==
    IF t = Ui THEN HostCalls ELSE WorkerCalls \cup {UpdateSingleFrecency}
CallsOf(t) == IF t = Ui THEN HostCalls ELSE WorkerCalls

\* Nothing is asked of an instance after fff_destroy; its threads go on.
Begin(t) ==
    /\ todo[t] = <<>>
    /\ \E c \in CallsOf(t) :
        /\ todo' = [todo EXCEPT ![t] = c]
        /\ host' = IF c = Destroy THEN "gone" ELSE host
    /\ UNCHANGED <<locks, database, local, clock>>
-----------------------------------------------------------------------------
(***************************************************************************)
(* The locks.                                                              *)
(***************************************************************************)
Step(t) == Head(todo[t])
Waits(l) == \E u \in waiting : Step(u)[2] = l

CanRead(l) == writer[l] = {} /\ ~Waits(l)
CanWriteShared(l) == writer[l] = {}
CanWrite(l) == writer[l] = {} /\ readers[l] = {}

\* The call returns when its steps are done: every guard it holds is dropped.
Release(t) ==
    /\ readers' = [l \in Locks |-> readers[l] \ {t}]
    /\ writer' = [l \in Locks |-> writer[l] \ {t}]

Proceed(t) == todo' = [todo EXCEPT ![t] = Tail(@)]
Return(t) == todo' = [todo EXCEPT ![t] = <<>>] /\ Release(t)
Continue(t) == IF Len(todo[t]) = 1 THEN Return(t) ELSE Proceed(t) /\ UNCHANGED <<readers, writer>>

Park(t) ==
    /\ todo[t] # <<>> /\ t \notin waiting
    /\ Step(t)[1] \in {"write", "set"} /\ ~CanWrite(Step(t)[2])
    /\ waiting' = waiting \cup {t}
    /\ UNCHANGED <<host, todo, readers, writer, database, local, clock>>

AcquireRead(t, l) ==
    /\ todo[t] # <<>> /\ Step(t) = Read(l) /\ CanRead(l)
    /\ readers' = [readers EXCEPT ![l] = @ \cup {t}]
    /\ Proceed(t)
    /\ UNCHANGED <<host, writer, waiting, database, local, clock>>

AcquireWrite(t, l) ==
    /\ todo[t] # <<>> /\ Step(t) = Write(l) /\ CanWrite(l)
    /\ writer' = [writer EXCEPT ![l] = {t}]
    /\ waiting' = waiting \ {t}
    /\ Proceed(t)
    /\ UNCHANGED <<host, readers, database, local, clock>>

\* A section under one lock.
Section(t, l) ==
    /\ todo[t] # <<>>
    /\ \/ Step(t) = Peek(l) /\ CanRead(l)
       \/ Step(t) = Set(l) /\ CanWrite(l)
    /\ waiting' = waiting \ {t}
    /\ Continue(t)
    /\ UNCHANGED <<host, database, local, clock>>

Unlock(t, l) ==
    /\ todo[t] # <<>> /\ Step(t) = Drop(l)
    /\ readers' = [readers EXCEPT ![l] = @ \ {t}]
    /\ writer' = [writer EXCEPT ![l] = @ \ {t}]
    /\ Proceed(t)
    /\ UNCHANGED <<host, waiting, database, local, clock>>
-----------------------------------------------------------------------------
(***************************************************************************)
(* The database.  `?' on an empty handle is a return.                      *)
(***************************************************************************)
Does(t, e) == todo[t] # <<>> /\ Step(t) = Do(e)

Tracked(t) ==
    /\ Does(t, "tracked")
    /\ IF tracker = "none" THEN Return(t) ELSE Continue(t)
    /\ UNCHANGED <<host, waiting, database, local, clock>>

\* The read transaction; the time is taken after it, by the purge before it.
Load(t) ==
    /\ Does(t, "load") \/ Does(t, "purge")
    /\ copy' = [copy EXCEPT ![t] = row]
    /\ stamp' = IF Does(t, "purge") THEN [stamp EXCEPT ![t] = clock] ELSE stamp
    /\ outdated' = outdated \ {t}
    /\ Continue(t)
    /\ UNCHANGED <<host, waiting, tracker, oversized, row, recent, clock>>

Now(t) ==
    /\ Does(t, "now")
    /\ stamp' = [stamp EXCEPT ![t] = clock]
    /\ Continue(t)
    /\ UNCHANGED <<host, waiting, database, copy, clock>>

Newest(s) == SubSeq(s, IF Len(s) > Cap THEN Len(s) - Cap + 1 ELSE 1, Len(s))

\* From the first stamp on that is in the window: accesses.iter().position, pop_front.
FirstFresh(s, now) ==
    CHOOSE n \in 1..Len(s) + 1 :
        /\ \A i \in 1..n-1 : s[i] < now - Window
        /\ n <= Len(s) => s[n] >= now - Window
Fresh(s, now) == SubSeq(s, FirstFresh(s, now), Len(s))

\* Stale stamps leave from the front, and one more when there is no room for the new one.
TrimEarly(s, now) ==
    LET fresh == Fresh(s, now)
    IN  IF Len(fresh) >= Cap - 1 /\ fresh # <<>> THEN Tail(fresh) ELSE fresh
Trim(s, now) ==
    LET fresh == Fresh(s, now)
    IN  IF Len(fresh) >= Cap THEN Tail(fresh) ELSE fresh

\* A write of t: whoever has read the row before has an outdated copy.
Store(t, r, known) ==
    /\ row' = r
    /\ recent' = IF t \in outdated THEN r ELSE known
    /\ outdated' = {u \in Threads \ {t} : \E e \in {"now", "put", "prune"} : Does(u, e)}
    /\ copy' = [copy EXCEPT ![t] = <<>>]
    /\ stamp' = [stamp EXCEPT ![t] = 0]

Discard(t) ==
    /\ outdated' = outdated \ {t}
    /\ copy' = [copy EXCEPT ![t] = <<>>]
    /\ stamp' = [stamp EXCEPT ![t] = 0]
    /\ UNCHANGED <<row, recent>>

\* Past the size cap the map may be full, and the access is dropped.
Put(t) ==
    /\ Does(t, "put")
    /\ \/ Store(t, Append(Trim(copy[t], stamp[t]), stamp[t]), Newest(Append(recent, stamp[t])))
       \/ oversized /\ Discard(t)
    /\ Continue(t)
    /\ UNCHANGED <<host, waiting, tracker, oversized, clock>>

\* purge_stale_entries writes only what it has found stale.
Prune(t) ==
    /\ Does(t, "prune")
    /\ LET fresh == Fresh(copy[t], stamp[t]) IN
        IF fresh = copy[t] THEN Discard(t) ELSE Store(t, fresh, recent)
    /\ Continue(t)
    /\ UNCHANGED <<host, waiting, tracker, oversized, clock>>

Erase == row' = <<>> /\ recent' = <<>>

\* The handle is emptied first: it stays empty when the environment cannot be opened.
Open(t) ==
    /\ Does(t, "open")
    /\ tracker' \in {"open", "none"}
    /\ oversized' = FALSE
    /\ IF oversized THEN Erase ELSE UNCHANGED <<row, recent>>
    /\ Continue(t)
    /\ UNCHANGED <<host, waiting, outdated, local, clock>>

Take(t) ==
    /\ Does(t, "take")
    /\ IF tracker = "none" THEN Return(t) ELSE Continue(t)
    /\ tracker' = "none"
    /\ UNCHANGED <<host, waiting, oversized, row, recent, outdated, local, clock>>

\* fff_destroy empties the handle, whatever is in it.
Close(t) ==
    /\ Does(t, "close")
    /\ tracker' = "none"
    /\ Continue(t)
    /\ UNCHANGED <<host, waiting, oversized, row, recent, outdated, local, clock>>

\* remove_dir_all, after the guard is gone.
RemoveDir(t) ==
    /\ Does(t, "remove_dir")
    /\ Erase /\ oversized' = FALSE
    /\ tracker' = IF tracker = "open" THEN "unlinked" ELSE tracker
    /\ Continue(t)
    /\ UNCHANGED <<host, waiting, outdated, local, clock>>

Tick ==
    /\ clock < MaxTime
    /\ clock' = clock + 1
    /\ UNCHANGED <<host, todo, locks, database, local>>

\* Rows of other files.
Grow ==
    /\ tracker = "open" /\ ~oversized
    /\ oversized' = TRUE
    /\ UNCHANGED <<host, todo, locks, tracker, row, recent, outdated, local, clock>>
-----------------------------------------------------------------------------
Init ==
    /\ host \in {"nvim", "c"}
    /\ todo = [t \in Threads |-> <<>>]
    /\ readers = [l \in Locks |-> {}] /\ writer = [l \in Locks |-> {}] /\ waiting = {}
    /\ tracker \in (IF host = "c" THEN {"none", "open"} ELSE {"none"}) /\ oversized = FALSE
    /\ row = <<>> /\ recent = <<>> /\ outdated = {}
    /\ copy = [t \in Threads |-> <<>>] /\ stamp = [t \in Threads |-> 0]
    /\ clock = 0

Advance(t) ==
    \/ \E l \in Locks : AcquireRead(t, l) \/ AcquireWrite(t, l) \/ Section(t, l) \/ Unlock(t, l)
    \/ Tracked(t) \/ Load(t) \/ Now(t) \/ Put(t) \/ Prune(t)
    \/ Open(t) \/ Take(t) \/ Close(t) \/ RemoveDir(t)

Next == (\E t \in Threads : Begin(t) \/ Park(t) \/ Advance(t)) \/ Tick \/ Grow

Spec == Init /\ [][Next]_vars

-----------------------------------------------------------------------------
\* Who t waits for: a reader also for the writers parked before it.
WaitsFor(t) ==
    IF todo[t] = <<>> THEN {}
    ELSE LET l == Step(t)[2] IN
         CASE Step(t)[1] \in {"read", "peek"} ->
                writer[l] \cup {u \in waiting : Step(u)[2] = l}
           [] Step(t)[1] \in {"write", "set"} -> writer[l] \cup readers[l]
           [] OTHER -> {}

(***************************************************************************)
(* No threads wait for each other in a circle, so every call returns: the  *)
(* picker and the frecency are taken both ways round, and it is only that  *)
(* the writers of the frecency and the reversed call share the editor's    *)
(* thread that keeps them apart.                                           *)
(***************************************************************************)
NoCircularWait ==
    \A S \in (SUBSET Threads) \ {{}} : \E t \in S : WaitsFor(t) \cap S = {}

(***************************************************************************)
(* The row is in the order of time, which its readers rely on to stop      *)
(* early; of what was put since the last update lost to a stale copy it    *)
(* holds the newest and every one that is still in the window, whatever    *)
(* the cap, the purge and reopening do; and nobody uses a tracker whose    *)
(* directory is gone.                                                      *)
(***************************************************************************)
AccessesAreKept ==
    /\ \A i \in 1..Len(row) - 1 : row[i] <= row[i + 1]
    /\ IsSuffix(row, recent)
    /\ IsSuffix(Fresh(recent, clock), row)
    /\ tracker # "unlinked"
=============================================================================
