------------------------------- MODULE Sidecar -------------------------------
(***************************************************************************)
(* The sidecars of a project: fffq (crates/fffq/src/main.rs) runs once per *)
(* query, finds the fff-mcp server of its project by a registry file, or   *)
(* starts one under a lock that is a directory; it asks once more when the *)
(* server has gone meanwhile.  fffq cleanup ends servers that are idle.    *)
(*                                                                         *)
(* The processes share nothing but the two paths.  A file is written in    *)
(* two steps, truncated first; a file removed in between keeps its writer  *)
(* and loses its name.  Anyone may crash, and a request may get lost.      *)
(* Three limits of time matter: a client waits 20 s for the lock and 15 s  *)
(* for its server, and a lock older than 30 s is stale.  A limit passes    *)
(* without a fault only when nothing is under way that would end the wait. *)
(***************************************************************************)
EXTENDS Naturals, FiniteSets

CONSTANTS
    Clients, NoClient,
    MaxPids,            \* BOUND: servers started
    MaxCalls,           \* BOUND: runs of fffq
    MaxCleanups,        \* BOUND: runs of fffq cleanup
    MaxFaults           \* BOUND: crashes, lost requests, limits passed too early

ASSUME SidecarAssumption ==
    /\ IsFiniteSet(Clients) /\ NoClient \notin Clients /\ Clients \cap Nat = {}
    /\ {MaxPids, MaxCalls, MaxCleanups, MaxFaults} \subseteq Nat

Pids == 1..MaxPids
NoPid == 0

VARIABLES
    registry,           \* the file: which server it names, and whether it was used lately
    linked,             \* writers between truncation and writing, of the file that has the name
    lock,               \* the directory: who made it; whether it is stale by now
    server,             \* state of each process
    pc, site,           \* client: its step; where ensure_sidecar reads the registry
    saw,                \* client: the server it has found
    late,               \* client: the deadline of its wait has passed
    retried, no_start,  \* client: the second attempt; --no-start
    outcome,            \* client: what its last run came to
    cleaner, target,    \* cleanup: its step, the server it has looked at
    calls, cleanups, faults,
    excuse              \* GHOST: what has gone wrong so far

file == <<registry, linked>>
client == <<pc, site, saw, late, retried, no_start, outcome>>
cleaning == <<cleaner, target>>
bounds == <<calls, cleanups, faults>>
vars == <<file, lock, server, client, cleaning, bounds, excuse>>

Absent == [state |-> "absent", pid |-> NoPid, fresh |-> FALSE]
Torn == [state |-> "torn", pid |-> NoPid, fresh |-> FALSE]
Names(p) == [state |-> "whole", pid |-> p, fresh |-> TRUE]
NoLock == [owner |-> NoClient, old |-> FALSE]

Steps == {"idle", "read", "health", "truncate", "write", "mkdir", "check", "break",
          "spawn", "drop", "ask", "crashed"}

TypeOK ==
    /\ registry \in [state : {"absent", "torn", "whole"}, pid : Pids \cup {NoPid}, fresh : BOOLEAN]
    /\ registry.state = "whole" <=> registry.pid # NoPid
    /\ linked \subseteq Clients \cup Pids /\ (linked # {} => registry.state # "absent")
    /\ lock \in [owner : Clients \cup {NoClient}, old : BOOLEAN]
    /\ server \in [Pids -> {"unused", "starting", "truncated", "live", "dead"}]
    /\ pc \in [Clients -> Steps] /\ site \in [Clients -> {"first", "lock", "again", "wait"}]
    /\ saw \in [Clients -> Pids \cup {NoPid}]
    /\ {late, retried, no_start} \subseteq [Clients -> BOOLEAN]
    /\ outcome \in [Clients -> {"none", "answered", "error", "refused"}]
    /\ cleaner \in {"idle", "remove", "kill", "forget"} /\ target \in Pids \cup {NoPid}
    /\ calls \in 0..MaxCalls /\ cleanups \in 0..MaxCleanups /\ faults \in 0..MaxFaults
    /\ excuse \subseteq {"died", "stillborn", "lost", "hung", "slow", "crashed", "torn",
                       "renamed", "unnamed", "unlocked"}
-----------------------------------------------------------------------------
Alive(p) == server[p] \in {"starting", "truncated", "live"}
Healthy == registry.state = "whole" /\ server[registry.pid] = "live"

\* The name is gone, and so is what is being written under it.
RemoveFile == registry' = Absent /\ linked' = {}

\* What loses its name is not p, but another server, one that somebody
\* waits for, or one that is being written down.
Unnamed(p) ==
    IF \/ Healthy /\ (registry.pid # p \/ \E c \in Clients : site[c] = "wait")
       \/ linked # {}
    THEN {"unnamed"} ELSE {}

Fault(es) ==
    /\ faults < MaxFaults /\ faults' = faults + 1
    /\ excuse' = excuse \cup es
    /\ UNCHANGED <<calls, cleanups>>

\* What is written names p where another server is named, or being named.
Renamed(p) ==
    IF \/ Healthy /\ registry.pid # p
       \/ linked \cap (Pids \ {p}) # {}
       \/ \E c \in linked \cap Clients : saw[c] # p /\ server[saw[c]] = "live"
    THEN {"renamed"} ELSE {}

Goes(c, step) == pc' = [pc EXCEPT ![c] = step]
At(c, step) == pc[c] = step

Finish(c, result) ==
    /\ Goes(c, "idle")
    /\ outcome' = [outcome EXCEPT ![c] = result]
    /\ saw' = [saw EXCEPT ![c] = NoPid]
    /\ late' = [late EXCEPT ![c] = FALSE]
    /\ site' = [site EXCEPT ![c] = "first"]
    /\ retried' = [retried EXCEPT ![c] = FALSE]
    /\ no_start' = [no_start EXCEPT ![c] = FALSE]

Reread(c, s) ==
    /\ Goes(c, "read")
    /\ site' = [site EXCEPT ![c] = s]
    /\ saw' = [saw EXCEPT ![c] = NoPid]
    /\ late' = IF s = site[c] THEN late ELSE [late EXCEPT ![c] = FALSE]
    /\ UNCHANGED <<retried, no_start, outcome>>

Proceed(c, step) ==
    /\ Goes(c, step)
    /\ UNCHANGED <<site, saw, late, retried, no_start, outcome>>
-----------------------------------------------------------------------------
(***************************************************************************)
(* read_live_registry, and what ensure_sidecar does without a server.      *)
(***************************************************************************)
Leave(c, step) ==
    /\ Goes(c, step)
    /\ saw' = [saw EXCEPT ![c] = NoPid]
    /\ UNCHANGED <<site, late, retried, no_start, outcome>>

MissForever(c) ==
    \/ site[c] = "first" /\ no_start[c] /\ Finish(c, "refused")
    \/ site[c] = "first" /\ ~no_start[c] /\ Reread(c, "lock")
    \/ site[c] = "lock" /\ Leave(c, "mkdir")
    \/ site[c] = "again" /\ Leave(c, "spawn")
    \/ site[c] = "wait" /\ Reread(c, "wait")

Miss(c) ==
    \/ site[c] = "first" /\ no_start[c] /\ Finish(c, "refused")
    \/ site[c] = "first" /\ ~no_start[c] /\ Reread(c, "lock")
    \/ site[c] = "lock" /\ Leave(c, "mkdir")
    \/ site[c] = "again" /\ Leave(c, "spawn")
    \/ site[c] = "wait" /\ ~late[c] /\ Reread(c, "wait")
    \/ site[c] = "wait" /\ late[c] /\ Leave(c, "drop")

ReadFile(c) ==
    /\ At(c, "read")
    /\ IF registry.state = "whole"
       THEN /\ saw' = [saw EXCEPT ![c] = registry.pid] /\ Goes(c, "health")
            /\ UNCHANGED <<site, late, retried, no_start, outcome>>
       ELSE Miss(c)
    /\ excuse' = IF registry.state = "torn" THEN excuse \cup {"torn"} ELSE excuse
    /\ UNCHANGED <<file, lock, server, cleaning, bounds>>

Health(c) ==
    /\ At(c, "health")
    /\ IF server[saw[c]] = "live" THEN Proceed(c, "truncate") ELSE Miss(c)
    /\ UNCHANGED <<file, lock, server, cleaning, bounds, excuse>>

\* touch_registry_last_used writes back what was read.
Truncate(c) ==
    /\ At(c, "truncate")
    /\ registry' = Torn /\ linked' = linked \cup {c}
    /\ Proceed(c, "write")
    /\ excuse' = excuse \cup Renamed(saw[c])
    /\ UNCHANGED <<lock, server, cleaning, bounds>>

Write(c) ==
    /\ At(c, "write")
    /\ IF c \in linked THEN registry' = Names(saw[c]) ELSE UNCHANGED registry
    /\ linked' = linked \ {c}
    /\ excuse' = excuse \cup Renamed(saw[c])
    /\ Proceed(c, IF site[c] \in {"again", "wait"} THEN "drop" ELSE "ask")
    /\ UNCHANGED <<lock, server, cleaning, bounds>>
-----------------------------------------------------------------------------
(***************************************************************************)
(* acquire_sidecar_start_lock.                                             *)
(***************************************************************************)
AcquiredUnchecked(c) ==
    /\ lock' = [owner |-> c, old |-> FALSE]
    /\ Goes(c, "spawn") /\ site' = [site EXCEPT ![c] = "again"]
    /\ late' = [late EXCEPT ![c] = FALSE]
    /\ UNCHANGED <<saw, retried, no_start, outcome>>

Acquired(c) ==
    /\ lock' = [owner |-> c, old |-> FALSE]
    /\ Reread(c, "again")

MakeLock(c) ==
    /\ At(c, "mkdir")
    /\ IF lock = NoLock THEN Acquired(c) ELSE Proceed(c, "check") /\ UNCHANGED lock
    /\ UNCHANGED <<file, server, cleaning, bounds, excuse>>

\* sidecar_start_lock_is_stale: also when it is not there any more.
IsStale == lock = NoLock \/ lock.old

CheckLock(c) ==
    /\ At(c, "check")
    /\ \/ IsStale /\ Proceed(c, "break")
       \/ ~IsStale /\ late[c] /\ Finish(c, "error")
       \/ ~IsStale /\ ~late[c] /\ Reread(c, "lock")
    /\ UNCHANGED <<file, lock, server, cleaning, bounds, excuse>>

Holding == lock # NoLock /\ pc[lock.owner] \notin {"idle", "crashed"}

\* Somebody else works under the lock that is removed.
Unlocked(c) == IF Holding /\ lock.owner # c THEN {"unlocked"} ELSE {}

BreakLock(c) ==
    /\ At(c, "break")
    /\ lock' = NoLock
    /\ Reread(c, "lock")
    /\ excuse' = excuse \cup Unlocked(c)
    /\ UNCHANGED <<file, server, cleaning, bounds>>

Spawn(c) ==
    /\ At(c, "spawn")
    /\ RemoveFile
    /\ \E p \in Pids :
        /\ server[p] = "unused" /\ \A q \in 1..p-1 : server[q] # "unused"
        /\ server' = [server EXCEPT ![p] = "starting"]
    /\ Reread(c, "wait")
    /\ UNCHANGED <<lock, cleaning, bounds, excuse>>

\* The drop of the lock removes the directory, whoever made it.
DropLock(c) ==
    /\ At(c, "drop")
    /\ lock' = NoLock
    /\ IF saw[c] # NoPid THEN Proceed(c, "ask") ELSE Finish(c, "error")
    /\ excuse' = excuse \cup Unlocked(c)
    /\ UNCHANGED <<file, server, cleaning, bounds>>
-----------------------------------------------------------------------------
(***************************************************************************)
(* call_text and call_batch: a request that finds no server is sent once   *)
(* more after restart_sidecar, which takes the registry's file away.       *)
(***************************************************************************)
CanRetryNever(c) == FALSE
CanRetry(c) == ~no_start[c] /\ ~retried[c]

Answer(c) ==
    /\ At(c, "ask") /\ server[saw[c]] = "live"
    /\ Finish(c, "answered")
    /\ UNCHANGED <<file, lock, server, cleaning, bounds, excuse>>

RequestFails(c) ==
    IF CanRetry(c)
    THEN /\ RemoveFile
         /\ Goes(c, "read")
         /\ site' = [site EXCEPT ![c] = "first"] /\ saw' = [saw EXCEPT ![c] = NoPid]
         /\ late' = [late EXCEPT ![c] = FALSE] /\ retried' = [retried EXCEPT ![c] = TRUE]
         /\ UNCHANGED <<no_start, outcome>>
    ELSE Finish(c, IF no_start[c] THEN "refused" ELSE "error") /\ UNCHANGED file

Unnaming(c) == IF CanRetry(c) THEN Unnamed(saw[c]) ELSE {}

Refused(c) ==
    /\ At(c, "ask") /\ server[saw[c]] # "live"
    /\ RequestFails(c)
    /\ excuse' = excuse \cup Unnaming(c)
    /\ UNCHANGED <<lock, server, cleaning, bounds>>

Lost(c) ==
    /\ At(c, "ask") /\ server[saw[c]] = "live"
    /\ Fault({"lost"} \cup Unnaming(c))
    /\ RequestFails(c)
    /\ UNCHANGED <<lock, server, cleaning>>

\* A server that does not answer in 10 s: "Resource temporarily unavailable"
\* is not among the messages of is_retryable_sidecar_error.
Hung(c) ==
    /\ At(c, "ask") /\ server[saw[c]] = "live"
    /\ Fault({"hung"})
    /\ Finish(c, IF no_start[c] THEN "refused" ELSE "error")
    /\ UNCHANGED <<file, lock, server, cleaning>>

\* A command that sends a request: all but ensure, doctor and cleanup.
Run(c) ==
    /\ At(c, "idle") /\ calls < MaxCalls
    /\ calls' = calls + 1
    /\ Goes(c, "read")
    /\ \E n \in BOOLEAN : no_start' = [no_start EXCEPT ![c] = n]
    /\ outcome' = [outcome EXCEPT ![c] = "none"]
    /\ UNCHANGED <<file, lock, server, cleaning, site, saw, late, retried, cleanups, faults, excuse>>
-----------------------------------------------------------------------------
(***************************************************************************)
(* The server: serve_streamable_http registers before it serves.           *)
(***************************************************************************)
Register(p) ==
    /\ server[p] = "starting"
    /\ server' = [server EXCEPT ![p] = "truncated"]
    /\ registry' = Torn /\ linked' = linked \cup {p}
    /\ excuse' = excuse \cup Renamed(p)
    /\ UNCHANGED <<lock, client, cleaning, bounds>>

Serve(p) ==
    /\ server[p] = "truncated"
    /\ server' = [server EXCEPT ![p] = "live"]
    /\ IF p \in linked THEN registry' = Names(p) ELSE UNCHANGED registry
    /\ linked' = linked \ {p}
    /\ excuse' = excuse \cup Renamed(p)
    /\ UNCHANGED <<lock, client, cleaning, bounds>>
-----------------------------------------------------------------------------
(***************************************************************************)
(* fffq cleanup.                                                           *)
(***************************************************************************)
PidIsAliveNever(p) == FALSE
PidIsAlive(p) == Alive(p)

Look ==
    /\ cleaner = "idle" /\ cleanups < MaxCleanups /\ registry.state = "whole"
    /\ cleanups' = cleanups + 1
    /\ target' = registry.pid
    /\ \/ ~PidIsAlive(registry.pid) /\ cleaner' = "remove"
       \/ PidIsAlive(registry.pid) /\ ~registry.fresh /\ cleaner' = "kill"
    /\ UNCHANGED <<file, lock, server, client, calls, faults, excuse>>

\* A dead server's file goes, or whatever has its name by now.
RemoveDead ==
    /\ cleaner = "remove"
    /\ RemoveFile
    /\ cleaner' = "idle" /\ target' = NoPid
    /\ excuse' = excuse \cup Unnamed(target)
    /\ UNCHANGED <<lock, server, client, bounds>>

Terminate ==
    /\ cleaner = "kill"
    /\ server' = [server EXCEPT ![target] = "dead"]
    /\ cleaner' = "forget"
    /\ excuse' = IF Alive(target) THEN excuse \cup {"died"} ELSE excuse
    /\ UNCHANGED <<file, lock, client, target, bounds>>

Forget ==
    /\ cleaner = "forget"
    /\ RemoveFile
    /\ cleaner' = "idle" /\ target' = NoPid
    /\ excuse' = excuse \cup Unnamed(target)
    /\ UNCHANGED <<lock, server, client, bounds>>
-----------------------------------------------------------------------------
(***************************************************************************)
(* Faults, and the passing of time.                                        *)
(***************************************************************************)
\* A server is awaited until the client that waits has seen it.
Awaited(p) ==
    \/ server[p] # "live"
    \/ \E c \in Clients : site[c] = "wait" /\ pc[c] \notin {"drop", "ask", "crashed"}

ServerDies(p) ==
    /\ Alive(p)
    /\ Fault({IF Awaited(p) THEN "stillborn" ELSE "died"})
    /\ server' = [server EXCEPT ![p] = "dead"]
    /\ linked' = linked \ {p}
    /\ UNCHANGED <<registry, lock, client, cleaning>>

ClientCrashes(c) ==
    /\ pc[c] \notin {"idle", "crashed"}
    /\ Fault({"crashed"})
    /\ Goes(c, "crashed")
    /\ linked' = linked \ {c}
    /\ saw' = [saw EXCEPT ![c] = NoPid]
    /\ UNCHANGED <<registry, lock, server, site, late, retried, no_start, outcome, cleaning>>

\* Something is under way that ends the wait of a client.
UnderWay(c) ==
    IF site[c] = "lock" THEN lock = NoLock \/ Holding
    ELSE Healthy \/ linked # {} \/ \E p \in Pids : server[p] \in {"starting", "truncated"}

Deadline(c) ==
    /\ site[c] \in {"lock", "wait"} /\ ~late[c] /\ pc[c] # "crashed"
    /\ late' = [late EXCEPT ![c] = TRUE]
    /\ IF UnderWay(c) THEN Fault({"slow"}) ELSE UNCHANGED <<bounds, excuse>>
    /\ UNCHANGED <<file, lock, server, pc, site, saw, retried, no_start, outcome, cleaning>>

LockAges ==
    /\ lock # NoLock /\ ~lock.old
    /\ lock' = [lock EXCEPT !.old = TRUE]
    /\ IF Holding THEN Fault({"slow"}) ELSE UNCHANGED <<bounds, excuse>>
    /\ UNCHANGED <<file, server, client, cleaning>>

\* A run is shorter than the time after which a server is idle.
Idle ==
    /\ registry.state = "whole" /\ registry.fresh
    /\ \A c \in Clients : pc[c] \in {"idle", "crashed"}
    /\ registry' = [registry EXCEPT !.fresh = FALSE]
    /\ UNCHANGED <<linked, lock, server, client, cleaning, bounds, excuse>>
-----------------------------------------------------------------------------
Init ==
    /\ registry = Absent /\ linked = {} /\ lock = NoLock
    /\ server = [p \in Pids |-> "unused"]
    /\ pc = [c \in Clients |-> "idle"] /\ site = [c \in Clients |-> "first"]
    /\ saw = [c \in Clients |-> NoPid]
    /\ late = [c \in Clients |-> FALSE] /\ retried = [c \in Clients |-> FALSE]
    /\ no_start = [c \in Clients |-> FALSE]
    /\ outcome = [c \in Clients |-> "none"]
    /\ cleaner = "idle" /\ target = NoPid
    /\ calls = 0 /\ cleanups = 0 /\ faults = 0 /\ excuse = {}

Continue(c) ==
    \/ ReadFile(c) \/ Health(c) \/ Truncate(c) \/ Write(c)
    \/ MakeLock(c) \/ CheckLock(c) \/ BreakLock(c) \/ Spawn(c) \/ DropLock(c)
    \/ Answer(c) \/ Refused(c) \/ Lost(c) \/ Hung(c)

Start(p) == Register(p) \/ Serve(p)
Cleanup == Look \/ RemoveDead \/ Terminate \/ Forget

Next ==
    \/ \E c \in Clients : Run(c) \/ Continue(c) \/ Deadline(c) \/ ClientCrashes(c)
    \/ \E p \in Pids : Start(p) \/ ServerDies(p)
    \/ Cleanup \/ LockAges \/ Idle

\* Processes run, and time passes.
Spec ==
    /\ Init /\ [][Next]_vars
    /\ \A c \in Clients : WF_vars(Continue(c)) /\ WF_vars(Deadline(c))
    /\ \A p \in Pids : WF_vars(Start(p))
    /\ WF_vars(LockAges)
-----------------------------------------------------------------------------
Started == {p \in Pids : server[p] # "unused"}
Resting == cleaner = "idle" /\ \A c \in Clients : pc[c] \in {"idle", "crashed"}

(***************************************************************************)
(* However many clients find no server, one of them starts one (main.rs    *)
(* 319-437, the second look under the lock), though a lock may be removed  *)
(* that was made after its check: unless a fault happened, or a client     *)
(* read the registry while another was writing it.                         *)
(***************************************************************************)
OneSidecar == excuse \subseteq {"unlocked"} => Cardinality(Started) <= 1

(***************************************************************************)
(* The death of a server, of itself or by cleanup, leaves none behind that *)
(* cleanup could not find: a live server that nobody is starting is the    *)
(* registered one, unless a name or a lock was taken from somebody (main.rs*)
(* 416-419, 546-552, 580-590, 632-635) or another fault happened.          *)
(***************************************************************************)
NoSidecarLeaks ==
    Resting /\ excuse \subseteq {"died"} =>
        \A p \in Pids : server[p] = "live" => registry.pid = p

(***************************************************************************)
(* A client that may start servers fails only if two things went wrong, or *)
(* one that its second attempt does not help against (main.rs 498-530).    *)
(***************************************************************************)
OneFailureIsHidden ==
    (\E c \in Clients : outcome[c] = "error") =>
        \/ faults + cleanups >= 2
        \/ excuse \cap {"stillborn", "hung", "slow", "crashed", "renamed", "unnamed"} # {}

(***************************************************************************)
(* Every run of a client ends, though the lock's owner may have crashed    *)
(* and its server may never answer (main.rs 377-391, 394-437).             *)
(***************************************************************************)
EveryRunEnds == \A c \in Clients : pc[c] # "idle" ~> pc[c] \in {"idle", "crashed"}
=============================================================================
