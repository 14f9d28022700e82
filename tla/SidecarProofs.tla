--------------------------- MODULE SidecarProofs ----------------------------
(***************************************************************************)
(* TLAPS proofs about the sidecars of a project, for any number of clients,*)
(* of their runs, of cleanups and of faults: that one server is started,   *)
(* that none is left behind, and that one failure is hidden.               *)
(***************************************************************************)
EXTENDS Sidecar, FiniteSetTheorems, TLAPS

Named(p) == server[p] \in {"live", "dead"}
UnderLock(c) ==
    /\ site[c] \in {"again", "wait"}
    /\ pc[c] \in {"read", "health", "truncate", "write", "spawn", "drop"}

\* Who writes has been told of a server, and a server registers itself.
WritersInv ==
    /\ \A c \in linked \cap Clients : pc[c] = "write"
    /\ \A p \in linked \cap Pids : server[p] = "truncated"

\* What is named, seen or looked at has run.
FileNamed == registry.state = "whole" => Named(registry.pid)
SawNamed(c) == saw[c] # NoPid => Named(saw[c])
TargetNamed ==
    /\ cleaner = "idle" <=> target = NoPid
    /\ cleaner # "idle" => Named(target)
    /\ cleaner \in {"remove", "forget"} => server[target] = "dead"
NamesInv == FileNamed /\ TargetNamed /\ \A c \in Clients : SawNamed(c)

\* What holds of one client alone.
Local(c) ==
    /\ pc[c] \in {"health", "truncate", "write", "ask"} => saw[c] # NoPid
    /\ pc[c] \in {"mkdir", "check", "break"} => site[c] = "lock"
    /\ pc[c] = "spawn" => site[c] = "again"
    /\ pc[c] = "idle" => site[c] = "first"
    /\ pc[c] = "drop" => site[c] \in {"again", "wait"}

\* Which step belongs to which reading of the registry, and who has the lock.
StepsInv ==
    /\ \A c \in Clients : Local(c)
    /\ lock.owner = NoClient => ~lock.old
    /\ lock.owner # NoClient /\ pc[lock.owner] # "crashed" => UnderLock(lock.owner)

Base == TypeOK /\ WritersInv /\ NamesInv /\ StepsInv
-----------------------------------------------------------------------------
LEMMA PidsAreNoClients == Clients \cap Pids = {} /\ NoPid \notin Pids /\ NoClient \notin Clients
BY SidecarAssumption DEF Pids, NoPid

-----------------------------------------------------------------------------
(***************************************************************************)
(* No server is left behind.  As long as nothing worse happens than that   *)
(* servers die, the lock keeps its one owner, one server is alive at most, *)
(* a server that starts is waited for, and one that runs is the registered *)
(* one, or being written down.                                             *)
(***************************************************************************)
Waits(c) == site[c] = "wait" /\ pc[c] \in {"read", "health"} /\ ~late[c]
Starting(p) == server[p] \in {"starting", "truncated"}
WrittenDown(p) == registry.state = "torn" /\ \E c \in linked \cap Clients : saw[c] = p

NobodyCrashed == ~lock.old /\ \A c \in Clients : pc[c] # "crashed"
OneOwner == \A c \in Clients : UnderLock(c) => lock.owner = c
OneAlive == \A p, q \in Pids : Alive(p) /\ Alive(q) => p = q
StartIsAwaited == \A p \in Pids : Starting(p) => \E c \in Clients : Waits(c)
LiveIsRegistered == \A p \in Pids : server[p] = "live" => registry.pid = p \/ WrittenDown(p)
RegistersItself == \A p \in Pids : server[p] = "truncated" => p \in linked
SecondLook == \A c \in Clients, p \in Pids : Alive(p) =>
    pc[c] # "spawn" /\ (pc[c] = "health" /\ site[c] = "again" => p = saw[c])

LeakInv == NobodyCrashed /\ OneOwner /\ OneAlive /\ StartIsAwaited /\ LiveIsRegistered /\ RegistersItself /\ SecondLook
NoLeakInv == excuse \subseteq {"died"} => LeakInv

(***************************************************************************)
(* One server is started.  Without a fault no server dies and a lock does  *)
(* not age.  Until a server runs, nobody takes a lock away, and its owner  *)
(* waits for the one server it has started; from then on nobody misses the *)
(* registered server, and nobody starts another, whoever has the lock.     *)
(***************************************************************************)
NobodyDied == \A p \in Pids : server[p] # "dead"
SomebodyLive == \E p \in Pids : server[p] = "live"
OneStarted == \A p, q \in Pids : server[p] # "unused" /\ server[q] # "unused" => p = q
NobodyIsLate == \A c \in Clients :
    /\ site[c] = "wait" /\ pc[c] \in {"read", "health"} => ~late[c]
    /\ site[c] = "wait" => \E p \in Pids : server[p] # "unused"
SpawnsFirst == \A c \in Clients, p \in Pids : pc[c] = "spawn" => server[p] = "unused"
LockIsKept == SomebodyLive \/
    /\ OneOwner
    /\ \A c \in Clients : pc[c] \notin {"break", "drop"} /\ (pc[c] = "check" => lock.owner # NoClient)

StartInv == NobodyCrashed /\ NobodyDied /\ OneStarted /\ NobodyIsLate /\ StartIsAwaited /\ LiveIsRegistered /\ RegistersItself
            /\ SpawnsFirst /\ LockIsKept
OneStartInv == excuse \subseteq {"unlocked"} => StartInv
-----------------------------------------------------------------------------
(***************************************************************************)
(* One failure is hidden.  As long as one thing goes wrong at most, and    *)
(* nothing that a second attempt does not help against, there is hope for  *)
(* who waits: a server that starts, or one that is registered or written   *)
(* down, and is not the one that cleanup is about to end.  A client that   *)
(* is at its second attempt has seen the one thing go wrong already.       *)
(***************************************************************************)
Mild ==
    /\ excuse \cap {"stillborn", "hung", "slow", "crashed", "renamed", "unnamed"} = {}
    /\ faults + cleanups <= 1
Spent == faults + cleanups >= 1 /\ cleaner # "kill"
AwaitsServer(c) == site[c] = "wait" /\ pc[c] \in {"read", "health", "truncate", "write"}
Hope ==
    \/ Healthy /\ registry.pid # target
    \/ \E p \in Pids : server[p] = "starting"
    \/ linked \cap Pids # {}
    \/ \E c \in linked \cap Clients : saw[c] # target /\ server[saw[c]] = "live"

WaitersHope == \A c \in Clients : AwaitsServer(c) => Hope
NobodyOverdue == \A c \in Clients :
    /\ site[c] = "lock" \/ AwaitsServer(c) => ~late[c]
    /\ pc[c] = "drop" => saw[c] # NoPid
IdleIsRest == registry.state = "whole" /\ ~registry.fresh => \A c \in Clients : site[c] # "wait"
OneThingWentWrong ==
    /\ cleaner # "idle" => cleanups >= 1
    /\ \A p \in Pids : server[p] = "dead" => Spent
    /\ \A c \in Clients : retried[c] => Spent
SecondAttempt == \A c \in Clients :
    retried[c] /\ pc[c] \in {"truncate", "write", "drop", "ask"} => server[saw[c]] = "live"
NobodyFailed == \A c \in Clients : outcome[c] # "error"

MildInv == NobodyCrashed /\ WaitersHope /\ NobodyOverdue /\ IdleIsRest /\ OneThingWentWrong /\ SecondAttempt /\ NobodyFailed
HiddenInv == Mild => MildInv
-----------------------------------------------------------------------------
\* TypeOK, part by part: clients, files, processes, counts.
ClientOK ==
    /\ pc \in [Clients -> Steps] /\ site \in [Clients -> {"first", "lock", "again", "wait"}]
    /\ saw \in [Clients -> Pids \cup {NoPid}]
    /\ late \in [Clients -> BOOLEAN] /\ retried \in [Clients -> BOOLEAN] /\ no_start \in [Clients -> BOOLEAN]
    /\ outcome \in [Clients -> {"none", "answered", "error", "refused"}]

FileOK ==
    /\ registry \in [state : {"absent", "torn", "whole"}, pid : Pids \cup {NoPid}, fresh : BOOLEAN]
    /\ registry.state = "whole" <=> registry.pid # NoPid
    /\ linked \subseteq Clients \cup Pids /\ (linked # {} => registry.state # "absent")

ProcessesOK ==
    /\ lock \in [owner : Clients \cup {NoClient}, old : BOOLEAN]
    /\ server \in [Pids -> {"unused", "starting", "truncated", "live", "dead"}]
    /\ cleaner \in {"idle", "remove", "kill", "forget"} /\ target \in Pids \cup {NoPid}
Excuses == {"died", "stillborn", "lost", "hung", "slow", "crashed", "torn", "renamed", "unnamed", "unlocked"}
CountsOK ==
    /\ calls \in 0..MaxCalls /\ cleanups \in 0..MaxCleanups /\ faults \in 0..MaxFaults
    /\ excuse \subseteq Excuses

\* Nothing of the other clients changes.
OthersStay(c) == \A d \in Clients \ {c} : UNCHANGED <<pc[d], site[d], saw[d], late[d], retried[d], no_start[d], outcome[d]>>

LEMMA FinishKeeps ==
    ASSUME ClientOK, NEW c \in Clients, NEW r \in {"none", "answered", "error", "refused"}, Finish(c, r)
    PROVE  ClientOK' /\ OthersStay(c) /\ pc'[c] = "idle" /\ site'[c] = "first" /\ saw'[c] = NoPid /\ late'[c] = FALSE
           /\ outcome'[c] = r /\ retried'[c] = FALSE
BY DEF ClientOK, OthersStay, Finish, Goes, Steps
LEMMA RereadKeeps ==
    ASSUME ClientOK, NEW c \in Clients, NEW s \in {"first", "lock", "again", "wait"}, Reread(c, s)
    PROVE  ClientOK' /\ OthersStay(c) /\ pc'[c] = "read" /\ site'[c] = s /\ saw'[c] = NoPid
           /\ late'[c] = (IF s = site[c] THEN late[c] ELSE FALSE)
           /\ UNCHANGED <<retried, no_start, outcome>>
BY DEF ClientOK, OthersStay, Reread, Goes, Steps
LEMMA ProceedKeeps ==
    ASSUME ClientOK, NEW c \in Clients, NEW x \in Steps, Proceed(c, x)
    PROVE  ClientOK' /\ OthersStay(c) /\ pc'[c] = x /\ UNCHANGED <<site, saw, late, retried, no_start, outcome>>
BY DEF ClientOK, OthersStay, Proceed, Goes, Steps
LEMMA LeaveKeeps ==
    ASSUME ClientOK, NEW c \in Clients, NEW x \in Steps, Leave(c, x)
    PROVE  ClientOK' /\ OthersStay(c) /\ pc'[c] = x /\ saw'[c] = NoPid /\ UNCHANGED <<site, late, retried, no_start, outcome>>
BY DEF ClientOK, OthersStay, Leave, Goes, Steps
LEMMA TypeParts == TypeOK <=> ClientOK /\ FileOK /\ ProcessesOK /\ CountsOK
BY DEF TypeOK, ClientOK, FileOK, ProcessesOK, CountsOK, Excuses
LEMMA MissKeeps ==
    ASSUME ClientOK, NEW c \in Clients, Miss(c)
    PROVE  ClientOK' /\ OthersStay(c) /\ saw'[c] = NoPid /\ pc'[c] \in {"idle", "read", "mkdir", "spawn", "drop"}
<1>1. CASE Finish(c, "refused")
  BY <1>1, FinishKeeps
<1>2. CASE Reread(c, "lock") \/ Reread(c, "wait")
  BY <1>2, RereadKeeps
<1>3. CASE Leave(c, "mkdir") \/ Leave(c, "spawn") \/ Leave(c, "drop")
  BY <1>3, LeaveKeeps DEF Steps
<1>4. QED
  BY <1>1, <1>2, <1>3 DEF Miss

\* A step of one client is its own.
LEMMA OneMoves ==
    ASSUME ClientOK, NEW c \in Clients, Run(c) \/ Continue(c) \/ Deadline(c) \/ ClientCrashes(c)
    PROVE  OthersStay(c)
<1>1. CASE Run(c) \/ Deadline(c) \/ ClientCrashes(c)
  BY <1>1 DEF Run, Deadline, ClientCrashes, Goes, OthersStay, ClientOK
<1>2. CASE ReadFile(c)
  <2>1. CASE Miss(c)
    BY <2>1, MissKeeps
  <2>2. CASE ~Miss(c)
    BY <1>2, <2>2 DEF ReadFile, Goes, OthersStay, ClientOK
  <2>3. QED
    BY <2>1, <2>2
<1>3. CASE Health(c) \/ Truncate(c) \/ Write(c)
  BY <1>3, MissKeeps, ProceedKeeps DEF Health, Truncate, Write, Steps
<1>4. CASE MakeLock(c) \/ CheckLock(c) \/ BreakLock(c) \/ Spawn(c)
  BY <1>4, ProceedKeeps, RereadKeeps, FinishKeeps DEF MakeLock, Acquired, CheckLock, BreakLock,
       Spawn, Steps
<1>5. CASE DropLock(c) \/ Answer(c) \/ Hung(c)
  BY <1>5, ProceedKeeps, FinishKeeps DEF DropLock, Answer, Hung, Steps
<1>6. CASE RequestFails(c)
  <2>1. CASE CanRetry(c)
    BY <1>6, <2>1 DEF RequestFails, Goes, OthersStay, ClientOK
  <2>2. CASE ~CanRetry(c)
    BY <1>6, <2>2, FinishKeeps DEF RequestFails
  <2>3. QED
    BY <2>1, <2>2
<1>7. QED
  BY <1>1, <1>2, <1>3, <1>4, <1>5, <1>6 DEF Continue, Refused, Lost

LEMMA ClientsStep ==
    ASSUME Base, [Next]_vars
    PROVE  ClientOK'
<1>0. ClientOK
  BY TypeParts DEF Base
<1>1. ASSUME NEW c \in Clients, Run(c) PROVE ClientOK'
  BY <1>0, <1>1 DEF Run, ClientOK, Goes, Steps
<1>2. ASSUME NEW c \in Clients, ReadFile(c) PROVE ClientOK'
  <2>1. CASE registry.state = "whole"
    BY <1>0, <1>2, <2>1, TypeParts DEF ReadFile, Goes, ClientOK, FileOK, Steps, Base
  <2>2. CASE registry.state # "whole"
    BY <1>0, <1>2, <2>2, MissKeeps DEF ReadFile
  <2>3. QED
    BY <2>1, <2>2
<1>3. ASSUME NEW c \in Clients, Health(c) PROVE ClientOK'
  BY <1>0, <1>3, MissKeeps, ProceedKeeps DEF Health, Steps
<1>4. ASSUME NEW c \in Clients, Truncate(c) \/ Write(c) PROVE ClientOK'
  BY <1>0, <1>4, ProceedKeeps DEF Truncate, Write, Steps
<1>5. ASSUME NEW c \in Clients, MakeLock(c) \/ CheckLock(c) \/ BreakLock(c) \/ Spawn(c) PROVE ClientOK'
  BY <1>0, <1>5, ProceedKeeps, RereadKeeps, FinishKeeps DEF MakeLock, Acquired, CheckLock,
       BreakLock, Spawn, Steps
<1>6. ASSUME NEW c \in Clients, DropLock(c) \/ Answer(c) \/ Hung(c) PROVE ClientOK'
  BY <1>0, <1>6, ProceedKeeps, FinishKeeps DEF DropLock, Answer, Hung, Steps
<1>7. ASSUME NEW c \in Clients, RequestFails(c) PROVE ClientOK'
  BY <1>0, <1>7, FinishKeeps DEF RequestFails, Goes, Steps, ClientOK
<1>8. ASSUME NEW c \in Clients, Deadline(c) \/ ClientCrashes(c) PROVE ClientOK'
  BY <1>0, <1>8 DEF Deadline, ClientCrashes, ClientOK, Goes, Steps
<1>9. CASE UNCHANGED client
  BY <1>0, <1>9 DEF client, ClientOK
<1>10. QED
  BY <1>1, <1>2, <1>3, <1>4, <1>5, <1>6, <1>7, <1>8, <1>9
  DEF Next, Continue, Refused, Lost, Start, Register, Serve, Cleanup, Look, RemoveDead, Terminate, Forget,
      ServerDies, LockAges, Idle, vars, client

LEMMA FileStep ==
    ASSUME Base, [Next]_vars
    PROVE  FileOK'
<1>0. FileOK /\ ClientOK
  BY TypeParts DEF Base
<1>1. CASE UNCHANGED file
  BY <1>0, <1>1 DEF FileOK, file
<1>2. CASE RemoveFile
  BY <1>0, <1>2, PidsAreNoClients DEF FileOK, RemoveFile, Absent
<1>3. ASSUME NEW x \in Clients \cup Pids, registry' = Torn, linked' = linked \cup {x} PROVE FileOK'
  BY <1>0, <1>3, PidsAreNoClients DEF FileOK, Torn
<1>4. ASSUME NEW x \in Clients \cup Pids, NEW p \in Pids, linked' = linked \ {x},
             IF x \in linked THEN registry' = Names(p) ELSE UNCHANGED registry
      PROVE  FileOK'
  <2>1. Names(p) \in [state : {"absent", "torn", "whole"}, pid : Pids \cup {NoPid}, fresh : BOOLEAN]
    BY DEF Names
  <2>2. Names(p).state = "whole" /\ Names(p).pid # NoPid
    BY PidsAreNoClients DEF Names
  <2>3. QED
    BY <1>0, <1>4, <2>1, <2>2 DEF FileOK
<1>5. ASSUME NEW c \in Clients, Write(c) PROVE FileOK'
  <2>1. saw[c] \in Pids
    BY <1>0, <1>5 DEF Write, At, Base, NamesInv, StepsInv, Local, ClientOK
  <2>2. QED
    BY <1>4, <1>5, <2>1 DEF Write
<1>6. ASSUME NEW p \in Pids, Start(p) PROVE FileOK'
  BY <1>3, <1>4, <1>6 DEF Start, Register, Serve
<1>7. CASE Idle
  BY <1>0, <1>7 DEF Idle, FileOK
<1>8. ASSUME UNCHANGED registry, NEW x, linked' = linked \ {x} PROVE FileOK'
  BY <1>0, <1>8 DEF FileOK
<1>9. QED
  BY <1>1, <1>2, <1>3, <1>5, <1>6, <1>7, <1>8
  DEF Next, Continue, Run, ReadFile, Health, Truncate, MakeLock, CheckLock, BreakLock, Spawn, DropLock, Answer,
      Refused, Lost, Hung, RequestFails, Deadline, ClientCrashes, ServerDies, Cleanup, Look, RemoveDead,
      Terminate, Forget, LockAges, vars

LEMMA ProcessesStep ==
    ASSUME Base, [Next]_vars
    PROVE  ProcessesOK'
<1>0. ProcessesOK /\ FileOK
  BY TypeParts DEF Base
<1>1. CASE UNCHANGED <<lock, server, cleaning>>
  BY <1>0, <1>1 DEF ProcessesOK, cleaning
<1>2. ASSUME UNCHANGED <<server, cleaning>>, NEW c \in Clients, lock' \in {lock, NoLock, [owner |-> c, old |-> FALSE]}
      PROVE  ProcessesOK'
  <2>1. NoLock \in [owner : Clients \cup {NoClient}, old : BOOLEAN]
    BY DEF NoLock
  <2>2. [owner |-> c, old |-> FALSE] \in [owner : Clients \cup {NoClient}, old : BOOLEAN]
    OBVIOUS
  <2>3. lock' \in [owner : Clients \cup {NoClient}, old : BOOLEAN]
    BY <1>0, <1>2, <2>1, <2>2 DEF ProcessesOK
  <2>4. QED
    BY <1>0, <1>2, <2>3 DEF ProcessesOK, cleaning
<1>3. ASSUME UNCHANGED lock, NEW p \in Pids, NEW x \in {"starting", "truncated", "live", "dead"},
             server' = [server EXCEPT ![p] = x], UNCHANGED cleaning
      PROVE  ProcessesOK'
  BY <1>0, <1>3 DEF ProcessesOK, cleaning
<1>4. CASE Look
  BY <1>0, <1>4 DEF Look, ProcessesOK, FileOK
<1>5. CASE RemoveDead \/ Forget
  BY <1>0, <1>5 DEF RemoveDead, Forget, ProcessesOK
<1>6. CASE Terminate
  BY <1>0, <1>6 DEF Terminate, ProcessesOK
<1>7. CASE LockAges
  BY <1>0, <1>7 DEF LockAges, ProcessesOK, NoLock, cleaning
<1>8. ASSUME NEW c \in Clients, MakeLock(c) \/ BreakLock(c) \/ DropLock(c) PROVE ProcessesOK'
  BY <1>2, <1>8 DEF MakeLock, Acquired, BreakLock, DropLock
<1>9. ASSUME NEW c \in Clients, Spawn(c) PROVE ProcessesOK'
  BY <1>3, <1>9 DEF Spawn
<1>10. ASSUME NEW p \in Pids, Start(p) \/ ServerDies(p) PROVE ProcessesOK'
  BY <1>3, <1>10 DEF Start, Register, Serve, ServerDies
<1>11. QED
  BY <1>1, <1>4, <1>5, <1>6, <1>7, <1>8, <1>9, <1>10
  DEF Next, Continue, Run, ReadFile, Health, Truncate, Write, CheckLock, Answer,
      Refused, Lost, Hung, Deadline, ClientCrashes, Cleanup, Idle, vars

LEMMA CountsStep ==
    ASSUME Base, [Next]_vars
    PROVE  CountsOK'
<1>0. CountsOK
  BY TypeParts DEF Base
<1>1. ASSUME UNCHANGED bounds, NEW es, es \subseteq Excuses, excuse' = excuse \cup es PROVE CountsOK'
  BY <1>0, <1>1 DEF CountsOK, bounds
<1>2. ASSUME NEW es, es \subseteq Excuses, Fault(es) PROVE CountsOK'
  BY <1>0, <1>2, SidecarAssumption DEF CountsOK, Fault
<1>3. CASE UNCHANGED <<bounds, excuse>>
  BY <1>0, <1>3 DEF CountsOK, bounds
<1>4. ASSUME NEW c \in Clients, Run(c) PROVE CountsOK'
  <2>1. calls' = calls + 1 /\ calls < MaxCalls /\ UNCHANGED <<cleanups, faults, excuse>> /\ MaxCalls \in Nat
    BY <1>4, SidecarAssumption DEF Run
  <2>2. calls' \in 0..MaxCalls
    BY <1>0, <2>1 DEF CountsOK
  <2>3. QED
    BY <1>0, <2>1, <2>2 DEF CountsOK
<1>5. CASE Look
  BY <1>0, <1>5, SidecarAssumption DEF CountsOK, Look
<1>6. ASSUME NEW x PROVE Renamed(x) \subseteq Excuses /\ Unnamed(x) \subseteq Excuses /\ Unlocked(x) \subseteq Excuses
                        /\ Unnaming(x) \cup {"lost"} \subseteq Excuses
  BY DEF Renamed, Unnamed, Unlocked, Unnaming, Excuses
<1>7. ASSUME NEW c \in Clients, ReadFile(c) \/ Truncate(c) \/ Write(c) \/ BreakLock(c) \/ DropLock(c) PROVE CountsOK'
  <2>1. {"torn"} \subseteq Excuses
    BY DEF Excuses
  <2>2. CASE ReadFile(c)
    BY <1>1, <1>3, <2>1, <2>2 DEF ReadFile
  <2>3. CASE Truncate(c) \/ Write(c)
    BY <1>1, <1>6, <2>3 DEF Truncate, Write
  <2>4. CASE BreakLock(c) \/ DropLock(c)
    BY <1>1, <1>6, <2>4 DEF BreakLock, DropLock
  <2>5. QED
    BY <1>7, <2>2, <2>3, <2>4
<1>8. ASSUME NEW c \in Clients, Refused(c) PROVE CountsOK'
  BY <1>1, <1>6, <1>8 DEF Refused
<1>9. ASSUME NEW c \in Clients, Lost(c) PROVE CountsOK'
  BY <1>2, <1>6, <1>9 DEF Lost
<1>10. ASSUME NEW c \in Clients, Hung(c) \/ ClientCrashes(c) \/ Deadline(c) PROVE CountsOK'
  <2>1. {"hung"} \subseteq Excuses /\ {"crashed"} \subseteq Excuses /\ {"slow"} \subseteq Excuses
    BY DEF Excuses
  <2>2. QED
    BY <1>2, <1>3, <1>10, <2>1 DEF Hung, ClientCrashes, Deadline
<1>11. ASSUME NEW p \in Pids, Start(p) PROVE CountsOK'
  BY <1>1, <1>6, <1>11 DEF Start, Register, Serve
<1>12. ASSUME NEW p \in Pids, ServerDies(p) PROVE CountsOK'
  <2>1. {IF Awaited(p) THEN "stillborn" ELSE "died"} \subseteq Excuses
    BY DEF Excuses
  <2>2. QED
    BY <1>2, <1>12, <2>1 DEF ServerDies
<1>13. CASE RemoveDead \/ Forget
  BY <1>1, <1>6, <1>13 DEF RemoveDead, Forget
<1>14. CASE Terminate
  <2>1. {"died"} \subseteq Excuses
    BY DEF Excuses
  <2>2. QED
    BY <1>1, <1>3, <1>14, <2>1 DEF Terminate
<1>15. CASE LockAges
  <2>1. {"slow"} \subseteq Excuses
    BY DEF Excuses
  <2>2. QED
    BY <1>2, <1>3, <1>15, <2>1 DEF LockAges
<1>16. QED
  BY <1>3, <1>4, <1>5, <1>7, <1>8, <1>9, <1>10, <1>11, <1>12, <1>13, <1>14, <1>15
  DEF Next, Continue, Health, MakeLock, CheckLock, Spawn, Answer, Cleanup, Idle, vars
LEMMA TypeStep ==
    ASSUME Base, [Next]_vars
    PROVE  TypeOK'
<1>1. ClientOK' /\ FileOK' /\ ProcessesOK' /\ CountsOK'
  BY ClientsStep, FileStep, ProcessesStep, CountsStep
<1>2. QED
  BY <1>1 DEF TypeOK, ClientOK, FileOK, ProcessesOK, CountsOK, Excuses

\* A client moves to another step; what is written under the name stays, or loses writers.
LEMMA WritersStep ==
    ASSUME Base, [Next]_vars
    PROVE  WritersInv'
<1>0. ClientOK /\ FileOK /\ ProcessesOK /\ WritersInv
  BY TypeParts DEF Base
<1> USE <1>0, PidsAreNoClients
<1>1. CASE UNCHANGED <<pc, linked, server>>
  BY <1>1 DEF WritersInv
<1>2. CASE RemoveFile
  BY <1>2 DEF WritersInv, RemoveFile
<1>3. ASSUME NEW c \in Clients, Run(c) \/ Continue(c), pc[c] # "write", UNCHANGED <<linked, server>>
      PROVE  WritersInv'
  BY <1>3, OneMoves DEF WritersInv, OthersStay
<1>4. ASSUME NEW c \in Clients, ReadFile(c) PROVE WritersInv'
  <2>1. pc[c] # "write" /\ UNCHANGED <<linked, server>>
    BY <1>4 DEF ReadFile, At, Goes, OthersStay, file
  <2>2. QED
    BY <1>3, <1>4, <2>1 DEF Continue
<1>5. ASSUME NEW c \in Clients, Health(c) PROVE WritersInv'
  <2>1. pc[c] # "write" /\ UNCHANGED <<linked, server>>
    BY <1>5 DEF Health, At, Proceed, Goes, OthersStay, file
  <2>2. QED
    BY <1>3, <1>5, <2>1 DEF Continue
<1>6. ASSUME NEW c \in Clients, Truncate(c) PROVE WritersInv'
  BY <1>6 DEF Truncate, Proceed, Goes, WritersInv, ClientOK
<1>7. ASSUME NEW c \in Clients, Write(c) PROVE WritersInv'
  BY <1>7 DEF Write, Proceed, Goes, WritersInv, ClientOK
<1>8. ASSUME NEW c \in Clients, MakeLock(c) \/ CheckLock(c) \/ BreakLock(c) \/ DropLock(c) \/ Answer(c) \/ Hung(c)
      PROVE  WritersInv'
  <2>1. pc[c] # "write" /\ UNCHANGED <<linked, server>>
    BY <1>8 DEF MakeLock, CheckLock, BreakLock, DropLock, Answer, Hung, At, file
  <2>2. QED
    BY <1>3, <1>8, <2>1 DEF Continue
<1>9. ASSUME NEW c \in Clients, Refused(c) \/ Lost(c) PROVE WritersInv'
  <2>1. pc[c] # "write" /\ UNCHANGED server
    BY <1>9 DEF Refused, Lost, At
  <2>2. RemoveFile \/ UNCHANGED linked
    BY <1>9 DEF Refused, Lost, RequestFails, file
  <2>3. QED
    BY <1>2, <1>3, <1>9, <2>1, <2>2 DEF Continue
<1>10. ASSUME NEW c \in Clients, Run(c) PROVE WritersInv'
  <2>1. pc[c] # "write" /\ UNCHANGED <<linked, server>>
    BY <1>10 DEF Run, At, Goes, file
  <2>2. QED
    BY <1>3, <1>10, <2>1 DEF Continue
<1>11. ASSUME NEW c \in Clients, ClientCrashes(c) PROVE WritersInv'
  BY <1>11 DEF ClientCrashes, Goes, WritersInv, ClientOK
<1>12. ASSUME NEW p \in Pids, Start(p) PROVE WritersInv'
  BY <1>12 DEF Start, Register, Serve, client, WritersInv, ProcessesOK
<1>13. ASSUME NEW p \in Pids, ServerDies(p) PROVE WritersInv'
  BY <1>13 DEF ServerDies, client, WritersInv, ProcessesOK
<1>14. CASE Terminate
  <2>1. target \in Pids /\ server[target] # "truncated"
    BY <1>14 DEF Terminate, Base, NamesInv, TargetNamed, Named, ProcessesOK
  <2>2. QED
    BY <1>14, <2>1 DEF Terminate, file, client, WritersInv, ProcessesOK
<1>15. QED
  BY <1>1, <1>2, <1>4, <1>5, <1>6, <1>7, <1>8, <1>9, <1>10, <1>11, <1>12, <1>13, <1>14
  DEF Next, Continue, Spawn, Deadline, Cleanup, Look, RemoveDead, Forget, LockAges, Idle, vars, file, client

\* A server that has run stays one that has, and a dead one dead.
LEMMA ServersStep ==
    ASSUME Base, [Next]_vars, NEW p \in Pids
    PROVE  /\ server[p] \in {"live", "dead"} => server'[p] \in {"live", "dead"}
           /\ server[p] = "dead" => server'[p] = "dead"
<1>0. ProcessesOK
  BY TypeParts DEF Base
<1>1. CASE UNCHANGED server
  BY <1>1 DEF ProcessesOK
<1>2. ASSUME NEW c \in Clients, Spawn(c)
      PROVE  /\ server[p] \in {"live", "dead"} => server'[p] \in {"live", "dead"}
             /\ server[p] = "dead" => server'[p] = "dead"
  BY <1>0, <1>2 DEF Spawn, ProcessesOK
<1>3. ASSUME NEW q \in Pids, Start(q) \/ ServerDies(q)
      PROVE  /\ server[p] \in {"live", "dead"} => server'[p] \in {"live", "dead"}
             /\ server[p] = "dead" => server'[p] = "dead"
  BY <1>0, <1>3 DEF Start, Register, Serve, ServerDies, ProcessesOK
<1>4. CASE Terminate
  BY <1>0, <1>4 DEF Terminate, ProcessesOK
<1>5. QED
  BY <1>1, <1>2, <1>3, <1>4
  DEF Next, Continue, Run, ReadFile, Health, Truncate, Write, MakeLock, CheckLock, BreakLock, DropLock, Answer,
      Refused, Lost, Hung, Deadline, ClientCrashes, Cleanup, Look, RemoveDead, Forget, LockAges, Idle, vars

LEMMA NamedFileStep ==
    ASSUME Base, [Next]_vars
    PROVE  FileNamed'
<1>0. FileOK /\ ClientOK /\ ProcessesOK /\ FileNamed
  BY TypeParts DEF Base, NamesInv
<1> USE DEF FileNamed, Named
<1>1. CASE UNCHANGED registry
  BY <1>0, <1>1, ServersStep DEF FileOK
<1>2. CASE registry' \in {Absent, Torn}
  BY <1>2 DEF Absent, Torn
<1>3. ASSUME NEW c \in Clients, Write(c) PROVE FileNamed'
  <2>1. saw[c] \in Pids /\ Named(saw[c])
    BY <1>0, <1>3 DEF Write, At, Base, NamesInv, SawNamed, StepsInv, Local, ClientOK
  <2>2. CASE registry' = Names(saw[c])
    <3>1. registry'.pid = saw[c]
      BY <2>2 DEF Names
    <3>2. QED
      BY <2>1, <3>1, ServersStep
  <2>3. QED
    BY <1>1, <1>3, <2>2 DEF Write
<1>4. ASSUME NEW p \in Pids, Serve(p) PROVE FileNamed'
  <2>1. server'[p] = "live"
    BY <1>0, <1>4 DEF Serve, Named, ProcessesOK
  <2>2. registry' = Names(p) => registry'.pid = p
    BY DEF Names
  <2>3. QED
    BY <1>1, <1>4, <2>1, <2>2 DEF Serve
<1>5. CASE Idle
  <2>1. registry'.pid = registry.pid /\ registry.pid \in Pids
    BY <1>0, <1>5 DEF Idle, FileOK
  <2>2. QED
    BY <1>0, <1>5, <2>1, ServersStep DEF Idle
<1>6. QED
  BY <1>1, <1>2, <1>3, <1>4, <1>5
  DEF Next, Continue, Start, Run, ReadFile, Health, Truncate, MakeLock, CheckLock, BreakLock, Spawn, DropLock, Answer,
      Refused, Lost, Hung, RequestFails, RemoveFile, Register, ServerDies, Deadline, ClientCrashes, Cleanup, Look,
      RemoveDead, Terminate, Forget, LockAges, vars, file

LEMMA MissLocal ==
    ASSUME ClientOK, NEW c \in Clients, Miss(c)
    PROVE  /\ Local(c)'
           /\ pc'[c] \in {"idle", "read", "mkdir", "spawn", "drop"}
           /\ site[c] = "again" => pc'[c] = "spawn" /\ site'[c] = "again"
           /\ site[c] = "wait" => pc'[c] \in {"read", "drop"} /\ site'[c] = "wait"
           /\ pc'[c] = "drop" => site[c] = "wait" /\ late[c]
           /\ pc'[c] = "spawn" => site[c] = "again"
           /\ site'[c] \in {"again", "wait"} => site'[c] = site[c]
<1> USE DEF Local
<1>1. CASE site[c] = "first" /\ Finish(c, "refused")
  BY <1>1, FinishKeeps
<1>2. CASE site[c] = "first" /\ Reread(c, "lock")
  BY <1>2, RereadKeeps
<1>3. CASE site[c] = "lock" /\ Leave(c, "mkdir")
  BY <1>3, LeaveKeeps DEF Steps
<1>4. CASE site[c] = "again" /\ Leave(c, "spawn")
  BY <1>4, LeaveKeeps DEF Steps
<1>5. CASE site[c] = "wait" /\ Reread(c, "wait")
  BY <1>5, RereadKeeps
<1>6. CASE site[c] = "wait" /\ late[c] /\ Leave(c, "drop")
  BY <1>6, LeaveKeeps DEF Steps
<1>7. QED
  BY <1>1, <1>2, <1>3, <1>4, <1>5, <1>6 DEF Miss

\* What a client has seen is what it had seen, nothing, or what is named.
LEMMA LocalStep ==
    ASSUME Base, NEW c \in Clients, Run(c) \/ Continue(c) \/ Deadline(c) \/ ClientCrashes(c)
    PROVE  /\ Local(c)'
           /\ saw'[c] \in {saw[c], NoPid} \/ (registry.state = "whole" /\ saw'[c] = registry.pid)
<1>0. ClientOK /\ FileOK /\ Local(c)
  BY TypeParts DEF Base, NamesInv, StepsInv, Local
<1> DEFINE Goal == /\ Local(c)'
                   /\ saw'[c] \in {saw[c], NoPid} \/ (registry.state = "whole" /\ saw'[c] = registry.pid)
<1>1. CASE Run(c) \/ Deadline(c) \/ ClientCrashes(c)
  BY <1>0, <1>1 DEF Run, Deadline, ClientCrashes, Goes, Local, ClientOK
<1>2. CASE Miss(c)
  BY <1>0, <1>2, MissLocal, MissKeeps
<1>3. CASE ReadFile(c)
  BY <1>0, <1>2, <1>3 DEF ReadFile, Goes, Local, ClientOK, FileOK
<1>4. CASE Health(c)
  <2>1. Proceed(c, "truncate") => Goal
    BY <1>0, <1>4, ProceedKeeps DEF Health, At, Local, Steps
  <2>2. QED
    BY <1>2, <1>4, <2>1 DEF Health
<1>5. CASE Truncate(c)
  BY <1>0, <1>5, ProceedKeeps DEF Truncate, At, Local, Steps
<1>6. CASE Write(c)
  BY <1>0, <1>6, ProceedKeeps DEF Write, At, Local, Steps
<1>7. ASSUME NEW s \in {"first", "lock", "again", "wait"}, Reread(c, s) PROVE Goal
  BY <1>0, <1>7, RereadKeeps DEF Local
<1>8. ASSUME NEW r \in {"answered", "error", "refused"}, Finish(c, r) PROVE Goal
  BY <1>0, <1>8, FinishKeeps DEF Local
<1>9. CASE MakeLock(c)
  <2>1. pc[c] = "mkdir" /\ Proceed(c, "check") => Goal
    BY <1>0, ProceedKeeps DEF Local, Steps
  <2>2. QED
    BY <1>7, <1>9, <2>1 DEF MakeLock, At, Acquired
<1>10. CASE CheckLock(c)
  <2>1. pc[c] = "check" /\ Proceed(c, "break") => Goal
    BY <1>0, ProceedKeeps DEF Local, Steps
  <2>2. QED
    BY <1>7, <1>8, <1>10, <2>1 DEF CheckLock, At
<1>11. CASE BreakLock(c) \/ Spawn(c)
  BY <1>7, <1>11 DEF BreakLock, Spawn
<1>12. CASE DropLock(c)
  <2>1. saw[c] # NoPid /\ Proceed(c, "ask") => Goal
    BY <1>0, ProceedKeeps DEF Local, Steps
  <2>2. QED
    BY <1>8, <1>12, <2>1 DEF DropLock
<1>13. CASE Answer(c) \/ Hung(c)
  BY <1>8, <1>13 DEF Answer, Hung
<1>14. CASE RequestFails(c)
  <2>1. CASE CanRetry(c)
    BY <1>0, <1>14, <2>1 DEF RequestFails, Goes, Local, ClientOK
  <2>2. CASE ~CanRetry(c)
    BY <1>8, <1>14, <2>2 DEF RequestFails
  <2>3. QED
    BY <2>1, <2>2
<1>15. QED
  BY <1>1, <1>3, <1>4, <1>5, <1>6, <1>9, <1>10, <1>11, <1>12, <1>13, <1>14 DEF Continue, Refused,
       Lost

\* Either one client moves, or none does.
LEMMA WhoMoves ==
    ASSUME [Next]_vars
    PROVE  \/ \E c \in Clients : Run(c) \/ Continue(c) \/ Deadline(c) \/ ClientCrashes(c)
           \/ UNCHANGED client
BY DEF Next, Start, Register, Serve, ServerDies, Cleanup, Look, RemoveDead, Terminate, Forget,
     LockAges, Idle, vars

LEMMA NamesStep ==
    ASSUME Base, [Next]_vars
    PROVE  NamesInv' /\ \A c \in Clients : Local(c)'
<1>0. FileOK /\ ClientOK /\ ProcessesOK /\ NamesInv /\ \A c \in Clients : Local(c)
  BY TypeParts DEF Base, NamesInv, StepsInv, Local
<1>1. ASSUME NEW c \in Clients PROVE SawNamed(c)' /\ Local(c)'
  <2>1. CASE UNCHANGED <<pc[c], site[c], saw[c]>>
    BY <1>0, <2>1, ServersStep DEF NamesInv, SawNamed, Named, ClientOK, Local
  <2>2. CASE Run(c) \/ Continue(c) \/ Deadline(c) \/ ClientCrashes(c)
    <3>1. Local(c)' /\ (saw'[c] \in {saw[c], NoPid} \/ (registry.state = "whole" /\ saw'[c] = registry.pid))
      BY <2>2, LocalStep
    <3>2. saw'[c] # NoPid => saw'[c] \in Pids /\ Named(saw'[c])
      BY <1>0, <3>1 DEF NamesInv, SawNamed, FileNamed, ClientOK, FileOK
    <3>3. ClientOK'
      BY ClientsStep
    <3>4. QED
      BY <3>1, <3>2, ServersStep DEF SawNamed, Named
  <2>3. QED
    BY <1>0, <2>1, <2>2, WhoMoves, OneMoves DEF OthersStay, client
<1>2. (cleaner' = "idle" <=> target' = NoPid) /\ (cleaner' # "idle" => server'[target'] \in {"live", "dead"})
  <2>1. CASE UNCHANGED cleaning
    BY <1>0, <2>1, ServersStep DEF cleaning, NamesInv, TargetNamed, Named, ProcessesOK
  <2>2. CASE Look
    <3>1. target' = registry.pid /\ registry.pid \in Pids /\ registry.pid # NoPid /\ Named(registry.pid) /\ server' = server
         /\ cleaner' # "idle"
      BY <1>0, <2>2 DEF Look, FileOK, NamesInv, FileNamed
    <3>2. QED
      BY <3>1 DEF Named
  <2>3. CASE RemoveDead \/ Forget
    BY <2>3 DEF RemoveDead, Forget
  <2>4. CASE Terminate
    BY <1>0, <2>4, ServersStep DEF Terminate, NamesInv, TargetNamed, Named, ProcessesOK
  <2>5. QED
    BY <2>1, <2>2, <2>3, <2>4
    DEF Next, Continue, Start, Run, ReadFile, Health, Truncate, Write, MakeLock, CheckLock, BreakLock, Spawn, DropLock,
      Answer, Refused, Lost, Hung, Register, Serve, ServerDies, Deadline, ClientCrashes, Cleanup, LockAges, Idle, vars
<1>3. cleaner' \in {"remove", "forget"} => server'[target'] = "dead"
  <2>1. CASE UNCHANGED cleaning
    BY <1>0, <2>1, ServersStep DEF cleaning, NamesInv, TargetNamed, Named, ProcessesOK
  <2>2. CASE Look
    BY <1>0, <2>2 DEF Look, PidIsAlive, Alive, FileOK, NamesInv, FileNamed, Named
  <2>3. CASE RemoveDead \/ Forget
    BY <2>3 DEF RemoveDead, Forget
  <2>4. CASE Terminate
    BY <1>0, <2>4 DEF Terminate, NamesInv, TargetNamed, Named, ProcessesOK
  <2>5. QED
    BY <2>1, <2>2, <2>3, <2>4
    DEF Next, Continue, Start, Run, ReadFile, Health, Truncate, Write, MakeLock, CheckLock, BreakLock, Spawn, DropLock,
      Answer, Refused, Lost, Hung, Register, Serve, ServerDies, Deadline, ClientCrashes, Cleanup, LockAges, Idle, vars
<1>4. QED
  BY <1>1, <1>2, <1>3, NamedFileStep DEF NamesInv, TargetNamed, Named

\* A client enters the lock by making it, and leaves by dropping it or by crashing.
LEMMA UnderLockStep ==
    ASSUME Base, NEW c \in Clients, Run(c) \/ Continue(c) \/ Deadline(c) \/ ClientCrashes(c)
    PROVE  /\ UnderLock(c) => UnderLock(c)' \/ DropLock(c) \/ pc'[c] = "crashed"
           /\ UnderLock(c)' => UnderLock(c) \/ (MakeLock(c) /\ Acquired(c))
<1>0. ClientOK /\ Local(c)
  BY TypeParts DEF Base, StepsInv
<1> DEFINE Goal == /\ UnderLock(c) => UnderLock(c)' \/ DropLock(c) \/ pc'[c] = "crashed"
                   /\ UnderLock(c)' => UnderLock(c) \/ (MakeLock(c) /\ Acquired(c))
<1> USE DEF UnderLock
<1>1. CASE Run(c) \/ Deadline(c) \/ ClientCrashes(c)
  BY <1>0, <1>1 DEF Run, Deadline, ClientCrashes, At, Goes, ClientOK, Local
<1>2. CASE Miss(c) /\ pc[c] \in {"read", "health"}
  BY <1>0, <1>2, MissLocal
<1>3. CASE ReadFile(c) /\ ~Miss(c)
  BY <1>0, <1>3 DEF ReadFile, At, Goes, ClientOK
<1>4. CASE Proceed(c, "truncate") /\ pc[c] = "health"
  BY <1>0, <1>4, ProceedKeeps DEF Steps
<1>5. CASE Truncate(c)
  BY <1>0, <1>5, ProceedKeeps DEF Truncate, At, Steps
<1>6. CASE Write(c)
  BY <1>0, <1>6, ProceedKeeps DEF Write, At, Steps
<1>7. CASE MakeLock(c)
  <2>1. pc[c] = "mkdir" /\ ~UnderLock(c)
    BY <1>7 DEF MakeLock, At
  <2>2. Proceed(c, "check") => ~UnderLock(c)'
    BY <1>0, <2>1, ProceedKeeps DEF Steps
  <2>3. QED
    BY <1>7, <2>1, <2>2 DEF MakeLock
<1>8. CASE CheckLock(c)
  BY <1>0, <1>8, ProceedKeeps, RereadKeeps, FinishKeeps DEF CheckLock, At, Steps, Local
<1>9. CASE BreakLock(c)
  BY <1>0, <1>9, RereadKeeps DEF BreakLock, At, Local
<1>10. CASE Spawn(c)
  BY <1>0, <1>10, RereadKeeps DEF Spawn, At, Local
<1>11. CASE DropLock(c)
  BY <1>0, <1>11, ProceedKeeps, FinishKeeps DEF DropLock, At, Steps
<1>12. CASE Answer(c) \/ Hung(c)
  BY <1>0, <1>12, FinishKeeps DEF Answer, Hung, At
<1>13. CASE RequestFails(c) /\ pc[c] = "ask"
  <2>1. CASE CanRetry(c)
    BY <1>0, <1>13, <2>1 DEF RequestFails, Goes, ClientOK
  <2>2. CASE ~CanRetry(c)
    BY <1>0, <1>13, <2>2, FinishKeeps DEF RequestFails
  <2>3. QED
    BY <2>1, <2>2
<1>14. QED
  BY <1>1, <1>2, <1>3, <1>4, <1>5, <1>6, <1>7, <1>8, <1>9, <1>10, <1>11, <1>12, <1>13
  DEF Continue, Refused, Lost, Health, ReadFile, At

\* What happens to the lock: it is made, removed, or becomes old.
LEMMA LockMoves ==
    ASSUME Base, [Next]_vars
    PROVE  \/ UNCHANGED lock
           \/ lock # NoLock /\ ~lock.old /\ LockAges /\ lock' = [lock EXCEPT !.old = TRUE]
           \/ \E c \in Clients : /\ BreakLock(c) \/ DropLock(c)
                                 /\ lock' = NoLock
           \/ \E c \in Clients : /\ lock = NoLock /\ lock' = [owner |-> c, old |-> FALSE]
                                 /\ MakeLock(c) /\ Acquired(c)
<1>1. ASSUME NEW c \in Clients, MakeLock(c) PROVE (lock = NoLock /\ Acquired(c)) \/ UNCHANGED lock
  BY <1>1 DEF MakeLock
<1>2. QED
  BY <1>1
  DEF Next, Continue, Start, Run, ReadFile, Health, Truncate, Write, CheckLock, BreakLock, Spawn, DropLock,
      Answer, Refused, Lost, Hung, Acquired, Register, Serve, ServerDies, Deadline, ClientCrashes, Cleanup, Look,
      RemoveDead, Terminate, Forget, LockAges, Idle, vars

LEMMA LockStep ==
    ASSUME Base, [Next]_vars
    PROVE  /\ lock'.owner = NoClient => ~lock'.old
           /\ lock'.owner # NoClient /\ pc'[lock'.owner] # "crashed" => UnderLock(lock.owner)'
<1>0. ClientOK /\ ProcessesOK /\ StepsInv
  BY TypeParts DEF Base
<1>1. CASE lock' = NoLock
  BY <1>1 DEF NoLock
<1>2. ASSUME NEW c \in Clients, lock' = [owner |-> c, old |-> FALSE], MakeLock(c), Acquired(c)
      PROVE  lock'.owner = c /\ ~lock'.old /\ UnderLock(c)'
  <2>1. ~lock'.old /\ lock'.owner = c
    BY <1>2
  <2>2. pc'[c] = "read" /\ site'[c] = "again"
    BY <1>0, <1>2, RereadKeeps DEF Acquired
  <2>3. QED
    BY <2>1, <2>2 DEF UnderLock
<1>3. CASE /\ lock'.owner = lock.owner /\ (lock'.old = lock.old \/ lock # NoLock)
           /\ ~(\E c \in Clients : DropLock(c) /\ lock' = NoLock)
  <2>1. lock.owner \in Clients \cup {NoClient} /\ (lock.owner = NoClient => lock = NoLock)
    BY <1>0 DEF ProcessesOK, StepsInv, NoLock
  <2>2. CASE lock.owner = NoClient
    BY <1>0, <1>3, <2>1, <2>2 DEF StepsInv
  <2>3. ASSUME NEW o \in Clients, o = lock.owner, pc'[o] # "crashed" PROVE UnderLock(o)'
    <3>1. CASE UNCHANGED <<pc[o], site[o]>>
      BY <1>0, <1>3, <2>3, <3>1, PidsAreNoClients DEF StepsInv, UnderLock
    <3>2. CASE Run(o) \/ Continue(o) \/ Deadline(o) \/ ClientCrashes(o)
      <4>1. pc[o] # "crashed"
        BY <2>3, <3>2, <1>0
        DEF Continue, Run, ReadFile, Health, Truncate, Write, MakeLock, CheckLock, BreakLock, Spawn, DropLock, Answer,
            Refused, Lost, Hung, Deadline, ClientCrashes, At, ClientOK
      <4>2. DropLock(o) => lock' = NoLock
        BY DEF DropLock
      <4>3. UnderLock(o)'
        BY <1>0, <1>3, <2>3, <3>2, <4>1, <4>2, UnderLockStep, PidsAreNoClients DEF StepsInv
      <4>4. QED
        BY <4>3
    <3>3. UNCHANGED client => UNCHANGED <<pc[o], site[o]>>
      BY DEF client
    <3>4. ASSUME NEW c \in Clients, c # o, Run(c) \/ Continue(c) \/ Deadline(c) \/ ClientCrashes(c)
          PROVE  UNCHANGED <<pc[o], site[o]>>
      BY <1>0, <2>3, <3>4, OneMoves DEF OthersStay
    <3>5. QED
      BY <2>3, <3>1, <3>2, <3>3, <3>4, WhoMoves
  <2>4. QED
    BY <1>3, <2>1, <2>2, <2>3 DEF UnderLock
<1>4. CASE LockAges /\ lock # NoLock /\ lock' = [lock EXCEPT !.old = TRUE]
  <2>1. lock'.owner = lock.owner /\ lock'.old
    BY <1>0, <1>4 DEF ProcessesOK
  <2>2. ~(lock' = NoLock)
    BY <2>1 DEF NoLock
  <2>3. QED
    BY <1>3, <1>4, <2>1, <2>2
<1>5. QED
  BY <1>1, <1>2, <1>3, <1>4, LockMoves DEF UnderLock

LEMMA BaseStep ==
    ASSUME Base, [Next]_vars
    PROVE  Base'
BY TypeStep, WritersStep, NamesStep, LockStep DEF Base, StepsInv

LEMMA BaseInit == Init => Base
<1> SUFFICES ASSUME Init PROVE Base
  OBVIOUS
<1> USE PidsAreNoClients, SidecarAssumption DEF Init
<1>1. ClientOK
  BY DEF ClientOK, Steps
<1>2. FileOK
  BY DEF FileOK, Absent
<1>3. ProcessesOK
  <2>1. NoLock \in [owner : Clients \cup {NoClient}, old : BOOLEAN]
    BY DEF NoLock
  <2>2. QED
    BY <2>1 DEF ProcessesOK
<1>4. CountsOK
  BY DEF CountsOK
<1>5. WritersInv
  BY DEF WritersInv
<1>6. NamesInv
  BY DEF NamesInv, FileNamed, SawNamed, TargetNamed, Absent
<1>7. StepsInv
  BY DEF StepsInv, Local, NoLock
<1>8. QED
  BY <1>1, <1>2, <1>3, <1>4, <1>5, <1>6, <1>7, TypeParts DEF Base

\* Types are right; a client goes from step to step as ensure_sidecar does; what the registry names, a client has seen
\* or cleanup has looked at is a server that has run (main.rs 319-437, 546-590, 632-635).
THEOREM BaseHolds == Spec => []Base
<1>1. Base /\ UNCHANGED vars => Base'
  BY BaseStep
<1>2. QED
  BY BaseInit, BaseStep, <1>1, PTL DEF Spec
-----------------------------------------------------------------------------
(***************************************************************************)
(* The ways a step goes: of one client, of one server, of the file.        *)
(***************************************************************************)
Rests(c) == UNCHANGED <<pc[c], site[c], saw[c], late[c]>>
Stays(c) == UNCHANGED <<site[c], late[c]>>
Anew(c) == site'[c] = "first" /\ ~late'[c] /\ saw'[c] = NoPid

FoundNone(c) ==
    \/ ReadFile(c) /\ pc[c] = "read" /\ registry.state # "whole"
    \/ Health(c) /\ pc[c] = "health" /\ server[saw[c]] # "live"

GoesOn(c) ==
    \/ site[c] = "first" /\ pc'[c] = "idle" /\ Anew(c)
    \/ site[c] = "first" /\ pc'[c] = "read" /\ site'[c] = "lock" /\ ~late'[c]
    \/ site[c] = "lock" /\ pc'[c] = "mkdir" /\ Stays(c)
    \/ site[c] = "again" /\ pc'[c] = "spawn" /\ Stays(c)
    \/ site[c] = "wait" /\ ~late[c] /\ pc'[c] = "read" /\ Stays(c)
    \/ site[c] = "wait" /\ late[c] /\ pc'[c] = "drop" /\ Stays(c)

Flow(c) ==
    \/ pc[c] = "idle" /\ pc'[c] = "read" /\ Stays(c) /\ UNCHANGED saw[c]
    \/ /\ ReadFile(c) /\ pc[c] = "read" /\ registry.state = "whole"
       /\ pc'[c] = "health" /\ saw'[c] = registry.pid /\ Stays(c)
    \/ FoundNone(c) /\ GoesOn(c) /\ saw'[c] = NoPid
    \/ pc[c] = "health" /\ server[saw[c]] = "live" /\ pc'[c] = "truncate" /\ Stays(c) /\ UNCHANGED saw[c]
    \/ Truncate(c) /\ pc[c] = "truncate" /\ pc'[c] = "write" /\ Stays(c) /\ UNCHANGED saw[c]
    \/ Write(c) /\ pc[c] = "write" /\ pc'[c] \in {"drop", "ask"} /\ Stays(c) /\ UNCHANGED saw[c]
    \/ /\ pc[c] = "mkdir" /\ lock = NoLock /\ MakeLock(c) /\ Acquired(c)
       /\ pc'[c] = "read" /\ site'[c] = "again" /\ ~late'[c] /\ saw'[c] = NoPid
    \/ pc[c] = "mkdir" /\ lock # NoLock /\ UNCHANGED lock /\ pc'[c] = "check" /\ Stays(c) /\ UNCHANGED saw[c]
    \/ pc[c] = "check" /\ IsStale /\ pc'[c] = "break" /\ Stays(c) /\ UNCHANGED saw[c]
    \/ pc[c] = "check" /\ pc'[c] = "idle" /\ Anew(c)
    \/ pc[c] \in {"check", "break"} /\ pc'[c] = "read" /\ site[c] = "lock" /\ Stays(c) /\ saw'[c] = NoPid
    \/ Spawn(c) /\ pc[c] = "spawn" /\ pc'[c] = "read" /\ site'[c] = "wait" /\ ~late'[c] /\ saw'[c] = NoPid
    \/ DropLock(c) /\ pc[c] = "drop" /\ pc'[c] = "ask" /\ Stays(c) /\ UNCHANGED saw[c]
    \/ DropLock(c) /\ pc[c] = "drop" /\ pc'[c] = "idle" /\ Anew(c)
    \/ pc[c] = "ask" /\ pc'[c] \in {"idle", "read"} /\ Anew(c)
    \/ Deadline(c) /\ UNCHANGED <<pc[c], site[c], saw[c]>> /\ site[c] \in {"lock", "wait"} /\ late'[c]
    \/ ClientCrashes(c) /\ pc'[c] = "crashed"

LEMMA MissFlow ==
    ASSUME ClientOK, NEW c \in Clients, Miss(c)
    PROVE  GoesOn(c) /\ saw'[c] = NoPid
<1> USE DEF GoesOn, Stays, Anew
<1>1. CASE site[c] = "first" /\ Finish(c, "refused")
  BY <1>1, FinishKeeps
<1>2. CASE site[c] = "first" /\ Reread(c, "lock")
  BY <1>2, RereadKeeps
<1>3. CASE site[c] = "lock" /\ Leave(c, "mkdir")
  BY <1>3, LeaveKeeps DEF Steps
<1>4. CASE site[c] = "again" /\ Leave(c, "spawn")
  BY <1>4, LeaveKeeps DEF Steps
<1>5. CASE site[c] = "wait" /\ ~late[c] /\ Reread(c, "wait")
  BY <1>5, RereadKeeps
<1>6. CASE site[c] = "wait" /\ late[c] /\ Leave(c, "drop")
  BY <1>6, LeaveKeeps DEF Steps
<1>7. QED
  BY <1>1, <1>2, <1>3, <1>4, <1>5, <1>6 DEF Miss

LEMMA ClientFlow ==
    ASSUME Base, NEW c \in Clients, Run(c) \/ Continue(c) \/ Deadline(c) \/ ClientCrashes(c)
    PROVE  Flow(c)
<1>0. ClientOK /\ Local(c)
  BY TypeParts DEF Base, StepsInv
<1> USE DEF Stays, Anew
<1>1. CASE Run(c)
  BY <1>0, <1>1 DEF Run, At, Goes, Flow, ClientOK
<1>2. CASE Deadline(c)
  BY <1>0, <1>2 DEF Deadline, Flow, ClientOK
<1>3. CASE ClientCrashes(c)
  BY <1>0, <1>3 DEF ClientCrashes, Goes, Flow, ClientOK
<1>4. CASE ReadFile(c)
  <2>1. CASE registry.state = "whole"
    BY <1>0, <1>4, <2>1 DEF ReadFile, At, Goes, Flow, ClientOK
  <2>2. CASE registry.state # "whole"
    BY <1>0, <1>4, <2>2, MissFlow DEF ReadFile, At, FoundNone, Flow
  <2>3. QED
    BY <2>1, <2>2
<1>5. CASE Health(c)
  <2>1. CASE server[saw[c]] = "live"
    BY <1>0, <1>5, <2>1, ProceedKeeps DEF Health, At, Flow, Steps
  <2>2. CASE server[saw[c]] # "live"
    BY <1>0, <1>5, <2>2, MissFlow DEF Health, At, FoundNone, Flow
  <2>3. QED
    BY <2>1, <2>2
<1>6. CASE Truncate(c)
  BY <1>0, <1>6, ProceedKeeps DEF Truncate, At, Flow, Steps
<1>7. CASE Write(c)
  BY <1>0, <1>7, ProceedKeeps DEF Write, At, Flow, Steps
<1>8. CASE MakeLock(c)
  <2>1. CASE lock = NoLock
    BY <1>0, <1>8, <2>1, RereadKeeps DEF MakeLock, Acquired, At, Flow, Local
  <2>2. CASE lock # NoLock
    BY <1>0, <1>8, <2>2, ProceedKeeps DEF MakeLock, At, Flow, Steps
  <2>3. QED
    BY <2>1, <2>2
<1>9. CASE CheckLock(c)
  BY <1>0, <1>9, ProceedKeeps, RereadKeeps, FinishKeeps DEF CheckLock, At, Flow, Steps, Local
<1>10. CASE BreakLock(c)
  BY <1>0, <1>10, RereadKeeps DEF BreakLock, At, Flow, Local
<1>11. CASE Spawn(c)
  BY <1>0, <1>11, RereadKeeps DEF Spawn, At, Flow, Local
<1>12. CASE DropLock(c)
  BY <1>0, <1>12, ProceedKeeps, FinishKeeps DEF DropLock, At, Flow, Steps
<1>13. CASE Answer(c) \/ Hung(c)
  BY <1>0, <1>13, FinishKeeps DEF Answer, Hung, At, Flow
<1>14. CASE RequestFails(c) /\ pc[c] = "ask"
  <2>1. CASE CanRetry(c)
    BY <1>0, <1>14, <2>1 DEF RequestFails, Goes, Flow, ClientOK
  <2>2. CASE ~CanRetry(c)
    BY <1>0, <1>14, <2>2, FinishKeeps DEF RequestFails, Flow
  <2>3. QED
    BY <2>1, <2>2
<1>15. QED
  BY <1>1, <1>2, <1>3, <1>4, <1>5, <1>6, <1>7, <1>8, <1>9, <1>10, <1>11, <1>12, <1>13, <1>14
  DEF Continue, Refused, Lost, At

LEMMA EachClient ==
    ASSUME Base, [Next]_vars, NEW c \in Clients
    PROVE  Flow(c) \/ Rests(c)
<1>0. ClientOK
  BY TypeParts DEF Base
<1>1. CASE UNCHANGED client
  BY <1>1 DEF client, Rests
<1>2. ASSUME NEW d \in Clients, d # c, Run(d) \/ Continue(d) \/ Deadline(d) \/ ClientCrashes(d)
      PROVE  Rests(c)
  BY <1>0, <1>2, OneMoves DEF OthersStay, Rests
<1>3. QED
  BY <1>1, <1>2, ClientFlow, WhoMoves

\* Who moves alone leaves the others where they are.
LEMMA OthersRest ==
    ASSUME Base, NEW c \in Clients, Continue(c), NEW d \in Clients, d # c
    PROVE  Rests(d)
BY OneMoves, TypeParts DEF Base, OthersStay, Rests

LEMMA EachServer ==
    ASSUME Base, [Next]_vars, NEW p \in Pids
    PROVE  \/ server'[p] = server[p]
           \/ server[p] = "unused" /\ server'[p] = "starting" /\ \E c \in Clients : Spawn(c)
           \/ server[p] = "starting" /\ server'[p] = "truncated" /\ Register(p)
           \/ server[p] = "truncated" /\ server'[p] = "live" /\ Serve(p)
           \/ server'[p] = "dead" /\ (ServerDies(p) \/ (Terminate /\ p = target))
<1>0. ProcessesOK
  BY TypeParts DEF Base
<1> DEFINE Goal == \/ server'[p] = server[p]
                   \/ server[p] = "unused" /\ server'[p] = "starting" /\ \E c \in Clients : Spawn(c)
                   \/ server[p] = "starting" /\ server'[p] = "truncated" /\ Register(p)
                   \/ server[p] = "truncated" /\ server'[p] = "live" /\ Serve(p)
                   \/ server'[p] = "dead" /\ (ServerDies(p) \/ (Terminate /\ p = target))
<1>1. CASE UNCHANGED server
  BY <1>1
<1>2. ASSUME NEW c \in Clients, Spawn(c) PROVE Goal
  <2>1. \E q \in Pids : server[q] = "unused" /\ server' = [server EXCEPT ![q] = "starting"]
    BY <1>2 DEF Spawn
  <2>2. QED
    BY <1>0, <1>2, <2>1 DEF ProcessesOK
<1>3. ASSUME NEW q \in Pids, Register(q) PROVE Goal
  <2>1. server[q] = "starting" /\ server' = [server EXCEPT ![q] = "truncated"]
    BY <1>3 DEF Register
  <2>2. QED
    BY <1>0, <1>3, <2>1 DEF ProcessesOK
<1>4. ASSUME NEW q \in Pids, Serve(q) PROVE Goal
  <2>1. server[q] = "truncated" /\ server' = [server EXCEPT ![q] = "live"]
    BY <1>4 DEF Serve
  <2>2. QED
    BY <1>0, <1>4, <2>1 DEF ProcessesOK
<1>5. ASSUME NEW q \in Pids, ServerDies(q) PROVE Goal
  <2>1. server' = [server EXCEPT ![q] = "dead"]
    BY <1>5 DEF ServerDies
  <2>2. QED
    BY <1>0, <1>5, <2>1 DEF ProcessesOK
<1>6. CASE Terminate
  <2>1. server' = [server EXCEPT ![target] = "dead"]
    BY <1>6 DEF Terminate
  <2>2. QED
    BY <1>0, <1>6, <2>1 DEF ProcessesOK
<1>7. QED
  BY <1>1, <1>2, <1>3, <1>4, <1>5, <1>6
  DEF Next, Continue, Start, Run, ReadFile, Health, Truncate, Write, MakeLock, CheckLock, BreakLock, DropLock, Answer,
      Refused, Lost, Hung, Deadline, ClientCrashes, Cleanup, Look, RemoveDead, Forget, LockAges, Idle, vars

Removes ==
    \/ \E c \in Clients : Spawn(c) \/ (CanRetry(c) /\ (Refused(c) \/ Lost(c)))
    \/ RemoveDead \/ Forget

LEMMA FileMoves ==
    ASSUME Base, [Next]_vars
    PROVE  \/ registry'.state = registry.state /\ registry'.pid = registry.pid /\ UNCHANGED linked
           \/ Removes /\ RemoveFile
           \/ \E c \in Clients : Truncate(c) \/ Write(c)
           \/ \E p \in Pids : Register(p) \/ Serve(p)
           \/ UNCHANGED registry /\ \E c \in Clients : ClientCrashes(c)
           \/ UNCHANGED registry /\ \E p \in Pids : ServerDies(p) /\ linked' = linked \ {p}
<1>0. FileOK
  BY TypeParts DEF Base
<1>1. CASE Idle
  BY <1>0, <1>1 DEF Idle, FileOK
<1>2. ASSUME NEW c \in Clients, Refused(c) \/ Lost(c) PROVE (Removes /\ RemoveFile) \/ UNCHANGED file
  <2>1. (CanRetry(c) /\ RemoveFile) \/ UNCHANGED file
    BY <1>2 DEF Refused, Lost, RequestFails
  <2>2. QED
    BY <1>2, <2>1 DEF Removes
<1>3. ASSUME NEW c \in Clients, Spawn(c) PROVE Removes /\ RemoveFile
  BY <1>3 DEF Removes, Spawn
<1>4. CASE RemoveDead \/ Forget
  BY <1>4 DEF Removes, RemoveDead, Forget
<1>5. ASSUME NEW c \in Clients, ClientCrashes(c) PROVE UNCHANGED registry
  BY <1>5 DEF ClientCrashes
<1>6. ASSUME NEW p \in Pids, ServerDies(p) PROVE UNCHANGED registry /\ linked' = linked \ {p}
  BY <1>6 DEF ServerDies
<1>7. ASSUME NEW c \in Clients, Run(c) \/ ReadFile(c) \/ Health(c) \/ MakeLock(c) \/ CheckLock(c) \/ BreakLock(c) \/ DropLock(c)
                                \/ Answer(c) \/ Hung(c) \/ Deadline(c)
      PROVE  UNCHANGED file
  BY <1>7 DEF Run, ReadFile, Health, MakeLock, CheckLock, BreakLock, DropLock, Answer, Hung,
       Deadline
<1>8. CASE Look \/ Terminate \/ LockAges \/ UNCHANGED vars
  BY <1>8 DEF Look, Terminate, LockAges, vars, file
<1>9. UNCHANGED file => registry'.state = registry.state /\ registry'.pid = registry.pid /\ UNCHANGED linked
  BY DEF file
<1>10. QED
  BY <1>1, <1>2, <1>3, <1>4, <1>5, <1>6, <1>7, <1>8, <1>9 DEF Next, Continue, Start, Cleanup

\* What has not gone wrong yet did not go wrong before, and not in this step.
LEMMA ExcusesGrow == ASSUME [Next]_vars PROVE excuse \subseteq excuse'
BY DEF Next, Continue, Start, Run, ReadFile, Health, Truncate, Write, MakeLock, CheckLock,
     BreakLock, Spawn, DropLock, Answer,
       Refused, Lost, Hung, Register, Serve, ServerDies, Deadline, ClientCrashes, Cleanup, Look, RemoveDead, Terminate,
       Forget, LockAges, Idle, Fault, vars, bounds

Calm == excuse' \cap {"crashed", "slow", "lost", "hung", "torn"} = {}

LEMMA CalmSteps ==
    ASSUME Calm, NEW c \in Clients
    PROVE  /\ ~ClientCrashes(c) /\ ~Lost(c) /\ ~Hung(c)
           /\ Deadline(c) => ~UnderWay(c)
           /\ ReadFile(c) => registry.state # "torn"
<1>1. ~ClientCrashes(c) /\ ~Lost(c) /\ ~Hung(c)
  BY DEF Calm, ClientCrashes, Lost, Hung, Fault
<1>2. Deadline(c) => ~UnderWay(c)
  BY DEF Calm, Deadline, Fault
<1>3. ReadFile(c) => registry.state # "torn"
  BY DEF Calm, ReadFile
<1>4. QED
  BY <1>1, <1>2, <1>3

Steady == excuse' \cap {"crashed", "slow"} = {}

LEMMA SteadySteps ==
    ASSUME Steady, NEW c \in Clients
    PROVE  /\ ~ClientCrashes(c)
           /\ Deadline(c) => ~UnderWay(c)
<1>1. ~ClientCrashes(c)
  BY DEF Steady, ClientCrashes, Fault
<1>2. Deadline(c) => ~UnderWay(c)
  BY DEF Steady, Deadline, Fault
<1>3. QED
  BY <1>1, <1>2

\* As long as nobody crashes, whoever owns the lock works under it ...
LEMMA OwnerHolds ==
    ASSUME Base, NobodyCrashed, lock # NoLock
    PROVE  Holding /\ UnderLock(lock.owner)
<1>0. ProcessesOK /\ StepsInv
  BY TypeParts DEF Base
<1>1. lock.owner \in Clients
  BY <1>0 DEF ProcessesOK, StepsInv, NoLock
<1>2. QED
  BY <1>0, <1>1, PidsAreNoClients DEF Holding, StepsInv, UnderLock, NobodyCrashed

\* ... so the lock does not age.
LEMMA NobodyCrashedStep ==
    ASSUME Base, [Next]_vars, NobodyCrashed, Steady
    PROVE  NobodyCrashed'
<1>1. ASSUME NEW c \in Clients PROVE pc'[c] # "crashed"
  BY <1>1, EachClient, SteadySteps DEF NobodyCrashed, Flow, FoundNone, GoesOn, Rests
<1>2. ~LockAges
  BY OwnerHolds DEF LockAges, Steady, Fault
<1>3. ~lock'.old
  BY <1>2, LockMoves DEF NobodyCrashed, NoLock
<1>4. QED
  BY <1>1, <1>3 DEF NobodyCrashed
-----------------------------------------------------------------------------
(***************************************************************************)
(* Steps that both arguments share.                                        *)
(***************************************************************************)
LEMMA SpawnFlow ==
    ASSUME Base, NEW c \in Clients, Spawn(c)
    PROVE  /\ pc[c] = "spawn" /\ UnderLock(c) /\ Waits(c)'
           /\ \E r \in Pids : /\ server[r] = "unused" /\ server'[r] = "starting"
                              /\ \A p \in Pids \ {r} : server'[p] = server[p]
<1>0. ClientOK /\ ProcessesOK /\ Local(c)
  BY TypeParts DEF Base, StepsInv
<1>1. pc[c] = "spawn" /\ UnderLock(c)
  BY <1>0 DEF Spawn, At, Local, UnderLock
<1>2. pc'[c] = "read" /\ site'[c] = "wait" /\ late'[c] = FALSE
  BY <1>0, <1>1, RereadKeeps DEF Spawn, Local
<1>3. Waits(c)'
  BY <1>2 DEF Waits
<1>4. \E r \in Pids : server[r] = "unused" /\ server' = [server EXCEPT ![r] = "starting"]
  BY DEF Spawn
<1>5. QED
  BY <1>0, <1>1, <1>3, <1>4 DEF ProcessesOK

\* A client waits on until it has seen a live server.
LEMMA WaitStep ==
    ASSUME Base, [Next]_vars, Calm, NEW c \in Clients, Waits(c), UnderWay(c)
    PROVE  Waits(c)' \/ (pc[c] = "health" /\ server[saw[c]] = "live")
BY EachClient, CalmSteps DEF Waits, Flow, FoundNone, GoesOn, Anew, Stays, Rests

LEMMA StartIsAwaitedStep ==
    ASSUME Base, [Next]_vars, Calm, StartIsAwaited,
           \A p, q \in Pids : Starting(p) => server[q] # "live"
    PROVE  StartIsAwaited'
<1> SUFFICES ASSUME NEW p \in Pids, Starting(p)' PROVE \E c \in Clients : Waits(c)'
  BY DEF StartIsAwaited
<1>1. CASE Starting(p)
  <2>1. PICK c \in Clients : Waits(c)
    BY <1>1 DEF StartIsAwaited
  <2>2. UnderWay(c)
    BY <1>1, <2>1 DEF UnderWay, Waits, Starting
  <2>3. pc[c] = "health" => saw[c] \in Pids
    BY TypeParts DEF Base, ClientOK, StepsInv, Local
  <2>4. QED
    BY <1>1, <2>1, <2>2, <2>3, WaitStep
<1>2. CASE ~Starting(p)
  <2>1. \E c \in Clients : Spawn(c)
    BY <1>2, EachServer DEF Starting
  <2>2. QED
    BY <2>1, SpawnFlow
<1>3. QED
  BY <1>1, <1>2

\* Who is about to write keeps what it has seen.
LEMMA WritersKeep ==
    ASSUME Base, [Next]_vars, NEW c \in Clients, c \in linked'
    PROVE  saw'[c] = saw[c]
<1>1. pc'[c] = "write"
  BY WritersStep DEF WritersInv
<1>2. QED
  BY <1>1, EachClient DEF Flow, GoesOn, Rests

LEMMA RegistersItselfStep ==
    ASSUME Base, [Next]_vars, Calm, RegistersItself,
           Removes => \A p \in Pids : server[p] # "truncated"
    PROVE  RegistersItself'
<1> SUFFICES ASSUME NEW p \in Pids, server'[p] = "truncated" PROVE p \in linked'
  BY DEF RegistersItself
<1>1. CASE Register(p)
  BY <1>1 DEF Register
<1>2. CASE server[p] = "truncated"
  <2>0. p \in linked
    BY <1>2 DEF RegistersItself
  <2>1. ASSUME NEW c \in Clients, Truncate(c) \/ Write(c) PROVE p \in linked'
    BY <2>0, <2>1, PidsAreNoClients DEF Truncate, Write
  <2>2. ASSUME NEW q \in Pids, Register(q) \/ Serve(q) \/ ServerDies(q) PROVE p \in linked'
    <3>1. server'[q] \in {"truncated", "live", "dead"} /\ (server'[q] = "truncated" => Register(q))
      BY <2>2, TypeParts DEF Base, ProcessesOK, Register, Serve, ServerDies
    <3>2. CASE Register(q)
      BY <2>0, <3>2 DEF Register
    <3>3. CASE p # q
      BY <2>0, <2>2, <3>3 DEF Register, Serve, ServerDies
    <3>4. QED
      BY <3>1, <3>2, <3>3
  <2>3. QED
    BY <1>2, <2>0, <2>1, <2>2, FileMoves, CalmSteps
<1>3. QED
  BY <1>1, <1>2, EachServer

LEMMA LiveIsRegisteredStep ==
    ASSUME Base, [Next]_vars, Calm, LiveIsRegistered, RegistersItself,
           Removes => \A p \in Pids : server[p] # "live",
           \A c \in Clients, p \in Pids : (Truncate(c) \/ Write(c)) /\ server[p] = "live" => saw[c] = p,
           \A p, q \in Pids : Register(q) \/ Serve(q) => server[p] # "live"
    PROVE  LiveIsRegistered'
<1> SUFFICES ASSUME NEW p \in Pids, server'[p] = "live" PROVE registry'.pid = p \/ WrittenDown(p)'
  BY DEF LiveIsRegistered
<1>1. CASE Serve(p)
  <2>1. registry' = Names(p)
    BY <1>1 DEF Serve, RegistersItself
  <2>2. QED
    BY <2>1 DEF Names
<1>2. CASE server[p] = "live"
  <2>0. registry.pid = p \/ WrittenDown(p)
    BY <1>2 DEF LiveIsRegistered
  <2>1. ASSUME NEW c \in Clients, Truncate(c) PROVE WrittenDown(p)'
    <3>1. registry'.state = "torn" /\ c \in linked'
      BY <2>1 DEF Truncate, Torn
    <3>2. saw'[c] = p
      BY <1>2, <2>1, <3>1, WritersKeep
    <3>3. QED
      BY <3>1, <3>2 DEF WrittenDown
  <2>2. ASSUME NEW c \in Clients, Write(c) PROVE registry'.pid = p \/ WrittenDown(p)'
    <3>1. CASE c \in linked
      <4>1. registry' = Names(saw[c]) /\ saw[c] = p
        BY <1>2, <2>2, <3>1 DEF Write
      <4>2. QED
        BY <4>1 DEF Names
    <3>2. CASE c \notin linked
      <4>1. UNCHANGED registry /\ linked' = linked
        BY <2>2, <3>2 DEF Write
      <4>2. QED
        BY <2>0, <4>1, WritersKeep DEF WrittenDown
    <3>3. QED
      BY <3>1, <3>2
  <2>3. CASE registry'.state = registry.state /\ registry'.pid = registry.pid /\ linked \cap Clients = linked' \cap Clients
    BY <2>0, <2>3, WritersKeep DEF WrittenDown
  <2>4. ASSUME NEW q \in Pids, UNCHANGED registry, linked' = linked \ {q} PROVE registry'.pid = p \/ WrittenDown(p)'
    BY <2>3, <2>4, PidsAreNoClients
  <2>5. QED
    BY <1>2, <2>1, <2>2, <2>3, <2>4, FileMoves, CalmSteps
<1>3. QED
  BY <1>1, <1>2, EachServer

\* The lock keeps its owner unless somebody takes it away.
LEMMA OneOwnerStep ==
    ASSUME Base, [Next]_vars, OneOwner, Calm,
           \A c, d \in Clients : (BreakLock(c) \/ DropLock(c)) /\ d # c => ~UnderLock(d)
    PROVE  OneOwner'
<1> SUFFICES ASSUME NEW c \in Clients, UnderLock(c)' PROVE lock'.owner = c
  BY DEF OneOwner
<1>0. ClientOK /\ ProcessesOK /\ StepsInv
  BY TypeParts DEF Base
<1>1. CASE MakeLock(c) /\ Acquired(c)
  BY <1>1 DEF Acquired
<1>2. CASE UnderLock(c)
  <2>1. lock.owner = c /\ c # NoClient
    BY <1>2, PidsAreNoClients DEF OneOwner
  <2>2. ASSUME NEW d \in Clients, BreakLock(d) \/ DropLock(d) PROVE FALSE
    <3>1. d = c
      BY <1>2, <2>2
    <3>2. ~BreakLock(c)
      BY <1>2 DEF BreakLock, At, UnderLock
    <3>3. DropLock(c) => ~UnderLock(c)'
      BY <1>0, ProceedKeeps, FinishKeeps DEF DropLock, Steps, UnderLock
    <3>4. QED
      BY <2>2, <3>1, <3>2, <3>3
  <2>3. lock # NoLock
    BY <2>1 DEF NoLock
  <2>4. QED
    BY <1>0, <2>1, <2>2, <2>3, LockMoves DEF ProcessesOK
<1>3. UnderLock(c) \/ (MakeLock(c) /\ Acquired(c))
  <2>1. CASE Rests(c)
    BY <2>1 DEF Rests, UnderLock
  <2>2. CASE Run(c) \/ Continue(c) \/ Deadline(c) \/ ClientCrashes(c)
    BY <2>2, UnderLockStep
  <2>3. UNCHANGED client => Rests(c)
    BY DEF client, Rests
  <2>4. QED
    BY <1>0, <2>1, <2>2, <2>3, WhoMoves, OneMoves DEF OthersStay, Rests
<1>4. QED
  BY <1>1, <1>2, <1>3
-----------------------------------------------------------------------------
(***************************************************************************)
(* No server is left behind: each part of LeakInv is kept.                 *)
(***************************************************************************)
LEMMA LeakExcluded ==
    ASSUME Base, LeakInv, [Next]_vars, excuse' \subseteq {"died"}
    PROVE  /\ Calm
           /\ Removes => \A p \in Pids : server[p] \notin {"truncated", "live"}
           /\ \A c \in Clients, p \in Pids : (Truncate(c) \/ Write(c)) /\ server[p] = "live" => saw[c] = p
           /\ \A p, q \in Pids : Register(q) \/ Serve(q) => server[p] # "live"
           /\ \A c, d \in Clients : (BreakLock(c) \/ DropLock(c)) /\ d # c => ~UnderLock(d)
<1>1. Calm
  BY DEF Calm
<1>2. ASSUME NEW p \in Pids, server[p] \in {"truncated", "live"}, linked = {}
      PROVE  Healthy /\ registry.pid = p /\ server[p] = "live"
  BY <1>2, TypeParts, PidsAreNoClients DEF Base, FileOK, LeakInv, RegistersItself,
       LiveIsRegistered, WrittenDown, Healthy
<1>3. ASSUME NEW x, Unnamed(x) = {} PROVE linked = {} /\ (Healthy => registry.pid = x)
  BY <1>3 DEF Unnamed
<1>4. ASSUME NEW p \in Pids, server[p] \in {"truncated", "live"}, Removes PROVE FALSE
  <2>1. ASSUME NEW c \in Clients, Spawn(c) PROVE FALSE
    BY <1>4, <2>1, SpawnFlow DEF LeakInv, SecondLook, Alive
  <2>2. ASSUME NEW c \in Clients, CanRetry(c), Refused(c) PROVE FALSE
    <3>1. Unnamed(saw[c]) = {}
      BY <2>2 DEF Refused, Unnaming, Unnamed
    <3>2. QED
      BY <1>2, <1>3, <1>4, <2>2, <3>1 DEF Refused
  <2>3. CASE RemoveDead \/ Forget
    <3>1. Unnamed(target) = {}
      BY <2>3 DEF RemoveDead, Forget, Unnamed
    <3>2. server[target] = "dead"
      BY <2>3 DEF RemoveDead, Forget, Base, NamesInv, TargetNamed
    <3>3. QED
      BY <1>2, <1>3, <1>4, <3>1, <3>2
  <2>4. QED
    BY <1>1, <1>4, <2>1, <2>2, <2>3, CalmSteps DEF Removes
<1>5. ASSUME NEW c \in Clients, NEW p \in Pids, Truncate(c) \/ Write(c), server[p] = "live" PROVE saw[c] = p
  <2>1. Renamed(saw[c]) = {}
    BY <1>5 DEF Truncate, Write, Renamed
  <2>2. CASE registry.pid = p
    BY <1>5, <2>1, <2>2, TypeParts, PidsAreNoClients DEF Base, FileOK, Healthy, Renamed
  <2>3. CASE WrittenDown(p)
    BY <1>5, <2>1, <2>3 DEF WrittenDown, Renamed
  <2>4. QED
    BY <1>5, <2>2, <2>3 DEF LeakInv, LiveIsRegistered
<1>6. ASSUME NEW p \in Pids, NEW q \in Pids, Register(q) \/ Serve(q), server[p] = "live" PROVE FALSE
  BY <1>6 DEF LeakInv, OneAlive, Alive, Register, Serve
<1>7. ASSUME NEW c \in Clients, NEW d \in Clients, BreakLock(c) \/ DropLock(c), d # c, UnderLock(d) PROVE FALSE
  <2>1. Unlocked(c) = {}
    BY <1>7 DEF BreakLock, DropLock, Unlocked
  <2>2. lock.owner = d /\ lock # NoLock
    BY <1>7, PidsAreNoClients DEF LeakInv, OneOwner, NoLock
  <2>3. QED
    BY <1>7, <2>1, <2>2 DEF Unlocked, Holding, UnderLock
<1>8. QED
  BY <1>1, <1>4, <1>5, <1>6, <1>7

LEMMA OneAliveStep ==
    ASSUME Base, LeakInv, [Next]_vars, excuse' \subseteq {"died"}
    PROVE  OneAlive'
<1> SUFFICES ASSUME NEW p \in Pids, NEW q \in Pids, Alive(p)', Alive(q)' PROVE p = q
  BY DEF OneAlive
<1>1. CASE Alive(p) /\ Alive(q)
  BY <1>1 DEF LeakInv, OneAlive
<1>2. ASSUME NEW c \in Clients, Spawn(c) PROVE p = q
  <2>1. ~Alive(p) /\ ~Alive(q)
    BY <1>2, SpawnFlow DEF LeakInv, SecondLook
  <2>2. QED
    BY <1>2, <2>1, SpawnFlow DEF Alive
<1>3. QED
  BY <1>1, <1>2, EachServer DEF Alive

LEMMA SecondLookStep ==
    ASSUME Base, LeakInv, [Next]_vars, excuse' \subseteq {"died"}
    PROVE  SecondLook'
<1> SUFFICES ASSUME NEW c \in Clients, NEW p \in Pids, Alive(p)'
             PROVE  pc'[c] # "spawn" /\ (pc'[c] = "health" /\ site'[c] = "again" => p = saw'[c])
  BY DEF SecondLook
<1>0. LeakInv /\ FileOK /\ Calm /\ (saw[c] # NoPid => Named(saw[c])) /\ Local(c)
  BY TypeParts, LeakExcluded DEF Base, NamesInv, SawNamed, StepsInv
<1> USE DEF LeakInv
<1>1. CASE Alive(p)
  <2>1. CASE Rests(c)
    BY <1>0, <1>1, <2>1 DEF Rests, SecondLook
  <2>2. CASE Flow(c) /\ site[c] = "again" /\ pc[c] \in {"read", "health"}
    <3>1. ~Starting(p)
      BY <1>0, <2>2 DEF StartIsAwaited, OneOwner, UnderLock, Waits
    <3>2. registry.pid = p \/ registry.state = "torn"
      BY <1>0, <1>1, <3>1 DEF Alive, Starting, LiveIsRegistered, WrittenDown
    <3>3. ReadFile(c) => registry.state = "whole" /\ registry.pid = p
      BY <1>0, <3>2, CalmSteps, PidsAreNoClients DEF FileOK
    <3>4. pc[c] = "health" => p = saw[c] /\ server[saw[c]] = "live"
      BY <1>0, <1>1, <2>2 DEF SecondLook, Local, Named, Alive
    <3>5. QED
      BY <1>0, <2>2, <3>3, <3>4, CalmSteps DEF Flow, FoundNone, GoesOn
  <2>3. CASE Flow(c) /\ ~(site[c] = "again" /\ pc[c] \in {"read", "health"})
    BY <1>0, <1>1, <2>3, CalmSteps DEF Flow, FoundNone, GoesOn, Stays, Anew, SecondLook, Local
  <2>4. QED
    BY <2>1, <2>2, <2>3, EachClient
<1>2. ASSUME NEW d \in Clients, Spawn(d) PROVE pc'[c] # "spawn" /\ ~(pc'[c] = "health" /\ site'[c] = "again")
  <2>1. CASE c = d
    BY <1>2, <2>1, SpawnFlow DEF Waits
  <2>2. CASE c # d
    <3>1. Rests(c)
      BY <1>2, <2>2, OthersRest DEF Continue
    <3>2. ~UnderLock(c)
      BY <1>0, <1>2, <2>2, SpawnFlow DEF OneOwner
    <3>3. QED
      BY <1>0, <3>1, <3>2 DEF Rests, UnderLock, Local
  <2>3. QED
    BY <2>1, <2>2
<1>3. QED
  BY <1>1, <1>2, EachServer DEF Alive

LEMMA LeakStep ==
    ASSUME Base, NoLeakInv, [Next]_vars
    PROVE  NoLeakInv'
<1> SUFFICES ASSUME excuse' \subseteq {"died"} PROVE LeakInv'
  BY DEF NoLeakInv
<1>1. LeakInv
  BY ExcusesGrow DEF NoLeakInv
<1>2. Calm /\ \A p, q \in Pids : Starting(p) => server[q] # "live"
  BY <1>1, LeakExcluded DEF LeakInv, OneAlive, Starting, Alive
<1>3. NobodyCrashed' /\ StartIsAwaited'
  BY <1>1, <1>2, NobodyCrashedStep, StartIsAwaitedStep DEF LeakInv, Calm, Steady
<1>4. OneOwner'
  BY <1>1, LeakExcluded, OneOwnerStep DEF LeakInv
<1>5. LiveIsRegistered' /\ RegistersItself'
  <2>1. Removes => (\A p \in Pids : server[p] # "live") /\ (\A p \in Pids : server[p] # "truncated")
    BY <1>1, LeakExcluded
  <2>2. RegistersItself'
    BY <1>1, <1>2, <2>1, RegistersItselfStep DEF LeakInv
  <2>3. QED
    BY <1>1, <2>1, <2>2, LeakExcluded, LiveIsRegisteredStep DEF LeakInv
<1>6. QED
  BY <1>1, <1>3, <1>4, <1>5, OneAliveStep, SecondLookStep DEF LeakInv

LEMMA LeakInit == Init => NoLeakInv
BY DEF Init, NoLeakInv, LeakInv, NobodyCrashed, OneOwner, UnderLock, OneAlive, Alive,
     StartIsAwaited, Starting,
       LiveIsRegistered, RegistersItself, SecondLook, NoLock

\* The death of a server, of itself or by cleanup, leaves none behind that cleanup could not find (main.rs 416-419,
\* 546-552, 580-590, 632-635), for any number of clients, runs, cleanups and deaths.
THEOREM NoSidecarIsLeaked == Spec => []NoSidecarLeaks
<1>1. Base /\ NoLeakInv => NoSidecarLeaks
  <2> SUFFICES ASSUME Base, NoLeakInv, Resting, excuse \subseteq {"died"}, NEW p \in Pids, server[p] = "live"
               PROVE  registry.pid = p
    BY DEF NoSidecarLeaks
  <2>1. linked \cap Clients = {}
    BY DEF Base, WritersInv, Resting
  <2>2. QED
    BY <2>1 DEF NoLeakInv, LeakInv, LiveIsRegistered, WrittenDown
<1>2. Base /\ NoLeakInv /\ [Next]_vars => (Base /\ NoLeakInv)'
  BY BaseStep, LeakStep
<1>3. QED
  BY <1>1, <1>2, BaseInit, LeakInit, PTL DEF Spec
-----------------------------------------------------------------------------
(***************************************************************************)
(* One server is started: each part of StartInv is kept.                   *)
(***************************************************************************)
\* Without a death, what is named runs.
LEMMA NamedIsLive ==
    ASSUME Base, NobodyDied
    PROVE  /\ registry.state = "whole" => server[registry.pid] = "live" /\ registry.pid \in Pids
           /\ \A c \in Clients : saw[c] # NoPid => server[saw[c]] = "live" /\ saw[c] \in Pids
           /\ cleaner # "idle" => server[target] = "live" /\ target \in Pids
BY TypeParts DEF Base, NobodyDied, NamesInv, FileNamed, SawNamed, TargetNamed, Named, FileOK,
     ClientOK, ProcessesOK

LEMMA StartExcluded ==
    ASSUME Base, StartInv, [Next]_vars, excuse' \subseteq {"unlocked"}
    PROVE  /\ Calm /\ NobodyDied'
           /\ \A p, q \in Pids : Starting(p) => server[q] # "live"
           /\ Removes => \A p \in Pids : server[p] \notin {"truncated", "live"}
           /\ \A c \in Clients, p \in Pids : (Truncate(c) \/ Write(c)) /\ server[p] = "live" => saw[c] = p
           /\ \A p, q \in Pids : Register(q) \/ Serve(q) => server[p] # "live"
<1> USE DEF StartInv
<1>1. Calm
  BY DEF Calm
<1>2. ASSUME NEW p \in Pids, server'[p] = "dead" PROVE FALSE
  <2>1. CASE ServerDies(p)
    BY <2>1 DEF ServerDies, Fault
  <2>2. CASE Terminate
    <3>1. Alive(target)
      BY <2>2, NamedIsLive DEF Terminate, Alive
    <3>2. QED
      BY <2>2, <3>1 DEF Terminate
  <2>3. QED
    BY <1>2, <2>1, <2>2, EachServer DEF NobodyDied
<1>3. ASSUME NEW p \in Pids, NEW q \in Pids, Starting(p), server[q] = "live" PROVE FALSE
  BY <1>3 DEF OneStarted, Starting
<1>4. ASSUME NEW p \in Pids, server[p] \in {"truncated", "live"}, Removes PROVE FALSE
  <2>1. ASSUME NEW c \in Clients, Spawn(c) PROVE FALSE
    BY <1>4, <2>1, SpawnFlow DEF SpawnsFirst
  <2>2. ASSUME NEW c \in Clients, Refused(c) PROVE FALSE
    BY <2>2, NamedIsLive DEF Refused, At, Base, StepsInv, Local
  <2>3. CASE RemoveDead \/ Forget
    BY <2>3, NamedIsLive DEF RemoveDead, Forget, Base, NamesInv, TargetNamed
  <2>4. QED
    BY <1>1, <1>4, <2>1, <2>2, <2>3, CalmSteps DEF Removes
<1>5. ASSUME NEW c \in Clients, NEW p \in Pids, Truncate(c) \/ Write(c), server[p] = "live" PROVE saw[c] = p
  <2>1. server[saw[c]] = "live" /\ saw[c] \in Pids
    BY <1>5, NamedIsLive DEF Truncate, Write, At, Base, StepsInv, Local
  <2>2. QED
    BY <1>5, <2>1 DEF OneStarted
<1>6. ASSUME NEW p \in Pids, NEW q \in Pids, Register(q) \/ Serve(q), server[p] = "live" PROVE FALSE
  BY <1>6 DEF OneStarted, Register, Serve
<1>7. QED
  BY <1>1, <1>2, <1>3, <1>4, <1>5, <1>6 DEF NobodyDied

LEMMA OneStartedStep ==
    ASSUME Base, StartInv, [Next]_vars
    PROVE  OneStarted'
<1> SUFFICES ASSUME NEW p \in Pids, NEW q \in Pids, server'[p] # "unused", server'[q] # "unused" PROVE p = q
  BY DEF OneStarted
<1>1. CASE server[p] # "unused" /\ server[q] # "unused"
  BY <1>1 DEF StartInv, OneStarted
<1>2. ASSUME NEW c \in Clients, Spawn(c) PROVE p = q
  <2>1. server[p] = "unused" /\ server[q] = "unused"
    BY <1>2, SpawnFlow DEF StartInv, SpawnsFirst
  <2>2. QED
    BY <1>2, <2>1, SpawnFlow
<1>3. QED
  BY <1>1, <1>2, EachServer DEF StartInv, NobodyDied, Terminate, ServerDies, Alive, Base,
       NamesInv, TargetNamed, Named

\* The client that waits for its server is not late: what it waits for is under way.
LEMMA NobodyIsLateStep ==
    ASSUME Base, StartInv, [Next]_vars, excuse' \subseteq {"unlocked"}
    PROVE  NobodyIsLate'
<1> SUFFICES ASSUME NEW c \in Clients, site'[c] = "wait"
             PROVE  /\ pc'[c] \in {"read", "health"} => ~late'[c]
                    /\ \E p \in Pids : server'[p] # "unused"
  BY DEF NobodyIsLate
<1>0. StartInv /\ Calm /\ Local(c) /\ FileOK
  BY TypeParts, StartExcluded DEF Base, StepsInv
<1>1. CASE Spawn(c)
  BY <1>1, SpawnFlow DEF Waits
<1>2. CASE ~Spawn(c)
  <2>1. site[c] = "wait"
    BY <1>0, <1>2, EachClient, CalmSteps DEF Flow, GoesOn, Stays, Anew, Rests
  <2>2. PICK p \in Pids : server[p] # "unused"
    BY <1>0, <2>1 DEF StartInv, NobodyIsLate
  <2>3. server'[p] # "unused"
    BY <2>2, EachServer
  <2>4. UnderWay(c)
    <3>1. CASE Starting(p)
      BY <2>1, <3>1 DEF UnderWay, Starting
    <3>2. CASE server[p] = "live"
      <4>1. registry.pid = p \/ linked # {}
        BY <1>0, <3>2 DEF StartInv, LiveIsRegistered, WrittenDown
      <4>2. registry.pid = p => Healthy
        BY <1>0, <3>2, PidsAreNoClients DEF Healthy, FileOK
      <4>3. QED
        BY <2>1, <4>1, <4>2 DEF UnderWay
    <3>3. QED
      BY <1>0, <2>2, <3>1, <3>2, TypeParts DEF StartInv, NobodyDied, Starting, Base, ProcessesOK
  <2>5. ~Deadline(c)
    BY <1>0, <2>4, CalmSteps
  <2>6. pc'[c] \in {"read", "health"} => ~late'[c]
    BY <1>0, <1>2, <2>1, <2>5, EachClient, CalmSteps 
    DEF Flow, FoundNone, GoesOn, Stays, Anew, Rests, StartInv, NobodyIsLate, Local
  <2>7. QED
    BY <2>3, <2>6
<1>3. QED
  BY <1>1, <1>2

\* Who has looked under the lock and found nothing is the first to start a server.
LEMMA SpawnsFirstStep ==
    ASSUME Base, StartInv, [Next]_vars, excuse' \subseteq {"unlocked"}
    PROVE  SpawnsFirst'
<1> SUFFICES ASSUME NEW c \in Clients, NEW p \in Pids, pc'[c] = "spawn" PROVE server'[p] = "unused"
  BY DEF SpawnsFirst
<1>0. StartInv /\ Calm /\ Local(c) /\ FileOK /\ ProcessesOK
  BY TypeParts, StartExcluded DEF Base, StepsInv
<1> USE DEF StartInv
<1>1. UnderLock(c) /\ \A q \in Pids : server[q] = "unused"
  <2>1. CASE pc[c] = "spawn"
    BY <1>0, <2>1 DEF SpawnsFirst, UnderLock, Local
  <2>2. CASE pc[c] # "spawn"
    <3>1. FoundNone(c) /\ site[c] = "again" /\ UnderLock(c)
      BY <1>0, <2>2, EachClient, CalmSteps DEF Flow, GoesOn, Rests, FoundNone, UnderLock
    <3>2. registry.state = "absent"
      BY <1>0, <3>1, NamedIsLive, CalmSteps DEF FoundNone, Local, FileOK
    <3>3. ASSUME NEW q \in Pids, server[q] = "live" PROVE FALSE
      BY <1>0, <3>2, <3>3, PidsAreNoClients DEF LiveIsRegistered, WrittenDown, FileOK
    <3>4. ASSUME NEW q \in Pids, Starting(q) PROVE FALSE
      BY <1>0, <3>1, <3>3, <3>4 DEF StartIsAwaited, Waits, LockIsKept, SomebodyLive, OneOwner,
           UnderLock
    <3>5. QED
      BY <1>0, <3>1, <3>3, <3>4 DEF Starting, NobodyDied, ProcessesOK
  <2>3. QED
    BY <2>1, <2>2
<1>2. ASSUME NEW d \in Clients, Spawn(d) PROVE FALSE
  <2>1. c # d
    BY <1>2, SpawnFlow DEF Waits
  <2>2. UnderLock(d)
    BY <1>2, SpawnFlow
  <2>3. QED
    BY <1>0, <1>1, <2>1, <2>2 DEF LockIsKept, SomebodyLive, OneOwner
<1>3. QED
  BY <1>1, <1>2, EachServer, StartExcluded DEF NobodyDied

\* Until a server runs, the lock is taken away from nobody.
LEMMA LockIsKeptStep ==
    ASSUME Base, StartInv, [Next]_vars, excuse' \subseteq {"unlocked"}
    PROVE  LockIsKept'
<1>0. StartInv /\ Calm /\ NobodyDied'
  BY StartExcluded
<1> USE DEF StartInv
<1>1. CASE SomebodyLive'
  BY <1>1 DEF LockIsKept
<1>2. CASE ~SomebodyLive'
  <2>1. ~SomebodyLive
    BY <1>0, <1>2, EachServer DEF SomebodyLive, NobodyDied
  <2>2. OneOwner /\ \A c \in Clients : pc[c] \notin {"break", "drop"} /\ (pc[c] = "check" => lock.owner # NoClient)
    BY <1>0, <2>1 DEF LockIsKept
  <2>3. \A c \in Clients : saw[c] = NoPid /\ pc[c] \notin {"health", "truncate", "write", "ask"}
    BY <1>0, <2>1, NamedIsLive DEF SomebodyLive, Base, StepsInv, Local
  <2>4. OneOwner'
    BY <1>0, <2>2, OneOwnerStep DEF BreakLock, DropLock, At
  <2>5. ASSUME NEW c \in Clients PROVE pc'[c] \notin {"break", "drop"}
    <3>1. pc[c] = "check" => ~IsStale
      BY <1>0, <2>2 DEF IsStale, NoLock, NobodyCrashed
    <3>2. site[c] = "wait" /\ pc[c] = "read" => ~late[c]
      BY <1>0 DEF NobodyIsLate
    <3>3. QED
      BY <1>0, <2>2, <2>3, <3>1, <3>2, EachClient, CalmSteps DEF Flow, FoundNone, GoesOn, Rests
  <2>6. ASSUME NEW c \in Clients, pc'[c] = "check" PROVE lock'.owner # NoClient
    <3>1. lock.owner # NoClient
      <4>1. pc[c] = "check" \/ lock # NoLock
        BY <1>0, <2>6, EachClient, CalmSteps DEF Flow, GoesOn, Rests
      <4>2. lock.owner = NoClient => lock = NoLock
        BY TypeParts DEF Base, ProcessesOK, StepsInv, NoLock
      <4>3. QED
        BY <2>2, <4>1, <4>2
    <3>2. QED
      BY <2>2, <3>1, LockMoves, TypeParts, PidsAreNoClients DEF Base, ProcessesOK, BreakLock,
           DropLock, At
  <2>7. QED
    BY <2>4, <2>5, <2>6 DEF LockIsKept
<1>3. QED
  BY <1>1, <1>2

LEMMA StartStep ==
    ASSUME Base, OneStartInv, [Next]_vars
    PROVE  OneStartInv'
<1> SUFFICES ASSUME excuse' \subseteq {"unlocked"} PROVE StartInv'
  BY DEF OneStartInv
<1>1. StartInv
  BY ExcusesGrow DEF OneStartInv
<1>2. Calm /\ NobodyDied' /\ (\A p, q \in Pids : Starting(p) => server[q] # "live")
  BY <1>1, StartExcluded
<1>3. NobodyCrashed' /\ StartIsAwaited'
  BY <1>1, <1>2, NobodyCrashedStep, StartIsAwaitedStep DEF StartInv, Calm, Steady
<1>4. LiveIsRegistered' /\ RegistersItself'
  <2>1. Removes => (\A p \in Pids : server[p] # "live") /\ (\A p \in Pids : server[p] # "truncated")
    BY <1>1, StartExcluded
  <2>2. RegistersItself'
    BY <1>1, <1>2, <2>1, RegistersItselfStep DEF StartInv
  <2>3. QED
    BY <1>1, <2>1, <2>2, StartExcluded, LiveIsRegisteredStep DEF StartInv
<1>5. OneStarted' /\ NobodyIsLate' /\ SpawnsFirst' /\ LockIsKept'
  BY <1>1, OneStartedStep, NobodyIsLateStep, SpawnsFirstStep, LockIsKeptStep
<1>6. QED
  BY <1>2, <1>3, <1>4, <1>5 DEF StartInv

LEMMA StartInit == Init => OneStartInv
BY DEF Init, OneStartInv, StartInv, NobodyCrashed, NobodyDied, OneStarted, NobodyIsLate,
     StartIsAwaited, Starting,
       LiveIsRegistered, RegistersItself, SpawnsFirst, LockIsKept, OneOwner, UnderLock, NoLock

\* However many clients find no server, one of them starts one (main.rs 319-437), though a lock may be removed that was
\* made after its check: for any number of clients and runs.
THEOREM OneSidecarIsStarted == Spec => []OneSidecar
<1>1. Base /\ OneStartInv => OneSidecar
  <2> SUFFICES ASSUME OneStartInv, excuse \subseteq {"unlocked"} PROVE Cardinality(Started) <= 1
    BY DEF OneSidecar
  <2>1. \A p, q \in Started : p = q
    BY DEF OneStartInv, StartInv, OneStarted, Started
  <2>2. CASE Started = {}
    BY <2>2, FS_EmptySet
  <2>3. ASSUME NEW p \in Started PROVE Cardinality(Started) <= 1
    <3>1. Started = {p}
      BY <2>1, <2>3
    <3>2. Cardinality({p}) = 1
      BY FS_Singleton
    <3>3. QED
      BY <3>1, <3>2
  <2>4. QED
    BY <2>2, <2>3
<1>2. Base /\ OneStartInv /\ [Next]_vars => (Base /\ OneStartInv)'
  BY BaseStep, StartStep
<1>3. QED
  BY <1>1, <1>2, BaseInit, StartInit, PTL DEF Spec
-----------------------------------------------------------------------------
(***************************************************************************)
(* One failure is hidden: each part of MildInv is kept.                    *)
(***************************************************************************)
ResultsRest(c) == UNCHANGED <<retried[c], outcome[c]>>
Results(c) ==
    /\ retried'[c] => retried[c] \/ ((Refused(c) \/ Lost(c)) /\ pc'[c] = "read")
    /\ outcome'[c] = "error" =>
        \/ outcome[c] = "error" \/ Hung(c)
        \/ CheckLock(c) /\ pc[c] = "check" /\ late[c]
        \/ DropLock(c) /\ pc[c] = "drop" /\ saw[c] = NoPid
        \/ (Refused(c) \/ Lost(c)) /\ pc[c] = "ask" /\ retried[c]

LEMMA MissResults ==
    ASSUME ClientOK, NEW c \in Clients, Miss(c)
    PROVE  (retried'[c] => retried[c]) /\ (outcome'[c] = "error" => outcome[c] = "error")
<1>1. CASE Finish(c, "refused")
  BY <1>1, FinishKeeps
<1>2. CASE Reread(c, "lock") \/ Reread(c, "wait")
  BY <1>2, RereadKeeps
<1>3. CASE Leave(c, "mkdir") \/ Leave(c, "spawn") \/ Leave(c, "drop")
  BY <1>3, LeaveKeeps DEF Steps
<1>4. QED
  BY <1>1, <1>2, <1>3 DEF Miss

LEMMA ClientResults ==
    ASSUME Base, NEW c \in Clients, Run(c) \/ Continue(c) \/ Deadline(c) \/ ClientCrashes(c)
    PROVE  Results(c)
<1>0. ClientOK
  BY TypeParts DEF Base
<1> USE DEF Results
<1>1. CASE UNCHANGED <<retried, outcome>>
  BY <1>1
<1>2. CASE Run(c)
  BY <1>0, <1>2 DEF Run, ClientOK
<1>3. CASE Deadline(c) \/ ClientCrashes(c) \/ Truncate(c) \/ Write(c) \/ Spawn(c) \/ BreakLock(c)
  BY <1>1, <1>3 DEF Deadline, ClientCrashes, Truncate, Write, Spawn, BreakLock, Proceed, Reread
<1>4. CASE ReadFile(c) \/ Health(c)
  BY <1>0, <1>1, <1>4, MissResults DEF ReadFile, Health, Proceed
<1>5. CASE MakeLock(c)
  BY <1>1, <1>5 DEF MakeLock, Acquired, Proceed, Reread
<1>6. CASE CheckLock(c)
  <2>1. CASE Finish(c, "error") /\ late[c]
    BY <1>0, <1>6, <2>1, FinishKeeps DEF CheckLock, At
  <2>2. QED
    BY <1>1, <1>6, <2>1 DEF CheckLock, Proceed, Reread
<1>7. CASE DropLock(c)
  <2>1. CASE Finish(c, "error") /\ saw[c] = NoPid
    BY <1>0, <1>7, <2>1, FinishKeeps DEF DropLock, At
  <2>2. QED
    BY <1>1, <1>7, <2>1 DEF DropLock, Proceed
<1>8. CASE Answer(c)
  BY <1>0, <1>8, FinishKeeps DEF Answer
<1>9. CASE Hung(c)
  BY <1>0, <1>9, FinishKeeps DEF Hung
<1>10. CASE Refused(c) \/ Lost(c)
  <2>1. CASE CanRetry(c)
    BY <1>0, <1>10, <2>1 DEF Refused, Lost, RequestFails, Goes, ClientOK
  <2>2. CASE no_start[c] /\ Finish(c, "refused")
    BY <1>0, <2>2, FinishKeeps
  <2>3. CASE ~no_start[c] /\ retried[c] /\ Finish(c, "error")
    BY <1>0, <1>10, <2>3, FinishKeeps DEF Refused, Lost, At
  <2>4. QED
    BY <1>10, <2>1, <2>2, <2>3 DEF Refused, Lost, RequestFails, CanRetry
<1>11. QED
  BY <1>2, <1>3, <1>4, <1>5, <1>6, <1>7, <1>8, <1>9, <1>10 DEF Continue

LEMMA EachResult ==
    ASSUME Base, [Next]_vars, NEW c \in Clients
    PROVE  Results(c) \/ ResultsRest(c)
<1>0. ClientOK
  BY TypeParts DEF Base
<1>1. CASE UNCHANGED client
  BY <1>1 DEF client, ResultsRest
<1>2. ASSUME NEW d \in Clients, d # c, Run(d) \/ Continue(d) \/ Deadline(d) \/ ClientCrashes(d)
      PROVE  ResultsRest(c)
  BY <1>0, <1>2, OneMoves DEF OthersStay, ResultsRest
<1>3. QED
  BY <1>1, <1>2, ClientResults, WhoMoves

\* What is counted stays counted.
LEMMA CountsGrow ==
    ASSUME Base, [Next]_vars
    PROVE  /\ faults \in Nat /\ cleanups \in Nat /\ faults' \in Nat /\ cleanups' \in Nat
           /\ faults' >= faults /\ cleanups' >= cleanups
           /\ cleaner' # cleaner => Look \/ RemoveDead \/ Terminate \/ Forget
<1>1. CountsOK /\ CountsOK'
  BY TypeParts, CountsStep DEF Base
<1>2. faults \in Nat /\ cleanups \in Nat /\ faults' \in Nat /\ cleanups' \in Nat
  BY <1>1, SidecarAssumption DEF CountsOK
<1>3. \/ UNCHANGED <<faults, cleanups>>
      \/ faults' = faults + 1 /\ UNCHANGED cleanups
      \/ cleanups' = cleanups + 1 /\ UNCHANGED faults
  BY DEF Next, Continue, Start, Run, ReadFile, Health, Truncate, Write, MakeLock, CheckLock,
       BreakLock, Spawn, DropLock, Answer,
         Refused, Lost, Hung, Register, Serve, ServerDies, Deadline, ClientCrashes, Cleanup, Look, RemoveDead, Terminate,
         Forget, LockAges, Idle, Fault, vars, bounds
<1>4. cleaner' # cleaner => Look \/ RemoveDead \/ Terminate \/ Forget
  BY DEF Next, Continue, Start, Run, ReadFile, Health, Truncate, Write, MakeLock, CheckLock,
       BreakLock, Spawn, DropLock, Answer,
         Refused, Lost, Hung, Register, Serve, ServerDies, Deadline, ClientCrashes, Cleanup, LockAges, Idle, vars, cleaning
<1>5. QED
  BY <1>2, <1>3, <1>4

LEMMA SumsGrow ==
    ASSUME NEW a \in Nat, NEW b \in Nat, NEW x \in Nat, NEW y \in Nat, x >= a, y >= b, x + y <= 1
    PROVE  a + b <= 1 /\ (x > a \/ y > b => a = 0 /\ b = 0 /\ x + y = 1) /\ (y >= 1 => x + y >= 1)
OBVIOUS

LEMMA MildBefore ==
    ASSUME Base, Mild', [Next]_vars
    PROVE  Mild
<1>1. excuse \cap {"stillborn", "hung", "slow", "crashed", "renamed", "unnamed"} = {}
  BY ExcusesGrow DEF Mild
<1>2. faults' + cleanups' <= 1
  BY DEF Mild
<1>3. faults + cleanups <= 1
  BY <1>2, CountsGrow, SumsGrow
<1>4. QED
  BY <1>1, <1>3 DEF Mild

LEMMA MildExcluded ==
    ASSUME Base, MildInv, Mild', [Next]_vars
    PROVE  /\ Steady /\ Mild
           /\ \A c \in Clients : ~Hung(c)
           /\ Spent => Spent' /\ (\A p \in Pids : ~ServerDies(p)) /\ ~Look /\ ~Terminate /\ \A c \in Clients : ~Lost(c)
           /\ \A p \in Pids : ServerDies(p) => Spent' /\ \A c \in Clients : ~AwaitsServer(c)
           /\ \A c \in Clients : Lost(c) => Spent'
           /\ Terminate => Spent'
<1>0. /\ faults \in Nat /\ cleanups \in Nat /\ faults' \in Nat /\ cleanups' \in Nat
      /\ faults' >= faults /\ cleanups' >= cleanups /\ faults' + cleanups' <= 1
      /\ cleaner # "idle" => cleanups >= 1
  BY CountsGrow DEF Mild, MildInv, OneThingWentWrong
<1>1. Steady /\ Mild
  BY MildBefore DEF Mild, Steady
<1>2. ASSUME NEW c \in Clients, Hung(c) PROVE FALSE
  BY <1>2 DEF Hung, Fault, Mild
<1>3. ASSUME NEW p \in Pids, ServerDies(p)
      PROVE  faults' = faults + 1 /\ cleaner' = cleaner /\ \A c \in Clients : ~AwaitsServer(c)
  <2>1. faults' = faults + 1 /\ cleaner' = cleaner
    BY <1>3 DEF ServerDies, Fault, cleaning
  <2>2. ~Awaited(p)
    BY <1>3 DEF ServerDies, Fault, Mild
  <2>3. QED
    BY <2>1, <2>2 DEF Awaited, AwaitsServer
<1>4. ASSUME NEW c \in Clients, Lost(c) PROVE faults' = faults + 1 /\ cleaner' = cleaner
  BY <1>4 DEF Lost, Fault, cleaning
<1>5. Look => cleanups' = cleanups + 1
  BY DEF Look
<1>6. Terminate => cleaner = "kill" /\ cleaner' = "forget"
  BY DEF Terminate
<1>7. cleaner' = "kill" => cleaner = "kill" \/ Look
  BY CountsGrow DEF RemoveDead, Terminate, Forget
<1>8. faults' > faults \/ cleanups' > cleanups => faults = 0 /\ cleanups = 0 /\ faults' + cleanups' = 1
  BY <1>0, SumsGrow
<1>9. faults' > faults \/ cleanups' > cleanups => ~Spent
  BY <1>8 DEF Spent
<1>10. ASSUME faults' > faults, cleaner' = cleaner PROVE Spent'
  <2>1. cleaner = "idle"
    BY <1>0, <1>8, <1>10
  <2>2. faults' + cleanups' >= 1
    BY <1>0, <1>8, <1>10
  <2>3. QED
    BY <1>10, <2>1, <2>2 DEF Spent
<1>11. ASSUME Terminate PROVE ~Spent /\ Spent'
  <2>1. cleanups' >= 1
    BY <1>0, <1>6, <1>11
  <2>2. faults' + cleanups' >= 1
    BY <1>0, <2>1, SumsGrow
  <2>3. QED
    BY <1>6, <1>11, <2>2 DEF Spent
<1>12. ASSUME Spent PROVE Spent' /\ (\A p \in Pids : ~ServerDies(p)) /\ ~Look /\ ~Terminate /\ \A c \in Clients : ~Lost(c)
  <2>1. (\A p \in Pids : ~ServerDies(p)) /\ ~Look /\ \A c \in Clients : ~Lost(c)
    BY <1>0, <1>3, <1>4, <1>5, <1>9, <1>12
  <2>2. faults' = faults /\ cleanups' = cleanups
    BY <1>0, <1>9, <1>12
  <2>3. Spent'
    BY <1>7, <1>12, <2>1, <2>2 DEF Spent
  <2>4. QED
    BY <1>11, <1>12, <2>1, <2>3
<1>13. \A p \in Pids : ServerDies(p) => Spent' /\ \A c \in Clients : ~AwaitsServer(c)
  BY <1>0, <1>3, <1>10
<1>14. \A c \in Clients : Lost(c) => Spent'
  BY <1>0, <1>4, <1>10
<1>15. QED
  BY <1>1, <1>2, <1>11, <1>12, <1>13, <1>14

\* Who writes down a server that lives gives hope, and who writes down another takes none.
LEMMA RenamedSpares ==
    ASSUME Base, Hope, NEW c \in Clients, saw[c] # NoPid, Renamed(saw[c]) = {}
    PROVE  (saw[c] # target /\ server[saw[c]] = "live") \/ \E p \in Pids : server[p] = "starting"
<1>1. saw[c] \in Pids /\ server[saw[c]] \in {"live", "dead"}
  BY TypeParts DEF Base, ClientOK, NamesInv, SawNamed, Named
<1>2. CASE Healthy /\ registry.pid # target
  BY <1>1, <1>2 DEF Renamed, Healthy
<1>3. CASE linked \cap Pids # {}
  BY <1>1, <1>3 DEF Base, WritersInv, Renamed
<1>4. ASSUME NEW d \in linked \cap Clients, saw[d] # target, server[saw[d]] = "live"
      PROVE  saw[c] # target /\ server[saw[c]] = "live"
  BY <1>4 DEF Renamed
<1>5. QED
  BY <1>2, <1>3, <1>4 DEF Hope

\* The file stays, and so does every server that gives hope.
LEMMA HopeStays ==
    ASSUME Base, [Next]_vars, Hope,
           registry'.state = registry.state, registry'.pid = registry.pid, linked' = linked, target' = target,
           \A p \in Pids : server[p] = "starting" \/ (server[p] = "live" /\ p # target) => server'[p] = server[p]
    PROVE  Hope'
<1>0. FileOK /\ ClientOK
  BY TypeParts DEF Base
<1>1. CASE Healthy /\ registry.pid # target
  BY <1>0, <1>1 DEF Healthy, FileOK, Hope
<1>2. CASE (\E p \in Pids : server[p] = "starting") \/ linked \cap Pids # {}
  BY <1>2 DEF Hope
<1>3. ASSUME NEW c \in linked \cap Clients, saw[c] # target, server[saw[c]] = "live" PROVE Hope'
  <2>1. saw[c] \in Pids
    BY <1>0, <1>3 DEF Base, WritersInv, StepsInv, Local, ClientOK
  <2>2. saw'[c] = saw[c] /\ c \in linked' \cap Clients
    BY <1>3, WritersKeep
  <2>3. QED
    BY <1>3, <2>1, <2>2 DEF Hope
<1>4. QED
  BY <1>1, <1>2, <1>3 DEF Hope

LEMMA HopeWritten ==
    ASSUME Base, [Next]_vars, Hope, Mild', NEW c \in Clients, Truncate(c) \/ Write(c)
    PROVE  Hope'
<1>0. ClientOK /\ saw[c] \in Pids /\ saw[c] # NoPid
  BY TypeParts DEF Base, StepsInv, Local, Truncate, Write, At, ClientOK
<1>1. Renamed(saw[c]) = {}
  BY DEF Truncate, Write, Mild, Renamed
<1>2. UNCHANGED <<server, target>>
  BY DEF Truncate, Write, cleaning
<1>3. CASE \E p \in Pids : server[p] = "starting"
  BY <1>2, <1>3 DEF Hope
<1>4. CASE saw[c] # target /\ server[saw[c]] = "live"
  <2>1. CASE Truncate(c)
    <3>1. c \in linked'
      BY <2>1 DEF Truncate
    <3>2. saw'[c] = saw[c]
      BY <3>1, WritersKeep
    <3>3. QED
      BY <1>2, <1>4, <3>1, <3>2 DEF Hope
  <2>2. CASE Write(c) /\ c \in linked
    <3>1. registry' = Names(saw[c])
      BY <2>2 DEF Write
    <3>2. QED
      BY <1>2, <1>4, <3>1 DEF Names, Healthy, Hope
  <2>3. CASE Write(c) /\ c \notin linked
    <3>1. UNCHANGED registry /\ linked' = linked
      BY <2>3 DEF Write
    <3>2. QED
      BY <1>2, <3>1, HopeStays
  <2>4. QED
    BY <2>1, <2>2, <2>3
<1>5. QED
  BY <1>0, <1>1, <1>3, <1>4, RenamedSpares

LEMMA HopeServed ==
    ASSUME Base, [Next]_vars, Hope, NEW p \in Pids, Register(p) \/ Serve(p)
    PROVE  Hope'
<1>0. ProcessesOK
  BY TypeParts DEF Base
<1>1. CASE Register(p)
  BY <1>1 DEF Register, Hope
<1>2. CASE Serve(p) /\ p \in linked
  <2>1. p # target
    BY <1>2, PidsAreNoClients DEF Serve, Base, NamesInv, TargetNamed, Named
  <2>2. registry' = Names(p) /\ server'[p] = "live" /\ target' = target
    BY <1>0, <1>2 DEF Serve, cleaning, ProcessesOK
  <2>3. QED
    BY <2>1, <2>2 DEF Names, Healthy, Hope
<1>3. CASE Serve(p) /\ p \notin linked
  <2>1. UNCHANGED <<registry, target>> /\ linked' = linked
    BY <1>3 DEF Serve, cleaning
  <2>2. \A q \in Pids : server[q] \in {"starting", "live"} => server'[q] = server[q]
    BY <1>0, <1>3 DEF Serve, ProcessesOK
  <2>3. QED
    BY <2>1, <2>2, HopeStays
<1>4. QED
  BY <1>1, <1>2, <1>3

\* A name that is taken away from somebody who waits is no server's.
LEMMA HopeRemoved ==
    ASSUME Base, [Next]_vars, Hope, Mild', NEW c \in Clients, AwaitsServer(c), Removes, RemoveFile
    PROVE  Hope'
<1>1. ASSUME NEW d \in Clients, Spawn(d) PROVE Hope'
  BY <1>1, SpawnFlow DEF Hope
<1>2. ASSUME NEW x, Unnamed(x) = {} PROVE linked = {} /\ ~Healthy
  BY <1>2 DEF Unnamed, AwaitsServer
<1>3. ASSUME linked = {}, ~Healthy, UNCHANGED server PROVE Hope'
  BY <1>3 DEF Hope
<1>4. ASSUME NEW d \in Clients, CanRetry(d), Refused(d) \/ Lost(d) PROVE Hope'
  <2>1. Unnamed(saw[d]) = {}
    BY <1>4 DEF Refused, Lost, Fault, Unnaming, Unnamed, Mild
  <2>2. UNCHANGED server
    BY <1>4 DEF Refused, Lost
  <2>3. QED
    BY <1>2, <1>3, <2>1, <2>2
<1>5. CASE RemoveDead \/ Forget
  <2>1. Unnamed(target) = {} /\ UNCHANGED server
    BY <1>5 DEF RemoveDead, Forget, Unnamed, Mild
  <2>2. QED
    BY <1>2, <1>3, <2>1
<1>6. QED
  BY <1>1, <1>4, <1>5 DEF Removes

LEMMA WaitersHopeStep ==
    ASSUME Base, MildInv, Mild', [Next]_vars
    PROVE  WaitersHope'
<1> SUFFICES ASSUME NEW c \in Clients, AwaitsServer(c)' PROVE Hope'
  BY DEF WaitersHope
<1>0. ProcessesOK /\ FileOK /\ Steady /\ Mild /\ Local(c)
  BY TypeParts, MildExcluded DEF Base, StepsInv
<1>1. ASSUME NEW d \in Clients, Spawn(d) PROVE Hope'
  BY <1>1, SpawnFlow DEF Hope
<1>2. CASE ~\E d \in Clients : Spawn(d)
  <2>1. AwaitsServer(c)
    BY <1>0, <1>2, EachClient, SteadySteps DEF Flow, FoundNone, GoesOn, Stays, Anew, Rests,
         AwaitsServer, Local
  <2>2. Hope
    BY <2>1 DEF MildInv, WaitersHope
  <2>3. ~Look
    <3>1. CASE ~PidIsAlive(registry.pid) /\ Look
      <4>1. server[registry.pid] = "dead" /\ registry.pid \in Pids
        BY <1>0, <3>1 DEF Look, PidIsAlive, Alive, FileOK, Base, NamesInv, FileNamed, Named
      <4>2. QED
        BY <3>1, <4>1, MildExcluded DEF MildInv, OneThingWentWrong
    <3>2. CASE ~registry.fresh /\ Look
      BY <2>1, <3>2 DEF Look, MildInv, IdleIsRest, AwaitsServer
    <3>3. QED
      BY <3>1, <3>2 DEF Look
  <2>4. ASSUME NEW p \in Pids, ServerDies(p) PROVE FALSE
    BY <2>1, <2>4, MildExcluded
  <2>5. CASE Removes /\ RemoveFile
    BY <2>1, <2>2, <2>5, HopeRemoved
  <2>6. ASSUME NEW d \in Clients, Truncate(d) \/ Write(d) PROVE Hope'
    BY <2>2, <2>6, HopeWritten
  <2>7. ASSUME NEW p \in Pids, Register(p) \/ Serve(p) PROVE Hope'
    BY <2>2, <2>7, HopeServed
  <2>8. CASE /\ registry'.state = registry.state /\ registry'.pid = registry.pid /\ linked' = linked
             /\ ~\E p \in Pids : Register(p) \/ Serve(p)
    <3>1. target' = target \/ RemoveDead \/ Forget
      BY <2>3
      DEF Next, Continue, Start, Run, ReadFile, Health, Truncate, Write, MakeLock, CheckLock, BreakLock, Spawn, DropLock,
          Answer, Refused, Lost, Hung, Register, Serve, ServerDies, Deadline, ClientCrashes, Cleanup, Terminate, LockAges,
          Idle, vars, cleaning
    <3>2. CASE RemoveDead \/ Forget
      <4>1. Removes /\ RemoveFile
        BY <3>2 DEF Removes, RemoveDead, Forget
      <4>2. QED
        BY <2>5, <4>1
    <3>3. ASSUME NEW p \in Pids, server[p] = "starting" \/ (server[p] = "live" /\ p # target) PROVE server'[p] = server[p]
      <4>1. p # target
        BY <3>3, PidsAreNoClients DEF Base, NamesInv, TargetNamed, Named
      <4>2. QED
        BY <1>2, <2>4, <2>8, <3>3, <4>1, EachServer
    <3>4. QED
      BY <2>2, <2>8, <3>1, <3>2, <3>3, HopeStays
  <2>9. QED
    BY <1>0, <2>4, <2>5, <2>6, <2>7, <2>8, FileMoves, SteadySteps
<1>3. QED
  BY <1>1, <1>2

LEMMA NobodyOverdueStep ==
    ASSUME Base, MildInv, Mild', [Next]_vars
    PROVE  NobodyOverdue'
<1> SUFFICES ASSUME NEW c \in Clients
             PROVE  /\ site'[c] = "lock" \/ AwaitsServer(c)' => ~late'[c]
                    /\ pc'[c] = "drop" => saw'[c] # NoPid
  BY DEF NobodyOverdue
<1>0. Steady /\ Local(c) /\ MildInv
  BY MildExcluded DEF Base, StepsInv
<1>1. AwaitsServer(c) => UnderWay(c)
  <2>1. Hope => Healthy \/ linked # {} \/ \E p \in Pids : server[p] \in {"starting", "truncated"}
    BY DEF Hope
  <2>2. QED
    BY <1>0, <2>1 DEF MildInv, WaitersHope, AwaitsServer, UnderWay
<1>2. site[c] = "lock" => UnderWay(c)
  BY <1>0, OwnerHolds DEF UnderWay, MildInv
<1>3. QED
  BY <1>0, <1>1, <1>2, EachClient, SteadySteps
  DEF MildInv, NobodyOverdue, Flow, FoundNone, GoesOn, Stays, Anew, Rests, AwaitsServer, Local

\* A file that is not fresh was left so when nobody ran, and is written before somebody waits.
LEMMA IdleIsRestStep ==
    ASSUME Base, MildInv, Mild', [Next]_vars
    PROVE  IdleIsRest'
<1> SUFFICES ASSUME registry'.state = "whole", ~registry'.fresh, NEW c \in Clients PROVE site'[c] # "wait"
  BY DEF IdleIsRest
<1>0. Steady /\ Local(c) /\ MildInv
  BY MildExcluded DEF Base, StepsInv
<1>1. CASE Idle
  BY <1>0, <1>1 DEF Idle, client, MildInv, NobodyCrashed, Local
<1>2. registry' \in {registry, Absent, Torn} \/ Idle \/ \E p \in Pids \cup {NoPid} : registry' = Names(p)
  <2>1. \A d \in Clients : saw[d] \in Pids \cup {NoPid}
    BY TypeParts DEF Base, ClientOK
  <2>2. ASSUME NEW d \in Clients, Refused(d) \/ Lost(d) PROVE registry' \in {registry, Absent}
    BY <2>2 DEF Refused, Lost, RequestFails, RemoveFile, file
  <2>3. QED
    BY <2>1, <2>2
    DEF Next, Continue, Start, Run, ReadFile, Health, Truncate, Write, MakeLock, CheckLock, BreakLock, Spawn, DropLock,
        Answer, Hung, RemoveFile, Register, Serve, ServerDies, Deadline, ClientCrashes, Cleanup, Look,
        RemoveDead, Terminate, Forget, LockAges, vars, file
<1>3. CASE registry' = registry
  <2>1. site[c] # "wait"
    BY <1>0, <1>3 DEF MildInv, IdleIsRest
  <2>2. ~Spawn(c)
    BY <1>3 DEF Spawn, RemoveFile, Absent
  <2>3. QED
    BY <1>0, <2>1, <2>2, EachClient, SteadySteps DEF Flow, GoesOn, Stays, Anew, Rests
<1>4. QED
  BY <1>1, <1>2, <1>3 DEF Absent, Torn, Names

LEMMA OneThingWentWrongStep ==
    ASSUME Base, MildInv, Mild', [Next]_vars
    PROVE  OneThingWentWrong'
<1>0. MildInv /\ OneThingWentWrong
  BY DEF MildInv
<1>1. ASSUME cleaner' # "idle" PROVE cleanups' >= 1
  <2>1. CASE Look
    BY <2>1, CountsGrow DEF Look
  <2>2. CASE cleaner # "idle"
    BY <1>0, <2>2, CountsGrow DEF OneThingWentWrong
  <2>3. QED
    BY <1>1, <2>1, <2>2, CountsGrow DEF RemoveDead, Forget, Terminate
<1>2. ASSUME NEW p \in Pids, server'[p] = "dead" PROVE Spent'
  <2>1. CASE server[p] = "dead"
    BY <1>0, <2>1, MildExcluded DEF OneThingWentWrong
  <2>2. CASE server[p] # "dead"
    BY <1>2, <2>2, EachServer, MildExcluded
  <2>3. QED
    BY <2>1, <2>2
<1>3. ASSUME NEW c \in Clients, Refused(c) PROVE Spent
  <2>1. server[saw[c]] = "dead" /\ saw[c] \in Pids
    BY <1>3, TypeParts DEF Refused, At, Base, ClientOK, NamesInv, SawNamed, Named, StepsInv, Local
  <2>2. QED
    BY <1>0, <2>1 DEF OneThingWentWrong
<1>4. ASSUME NEW c \in Clients, retried'[c] PROVE Spent'
  BY <1>0, <1>3, <1>4, EachResult, MildExcluded DEF Results, ResultsRest, OneThingWentWrong
<1>5. QED
  BY <1>1, <1>2, <1>4 DEF OneThingWentWrong

LEMMA SecondAttemptStep ==
    ASSUME Base, MildInv, Mild', [Next]_vars
    PROVE  SecondAttempt'
<1> SUFFICES ASSUME NEW c \in Clients, retried'[c], pc'[c] \in {"truncate", "write", "drop", "ask"}
             PROVE  server'[saw'[c]] = "live"
  BY DEF SecondAttempt
<1>0. Steady /\ Local(c) /\ MildInv /\ NobodyOverdue /\ ClientOK
  BY MildExcluded, TypeParts DEF Base, StepsInv, MildInv
<1>1. retried[c] /\ Spent
  BY <1>0, EachResult DEF Results, ResultsRest, MildInv, OneThingWentWrong
<1>2. ASSUME NEW p \in Pids, server[p] = "live" PROVE server'[p] = "live"
  BY <1>1, <1>2, EachServer, MildExcluded
<1>3. saw'[c] = saw[c] /\ saw[c] \in Pids /\ server[saw[c]] = "live"
  <2>1. pc[c] \in {"health", "truncate", "write", "drop", "ask"} /\ saw'[c] = saw[c]
        /\ (pc[c] = "health" => server[saw[c]] = "live")
    BY <1>0, EachClient, SteadySteps DEF Flow, FoundNone, GoesOn, Rests, NobodyOverdue, AwaitsServer
  <2>2. saw[c] \in Pids
    BY <1>0, <2>1 DEF Local, NobodyOverdue, ClientOK
  <2>3. QED
    BY <1>0, <1>1, <2>1, <2>2 DEF MildInv, SecondAttempt
<1>4. QED
  BY <1>2, <1>3

LEMMA NobodyFailedStep ==
    ASSUME Base, MildInv, Mild', [Next]_vars
    PROVE  NobodyFailed'
<1> SUFFICES ASSUME NEW c \in Clients, outcome'[c] = "error" PROVE FALSE
  BY DEF NobodyFailed
<1>0. Local(c) /\ MildInv /\ ~Hung(c)
  BY MildExcluded DEF Base, StepsInv
<1>1. ~(pc[c] = "check" /\ late[c]) /\ ~(pc[c] = "drop" /\ saw[c] = NoPid)
  BY <1>0 DEF MildInv, NobodyOverdue, Local
<1>2. pc[c] = "ask" /\ retried[c] => ~Refused(c) /\ ~Lost(c)
  <2>1. retried[c] => Spent
    BY <1>0 DEF MildInv, OneThingWentWrong
  <2>2. retried[c] /\ pc[c] = "ask" => server[saw[c]] = "live"
    BY <1>0 DEF MildInv, SecondAttempt
  <2>3. QED
    BY <2>1, <2>2, MildExcluded DEF Refused
<1>3. QED
  BY <1>0, <1>1, <1>2, EachResult DEF Results, ResultsRest, MildInv, NobodyFailed

LEMMA HiddenStep ==
    ASSUME Base, HiddenInv, [Next]_vars
    PROVE  HiddenInv'
<1> SUFFICES ASSUME Mild' PROVE MildInv'
  BY DEF HiddenInv
<1>1. Mild
  BY MildBefore
<1>2. MildInv
  BY <1>1 DEF HiddenInv
<1>3. NobodyCrashed'
  BY <1>2, MildExcluded, NobodyCrashedStep DEF MildInv
<1>4. QED
  BY <1>2, <1>3, WaitersHopeStep, NobodyOverdueStep, IdleIsRestStep, OneThingWentWrongStep,
       SecondAttemptStep, NobodyFailedStep
  DEF MildInv

LEMMA HiddenInit == Init => HiddenInv
BY DEF Init, HiddenInv, MildInv, NobodyCrashed, WaitersHope, NobodyOverdue, AwaitsServer,
     IdleIsRest, OneThingWentWrong,
       SecondAttempt, NobodyFailed, Absent, NoLock

\* A client that may start servers fails only if two things went wrong, or one that its second attempt does not help
\* against (main.rs 498-530), for any number of clients and runs.
THEOREM OneFailureStaysHidden == Spec => []OneFailureIsHidden
<1>1. Base /\ HiddenInv => OneFailureIsHidden
  <2> SUFFICES ASSUME Base, HiddenInv, ~(faults + cleanups >= 2),
                      excuse \cap {"stillborn", "hung", "slow", "crashed", "renamed", "unnamed"} = {},
                      NEW c \in Clients
               PROVE  outcome[c] # "error"
    BY DEF OneFailureIsHidden
  <2>1. faults \in Nat /\ cleanups \in Nat
    BY TypeParts, SidecarAssumption DEF Base, CountsOK
  <2>2. Mild
    BY <2>1 DEF Mild
  <2>3. QED
    BY <2>2 DEF HiddenInv, MildInv, NobodyFailed
<1>2. Base /\ HiddenInv /\ [Next]_vars => (Base /\ HiddenInv)'
  BY BaseStep, HiddenStep
<1>3. QED
  BY <1>1, <1>2, BaseInit, HiddenInit, PTL DEF Spec
=============================================================================
