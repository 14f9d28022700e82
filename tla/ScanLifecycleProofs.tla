------------------------- MODULE ScanLifecycleProofs -------------------------
(***************************************************************************)
(* TLAPS proofs of the safety properties of ScanLifecycle, for any sets of *)
(* pickers, scan threads and callers, any configurations and any number of *)
(* requests.  IndInv is the inductive invariant they all follow from.      *)
(***************************************************************************)
EXTENDS ScanLifecycle, TLAPS

\* Positions at which a thread holds a snapshot.
Holding == {"gitApply", "build1", "install1", "build2", "install2", "release"}

\* Positions before the commit, or on the way out without one.
Uncommitted == {"start", "walk", "commit", "abort"}

\* A reader inside post_scan_snapshot found a picker, and nobody can take it.
LockInv == Readers # {} => picker # NoPicker

\* Only a picker that was installed has threads, rescans or requests under way.
LifeInv ==
    /\ picker # NoPicker => life[picker] # "new"
    /\ \A j \in Jobs : pc[j] # "unused" => life[owner[j]] # "new"
    /\ \A j \in Jobs : pc[j] = "respawn" => life[target[j]] # "new"
    /\ \A c \in Callers : callerPc[c] = "spawn" => life[callerTarget[c]] # "new"

HoldInv == \A j \in Jobs : snap[j] # NoSnapshot <=> pc[j] \in Holding

\* A thread that has committed has committed into the slot, and whatever is in
\* the slot under its own picker's name is no longer fresh.
CommittedInv ==
    \A j \in Jobs : (pc[j] \in Committed \cup {"flip"} /\ owner[j] = picker) =>
        sync[picker] # Fresh

\* WaitForScanSeesFiles, with the threads that still owe the files.
FilesInv ==
    (picker # NoPicker /\ host # "spawn" /\ sync[picker] = Fresh) =>
        \E j \in Jobs :
            /\ owner[j] = picker
            /\ pc[j] = "aborted" \/ (pc[j] \in Uncommitted /\ scanning[picker])

IndInv ==
    /\ TypeOK
    /\ LockInv
    /\ LifeInv
    /\ HoldInv
    /\ ScanningHasScanner
    /\ IndexingHasHolder
    /\ CommittedInv
    /\ FilesInv
-----------------------------------------------------------------------------
\* Every step keeps the variables in their types.
LEMMA TypeStep ==
    ASSUME IndInv, [Next]_vars
    PROVE  TypeOK'
<1> USE NameAssumption, ConfigAssumption, BoundAssumption
        DEF IndInv, TypeOK, JobPc, Goto, slot, signals, data, jobs, callers
<1>1. ASSUME NEW j \in Jobs, Start(j) PROVE TypeOK'
  BY <1>1 DEF Start
<1>2. ASSUME NEW j \in Jobs, Walk(j) PROVE TypeOK'
  BY <1>2 DEF Walk
<1>3. ASSUME NEW j \in Jobs, Commit(j) PROVE TypeOK'
  <2>1. CASE picker = NoPicker
    BY <1>3, <2>1 DEF Commit
  <2>2. CASE picker # NoPicker
    BY <1>3, <2>2 DEF Commit
  <2>3. QED
    BY <2>1, <2>2
<1>4. ASSUME NEW j \in Jobs, FlipScanning(j) PROVE TypeOK'
  BY <1>4 DEF FlipScanning
<1>5. ASSUME NEW j \in Jobs, GitCheck(j) PROVE TypeOK'
  BY <1>5 DEF GitCheck
<1>6. ASSUME NEW j \in Jobs, GitSnapshotLoad(j) PROVE TypeOK'
  BY <1>6 DEF GitSnapshotLoad, SnapshotLoad
<1>7. ASSUME NEW j \in Jobs, GitSnapshotStore(j) PROVE TypeOK'
  BY <1>7 DEF GitSnapshotStore, SnapshotStore, LockInv, Readers, Snapshot
<1>8. ASSUME NEW j \in Jobs, GitApplied(j) PROVE TypeOK'
  BY <1>8 DEF GitApplied, SnapshotDrop, HoldInv, Holding, Snapshot
<1>9. ASSUME NEW j \in Jobs, WatchCheck(j) PROVE TypeOK'
  BY <1>9 DEF WatchCheck
<1>10. ASSUME NEW j \in Jobs, WatchInstall(j) PROVE TypeOK'
  BY <1>10 DEF WatchInstall
<1>11. ASSUME NEW j \in Jobs, PostCheck(j) PROVE TypeOK'
  BY <1>11 DEF PostCheck
<1>12. ASSUME NEW j \in Jobs, SetBudget(j) PROVE TypeOK'
  BY <1>12 DEF SetBudget
<1>13. ASSUME NEW j \in Jobs, PostSnapshotLoad(j) PROVE TypeOK'
  BY <1>13 DEF PostSnapshotLoad, SnapshotLoad
<1>14. ASSUME NEW j \in Jobs, PostSnapshotStore(j) PROVE TypeOK'
  BY <1>14 DEF PostSnapshotStore, SnapshotStore, LockInv, Readers, Snapshot
<1>15. ASSUME NEW j \in Jobs, BuildFirst(j) PROVE TypeOK'
  BY <1>15 DEF BuildFirst, BuildIndex
<1>16. ASSUME NEW j \in Jobs, InstallFirst(j) PROVE TypeOK'
  BY <1>16 DEF InstallFirst, InstallIndex, HoldInv, Holding, Snapshot
<1>17. ASSUME NEW j \in Jobs, BuildSecond(j) PROVE TypeOK'
  BY <1>17 DEF BuildSecond, BuildIndex
<1>18. ASSUME NEW j \in Jobs, InstallSecond(j) PROVE TypeOK'
  BY <1>18 DEF InstallSecond, InstallIndex, HoldInv, Holding, Snapshot
<1>19. ASSUME NEW j \in Jobs, PostDone(j) PROVE TypeOK'
  BY <1>19 DEF PostDone, SnapshotDrop, HoldInv, Holding, Snapshot
<1>20. ASSUME NEW j \in Jobs, Drain(j) PROVE TypeOK'
  <2>1. CASE pc[j] = "drain" /\ Goto(j, "renew")
    BY <1>20, <2>1, ZenonT(60) DEF Drain
  <2>2. CASE pc[j] = "drain" /\ Goto(j, "drop")
    BY <1>20, <2>2 DEF Drain
  <2>3. QED
    BY <2>1, <2>2, <1>20 DEF Drain
<1>21. ASSUME NEW j \in Jobs, Renew(j) PROVE TypeOK'
  <2>1. CASE picker = NoPicker
    BY <1>21, <2>1 DEF Renew
  <2>2. CASE picker # NoPicker /\ Busy(picker)
    BY <1>21, <2>2 DEF Renew
  <2>3. CASE picker # NoPicker /\ ~Busy(picker)
    BY <1>21, <2>3 DEF Renew
  <2>4. QED
    BY <2>1, <2>2, <2>3
<1>22. ASSUME NEW j \in Jobs, Rearm(j) PROVE TypeOK'
  BY <1>22 DEF Rearm
<1>23. ASSUME NEW j \in Jobs, Respawn(j) PROVE TypeOK'
  BY <1>23 DEF Respawn, SpawnJob
<1>24. ASSUME NEW j \in Jobs, DropGuard(j) PROVE TypeOK'
  BY <1>24 DEF DropGuard
<1>25. ASSUME NEW c \in Callers, Request(c) PROVE TypeOK'
  BY <1>25 DEF Request
<1>26. ASSUME NEW c \in Callers, RequestSpawn(c) PROVE TypeOK'
  BY <1>26 DEF RequestSpawn, SpawnJob
<1>27. ASSUME NEW c \in Callers, RequestArm(c) PROVE TypeOK'
  BY <1>27 DEF RequestArm
<1>28. ASSUME CancelForRestart PROVE TypeOK'
  BY <1>28 DEF CancelForRestart
<1>29. ASSUME TakePicker PROVE TypeOK'
  BY <1>29 DEF TakePicker, Retire, DropPicker
<1>30. ASSUME RestartFails PROVE TypeOK'
  BY <1>30 DEF RestartFails
<1>31. ASSUME SpawnInitial PROVE TypeOK'
  BY <1>31 DEF SpawnInitial, SpawnJob
<1>32. ASSUME NEW q \in Pickers, InstallPicker(q) PROVE TypeOK'
  BY <1>32 DEF InstallPicker, Retire, DropPicker
<1>33. CASE UNCHANGED vars
  BY <1>33 DEF vars, slot, signals, data, jobs, callers
<1>34. QED
  BY <1>1, <1>2, <1>3, <1>4, <1>5, <1>6, <1>7, <1>8, <1>9, <1>10, <1>11,
     <1>12, <1>13, <1>14, <1>15, <1>16, <1>17, <1>18, <1>19, <1>20, <1>21,
     <1>22, <1>23, <1>24, <1>25, <1>26, <1>27, <1>28, <1>29, <1>30, <1>31,
     <1>32, <1>33 DEF Next, JobStep, CallerStep

\* Writers wait for the readers, so the picker a reader found stays.
LEMMA LockStep ==
    ASSUME IndInv, TypeOK', [Next]_vars
    PROVE  LockInv'
<1> USE NameAssumption DEF IndInv, TypeOK, LockInv, Readers, WriteLock, Goto, slot, signals, data, jobs, callers
<1>1. ASSUME NEW j \in Jobs, Start(j) PROVE LockInv'
  BY <1>1 DEF Start
<1>2. ASSUME NEW j \in Jobs, Walk(j) PROVE LockInv'
  BY <1>2, ZenonT(60) DEF Walk
<1>3. ASSUME NEW j \in Jobs, Commit(j) PROVE LockInv'
  <2>1. CASE picker = NoPicker
    BY <1>3, <2>1, ZenonT(60) DEF Commit
  <2>2. CASE picker # NoPicker
    BY <1>3, <2>2 DEF Commit
  <2>3. QED
    BY <2>1, <2>2
<1>4. ASSUME NEW j \in Jobs, FlipScanning(j) PROVE LockInv'
  BY <1>4 DEF FlipScanning
<1>5. ASSUME NEW j \in Jobs, GitCheck(j) PROVE LockInv'
  BY <1>5, ZenonT(60) DEF GitCheck
<1>6. ASSUME NEW j \in Jobs, GitSnapshotLoad(j) PROVE LockInv'
  BY <1>6 DEF GitSnapshotLoad, SnapshotLoad
<1>7. ASSUME NEW j \in Jobs, GitSnapshotStore(j) PROVE LockInv'
  BY <1>7 DEF GitSnapshotStore, SnapshotStore
<1>8. ASSUME NEW j \in Jobs, GitApplied(j) PROVE LockInv'
  BY <1>8 DEF GitApplied, SnapshotDrop
<1>9. ASSUME NEW j \in Jobs, WatchCheck(j) PROVE LockInv'
  <2>1. CASE Goto(j, "watchInstall")
    BY <1>9, <2>1 DEF WatchCheck
  <2>2. CASE Goto(j, "post")
    BY <1>9, <2>2 DEF WatchCheck
  <2>3. QED
    BY <2>1, <2>2, <1>9 DEF WatchCheck
<1>10. ASSUME NEW j \in Jobs, WatchInstall(j) PROVE LockInv'
  BY <1>10 DEF WatchInstall
<1>11. ASSUME NEW j \in Jobs, PostCheck(j) PROVE LockInv'
  BY <1>11 DEF PostCheck
<1>12. ASSUME NEW j \in Jobs, SetBudget(j) PROVE LockInv'
  BY <1>12 DEF SetBudget
<1>13. ASSUME NEW j \in Jobs, PostSnapshotLoad(j) PROVE LockInv'
  BY <1>13 DEF PostSnapshotLoad, SnapshotLoad
<1>14. ASSUME NEW j \in Jobs, PostSnapshotStore(j) PROVE LockInv'
  BY <1>14 DEF PostSnapshotStore, SnapshotStore
<1>15. ASSUME NEW j \in Jobs, BuildFirst(j) PROVE LockInv'
  BY <1>15 DEF BuildFirst, BuildIndex
<1>16. ASSUME NEW j \in Jobs, InstallFirst(j) PROVE LockInv'
  BY <1>16 DEF InstallFirst, InstallIndex
<1>17. ASSUME NEW j \in Jobs, BuildSecond(j) PROVE LockInv'
  BY <1>17 DEF BuildSecond, BuildIndex
<1>18. ASSUME NEW j \in Jobs, InstallSecond(j) PROVE LockInv'
  BY <1>18 DEF InstallSecond, InstallIndex
<1>19. ASSUME NEW j \in Jobs, PostDone(j) PROVE LockInv'
  BY <1>19 DEF PostDone, SnapshotDrop
<1>20. ASSUME NEW j \in Jobs, Drain(j) PROVE LockInv'
  <2>1. CASE pc[j] = "drain" /\ Goto(j, "renew")
    BY <1>20, <2>1 DEF Drain
  <2>2. CASE pc[j] = "drain" /\ Goto(j, "drop")
    BY <1>20, <2>2 DEF Drain
  <2>3. QED
    BY <2>1, <2>2, <1>20 DEF Drain
<1>21. ASSUME NEW j \in Jobs, Renew(j) PROVE LockInv'
  <2>1. CASE picker = NoPicker
    BY <1>21, <2>1, ZenonT(60) DEF Renew
  <2>2. CASE picker # NoPicker /\ Busy(picker)
    BY <1>21, <2>2 DEF Renew
  <2>3. CASE picker # NoPicker /\ ~Busy(picker)
    BY <1>21, <2>3 DEF Renew
  <2>4. QED
    BY <2>1, <2>2, <2>3
<1>22. ASSUME NEW j \in Jobs, Rearm(j) PROVE LockInv'
  BY <1>22 DEF Rearm
<1>23. ASSUME NEW j \in Jobs, Respawn(j) PROVE LockInv'
  BY <1>23 DEF Respawn, SpawnJob
<1>24. ASSUME NEW j \in Jobs, DropGuard(j) PROVE LockInv'
  BY <1>24 DEF DropGuard
<1>25. ASSUME NEW c \in Callers, Request(c) PROVE LockInv'
  BY <1>25 DEF Request
<1>26. ASSUME NEW c \in Callers, RequestSpawn(c) PROVE LockInv'
  BY <1>26 DEF RequestSpawn, SpawnJob
<1>27. ASSUME NEW c \in Callers, RequestArm(c) PROVE LockInv'
  BY <1>27 DEF RequestArm
<1>28. ASSUME CancelForRestart PROVE LockInv'
  BY <1>28 DEF CancelForRestart
<1>29. ASSUME TakePicker PROVE LockInv'
  BY <1>29 DEF TakePicker, Retire, DropPicker
<1>30. ASSUME RestartFails PROVE LockInv'
  BY <1>30 DEF RestartFails
<1>31. ASSUME SpawnInitial PROVE LockInv'
  BY <1>31 DEF SpawnInitial, SpawnJob
<1>32. ASSUME NEW q \in Pickers, InstallPicker(q) PROVE LockInv'
  BY <1>32 DEF InstallPicker, Retire, DropPicker
<1>33. CASE UNCHANGED vars
  BY <1>33 DEF vars, slot, signals, data, jobs, callers
<1>34. QED
  BY <1>1, <1>2, <1>3, <1>4, <1>5, <1>6, <1>7, <1>8, <1>9, <1>10, <1>11,
     <1>12, <1>13, <1>14, <1>15, <1>16, <1>17, <1>18, <1>19, <1>20, <1>21,
     <1>22, <1>23, <1>24, <1>25, <1>26, <1>27, <1>28, <1>29, <1>30, <1>31,
     <1>32, <1>33 DEF Next, JobStep, CallerStep

\* A picker never becomes new again, and threads are only spawned for one that is not.
LEMMA LifeStep ==
    ASSUME IndInv, TypeOK', [Next]_vars
    PROVE  LifeInv'
<1> USE NameAssumption DEF IndInv, TypeOK, LifeInv, JobPc, Goto, slot, signals, data, jobs, callers
<1>1. ASSUME NEW j \in Jobs, Start(j) PROVE LifeInv'
  BY <1>1 DEF Start
<1>2. ASSUME NEW j \in Jobs, Walk(j) PROVE LifeInv'
  BY <1>2 DEF Walk
<1>3. ASSUME NEW j \in Jobs, Commit(j) PROVE LifeInv'
  <2>1. CASE picker = NoPicker
    BY <1>3, <2>1 DEF Commit
  <2>2. CASE picker # NoPicker
    BY <1>3, <2>2 DEF Commit
  <2>3. QED
    BY <2>1, <2>2
<1>4. ASSUME NEW j \in Jobs, FlipScanning(j) PROVE LifeInv'
  BY <1>4 DEF FlipScanning
<1>5. ASSUME NEW j \in Jobs, GitCheck(j) PROVE LifeInv'
  BY <1>5 DEF GitCheck
<1>6. ASSUME NEW j \in Jobs, GitSnapshotLoad(j) PROVE LifeInv'
  BY <1>6 DEF GitSnapshotLoad, SnapshotLoad
<1>7. ASSUME NEW j \in Jobs, GitSnapshotStore(j) PROVE LifeInv'
  BY <1>7 DEF GitSnapshotStore, SnapshotStore
<1>8. ASSUME NEW j \in Jobs, GitApplied(j) PROVE LifeInv'
  <2>1. /\ pc' = [pc EXCEPT ![j] = "watch"]
        /\ pc[j] # "unused"
        /\ UNCHANGED <<picker, life, owner, target, callerPc, callerTarget>>
    BY <1>8 DEF GitApplied, SnapshotDrop
  <2>2. QED
    BY <1>8, <2>1
<1>9. ASSUME NEW j \in Jobs, WatchCheck(j) PROVE LifeInv'
  BY <1>9 DEF WatchCheck
<1>10. ASSUME NEW j \in Jobs, WatchInstall(j) PROVE LifeInv'
  BY <1>10 DEF WatchInstall
<1>11. ASSUME NEW j \in Jobs, PostCheck(j) PROVE LifeInv'
  BY <1>11 DEF PostCheck
<1>12. ASSUME NEW j \in Jobs, SetBudget(j) PROVE LifeInv'
  BY <1>12 DEF SetBudget
<1>13. ASSUME NEW j \in Jobs, PostSnapshotLoad(j) PROVE LifeInv'
  BY <1>13 DEF PostSnapshotLoad, SnapshotLoad
<1>14. ASSUME NEW j \in Jobs, PostSnapshotStore(j) PROVE LifeInv'
  BY <1>14 DEF PostSnapshotStore, SnapshotStore
<1>15. ASSUME NEW j \in Jobs, BuildFirst(j) PROVE LifeInv'
  BY <1>15 DEF BuildFirst, BuildIndex
<1>16. ASSUME NEW j \in Jobs, InstallFirst(j) PROVE LifeInv'
  BY <1>16 DEF InstallFirst, InstallIndex
<1>17. ASSUME NEW j \in Jobs, BuildSecond(j) PROVE LifeInv'
  BY <1>17 DEF BuildSecond, BuildIndex
<1>18. ASSUME NEW j \in Jobs, InstallSecond(j) PROVE LifeInv'
  BY <1>18 DEF InstallSecond, InstallIndex
<1>19. ASSUME NEW j \in Jobs, PostDone(j) PROVE LifeInv'
  <2>1. /\ pc' = [pc EXCEPT ![j] = "drain"]
        /\ pc[j] # "unused"
        /\ UNCHANGED <<picker, life, owner, target, callerPc, callerTarget>>
    BY <1>19 DEF PostDone, SnapshotDrop
  <2>2. QED
    BY <1>19, <2>1
<1>20. ASSUME NEW j \in Jobs, Drain(j) PROVE LifeInv'
  <2>1. CASE pc[j] = "drain" /\ Goto(j, "renew")
    BY <1>20, <2>1 DEF Drain
  <2>2. CASE pc[j] = "drain" /\ Goto(j, "drop")
    BY <1>20, <2>2 DEF Drain
  <2>3. QED
    BY <2>1, <2>2, <1>20 DEF Drain
<1>21. ASSUME NEW j \in Jobs, Renew(j) PROVE LifeInv'
  <2>1. CASE picker = NoPicker
    BY <1>21, <2>1 DEF Renew
  <2>2. CASE picker # NoPicker /\ Busy(picker)
    BY <1>21, <2>2 DEF Renew
  <2>3. CASE picker # NoPicker /\ ~Busy(picker)
    BY <1>21, <2>3 DEF Renew
  <2>4. QED
    BY <2>1, <2>2, <2>3
<1>22. ASSUME NEW j \in Jobs, Rearm(j) PROVE LifeInv'
  BY <1>22 DEF Rearm
<1>23. ASSUME NEW j \in Jobs, Respawn(j) PROVE LifeInv'
  BY <1>23 DEF Respawn, SpawnJob
<1>24. ASSUME NEW j \in Jobs, DropGuard(j) PROVE LifeInv'
  BY <1>24 DEF DropGuard
<1>25. ASSUME NEW c \in Callers, Request(c) PROVE LifeInv'
  BY <1>25 DEF Request
<1>26. ASSUME NEW c \in Callers, RequestSpawn(c) PROVE LifeInv'
  BY <1>26 DEF RequestSpawn, SpawnJob
<1>27. ASSUME NEW c \in Callers, RequestArm(c) PROVE LifeInv'
  BY <1>27 DEF RequestArm
<1>28. ASSUME CancelForRestart PROVE LifeInv'
  BY <1>28 DEF CancelForRestart
<1>29. ASSUME TakePicker PROVE LifeInv'
  BY <1>29 DEF TakePicker, Retire, DropPicker
<1>30. ASSUME RestartFails PROVE LifeInv'
  BY <1>30 DEF RestartFails
<1>31. ASSUME SpawnInitial PROVE LifeInv'
  BY <1>31 DEF SpawnInitial, SpawnJob
<1>32. ASSUME NEW q \in Pickers, InstallPicker(q) PROVE LifeInv'
  BY <1>32 DEF InstallPicker, Retire, DropPicker
<1>33. CASE UNCHANGED vars
  BY <1>33 DEF vars, slot, signals, data, jobs, callers
<1>34. QED
  BY <1>1, <1>2, <1>3, <1>4, <1>5, <1>6, <1>7, <1>8, <1>9, <1>10, <1>11,
     <1>12, <1>13, <1>14, <1>15, <1>16, <1>17, <1>18, <1>19, <1>20, <1>21,
     <1>22, <1>23, <1>24, <1>25, <1>26, <1>27, <1>28, <1>29, <1>30, <1>31,
     <1>32, <1>33 DEF Next, JobStep, CallerStep

\* A snapshot is held exactly between its creation and its drop.
LEMMA HoldStep ==
    ASSUME IndInv, TypeOK', [Next]_vars
    PROVE  HoldInv'
<1> USE NameAssumption DEF IndInv, TypeOK, HoldInv, Holding, Goto, slot, signals, data, jobs, callers
<1>1. ASSUME NEW j \in Jobs, Start(j) PROVE HoldInv'
  BY <1>1, ZenonT(60) DEF Start
<1>2. ASSUME NEW j \in Jobs, Walk(j) PROVE HoldInv'
  BY <1>2 DEF Walk
<1>3. ASSUME NEW j \in Jobs, Commit(j) PROVE HoldInv'
  <2>1. CASE picker = NoPicker
    BY <1>3, <2>1 DEF Commit
  <2>2. CASE picker # NoPicker
    BY <1>3, <2>2 DEF Commit
  <2>3. QED
    BY <2>1, <2>2
<1>4. ASSUME NEW j \in Jobs, FlipScanning(j) PROVE HoldInv'
  BY <1>4 DEF FlipScanning
<1>5. ASSUME NEW j \in Jobs, GitCheck(j) PROVE HoldInv'
  BY <1>5 DEF GitCheck
<1>6. ASSUME NEW j \in Jobs, GitSnapshotLoad(j) PROVE HoldInv'
  BY <1>6 DEF GitSnapshotLoad, SnapshotLoad
<1>7. ASSUME NEW j \in Jobs, GitSnapshotStore(j) PROVE HoldInv'
  BY <1>7 DEF GitSnapshotStore, SnapshotStore, LockInv, Readers, Snapshot
<1>8. ASSUME NEW j \in Jobs, GitApplied(j) PROVE HoldInv'
  BY <1>8 DEF GitApplied, SnapshotDrop
<1>9. ASSUME NEW j \in Jobs, WatchCheck(j) PROVE HoldInv'
  BY <1>9 DEF WatchCheck
<1>10. ASSUME NEW j \in Jobs, WatchInstall(j) PROVE HoldInv'
  BY <1>10 DEF WatchInstall
<1>11. ASSUME NEW j \in Jobs, PostCheck(j) PROVE HoldInv'
  BY <1>11 DEF PostCheck
<1>12. ASSUME NEW j \in Jobs, SetBudget(j) PROVE HoldInv'
  BY <1>12 DEF SetBudget
<1>13. ASSUME NEW j \in Jobs, PostSnapshotLoad(j) PROVE HoldInv'
  BY <1>13 DEF PostSnapshotLoad, SnapshotLoad
<1>14. ASSUME NEW j \in Jobs, PostSnapshotStore(j) PROVE HoldInv'
  BY <1>14 DEF PostSnapshotStore, SnapshotStore, LockInv, Readers, Snapshot
<1>15. ASSUME NEW j \in Jobs, BuildFirst(j) PROVE HoldInv'
  BY <1>15 DEF BuildFirst, BuildIndex
<1>16. ASSUME NEW j \in Jobs, InstallFirst(j) PROVE HoldInv'
  BY <1>16 DEF InstallFirst, InstallIndex
<1>17. ASSUME NEW j \in Jobs, BuildSecond(j) PROVE HoldInv'
  BY <1>17 DEF BuildSecond, BuildIndex
<1>18. ASSUME NEW j \in Jobs, InstallSecond(j) PROVE HoldInv'
  BY <1>18 DEF InstallSecond, InstallIndex
<1>19. ASSUME NEW j \in Jobs, PostDone(j) PROVE HoldInv'
  BY <1>19 DEF PostDone, SnapshotDrop
<1>20. ASSUME NEW j \in Jobs, Drain(j) PROVE HoldInv'
  <2>1. CASE pc[j] = "drain" /\ Goto(j, "renew")
    BY <1>20, <2>1 DEF Drain
  <2>2. CASE pc[j] = "drain" /\ Goto(j, "drop")
    BY <1>20, <2>2 DEF Drain
  <2>3. QED
    BY <2>1, <2>2, <1>20 DEF Drain
<1>21. ASSUME NEW j \in Jobs, Renew(j) PROVE HoldInv'
  <2>1. CASE picker = NoPicker
    BY <1>21, <2>1 DEF Renew
  <2>2. CASE picker # NoPicker /\ Busy(picker)
    BY <1>21, <2>2 DEF Renew
  <2>3. CASE picker # NoPicker /\ ~Busy(picker)
    BY <1>21, <2>3 DEF Renew
  <2>4. QED
    BY <2>1, <2>2, <2>3
<1>22. ASSUME NEW j \in Jobs, Rearm(j) PROVE HoldInv'
  BY <1>22 DEF Rearm
<1>23. ASSUME NEW j \in Jobs, Respawn(j) PROVE HoldInv'
  BY <1>23 DEF Respawn, SpawnJob
<1>24. ASSUME NEW j \in Jobs, DropGuard(j) PROVE HoldInv'
  BY <1>24 DEF DropGuard
<1>25. ASSUME NEW c \in Callers, Request(c) PROVE HoldInv'
  BY <1>25 DEF Request
<1>26. ASSUME NEW c \in Callers, RequestSpawn(c) PROVE HoldInv'
  BY <1>26 DEF RequestSpawn, SpawnJob
<1>27. ASSUME NEW c \in Callers, RequestArm(c) PROVE HoldInv'
  BY <1>27 DEF RequestArm
<1>28. ASSUME CancelForRestart PROVE HoldInv'
  BY <1>28 DEF CancelForRestart
<1>29. ASSUME TakePicker PROVE HoldInv'
  BY <1>29 DEF TakePicker, Retire, DropPicker
<1>30. ASSUME RestartFails PROVE HoldInv'
  BY <1>30 DEF RestartFails
<1>31. ASSUME SpawnInitial PROVE HoldInv'
  BY <1>31 DEF SpawnInitial, SpawnJob
<1>32. ASSUME NEW q \in Pickers, InstallPicker(q) PROVE HoldInv'
  BY <1>32 DEF InstallPicker, Retire, DropPicker
<1>33. CASE UNCHANGED vars
  BY <1>33 DEF vars, slot, signals, data, jobs, callers
<1>34. QED
  BY <1>1, <1>2, <1>3, <1>4, <1>5, <1>6, <1>7, <1>8, <1>9, <1>10, <1>11,
     <1>12, <1>13, <1>14, <1>15, <1>16, <1>17, <1>18, <1>19, <1>20, <1>21,
     <1>22, <1>23, <1>24, <1>25, <1>26, <1>27, <1>28, <1>29, <1>30, <1>31,
     <1>32, <1>33 DEF Next, JobStep, CallerStep

\* `scanning` is raised for a thread that has yet to lower it, and lowered by it alone.
LEMMA ScanningStep ==
    ASSUME IndInv, TypeOK', [Next]_vars
    PROVE  ScanningHasScanner'
<1> USE NameAssumption DEF IndInv, TypeOK, ScanningHasScanner, Scanning, Goto, slot, signals, data, jobs, callers
<1>1. ASSUME NEW j \in Jobs, Start(j) PROVE ScanningHasScanner'
  BY <1>1 DEF Start
<1>2. ASSUME NEW j \in Jobs, Walk(j) PROVE ScanningHasScanner'
  BY <1>2 DEF Walk
<1>3. ASSUME NEW j \in Jobs, Commit(j) PROVE ScanningHasScanner'
  <2>1. CASE picker = NoPicker
    BY <1>3, <2>1 DEF Commit
  <2>2. CASE picker # NoPicker
    BY <1>3, <2>2 DEF Commit
  <2>3. QED
    BY <2>1, <2>2
<1>4. ASSUME NEW j \in Jobs, FlipScanning(j) PROVE ScanningHasScanner'
  BY <1>4 DEF FlipScanning
<1>5. ASSUME NEW j \in Jobs, GitCheck(j) PROVE ScanningHasScanner'
  BY <1>5 DEF GitCheck
<1>6. ASSUME NEW j \in Jobs, GitSnapshotLoad(j) PROVE ScanningHasScanner'
  BY <1>6 DEF GitSnapshotLoad, SnapshotLoad
<1>7. ASSUME NEW j \in Jobs, GitSnapshotStore(j) PROVE ScanningHasScanner'
  BY <1>7 DEF GitSnapshotStore, SnapshotStore
<1>8. ASSUME NEW j \in Jobs, GitApplied(j) PROVE ScanningHasScanner'
  BY <1>8 DEF GitApplied, SnapshotDrop
<1>9. ASSUME NEW j \in Jobs, WatchCheck(j) PROVE ScanningHasScanner'
  BY <1>9 DEF WatchCheck
<1>10. ASSUME NEW j \in Jobs, WatchInstall(j) PROVE ScanningHasScanner'
  BY <1>10 DEF WatchInstall
<1>11. ASSUME NEW j \in Jobs, PostCheck(j) PROVE ScanningHasScanner'
  BY <1>11 DEF PostCheck
<1>12. ASSUME NEW j \in Jobs, SetBudget(j) PROVE ScanningHasScanner'
  BY <1>12 DEF SetBudget
<1>13. ASSUME NEW j \in Jobs, PostSnapshotLoad(j) PROVE ScanningHasScanner'
  BY <1>13 DEF PostSnapshotLoad, SnapshotLoad
<1>14. ASSUME NEW j \in Jobs, PostSnapshotStore(j) PROVE ScanningHasScanner'
  BY <1>14 DEF PostSnapshotStore, SnapshotStore
<1>15. ASSUME NEW j \in Jobs, BuildFirst(j) PROVE ScanningHasScanner'
  BY <1>15 DEF BuildFirst, BuildIndex
<1>16. ASSUME NEW j \in Jobs, InstallFirst(j) PROVE ScanningHasScanner'
  BY <1>16 DEF InstallFirst, InstallIndex
<1>17. ASSUME NEW j \in Jobs, BuildSecond(j) PROVE ScanningHasScanner'
  BY <1>17 DEF BuildSecond, BuildIndex
<1>18. ASSUME NEW j \in Jobs, InstallSecond(j) PROVE ScanningHasScanner'
  BY <1>18 DEF InstallSecond, InstallIndex
<1>19. ASSUME NEW j \in Jobs, PostDone(j) PROVE ScanningHasScanner'
  BY <1>19 DEF PostDone, SnapshotDrop
<1>20. ASSUME NEW j \in Jobs, Drain(j) PROVE ScanningHasScanner'
  <2>1. CASE pc[j] = "drain" /\ Goto(j, "renew")
    BY <1>20, <2>1 DEF Drain
  <2>2. CASE pc[j] = "drain" /\ Goto(j, "drop")
    BY <1>20, <2>2 DEF Drain
  <2>3. QED
    BY <2>1, <2>2, <1>20 DEF Drain
<1>21. ASSUME NEW j \in Jobs, Renew(j) PROVE ScanningHasScanner'
  <2>1. CASE picker = NoPicker
    BY <1>21, <2>1 DEF Renew
  <2>2. CASE picker # NoPicker /\ Busy(picker)
    BY <1>21, <2>2 DEF Renew
  <2>3. CASE picker # NoPicker /\ ~Busy(picker)
    BY <1>21, <2>3 DEF Renew
  <2>4. QED
    BY <2>1, <2>2, <2>3
<1>22. ASSUME NEW j \in Jobs, Rearm(j) PROVE ScanningHasScanner'
  BY <1>22 DEF Rearm
<1>23. ASSUME NEW j \in Jobs, Respawn(j) PROVE ScanningHasScanner'
  BY <1>23 DEF Respawn, SpawnJob
<1>24. ASSUME NEW j \in Jobs, DropGuard(j) PROVE ScanningHasScanner'
  BY <1>24 DEF DropGuard
<1>25. ASSUME NEW c \in Callers, Request(c) PROVE ScanningHasScanner'
  BY <1>25 DEF Request
<1>26. ASSUME NEW c \in Callers, RequestSpawn(c) PROVE ScanningHasScanner'
  BY <1>26 DEF RequestSpawn, SpawnJob
<1>27. ASSUME NEW c \in Callers, RequestArm(c) PROVE ScanningHasScanner'
  BY <1>27 DEF RequestArm
<1>28. ASSUME CancelForRestart PROVE ScanningHasScanner'
  BY <1>28 DEF CancelForRestart
<1>29. ASSUME TakePicker PROVE ScanningHasScanner'
  BY <1>29 DEF TakePicker, Retire, DropPicker
<1>30. ASSUME RestartFails PROVE ScanningHasScanner'
  BY <1>30 DEF RestartFails
<1>31. ASSUME SpawnInitial PROVE ScanningHasScanner'
  BY <1>31 DEF SpawnInitial, SpawnJob
<1>32. ASSUME NEW q \in Pickers, InstallPicker(q) PROVE ScanningHasScanner'
  BY <1>32 DEF InstallPicker, Retire, DropPicker
<1>33. CASE UNCHANGED vars
  BY <1>33 DEF vars, slot, signals, data, jobs, callers
<1>34. QED
  BY <1>1, <1>2, <1>3, <1>4, <1>5, <1>6, <1>7, <1>8, <1>9, <1>10, <1>11,
     <1>12, <1>13, <1>14, <1>15, <1>16, <1>17, <1>18, <1>19, <1>20, <1>21,
     <1>22, <1>23, <1>24, <1>25, <1>26, <1>27, <1>28, <1>29, <1>30, <1>31,
     <1>32, <1>33 DEF Next, JobStep, CallerStep

\* The flag goes up with a snapshot and comes down with it.
LEMMA IndexingStep ==
    ASSUME IndInv, TypeOK', HoldInv', [Next]_vars
    PROVE  IndexingHasHolder'
<1> USE NameAssumption DEF IndInv, TypeOK, IndexingHasHolder, HoldInv, Holding, Goto, slot, signals, data, jobs, callers
<1>1. ASSUME NEW j \in Jobs, Start(j) PROVE IndexingHasHolder'
  BY <1>1 DEF Start
<1>2. ASSUME NEW j \in Jobs, Walk(j) PROVE IndexingHasHolder'
  BY <1>2 DEF Walk
<1>3. ASSUME NEW j \in Jobs, Commit(j) PROVE IndexingHasHolder'
  <2>1. CASE picker = NoPicker
    BY <1>3, <2>1 DEF Commit
  <2>2. CASE picker # NoPicker
    BY <1>3, <2>2 DEF Commit
  <2>3. QED
    BY <2>1, <2>2
<1>4. ASSUME NEW j \in Jobs, FlipScanning(j) PROVE IndexingHasHolder'
  BY <1>4 DEF FlipScanning
<1>5. ASSUME NEW j \in Jobs, GitCheck(j) PROVE IndexingHasHolder'
  BY <1>5 DEF GitCheck
<1>6. ASSUME NEW j \in Jobs, GitSnapshotLoad(j) PROVE IndexingHasHolder'
  BY <1>6 DEF GitSnapshotLoad, SnapshotLoad
<1>7. ASSUME NEW j \in Jobs, GitSnapshotStore(j) PROVE IndexingHasHolder'
  BY <1>7 DEF GitSnapshotStore, SnapshotStore, LockInv, Readers, Snapshot
<1>8. ASSUME NEW j \in Jobs, GitApplied(j) PROVE IndexingHasHolder'
  BY <1>8 DEF GitApplied, SnapshotDrop
<1>9. ASSUME NEW j \in Jobs, WatchCheck(j) PROVE IndexingHasHolder'
  BY <1>9 DEF WatchCheck
<1>10. ASSUME NEW j \in Jobs, WatchInstall(j) PROVE IndexingHasHolder'
  BY <1>10 DEF WatchInstall
<1>11. ASSUME NEW j \in Jobs, PostCheck(j) PROVE IndexingHasHolder'
  BY <1>11 DEF PostCheck
<1>12. ASSUME NEW j \in Jobs, SetBudget(j) PROVE IndexingHasHolder'
  BY <1>12 DEF SetBudget
<1>13. ASSUME NEW j \in Jobs, PostSnapshotLoad(j) PROVE IndexingHasHolder'
  BY <1>13 DEF PostSnapshotLoad, SnapshotLoad
<1>14. ASSUME NEW j \in Jobs, PostSnapshotStore(j) PROVE IndexingHasHolder'
  BY <1>14 DEF PostSnapshotStore, SnapshotStore, LockInv, Readers, Snapshot
<1>15. ASSUME NEW j \in Jobs, BuildFirst(j) PROVE IndexingHasHolder'
  BY <1>15 DEF BuildFirst, BuildIndex
<1>16. ASSUME NEW j \in Jobs, InstallFirst(j) PROVE IndexingHasHolder'
  BY <1>16 DEF InstallFirst, InstallIndex
<1>17. ASSUME NEW j \in Jobs, BuildSecond(j) PROVE IndexingHasHolder'
  BY <1>17 DEF BuildSecond, BuildIndex
<1>18. ASSUME NEW j \in Jobs, InstallSecond(j) PROVE IndexingHasHolder'
  BY <1>18 DEF InstallSecond, InstallIndex
<1>19. ASSUME NEW j \in Jobs, PostDone(j) PROVE IndexingHasHolder'
  BY <1>19 DEF PostDone, SnapshotDrop
<1>20. ASSUME NEW j \in Jobs, Drain(j) PROVE IndexingHasHolder'
  <2>1. CASE pc[j] = "drain" /\ Goto(j, "renew")
    BY <1>20, <2>1 DEF Drain
  <2>2. CASE pc[j] = "drain" /\ Goto(j, "drop")
    BY <1>20, <2>2 DEF Drain
  <2>3. QED
    BY <2>1, <2>2, <1>20 DEF Drain
<1>21. ASSUME NEW j \in Jobs, Renew(j) PROVE IndexingHasHolder'
  <2>1. CASE picker = NoPicker
    BY <1>21, <2>1 DEF Renew
  <2>2. CASE picker # NoPicker /\ Busy(picker)
    BY <1>21, <2>2 DEF Renew
  <2>3. CASE picker # NoPicker /\ ~Busy(picker)
    BY <1>21, <2>3 DEF Renew
  <2>4. QED
    BY <2>1, <2>2, <2>3
<1>22. ASSUME NEW j \in Jobs, Rearm(j) PROVE IndexingHasHolder'
  BY <1>22 DEF Rearm
<1>23. ASSUME NEW j \in Jobs, Respawn(j) PROVE IndexingHasHolder'
  BY <1>23 DEF Respawn, SpawnJob
<1>24. ASSUME NEW j \in Jobs, DropGuard(j) PROVE IndexingHasHolder'
  BY <1>24 DEF DropGuard
<1>25. ASSUME NEW c \in Callers, Request(c) PROVE IndexingHasHolder'
  BY <1>25 DEF Request
<1>26. ASSUME NEW c \in Callers, RequestSpawn(c) PROVE IndexingHasHolder'
  BY <1>26 DEF RequestSpawn, SpawnJob
<1>27. ASSUME NEW c \in Callers, RequestArm(c) PROVE IndexingHasHolder'
  BY <1>27 DEF RequestArm
<1>28. ASSUME CancelForRestart PROVE IndexingHasHolder'
  BY <1>28 DEF CancelForRestart
<1>29. ASSUME TakePicker PROVE IndexingHasHolder'
  BY <1>29 DEF TakePicker, Retire, DropPicker
<1>30. ASSUME RestartFails PROVE IndexingHasHolder'
  BY <1>30 DEF RestartFails
<1>31. ASSUME SpawnInitial PROVE IndexingHasHolder'
  BY <1>31 DEF SpawnInitial, SpawnJob
<1>32. ASSUME NEW q \in Pickers, InstallPicker(q) PROVE IndexingHasHolder'
  BY <1>32 DEF InstallPicker, Retire, DropPicker
<1>33. CASE UNCHANGED vars
  BY <1>33 DEF vars, slot, signals, data, jobs, callers
<1>34. QED
  BY <1>1, <1>2, <1>3, <1>4, <1>5, <1>6, <1>7, <1>8, <1>9, <1>10, <1>11,
     <1>12, <1>13, <1>14, <1>15, <1>16, <1>17, <1>18, <1>19, <1>20, <1>21,
     <1>22, <1>23, <1>24, <1>25, <1>26, <1>27, <1>28, <1>29, <1>30, <1>31,
     <1>32, <1>33 DEF Next, JobStep, CallerStep

\* A commit leaves its mark in the slot, and a picker is installed only once.
LEMMA CommittedStep ==
    ASSUME IndInv, TypeOK', [Next]_vars
    PROVE  CommittedInv'
<1> USE NameAssumption DEF IndInv, TypeOK, CommittedInv, Committed, Scanning, Finished, JobPc, Goto, slot, signals, data, jobs, callers
<1>1. ASSUME NEW j \in Jobs, Start(j) PROVE CommittedInv'
  BY <1>1 DEF Start
<1>2. ASSUME NEW j \in Jobs, Walk(j) PROVE CommittedInv'
  BY <1>2 DEF Walk
<1>3. ASSUME NEW j \in Jobs, Commit(j) PROVE CommittedInv'
  <2>1. CASE picker = NoPicker
    BY <1>3, <2>1 DEF Commit
  <2>2. CASE picker # NoPicker
    BY <1>3, <2>2 DEF Commit
  <2>3. QED
    BY <2>1, <2>2
<1>4. ASSUME NEW j \in Jobs, FlipScanning(j) PROVE CommittedInv'
  BY <1>4 DEF FlipScanning
<1>5. ASSUME NEW j \in Jobs, GitCheck(j) PROVE CommittedInv'
  BY <1>5 DEF GitCheck
<1>6. ASSUME NEW j \in Jobs, GitSnapshotLoad(j) PROVE CommittedInv'
  BY <1>6 DEF GitSnapshotLoad, SnapshotLoad
<1>7. ASSUME NEW j \in Jobs, GitSnapshotStore(j) PROVE CommittedInv'
  BY <1>7 DEF GitSnapshotStore, SnapshotStore
<1>8. ASSUME NEW j \in Jobs, GitApplied(j) PROVE CommittedInv'
  BY <1>8 DEF GitApplied, SnapshotDrop
<1>9. ASSUME NEW j \in Jobs, WatchCheck(j) PROVE CommittedInv'
  BY <1>9 DEF WatchCheck
<1>10. ASSUME NEW j \in Jobs, WatchInstall(j) PROVE CommittedInv'
  BY <1>10 DEF WatchInstall
<1>11. ASSUME NEW j \in Jobs, PostCheck(j) PROVE CommittedInv'
  BY <1>11 DEF PostCheck
<1>12. ASSUME NEW j \in Jobs, SetBudget(j) PROVE CommittedInv'
  BY <1>12 DEF SetBudget
<1>13. ASSUME NEW j \in Jobs, PostSnapshotLoad(j) PROVE CommittedInv'
  BY <1>13 DEF PostSnapshotLoad, SnapshotLoad
<1>14. ASSUME NEW j \in Jobs, PostSnapshotStore(j) PROVE CommittedInv'
  BY <1>14 DEF PostSnapshotStore, SnapshotStore
<1>15. ASSUME NEW j \in Jobs, BuildFirst(j) PROVE CommittedInv'
  BY <1>15 DEF BuildFirst, BuildIndex
<1>16. ASSUME NEW j \in Jobs, InstallFirst(j) PROVE CommittedInv'
  BY <1>16 DEF InstallFirst, InstallIndex
<1>17. ASSUME NEW j \in Jobs, BuildSecond(j) PROVE CommittedInv'
  BY <1>17 DEF BuildSecond, BuildIndex
<1>18. ASSUME NEW j \in Jobs, InstallSecond(j) PROVE CommittedInv'
  BY <1>18 DEF InstallSecond, InstallIndex
<1>19. ASSUME NEW j \in Jobs, PostDone(j) PROVE CommittedInv'
  BY <1>19 DEF PostDone, SnapshotDrop
<1>20. ASSUME NEW j \in Jobs, Drain(j) PROVE CommittedInv'
  <2>1. CASE pc[j] = "drain" /\ Goto(j, "renew")
    BY <1>20, <2>1 DEF Drain
  <2>2. CASE pc[j] = "drain" /\ Goto(j, "drop")
    BY <1>20, <2>2 DEF Drain
  <2>3. QED
    BY <2>1, <2>2, <1>20 DEF Drain
<1>21. ASSUME NEW j \in Jobs, Renew(j) PROVE CommittedInv'
  <2>1. CASE picker = NoPicker
    BY <1>21, <2>1 DEF Renew
  <2>2. CASE picker # NoPicker /\ Busy(picker)
    BY <1>21, <2>2 DEF Renew
  <2>3. CASE picker # NoPicker /\ ~Busy(picker)
    BY <1>21, <2>3 DEF Renew
  <2>4. QED
    BY <2>1, <2>2, <2>3
<1>22. ASSUME NEW j \in Jobs, Rearm(j) PROVE CommittedInv'
  BY <1>22 DEF Rearm
<1>23. ASSUME NEW j \in Jobs, Respawn(j) PROVE CommittedInv'
  BY <1>23 DEF Respawn, SpawnJob
<1>24. ASSUME NEW j \in Jobs, DropGuard(j) PROVE CommittedInv'
  BY <1>24 DEF DropGuard
<1>25. ASSUME NEW c \in Callers, Request(c) PROVE CommittedInv'
  BY <1>25 DEF Request
<1>26. ASSUME NEW c \in Callers, RequestSpawn(c) PROVE CommittedInv'
  BY <1>26 DEF RequestSpawn, SpawnJob
<1>27. ASSUME NEW c \in Callers, RequestArm(c) PROVE CommittedInv'
  BY <1>27 DEF RequestArm
<1>28. ASSUME CancelForRestart PROVE CommittedInv'
  BY <1>28 DEF CancelForRestart
<1>29. ASSUME TakePicker PROVE CommittedInv'
  BY <1>29 DEF TakePicker, Retire, DropPicker, LifeInv
<1>30. ASSUME RestartFails PROVE CommittedInv'
  BY <1>30 DEF RestartFails
<1>31. ASSUME SpawnInitial PROVE CommittedInv'
  BY <1>31 DEF SpawnInitial, SpawnJob
<1>32. ASSUME NEW q \in Pickers, InstallPicker(q) PROVE CommittedInv'
  BY <1>32 DEF InstallPicker, Retire, DropPicker, LifeInv
<1>33. CASE UNCHANGED vars
  BY <1>33 DEF vars, slot, signals, data, jobs, callers
<1>34. QED
  BY <1>1, <1>2, <1>3, <1>4, <1>5, <1>6, <1>7, <1>8, <1>9, <1>10, <1>11,
     <1>12, <1>13, <1>14, <1>15, <1>16, <1>17, <1>18, <1>19, <1>20, <1>21,
     <1>22, <1>23, <1>24, <1>25, <1>26, <1>27, <1>28, <1>29, <1>30, <1>31,
     <1>32, <1>33 DEF Next, JobStep, CallerStep

\* Until the files are there, a thread owes them, and it keeps `scanning` up or fails.
LEMMA FilesStep ==
    ASSUME IndInv, TypeOK', CommittedInv', [Next]_vars
    PROVE  FilesInv'
<1> USE NameAssumption DEF IndInv, TypeOK, FilesInv, Uncommitted, CommittedInv, Committed, Scanning, Finished, JobPc, Goto, slot, signals, data, jobs, callers
<1>1. ASSUME NEW j \in Jobs, Start(j) PROVE FilesInv'
  BY <1>1 DEF Start
<1>2. ASSUME NEW j \in Jobs, Walk(j) PROVE FilesInv'
  BY <1>2 DEF Walk
<1>3. ASSUME NEW j \in Jobs, Commit(j) PROVE FilesInv'
  <2>1. CASE picker = NoPicker
    BY <1>3, <2>1 DEF Commit
  <2>2. CASE picker # NoPicker
    BY <1>3, <2>2 DEF Commit
  <2>3. QED
    BY <2>1, <2>2
<1>4. ASSUME NEW j \in Jobs, FlipScanning(j) PROVE FilesInv'
  BY <1>4 DEF FlipScanning
<1>5. ASSUME NEW j \in Jobs, GitCheck(j) PROVE FilesInv'
  BY <1>5 DEF GitCheck
<1>6. ASSUME NEW j \in Jobs, GitSnapshotLoad(j) PROVE FilesInv'
  BY <1>6 DEF GitSnapshotLoad, SnapshotLoad
<1>7. ASSUME NEW j \in Jobs, GitSnapshotStore(j) PROVE FilesInv'
  BY <1>7 DEF GitSnapshotStore, SnapshotStore
<1>8. ASSUME NEW j \in Jobs, GitApplied(j) PROVE FilesInv'
  BY <1>8 DEF GitApplied, SnapshotDrop
<1>9. ASSUME NEW j \in Jobs, WatchCheck(j) PROVE FilesInv'
  BY <1>9 DEF WatchCheck
<1>10. ASSUME NEW j \in Jobs, WatchInstall(j) PROVE FilesInv'
  BY <1>10 DEF WatchInstall
<1>11. ASSUME NEW j \in Jobs, PostCheck(j) PROVE FilesInv'
  BY <1>11 DEF PostCheck
<1>12. ASSUME NEW j \in Jobs, SetBudget(j) PROVE FilesInv'
  BY <1>12 DEF SetBudget
<1>13. ASSUME NEW j \in Jobs, PostSnapshotLoad(j) PROVE FilesInv'
  BY <1>13 DEF PostSnapshotLoad, SnapshotLoad
<1>14. ASSUME NEW j \in Jobs, PostSnapshotStore(j) PROVE FilesInv'
  BY <1>14 DEF PostSnapshotStore, SnapshotStore
<1>15. ASSUME NEW j \in Jobs, BuildFirst(j) PROVE FilesInv'
  BY <1>15 DEF BuildFirst, BuildIndex
<1>16. ASSUME NEW j \in Jobs, InstallFirst(j) PROVE FilesInv'
  BY <1>16 DEF InstallFirst, InstallIndex
<1>17. ASSUME NEW j \in Jobs, BuildSecond(j) PROVE FilesInv'
  BY <1>17 DEF BuildSecond, BuildIndex
<1>18. ASSUME NEW j \in Jobs, InstallSecond(j) PROVE FilesInv'
  BY <1>18 DEF InstallSecond, InstallIndex
<1>19. ASSUME NEW j \in Jobs, PostDone(j) PROVE FilesInv'
  BY <1>19 DEF PostDone, SnapshotDrop
<1>20. ASSUME NEW j \in Jobs, Drain(j) PROVE FilesInv'
  <2>1. CASE pc[j] = "drain" /\ Goto(j, "renew")
    BY <1>20, <2>1 DEF Drain
  <2>2. CASE pc[j] = "drain" /\ Goto(j, "drop")
    BY <1>20, <2>2 DEF Drain
  <2>3. QED
    BY <2>1, <2>2, <1>20 DEF Drain
<1>21. ASSUME NEW j \in Jobs, Renew(j) PROVE FilesInv'
  <2>1. CASE picker = NoPicker
    BY <1>21, <2>1 DEF Renew
  <2>2. CASE picker # NoPicker /\ Busy(picker)
    BY <1>21, <2>2 DEF Renew
  <2>3. CASE picker # NoPicker /\ ~Busy(picker)
    BY <1>21, <2>3 DEF Renew
  <2>4. QED
    BY <2>1, <2>2, <2>3
<1>22. ASSUME NEW j \in Jobs, Rearm(j) PROVE FilesInv'
  BY <1>22 DEF Rearm
<1>23. ASSUME NEW j \in Jobs, Respawn(j) PROVE FilesInv'
  BY <1>23 DEF Respawn, SpawnJob
<1>24. ASSUME NEW j \in Jobs, DropGuard(j) PROVE FilesInv'
  BY <1>24 DEF DropGuard
<1>25. ASSUME NEW c \in Callers, Request(c) PROVE FilesInv'
  BY <1>25 DEF Request
<1>26. ASSUME NEW c \in Callers, RequestSpawn(c) PROVE FilesInv'
  BY <1>26 DEF RequestSpawn, SpawnJob
<1>27. ASSUME NEW c \in Callers, RequestArm(c) PROVE FilesInv'
  BY <1>27 DEF RequestArm
<1>28. ASSUME CancelForRestart PROVE FilesInv'
  BY <1>28 DEF CancelForRestart
<1>29. ASSUME TakePicker PROVE FilesInv'
  BY <1>29 DEF TakePicker, Retire, DropPicker
<1>30. ASSUME RestartFails PROVE FilesInv'
  BY <1>30 DEF RestartFails
<1>31. ASSUME SpawnInitial PROVE FilesInv'
  BY <1>31 DEF SpawnInitial, SpawnJob
<1>32. ASSUME NEW q \in Pickers, InstallPicker(q) PROVE FilesInv'
  BY <1>32 DEF InstallPicker, Retire, DropPicker
<1>33. CASE UNCHANGED vars
  BY <1>33 DEF vars, slot, signals, data, jobs, callers
<1>34. QED
  BY <1>1, <1>2, <1>3, <1>4, <1>5, <1>6, <1>7, <1>8, <1>9, <1>10, <1>11,
     <1>12, <1>13, <1>14, <1>15, <1>16, <1>17, <1>18, <1>19, <1>20, <1>21,
     <1>22, <1>23, <1>24, <1>25, <1>26, <1>27, <1>28, <1>29, <1>30, <1>31,
     <1>32, <1>33 DEF Next, JobStep, CallerStep

-----------------------------------------------------------------------------
\* IndInv holds initially.
LEMMA IndInit == Init => IndInv
<1> SUFFICES ASSUME Init PROVE IndInv
  OBVIOUS
<1> USE NameAssumption, ConfigAssumption, BoundAssumption DEF Init
<1>1. TypeOK
  <2>1. config \in [Pickers -> Config]
    <3>1. [warmup |-> FALSE, content_indexing |-> FALSE, watch |-> FALSE,
           explicit_budget |-> FALSE] \in Config
      BY DEF Config
    <3>2. QED
      BY <3>1
  <2>2. QED
    BY <2>1 DEF TypeOK, JobPc
<1>2. LockInv /\ LifeInv /\ HoldInv
  BY DEF LockInv, LifeInv, HoldInv, Readers, Holding
<1>3. ScanningHasScanner /\ IndexingHasHolder
  BY DEF ScanningHasScanner, IndexingHasHolder
<1>4. CommittedInv /\ FilesInv
  BY DEF CommittedInv, FilesInv, Committed, Scanning, Finished
<1>5. QED
  BY <1>1, <1>2, <1>3, <1>4 DEF IndInv

\* IndInv is inductive: the threads of the orchestrator, its callers and its
\* host keep it in every step.
THEOREM Invariance == Spec => []IndInv
<1>1. IndInv /\ [Next]_vars => IndInv'
  <2> SUFFICES ASSUME IndInv, [Next]_vars PROVE IndInv'
    OBVIOUS
  <2>1. TypeOK'
    BY TypeStep
  <2>2. LockInv' /\ LifeInv' /\ HoldInv'
    BY <2>1, LockStep, LifeStep, HoldStep
  <2>3. ScanningHasScanner' /\ IndexingHasHolder'
    BY <2>1, <2>2, ScanningStep, IndexingStep
  <2>4. CommittedInv' /\ FilesInv'
    <3>1. CommittedInv'
      BY <2>1, CommittedStep
    <3>2. QED
      BY <2>1, <3>1, FilesStep
  <2>5. QED
    BY <2>1, <2>2, <2>3, <2>4 DEF IndInv
<1>2. QED
  BY IndInit, <1>1, PTL DEF Spec

\* Every variable keeps its type.
THEOREM TypeCorrect == Spec => []TypeOK
<1>1. IndInv => TypeOK
  BY DEF IndInv
<1>2. QED
  BY Invariance, <1>1, PTL

\* The progress flag of a picker is never stuck (ScanningGuard).
THEOREM ProgressNeverStuck == Spec => []ScanningHasScanner
<1>1. IndInv => ScanningHasScanner
  BY DEF IndInv
<1>2. QED
  BY Invariance, <1>1, PTL

\* post_scan_indexing_active is never left up, so rescans are not refused for ever.
THEOREM IndexingNeverLeaked == Spec => []IndexingHasHolder
<1>1. IndInv => IndexingHasHolder
  BY DEF IndInv
<1>2. QED
  BY Invariance, <1>1, PTL

\* wait_for_scan after new_with_shared_state returns with the files in place.
THEOREM WaitForScanIsHonest == Spec => []WaitForScanSeesFiles
<1>1. IndInv => WaitForScanSeesFiles
  BY DEF IndInv, FilesInv, WaitForScanSeesFiles
<1>2. QED
  BY Invariance, <1>1, PTL
=============================================================================
