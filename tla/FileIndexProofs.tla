--------------------------- MODULE FileIndexProofs ---------------------------
(***************************************************************************)
(* What FileIndex promises for any number of files, directories, events    *)
(* and any limits: the table holds no path twice, it is right about every  *)
(* path outside the windows that IndexIsCurrent names, and it implements   *)
(* the set of files of TrackedFiles.                                       *)
(*                                                                         *)
(* IndexIsCurrent is not inductive.  What makes it so are the promises of  *)
(* what is in flight: the queue (QueueTold), the batch (BatchTold), the    *)
(* listing of the owner thread (OwnerTold) and the walk (WalkTold).        *)
(***************************************************************************)
EXTENDS FileIndex, FiniteSetTheorems, SequenceTheorems, TLAPS

\* Events and batches only come from a watcher.
WatchedFirst == (events # <<>> \/ stage = "apply") => watching

\* A removal in the queue of a file that exists is followed by what brought it
\* back, unless that was a directory that it is not an immediate file of.
Removes(e, p) == e = <<"remove", p>> \/ (e[1] = "rmdir" /\ p \in Under[e[2]])
Lists(e, p) == e[1] = "dir" /\ p \in Flat[e[2]]
Brings(e, p) == e = <<"touch", p>> \/ Lists(e, p)
QueueTold ==
    \A p \in disk \ stranded : \A i \in 1..Len(events) : (Removes(events[i], p) =>
        \E k \in (i+1)..Len(events) : Brings(events[k], p))

\* A directory with the path is in the queue, or in the batch.
Queued(p) == \E i \in 1..Len(events) : Lists(events[i], p)
Announced(p) == Queued(p) \/ \E d \in batch.made : p \in Flat[d]

\* Where the batch is wrong about a path by now, the queue tells of it, or the
\* directory that came or went with it does.
Untold(p) ==
    IF p \in disk THEN p \notin batch.touched /\ p \in batch.removed \cup Below(batch.dirs)
                  ELSE p \in batch.touched
Told(p) == Pending(p) \/ p \in stranded \/ (p \in disk /\ Announced(p))
BatchTold == stage = "apply" => \A p \in Paths : (Untold(p) => Told(p))

\* Between batches there is none.
BatchIdle == stage = "idle" => batch.made = {}

\* Where the listing is wrong by now, the path is overlooked; so for the walk.
OwnerTold ==
    ownerStage = "add" => /\ ownerDir \in Dirs /\ listing \subseteq Flat[ownerDir]
                          /\ listing \ disk \subseteq overlooked
WalkTold ==
    scan = "walk" => \A p \in Paths \ overlooked :
        /\ (seen[p] = "present" => p \in disk)
        /\ (seen[p] = "absent" => p \notin disk)

IndInv ==
    /\ TypeOK /\ WatchedFirst /\ NoPathTwice
    /\ QueueTold /\ BatchIdle /\ BatchTold /\ OwnerTold /\ WalkTold
    /\ IndexIsCurrent
-----------------------------------------------------------------------------
(***************************************************************************)
(* The queue.                                                              *)
(***************************************************************************)

\* What Append does to a sequence.
LEMMA Appended ==
    ASSUME NEW S, NEW s \in Seq(S), NEW e
    PROVE  /\ Len(Append(s, e)) = Len(s) + 1
           /\ \A i \in 1..Len(s) : Append(s, e)[i] = s[i]
           /\ Append(s, e)[Len(s) + 1] = e
           /\ Len(s) \in Nat
  OBVIOUS

\* What is left of a sequence when its first n elements are taken.
LEMMA Taken ==
    ASSUME NEW S, NEW s \in Seq(S), NEW n \in 1..Len(s)
    PROVE  /\ SubSeq(s, n + 1, Len(s)) \in Seq(S)
           /\ Len(SubSeq(s, n + 1, Len(s))) = Len(s) - n
           /\ \A i \in 1..(Len(s) - n) : SubSeq(s, n + 1, Len(s))[i] = s[n + i]
           /\ Len(s) \in Nat
  OBVIOUS

\* Nothing that happens on the disk takes an event of a path away.
LEMMA QueueGrows ==
    ASSUME TypeOK, Change, NEW p \in Paths
    PROVE  /\ Pending(p) => Pending(p)'
           /\ Queued(p) => Queued(p)' \/ Pending(p)'
<1>1. CASE events' = events
  BY <1>1 DEF Pending, Concerns, Queued, Lists
<1>2. ASSUME NEW e, events' = Append(events, e)
      PROVE  (Pending(p) => Pending(p)') /\ (Queued(p) => Queued(p)')
  <2>1. \A i \in 1..Len(events) : i \in 1..Len(events') /\ events'[i] = events[i]
    BY <1>2, Appended DEF TypeOK
  <2> QED BY <2>1 DEF Pending, Concerns, Queued, Lists
<1>3. ASSUME events' = << <<"rescan", NoDir>> >> PROVE Pending(p)'
  BY <1>3 DEF Pending, Concerns
<1> QED BY <1>1, <1>2, <1>3 DEF Change, Happens, Create, Delete, DeleteDir, MoveDir, MakeDir,
             GitChange, RescanEvent

\* A path that changes while a watcher runs has an event in the queue, or its
\* directory has.
LEMMA ChangeTold ==
    ASSUME TypeOK, Change, watching, NEW p \in Paths, (p \in disk) # (p \in disk')
    PROVE  Told(p)'
<1>1. ASSUME NEW e, events' = Append(events, e), Concerns(e, p) PROVE Pending(p)'
  <2>1. Len(events) + 1 \in 1..Len(events') /\ events'[Len(events) + 1] = e
    BY <1>1, Appended DEF TypeOK
  <2> QED BY <2>1, <1>1 DEF Pending, Concerns
<1>7. ASSUME NEW e, events' = Append(events, e), Lists(e, p) PROVE Queued(p)'
  <2>1. Len(events) + 1 \in 1..Len(events') /\ events'[Len(events) + 1] = e
    BY <1>7, Appended DEF TypeOK
  <2> QED BY <2>1, <1>7 DEF Queued, Lists
<1>2. ASSUME NEW q \in Paths, Create(q) PROVE Pending(p)'
  <2>1. q = p /\ events' = Append(events, <<"touch", p>>)
    BY <1>2 DEF Create, Happens
  <2> QED BY <1>1, <2>1 DEF Concerns
<1>3. ASSUME NEW q \in Paths, Delete(q) PROVE Pending(p)'
  <2>1. PICK kind \in {"touch", "remove"} : q = p /\ events' = Append(events, <<kind, p>>)
    BY <1>3 DEF Delete, Happens
  <2> QED BY <1>1, <2>1 DEF Concerns
<1>4. ASSUME NEW d \in Dirs, DeleteDir(d) PROVE Pending(p)'
  <2>1. p \in Under[d] /\ events' = Append(events, <<"rmdir", d>>)
    BY <1>4 DEF DeleteDir, Happens
  <2> QED BY <1>1, <2>1 DEF Concerns
<1>5. ASSUME NEW d \in Dirs, MoveDir(d) PROVE p \in stranded'
  BY <1>5 DEF MoveDir, Stranding
<1>6. ASSUME NEW d \in Dirs, MakeDir(d)
      PROVE  p \in stranded' \/ (p \in disk' /\ Queued(p)')
  <2>1. /\ events' = Append(events, <<"dir", d>>) /\ p \in disk'
        /\ p \in Flat[d] \/ p \in stranded'
    BY <1>6 DEF MakeDir, Happens, Stranding
  <2> QED BY <1>7, <2>1 DEF Lists
<1> QED BY <1>2, <1>3, <1>4, <1>5, <1>6 DEF Change, GitChange, RescanEvent, Told, Announced
-----------------------------------------------------------------------------
(***************************************************************************)
(* Types.                                                                  *)
(***************************************************************************)

\* Every event of the disk is one of Event.
LEMMA EventTypes ==
    /\ \A p \in Paths : <<"touch", p>> \in Event /\ <<"remove", p>> \in Event
    /\ \A d \in Dirs : <<"rmdir", d>> \in Event /\ <<"dir", d>> \in Event
    /\ <<"git", NoDir>> \in Event /\ <<"rescan", NoDir>> \in Event
  BY DEF Event

\* A batch with other questions to git.
With(b, g, ps) == [b EXCEPT !.git = g, !.touched = ps]

\* A batch that is applied remains a batch, with its directories.
LEMMA BatchTypes ==
    ASSUME TypeOK, NEW refused
    PROVE  Asked(refused) \in Batch /\ Asked(refused).made = batch.made
<1>1. ASSUME NEW g \in BOOLEAN, NEW ps \in SUBSET Paths, NEW b \in Batch
      PROVE  With(b, g, ps) \in Batch /\ With(b, g, ps).made = b.made
  BY DEF Batch, With
<1>2. batch \in Batch
  BY DEF TypeOK
<1>3. batch.touched \subseteq Paths
  BY <1>2 DEF Batch
<1> DEFINE g == batch.git /\ refused = {}
           ps == IF batch.git THEN {} ELSE batch.touched \ refused
<1>4. g \in BOOLEAN /\ ps \in SUBSET Paths
  BY <1>3
<1>5. Asked(refused) = With(batch, g, ps)
  BY DEF Asked, With
<1> HIDE DEF g, ps
<1> QED BY <1>1, <1>2, <1>4, <1>5

\* The table that a batch's removals leave is well formed.
LEMMA LeftTypes ==
    ASSUME TypeOK
    PROVE  /\ BaseLeft \in SUBSET Paths /\ TombLeft \in SUBSET BaseLeft
           /\ OverLeft \in [Paths -> Nat]
           /\ \A p \in Paths :
                OverLeft[p] = IF p \in Below(batch.dirs) THEN 0
                              ELSE IF p \in batch.removed \ BaseLeft /\ overflow[p] > 0
                                   THEN overflow[p] - 1 ELSE overflow[p]
<1>1. ASSUME NEW p \in Paths
      PROVE  (IF p \in Below(batch.dirs) THEN 0
              ELSE IF p \in batch.removed \ BaseLeft /\ overflow[p] > 0
                   THEN overflow[p] - 1 ELSE overflow[p]) \in Nat
  BY DEF TypeOK
<1> QED BY <1>1 DEF TypeOK, BaseLeft, TombLeft, OverLeft

\* What a batch's CreateOrModify does to the table.
LEMMA Applied ==
    ASSUME TypeOK, NEW added,
           CreateOrModify(batch.touched, BaseLeft, TombLeft, OverLeft, added)
    PROVE  /\ base' = BaseLeft
           /\ tombstones' = TombLeft \ (batch.touched \cap disk)
           /\ overflow' \in [Paths -> Nat] /\ capacity' = capacity
           /\ \A p \in Paths : overflow'[p] = OverLeft[p] + (IF p \in added THEN 1 ELSE 0)
<1>1. overflow' = [p \in Paths |-> OverLeft[p] + (IF p \in added THEN 1 ELSE 0)]
  BY DEF CreateOrModify
<1>2. \A p \in Paths : OverLeft[p] + (IF p \in added THEN 1 ELSE 0) \in Nat
  BY LeftTypes
<1> QED BY <1>1, <1>2 DEF CreateOrModify, Undeleted

\* What the owner thread's CreateOrModify does to the table.
LEMMA Added ==
    ASSUME TypeOK, NEW added,
           CreateOrModify(listing, base, tombstones, overflow, added)
    PROVE  /\ base' = base
           /\ tombstones' = tombstones \ (listing \cap disk)
           /\ overflow' \in [Paths -> Nat] /\ capacity' = capacity
           /\ \A p \in Paths : overflow'[p] = overflow[p] + (IF p \in added THEN 1 ELSE 0)
<1>1. overflow' = [p \in Paths |-> overflow[p] + (IF p \in added THEN 1 ELSE 0)]
  BY DEF CreateOrModify
<1>2. \A p \in Paths : overflow[p] + (IF p \in added THEN 1 ELSE 0) \in Nat
  BY DEF TypeOK
<1> QED BY <1>1, <1>2 DEF CreateOrModify, Undeleted

\* A step of any action keeps the types.
LEMMA TypeStep == TypeOK /\ [Next]_vars => TypeOK'
<1> SUFFICES ASSUME TypeOK, [Next]_vars PROVE TypeOK'
  OBVIOUS
<1> USE PathAssumption, DirAssumption, LimitAssumption
<1>1. CASE Change
  <2>1. disk' \subseteq Paths
    BY <1>1 DEF Change, Create, Delete, DeleteDir, MoveDir, MakeDir, GitChange, RescanEvent, TypeOK
  <2>2. ASSUME NEW e \in Event PROVE Append(events, e) \in Seq(Event) /\ <<e>> \in Seq(Event)
    BY DEF TypeOK
  <2>3. events' \in Seq(Event)
    <3>1. ASSUME NEW p \in Paths, Create(p) PROVE events' \in Seq(Event)
      <4>1. events' = Append(events, <<"touch", p>>) \/ events' = events
        BY <3>1 DEF Create, Happens
      <4> QED BY <4>1, <2>2, EventTypes DEF TypeOK
    <3>4. ASSUME NEW p \in Paths, Delete(p) PROVE events' \in Seq(Event)
      <4>1. PICK kind \in {"touch", "remove"} :
                events' = Append(events, <<kind, p>>) \/ events' = events
        BY <3>4 DEF Delete, Happens
      <4>2. <<kind, p>> \in Event
        BY EventTypes
      <4> QED BY <4>1, <4>2, <2>2 DEF TypeOK
    <3>2. ASSUME NEW d \in Dirs, DeleteDir(d) \/ MoveDir(d) \/ MakeDir(d)
          PROVE  events' \in Seq(Event)
      <4>1. \E kind \in {"rmdir", "dir"} :
                events' = Append(events, <<kind, d>>) \/ events' = events
        BY <3>2 DEF DeleteDir, MoveDir, MakeDir, Happens
      <4> QED BY <4>1, <2>2, EventTypes DEF TypeOK
    <3>3. CASE GitChange \/ RescanEvent
      BY <3>3, <2>2, EventTypes DEF GitChange, RescanEvent, Happens, TypeOK
    <3> QED BY <1>1, <3>1, <3>2, <3>3, <3>4 DEF Change
  <2>7. PICK kind \in Kinds, ps \in SUBSET Paths : \E es : Happens(kind, ps, es)
    <3>1. ASSUME NEW d \in Dirs PROVE Under[d] \in SUBSET Paths
      OBVIOUS
    <3>2. ASSUME NEW kind, NEW ps, NEW es, Happens(kind, ps, es), ps \in SUBSET Paths
          PROVE  \E k \in Kinds, qs \in SUBSET Paths : \E fs : Happens(k, qs, fs)
      BY <3>2 DEF Happens
    <3>3. ASSUME NEW p \in Paths, Create(p) \/ Delete(p)
          PROVE  \E k \in Kinds, qs \in SUBSET Paths : \E fs : Happens(k, qs, fs)
      BY <3>2, <3>3 DEF Create, Delete
    <3>4. ASSUME NEW d \in Dirs, DeleteDir(d) \/ MoveDir(d) \/ MakeDir(d)
          PROVE  \E k \in Kinds, qs \in SUBSET Paths : \E fs : Happens(k, qs, fs)
      BY <3>1, <3>2, <3>4 DEF DeleteDir, MoveDir, MakeDir
    <3>5. CASE GitChange \/ RescanEvent
      BY <3>2, <3>5 DEF GitChange, RescanEvent
    <3> QED BY <1>1, <3>3, <3>4, <3>5 DEF Change
  <2>4. changes' \in 0..MaxChanges /\ overlooked' \subseteq Paths
    BY <2>7 DEF Happens, TypeOK
  <2>5. stranded' \subseteq Paths
    BY <1>1 DEF Change, Create, Delete, DeleteDir, MoveDir, MakeDir, GitChange,
       RescanEvent, Stranding, TypeOK
  <2>6. UNCHANGED <<table, status, scanner, rescan, watching, handler, tracker>>
    BY <1>1 DEF Change, Create, Delete, DeleteDir, MoveDir, MakeDir, GitChange, RescanEvent, Happens
  <2> QED BY <2>1, <2>3, <2>4, <2>5, <2>6 DEF TypeOK, table, scanner, handler, tracker
<1>2. ASSUME NEW n \in 1..Len(events), TakeBatch(n) PROVE TypeOK'
  <2>1. events' \in Seq(Event)
    BY <1>2, Taken DEF TakeBatch, TypeOK
  <2>2. batch' \in Batch /\ stage' \in {"idle", "apply", "status"} /\ rescan' \in BOOLEAN
    <3>1. CASE UNCHANGED handler /\ rescan' = Requested
      BY <1>2, <3>1 DEF TakeBatch, TypeOK, handler, Requested
    <3>2. CASE ~(UNCHANGED handler /\ rescan' = Requested)
      <4> DEFINE es == {events[i] : i \in 1..n}
      <4>1. PICK gone \in SUBSET {d \in Dirs : Under[d] \cap disk = {}} :
            /\ batch' = [dirs    |-> {d \in Dirs : <<"rmdir", d>> \in es},
                         removed |-> {p \in Paths : \/ <<"remove", p>> \in es
                                                    \/ <<"touch", p>> \in es /\ p \notin disk},
                         touched |-> {p \in disk : <<"touch", p>> \in es},
                         made    |-> {d \in Dirs \ gone : <<"dir", d>> \in es},
                         moved   |-> {d \in gone : <<"dir", d>> \in es},
                         git     |-> <<"git", NoDir>> \in es]
            /\ stage' = "apply" /\ rescan' = rescan
        BY <1>2, <3>2 DEF TakeBatch
      <4> HIDE DEF es
      <4> QED BY <4>1 DEF TypeOK, Batch
    <3> QED BY <3>1, <3>2
  <2> QED BY <1>2, <2>1, <2>2 DEF TakeBatch, TypeOK, table, scanner, tracker, ghosts
<1>3. CASE ApplyBatch
  <2>1. PICK added \in Pushed(batch.touched \ Known(BaseLeft, OverLeft), BaseLeft, OverLeft) :
            CreateOrModify(batch.touched, BaseLeft, TombLeft, OverLeft, added)
    BY <1>3 DEF ApplyBatch
  <2>3. /\ base' = BaseLeft /\ base' \subseteq Paths /\ tombstones' \subseteq base'
        /\ overflow' \in [Paths -> Nat] /\ capacity' = capacity
        /\ \A p \in Paths : overflow'[p] = OverLeft[p] + (IF p \in added THEN 1 ELSE 0)
    <3>1. BaseLeft \subseteq Paths /\ TombLeft \subseteq BaseLeft
      BY LeftTypes
    <3> QED BY <2>1, <3>1, Applied
  <2>4. rescan' \in BOOLEAN /\ batch' \in Batch
    <3>1. PICK more \in Pushed(batch.touched \ Known(BaseLeft, OverLeft), BaseLeft, OverLeft) :
            LET refused == Refused(batch.touched, BaseLeft, OverLeft, more)
            IN  /\ rescan' = (rescan \/ refused # {}
                                \/ (Changes(batch) /\ OverflowLen(overflow') > MaxOverflow))
                /\ batch' = Asked(refused)
      BY <1>3 DEF ApplyBatch
    <3>2. rescan' \in BOOLEAN
      BY <3>1
    <3>3. batch' \in Batch
      BY <3>1, BatchTypes
    <3> QED BY <3>2, <3>3
  <2>5. ASSUME NEW p \in status' PROVE p \in base' \cup {q \in Paths : overflow'[q] > 0}
    <3>1. p \in status /\ p \notin Below(batch.dirs) /\ p \notin batch.removed /\ p \in Paths
      BY <1>3 DEF ApplyBatch, TypeOK
    <3>2. CASE p \in base
      BY <3>1, <3>2, <2>3 DEF BaseLeft
    <3>3. CASE overflow[p] > 0
      <4>1. OverLeft[p] = overflow[p] /\ overflow[p] \in Nat
        BY <3>1, LeftTypes DEF TypeOK
      <4> QED BY <4>1, <2>3, <3>1, <3>3
    <3> QED BY <3>1, <3>2, <3>3 DEF TypeOK
  <2> QED BY <1>3, <2>3, <2>4, <2>5 DEF ApplyBatch, TypeOK, env, scanner, tracker, ghosts
<1>4. CASE UpdateStatus
  BY <1>4 DEF UpdateStatus, TypeOK, Reported, Table, InOverflow, Batch, NoBatch, env, table,
     scanner, ghosts
<1>5. ASSUME NEW d \in Dirs, ListDir(d) PROVE TypeOK'
  BY <1>5 DEF ListDir, TypeOK, env, table, scanner, handler, ghosts
<1>6. CASE AddListed
  <2>1. PICK added \in Pushed(listing \ Known(base, overflow), base, overflow) :
            /\ CreateOrModify(listing, base, tombstones, overflow, added)
            /\ overlooked' = overlooked \cup (listing \ (Known(base, overflow) \cup added))
    BY <1>6 DEF AddListed
  <2>2. /\ base' = base /\ tombstones' \subseteq base'
        /\ overflow' \in [Paths -> Nat] /\ capacity' = capacity
        /\ \A p \in Paths : overflow'[p] = overflow[p] + (IF p \in added THEN 1 ELSE 0)
    <3>1. tombstones \subseteq base
      BY DEF TypeOK
    <3> QED BY <2>1, <3>1, Added
  <2>3. status' \subseteq base' \cup {q \in Paths : overflow'[q] > 0}
    BY <1>6, <2>2, SMTT(30) DEF AddListed, TypeOK
  <2> QED BY <1>6, <2>1, <2>2, <2>3 DEF AddListed, TypeOK, env, scanner, handler
<1>7. CASE UpdateListed
  BY <1>7 DEF UpdateListed, TypeOK, Reported, Table, InOverflow, env, table, scanner, handler,
     ghosts
<1>8. CASE StartWalk
  BY <1>8 DEF StartWalk, TypeOK, Unread, env, table, handler, tracker, ghosts
<1>9. ASSUME NEW p \in Paths, WalkRead(p) PROVE TypeOK'
  BY <1>9 DEF WalkRead, TypeOK, env, table, handler, tracker
<1>10. CASE CommitWalk
  <2> DEFINE found == {p \in Paths : seen[p] = "present"}
  <2>1. Cardinality(found) \in Nat
    BY FS_Subset, FS_CardinalityType
  <2>2. capacity' \in Nat
    BY <1>10, <2>1 DEF CommitWalk
  <2> QED BY <1>10, <2>2 DEF CommitWalk, TypeOK, env, handler
<1>11. CASE ApplyGit
  BY <1>11 DEF ApplyGit, TypeOK, env, table, handler, tracker, ghosts
<1>12. CASE StartWatcher
  BY <1>12 DEF StartWatcher, TypeOK, env, table, handler, tracker, ghosts
<1>13. CASE UNCHANGED vars
  BY <1>13 DEF vars, TypeOK, env, table, scanner, handler, tracker, ghosts
<1> QED BY <1>1, <1>2, <1>3, <1>4, <1>5, <1>6, <1>7, <1>8, <1>9, <1>10, <1>11, <1>12, <1>13
        DEF Next, HandlerStep, OwnerStep, ScanStep
-----------------------------------------------------------------------------
(***************************************************************************)
(* The table.                                                              *)
(***************************************************************************)

\* A batch that is applied: what it touches is there or a rescan is asked for,
\* what it removes is not, and the rest is as it was.
LEMMA ApplyEffect ==
    ASSUME TypeOK, NoPathTwice, ApplyBatch, NEW p \in Paths
    PROVE  /\ overflow'[p] <= 1 /\ (p \in base' => overflow'[p] = 0)
           /\ p \in batch.touched => p \in Live' \/ rescan'
           /\ p \in (Below(batch.dirs) \cup batch.removed) \ batch.touched => p \notin Live'
           /\ p \notin Below(batch.dirs) \cup batch.removed \cup batch.touched
                => (p \in Live' <=> p \in Live)
           /\ p \in Live \ (Below(batch.dirs) \cup batch.removed) => p \in Live'
           /\ rescan => rescan'
<1>1. PICK added \in Pushed(batch.touched \ Known(BaseLeft, OverLeft), BaseLeft, OverLeft) :
        /\ CreateOrModify(batch.touched, BaseLeft, TombLeft, OverLeft, added)
        /\ rescan' = (rescan \/ Refused(batch.touched, BaseLeft, OverLeft, added) # {}
                        \/ (Changes(batch) /\ OverflowLen(overflow') > MaxOverflow))
  BY DEF ApplyBatch
<1>2. /\ base' = BaseLeft
      /\ tombstones' = TombLeft \ (batch.touched \cap disk)
      /\ overflow' \in [Paths -> Nat]
      /\ overflow'[p] = OverLeft[p] + (IF p \in added THEN 1 ELSE 0)
  BY <1>1, Applied
<1>3. added \subseteq batch.touched \ Known(BaseLeft, OverLeft)
  BY <1>1 DEF Pushed
<1>4. OverLeft[p] \in Nat /\ OverLeft[p] <= overflow[p] /\ overflow[p] \in Nat
  BY LeftTypes DEF TypeOK
<1>5. p \in added => p \in batch.touched /\ p \notin BaseLeft /\ OverLeft[p] = 0
  BY <1>3, <1>4 DEF Known, InOverflow
<1>6. overflow[p] <= 1 /\ (p \in base => overflow[p] = 0)
  BY DEF NoPathTwice
<1>7. overflow'[p] <= 1 /\ (p \in base' => overflow'[p] = 0)
  BY <1>2, <1>4, <1>5, <1>6 DEF BaseLeft
<1>8. p \in Live' <=> (p \in BaseLeft /\ p \notin tombstones') \/ overflow'[p] > 0
  BY <1>2 DEF Live, InOverflow
<1>9. ASSUME p \in batch.touched PROVE p \in Live' \/ rescan'
  <2>1. CASE p \notin Known(BaseLeft, OverLeft) \cup added
    BY <2>1, <1>1, <1>9 DEF Refused
  <2>2. CASE p \in BaseLeft /\ p \notin disk
    BY <2>2, <1>1, <1>9 DEF Refused, Known
  <2>4. CASE p \in BaseLeft /\ p \in disk
    BY <2>4, <1>2, <1>8, <1>9
  <2>3. CASE OverLeft[p] > 0 \/ p \in added
    BY <2>3, <1>2, <1>4, <1>8
  <2> QED BY <2>1, <2>2, <2>3, <2>4 DEF Known, InOverflow
<1>10. ASSUME p \in Below(batch.dirs) \cup batch.removed, p \notin batch.touched
       PROVE  p \notin Live'
  <2>1. p \notin added
    BY <1>10, <1>5
  <2>2. CASE p \in Below(batch.dirs)
    BY <2>1, <2>2, <1>2, <1>8, LeftTypes DEF BaseLeft
  <2>3. CASE p \in batch.removed /\ p \notin Below(batch.dirs)
    <3>1. CASE p \in BaseLeft
      BY <2>1, <2>3, <3>1, <1>2, <1>4, <1>6, <1>8, <1>10 DEF TombLeft, BaseLeft
    <3>2. CASE p \notin BaseLeft
      <4>1. OverLeft[p] = 0
        BY <2>3, <3>2, <1>4, <1>6, LeftTypes
      <4> QED BY <4>1, <2>1, <3>2, <1>2, <1>8
    <3> QED BY <3>1, <3>2
  <2> QED BY <2>2, <2>3, <1>10
<1>11. ASSUME p \notin Below(batch.dirs), p \notin batch.removed, p \notin batch.touched
       PROVE  p \in Live' <=> p \in Live
  <2>1. overflow'[p] = overflow[p]
    BY <1>2, <1>4, <1>5, <1>11, LeftTypes DEF TypeOK
  <2>2. p \in BaseLeft <=> p \in base
    BY <1>11 DEF BaseLeft
  <2>3. p \in tombstones' <=> p \in tombstones
    BY <1>2, <1>11 DEF TombLeft
  <2> QED BY <2>1, <2>2, <2>3, <1>8 DEF Live, InOverflow
<1>12. ASSUME p \in Live, p \notin Below(batch.dirs), p \notin batch.removed
       PROVE  p \in Live'
  <2>1. OverLeft[p] = overflow[p] /\ (p \in BaseLeft <=> p \in base)
    BY <1>12, LeftTypes DEF BaseLeft
  <2>2. p \in tombstones' => p \in tombstones
    BY <1>2, <1>12 DEF TombLeft
  <2> QED BY <2>1, <2>2, <1>2, <1>4, <1>8, <1>12 DEF Live, InOverflow
<1>13. rescan => rescan'
  BY <1>1
<1> QED BY <1>7, <1>9, <1>10, <1>11, <1>12, <1>13

\* A listing that is added: what it names is there or overlooked, unless it is
\* gone from the disk; the rest is as it was.
LEMMA AddEffect ==
    ASSUME TypeOK, NoPathTwice, AddListed, NEW p \in Paths
    PROVE  /\ overflow'[p] <= 1 /\ (p \in base' => overflow'[p] = 0)
           /\ p \in listing \cap disk => p \in Live' \/ p \in overlooked'
           /\ p \notin listing => (p \in Live' <=> p \in Live)
           /\ p \in Live => p \in Live'
           /\ overlooked \subseteq overlooked'
<1>1. PICK added \in Pushed(listing \ Known(base, overflow), base, overflow) :
        /\ CreateOrModify(listing, base, tombstones, overflow, added)
        /\ overlooked' = overlooked \cup (listing \ (Known(base, overflow) \cup added))
  BY DEF AddListed
<1>2. /\ base' = base
      /\ tombstones' = tombstones \ (listing \cap disk)
      /\ overflow' \in [Paths -> Nat]
      /\ overflow'[p] = overflow[p] + (IF p \in added THEN 1 ELSE 0)
  BY <1>1, Added
<1>3. added \subseteq listing \ Known(base, overflow)
  BY <1>1 DEF Pushed
<1>4. overflow[p] \in Nat /\ overflow[p] <= 1 /\ (p \in base => overflow[p] = 0)
  BY DEF TypeOK, NoPathTwice
<1>5. p \in added => p \in listing /\ p \notin base /\ overflow[p] = 0
  BY <1>3, <1>4 DEF Known, InOverflow
<1>6. overflow'[p] <= 1 /\ (p \in base' => overflow'[p] = 0)
  BY <1>2, <1>4, <1>5
<1>7. p \in Live' <=> (p \in base /\ p \notin tombstones') \/ overflow'[p] > 0
  BY <1>2 DEF Live, InOverflow
<1>8. p \in Live <=> (p \in base /\ p \notin tombstones) \/ overflow[p] > 0
  BY DEF Live, InOverflow
<1>9. p \in listing \cap disk => p \in Live' \/ p \in overlooked'
  BY <1>1, <1>2, <1>4, <1>7 DEF Known, InOverflow
<1>10. p \notin listing => (p \in Live' <=> p \in Live)
  BY <1>2, <1>4, <1>5, <1>7, <1>8
<1>11. p \in Live => p \in Live'
  BY <1>2, <1>4, <1>7, <1>8
<1> QED BY <1>1, <1>6, <1>9, <1>10, <1>11

\* No step adds a path to the table that is there.
LEMMA NoTwiceStep == TypeOK /\ NoPathTwice /\ [Next]_vars => NoPathTwice'
<1> SUFFICES ASSUME TypeOK, NoPathTwice, [Next]_vars PROVE NoPathTwice'
  OBVIOUS
<1>1. CASE UNCHANGED table
  BY <1>1 DEF table, NoPathTwice
<1>2. CASE ApplyBatch
  BY <1>2, ApplyEffect DEF NoPathTwice
<1>3. CASE AddListed
  BY <1>3, AddEffect DEF NoPathTwice
<1>4. CASE CommitWalk
  BY <1>4 DEF CommitWalk, NoPathTwice
<1>5. CASE Change
  BY <1>1, <1>5 DEF Change, Create, Delete, DeleteDir, MoveDir, MakeDir, GitChange, RescanEvent, Happens
<1>6. CASE (\E n \in 1..Len(events) : TakeBatch(n)) \/ UpdateStatus
  BY <1>1, <1>6 DEF TakeBatch, UpdateStatus
<1>7. CASE (\E d \in Dirs : ListDir(d)) \/ UpdateListed
  BY <1>1, <1>7 DEF ListDir, UpdateListed
<1>8. CASE StartWalk \/ (\E p \in Paths : WalkRead(p)) \/ ApplyGit \/ StartWatcher
  BY <1>1, <1>8 DEF StartWalk, WalkRead, ApplyGit, StartWatcher
<1>9. CASE UNCHANGED vars
  BY <1>1, <1>9 DEF vars
<1> QED BY <1>2, <1>3, <1>4, <1>5, <1>6, <1>7, <1>8, <1>9
        DEF Next, HandlerStep, OwnerStep, ScanStep
-----------------------------------------------------------------------------
(***************************************************************************)
(* What is in flight.                                                      *)
(***************************************************************************)

\* What a change on the disk does besides changing the disk.
LEMMA ChangeFrame ==
    ASSUME TypeOK, Change, NEW p \in Paths
    PROVE  /\ UNCHANGED <<table, status, scanner, rescan, watching, handler, tracker>>
           /\ (p \in disk <=> p \in disk') => /\ p \in overlooked' <=> p \in overlooked
                                              /\ p \in stranded' <=> p \in stranded
           /\ (p \in disk) # (p \in disk') => (p \in overlooked' <=> Held(p) \/ ~watching)
           /\ ~watching => events' = events
<1> DEFINE Framed ==
        /\ (p \in disk <=> p \in disk') => /\ p \in overlooked' <=> p \in overlooked
                                           /\ p \in stranded' <=> p \in stranded
        /\ (p \in disk) # (p \in disk') => (p \in overlooked' <=> Held(p) \/ ~watching)
<1>1. ASSUME NEW q \in Paths, Create(q) \/ Delete(q) PROVE Framed
  BY <1>1 DEF Create, Delete, Happens, Stranding
<1>2. ASSUME NEW d \in Dirs, DeleteDir(d) \/ MoveDir(d) PROVE Framed
  BY <1>2 DEF DeleteDir, MoveDir, Happens, Stranding
<1>5. ASSUME NEW d \in Dirs, MakeDir(d) PROVE Framed
  <2>1. PICK brought \in SUBSET Under[d] :
            /\ brought # {} => Under[d] \cap disk = {}
            /\ disk' = disk \cup brought
            /\ stranded' = (stranded \ brought) \cup (brought \ Flat[d])
            /\ overlooked' = (overlooked \ brought) \cup {q \in brought : Held(q) \/ ~watching}
    BY <1>5 DEF MakeDir, Happens, Stranding
  <2>2. p \in brought => p \notin disk
    BY <2>1
  <2> QED BY <2>1, <2>2
<1>3. CASE GitChange \/ RescanEvent
  BY <1>3 DEF GitChange, RescanEvent, Happens
<1>4. /\ UNCHANGED <<table, status, scanner, rescan, watching, handler, tracker>>
      /\ ~watching => events' = events
  BY DEF Change, Create, Delete, DeleteDir, MoveDir, MakeDir, GitChange, RescanEvent, Happens
<1> QED BY <1>1, <1>2, <1>3, <1>4, <1>5 DEF Change

\* The threads leave the disk alone.
LEMMA ThreadFrame ==
    ASSUME HandlerStep \/ OwnerStep \/ ScanStep \/ UNCHANGED vars
    PROVE  /\ disk' = disk
           /\ events' = events \/ \E n \in 1..Len(events) : TakeBatch(n)
           /\ \/ stranded' = stranded
              \/ CommitWalk /\ stranded' = {p \in stranded : Pending(p) \/ InBatch(p)}
<1>1. CASE HandlerStep
  BY <1>1 DEF HandlerStep, TakeBatch, ApplyBatch, UpdateStatus, env, ghosts
<1>2. CASE OwnerStep
  BY <1>2 DEF OwnerStep, ListDir, AddListed, UpdateListed, env, ghosts
<1>3. CASE ScanStep
  BY <1>3 DEF ScanStep, StartWalk, WalkRead, CommitWalk, ApplyGit, StartWatcher, env, ghosts
<1>4. CASE UNCHANGED vars
  BY <1>4 DEF vars, env, ghosts
<1> QED BY <1>1, <1>2, <1>3, <1>4

\* Events and batches come after the watcher.
LEMMA WatchedStep == TypeOK /\ WatchedFirst /\ [Next]_vars => WatchedFirst'
<1> SUFFICES ASSUME TypeOK, WatchedFirst, [Next]_vars PROVE WatchedFirst'
  OBVIOUS
<1>1. CASE Change
  BY <1>1 DEF WatchedFirst, Change, Create, Delete, DeleteDir, MoveDir, MakeDir, GitChange,
     RescanEvent, Happens, handler
<1>2. ASSUME NEW n \in 1..Len(events), TakeBatch(n) PROVE WatchedFirst'
  BY <1>2 DEF WatchedFirst, TakeBatch, TypeOK
<1>3. CASE ApplyBatch \/ UpdateStatus
  BY <1>3 DEF WatchedFirst, ApplyBatch, UpdateStatus, env
<1>4. CASE OwnerStep
  BY <1>4 DEF WatchedFirst, OwnerStep, ListDir, AddListed, UpdateListed, env, handler
<1>5. CASE ScanStep
  BY <1>5 DEF WatchedFirst, ScanStep, StartWalk, WalkRead, CommitWalk, ApplyGit,
     StartWatcher, env, handler
<1>6. CASE UNCHANGED vars
  BY <1>6 DEF WatchedFirst, vars, env, handler
<1> QED BY <1>1, <1>2, <1>3, <1>4, <1>5, <1>6 DEF Next, HandlerStep

\* A removal in the queue of a file that exists keeps behind it what brought the
\* file back.
LEMMA QueueStep == TypeOK /\ WatchedFirst /\ QueueTold /\ [Next]_vars => QueueTold'
<1> SUFFICES ASSUME TypeOK, WatchedFirst, QueueTold, [Next]_vars,
                    NEW p \in disk', p \notin stranded',
                    NEW i \in 1..Len(events'), Removes(events'[i], p)
             PROVE  \E k \in (i+1)..Len(events') : Brings(events'[k], p)
  BY DEF QueueTold, Removes, Brings, Lists
<1>1. ASSUME disk' = disk, events' = events,
             \/ stranded' = stranded
             \/ stranded' = {q \in stranded : Pending(q) \/ InBatch(q)}
      PROVE  \E k \in (i+1)..Len(events') : Brings(events'[k], p)
  <2>1. Pending(p)
    BY <1>1 DEF Pending, Removes, Concerns
  <2> QED BY <1>1, <2>1 DEF QueueTold
<1>2. ASSUME NEW n \in 1..Len(events), TakeBatch(n)
      PROVE  \E k \in (i+1)..Len(events') : Brings(events'[k], p)
  <2>1. events' = SubSeq(events, n + 1, Len(events)) /\ p \in disk /\ p \notin stranded
    BY <1>2 DEF TakeBatch, ghosts
  <2>2. /\ Len(events') = Len(events) - n /\ Len(events) \in Nat
        /\ \A j \in 1..(Len(events) - n) : events'[j] = events[n + j]
    BY <2>1, Taken DEF TypeOK
  <2>3. n + i \in 1..Len(events) /\ events[n + i] = events'[i]
    BY <2>2
  <2>4. PICK k \in (n + i + 1)..Len(events) : Brings(events[k], p)
    BY <2>1, <2>3 DEF QueueTold
  <2>5. k \in (n + i + 1)..Len(events)
    BY <2>4
  <2>6. k - n \in (i+1)..Len(events') /\ events'[k - n] = events[k]
    BY <2>2, <2>5
  <2> QED BY <2>4, <2>6
<1>3. CASE Change
  <2>1. CASE events' = events /\ ~watching
    BY <2>1 DEF WatchedFirst
  <2>9. p \in disk => p \notin stranded /\ p \in Paths
    BY <1>3, ChangeFrame DEF TypeOK
  <2>2. ASSUME NEW e, events' = Append(events, e), ~Removes(e, p),
               p \in disk \/ Brings(e, p)
        PROVE  \E k \in (i+1)..Len(events') : Brings(events'[k], p)
    <3>1. /\ Len(events') = Len(events) + 1 /\ Len(events) \in Nat
          /\ \A j \in 1..Len(events) : events'[j] = events[j]
          /\ events'[Len(events) + 1] = e
      BY <2>2, Appended DEF TypeOK
    <3>2. i \in 1..Len(events) /\ events'[i] = events[i]
      <4>1. i # Len(events) + 1
        BY <2>2, <3>1
      <4> QED BY <4>1, <3>1
    <3>3. CASE Brings(e, p)
      <4>1. Len(events) + 1 \in (i+1)..Len(events')
        BY <3>1, <3>2
      <4> QED BY <4>1, <3>1, <3>3
    <3>4. CASE p \in disk
      <4>1. PICK k \in (i+1)..Len(events) : Brings(events[k], p)
        BY <3>2, <3>4, <2>9 DEF QueueTold
      <4>2. k \in (i+1)..Len(events') /\ events'[k] = events[k]
        BY <3>1, <4>1, <3>2
      <4> QED BY <4>1, <4>2
    <3> QED BY <2>2, <3>3, <3>4
  <2>3. CASE events' = << <<"rescan", NoDir>> >>
    BY <2>3 DEF Removes
  <2>4. ASSUME NEW q \in Paths, Create(q), watching
        PROVE  \E k \in (i+1)..Len(events') : Brings(events'[k], p)
    <3>1. events' = Append(events, <<"touch", q>>) /\ (p \in disk \/ p = q)
      BY <2>4 DEF Create, Happens
    <3>2. ~Removes(<<"touch", q>>, p) /\ (p = q => Brings(<<"touch", q>>, p))
      BY DEF Removes, Brings
    <3> QED BY <2>2, <3>1, <3>2
  <2>5. ASSUME NEW q \in Paths, Delete(q), watching
        PROVE  \E k \in (i+1)..Len(events') : Brings(events'[k], p)
    <3>1. PICK kind \in {"touch", "remove"} :
              events' = Append(events, <<kind, q>>) /\ p \in disk /\ p # q
      BY <2>5 DEF Delete, Happens
    <3> QED BY <2>2, <3>1 DEF Removes
  <2>6. ASSUME NEW d \in Dirs, DeleteDir(d) \/ MoveDir(d) \/ MakeDir(d), watching
        PROVE  \E k \in (i+1)..Len(events') : Brings(events'[k], p)
    <3>1. CASE DeleteDir(d)
      <4>1. events' = Append(events, <<"rmdir", d>>) /\ p \in disk /\ p \notin Under[d]
        BY <2>6, <3>1 DEF DeleteDir, Happens
      <4> QED BY <2>2, <4>1 DEF Removes
    <3>4. ~Removes(<<"dir", d>>, p) /\ (p \in Flat[d] => Brings(<<"dir", d>>, p))
      BY DEF Removes, Brings, Lists
    <3>2. CASE MoveDir(d)
      <4>1. events' = Append(events, <<"dir", d>>) /\ p \in disk
        BY <2>6, <3>2 DEF MoveDir, Happens
      <4> QED BY <2>2, <3>4, <4>1
    <3>3. CASE MakeDir(d)
      <4>1. events' = Append(events, <<"dir", d>>) /\ (p \in disk \/ p \in Flat[d])
        BY <2>6, <3>3 DEF MakeDir, Happens, Stranding
      <4> QED BY <2>2, <3>4, <4>1
    <3> QED BY <2>6, <3>1, <3>2, <3>3
  <2>7. ASSUME GitChange \/ RescanEvent, watching
        PROVE  \E k \in (i+1)..Len(events') : Brings(events'[k], p)
    <3>1. \/ events' = Append(events, <<"git", NoDir>>) /\ p \in disk
          \/ events' = Append(events, <<"rescan", NoDir>>) /\ p \in disk
          \/ events' = << <<"rescan", NoDir>> >>
      BY <2>7 DEF GitChange, RescanEvent, Happens
    <3> QED BY <2>2, <2>3, <3>1 DEF Removes
  <2>8. watching \/ (events' = events /\ ~watching)
    BY <1>3 DEF Change, Create, Delete, DeleteDir, MoveDir, MakeDir, GitChange, RescanEvent,
       Happens
  <2> QED BY <1>3, <2>1, <2>4, <2>5, <2>6, <2>7, <2>8 DEF Change
<1> QED BY <1>1, <1>2, <1>3, ThreadFrame DEF Next

\* What a batch is taken with: the removals and creations among its events.
LEMMA TakeEffect ==
    ASSUME TypeOK, NEW n \in 1..Len(events), TakeBatch(n), stage' = "apply", NEW p \in Paths
    PROVE  /\ p \in batch'.touched => p \in disk
           /\ p \in disk => (p \in batch'.touched <=> \E i \in 1..n : events[i] = <<"touch", p>>)
           /\ p \in disk /\ p \in batch'.removed \cup Below(batch'.dirs)
                => \E i \in 1..n : Removes(events[i], p)
           /\ p \notin disk /\ (\E i \in 1..n : Concerns(events[i], p))
                => p \in batch'.removed \cup Below(batch'.dirs)
           /\ p \in disk /\ (\E i \in 1..n : Concerns(events[i], p))
                => p \in batch'.removed \cup batch'.touched \cup Below(batch'.dirs)
           /\ p \in disk /\ (\E i \in 1..n : Lists(events[i], p))
                => \E d \in batch'.made : p \in Flat[d]
<1> DEFINE es == {events[i] : i \in 1..n}
<1>1. PICK gone \in SUBSET {d \in Dirs : Under[d] \cap disk = {}} :
      /\ batch' = [dirs    |-> {d \in Dirs : <<"rmdir", d>> \in es},
                   removed |-> {q \in Paths : \/ <<"remove", q>> \in es
                                              \/ <<"touch", q>> \in es /\ q \notin disk},
                   touched |-> {q \in disk : <<"touch", q>> \in es},
                   made    |-> {d \in Dirs \ gone : <<"dir", d>> \in es},
                   moved   |-> {d \in gone : <<"dir", d>> \in es},
                   git     |-> <<"git", NoDir>> \in es]
      /\ <<"rescan", NoDir>> \notin es
  BY DEF TakeBatch, handler
<1>2. \A i \in 1..n : events[i] \in Event /\ events[i] \in es
  BY DEF TypeOK
<1>3. \A e \in es : \E i \in 1..n : e = events[i]
  OBVIOUS
<1> HIDE DEF es
<1>4. p \in batch'.touched <=> p \in disk /\ <<"touch", p>> \in es
  BY <1>1
<1>5. p \in batch'.removed <=> <<"remove", p>> \in es \/ (<<"touch", p>> \in es /\ p \notin disk)
  BY <1>1
<1>6. p \in Below(batch'.dirs) <=> \E d \in Dirs : <<"rmdir", d>> \in es /\ p \in Under[d]
  BY <1>1 DEF Below
<1>7. p \in disk => (p \in batch'.touched <=> \E i \in 1..n : events[i] = <<"touch", p>>)
  BY <1>2, <1>3, <1>4
<1>8. ASSUME p \in disk, p \in batch'.removed \cup Below(batch'.dirs)
      PROVE  \E i \in 1..n : Removes(events[i], p)
  <2>1. CASE <<"remove", p>> \in es
    BY <2>1, <1>3 DEF Removes
  <2>2. CASE \E d \in Dirs : <<"rmdir", d>> \in es /\ p \in Under[d]
    <3>1. PICK d \in Dirs : <<"rmdir", d>> \in es /\ p \in Under[d]
      BY <2>2
    <3>2. PICK i \in 1..n : events[i] = <<"rmdir", d>>
      BY <3>1, <1>3
    <3> QED BY <3>1, <3>2 DEF Removes
  <2> QED BY <2>1, <2>2, <1>5, <1>6, <1>8
<1>9. ASSUME NEW i \in 1..n, Concerns(events[i], p)
      PROVE  p \in batch'.removed \cup batch'.touched \cup Below(batch'.dirs)
  <2>1. events[i] \in Event /\ events[i] \in es
    BY <1>2
  <2>2. \/ events[i] = <<"touch", p>> \/ events[i] = <<"remove", p>>
        \/ \E d \in Dirs : events[i] = <<"rmdir", d>> /\ p \in Under[d]
        \/ events[i] = <<"rescan", NoDir>>
    BY <2>1, <1>9 DEF Concerns, Event
  <2> QED BY <2>1, <2>2, <1>1, <1>4, <1>5, <1>6
<1>10. ASSUME p \in disk, NEW i \in 1..n, Lists(events[i], p)
       PROVE  \E d \in batch'.made : p \in Flat[d]
  <2>1. events[i] \in Event /\ events[i] \in es
    BY <1>2
  <2>2. PICK d \in Dirs : events[i] = <<"dir", d>> /\ p \in Flat[d]
    BY <2>1, <1>10 DEF Lists, Event
  <2>3. d \notin gone
    BY <2>2, <1>10, DirAssumption
  <2>4. d \in batch'.made
    BY <1>1, <2>1, <2>2, <2>3
  <2> QED BY <2>2, <2>4
<1> QED BY <1>4, <1>7, <1>8, <1>9, <1>10

\* There is no batch between batches.
LEMMA BatchIdleStep == TypeOK /\ BatchIdle /\ [Next]_vars => BatchIdle'
<1> SUFFICES ASSUME TypeOK, BatchIdle, [Next]_vars PROVE BatchIdle'
  OBVIOUS
<1>1. CASE UNCHANGED handler
  BY <1>1 DEF BatchIdle, handler
<1>2. CASE Change
  BY <1>1, <1>2 DEF Change, Create, Delete, DeleteDir, MoveDir, MakeDir, GitChange,
     RescanEvent, Happens
<1>3. CASE HandlerStep
  BY <1>3 DEF HandlerStep, TakeBatch, ApplyBatch, UpdateStatus, BatchIdle, NoBatch, handler
<1>4. CASE OwnerStep
  BY <1>1, <1>4 DEF OwnerStep, ListDir, AddListed, UpdateListed
<1>5. CASE ScanStep
  BY <1>1, <1>5 DEF ScanStep, StartWalk, WalkRead, CommitWalk, ApplyGit, StartWatcher
<1>6. CASE UNCHANGED vars
  BY <1>1, <1>6 DEF vars
<1> QED BY <1>2, <1>3, <1>4, <1>5, <1>6 DEF Next

\* Where the batch is wrong by now, the queue or a directory tells of it.
LEMMA BatchStep == TypeOK /\ WatchedFirst /\ QueueTold /\ BatchTold /\ [Next]_vars => BatchTold'
<1> SUFFICES ASSUME TypeOK, WatchedFirst, QueueTold, BatchTold, [Next]_vars,
                    stage' = "apply", NEW p \in Paths, Untold(p)'
             PROVE  Told(p)'
  BY DEF BatchTold
<1>1. ASSUME UNCHANGED <<disk, events, handler>>,
             \/ stranded' = stranded
             \/ stranded' = {q \in stranded : Pending(q) \/ InBatch(q)}
      PROVE  Told(p)'
  <2>1. Untold(p) /\ stage = "apply"
    BY <1>1 DEF Untold, handler, Below
  <2>2. InBatch(p)
    BY <2>1 DEF InBatch, Untold
  <2>3. Told(p)
    BY <2>1 DEF BatchTold
  <2> QED BY <1>1, <2>2, <2>3 DEF Told, Pending, Announced, Queued, handler
<1>2. CASE Change
  <2>1. UNCHANGED handler /\ stage = "apply" /\ watching
    BY <1>2, ChangeFrame DEF handler, WatchedFirst
  <2>2. CASE p \in disk <=> p \in disk'
    <3>1. Untold(p)
      BY <2>1, <2>2 DEF Untold, handler, Below
    <3>2. Told(p)
      BY <2>1, <3>1 DEF BatchTold
    <3>3. p \in stranded' <=> p \in stranded
      BY <1>2, <2>2, ChangeFrame
    <3>4. (Pending(p) => Pending(p)') /\ (Queued(p) => Queued(p)' \/ Pending(p)')
      BY <1>2, QueueGrows
    <3> QED BY <2>1, <2>2, <3>2, <3>3, <3>4 DEF Told, Announced, handler
  <2>3. CASE (p \in disk) # (p \in disk')
    BY <1>2, <2>1, <2>3, ChangeTold
  <2> QED BY <2>2, <2>3
<1>3. ASSUME NEW n \in 1..Len(events), TakeBatch(n), stage = "idle" PROVE Told(p)'
  <2>1. disk' = disk /\ events' = SubSeq(events, n + 1, Len(events)) /\ stranded' = stranded
    BY <1>3 DEF TakeBatch, ghosts
  <2>2. p \in disk /\ p \notin batch'.touched /\ p \in batch'.removed \cup Below(batch'.dirs)
    BY <1>3, <2>1, TakeEffect DEF Untold, Below
  <2>3. PICK i \in 1..n : Removes(events[i], p)
    BY <1>3, <2>2, TakeEffect
  <2>4. i \in 1..Len(events) /\ Len(events) \in Nat
    BY DEF TypeOK
  <2>5. CASE p \in stranded
    BY <2>1, <2>5 DEF Told
  <2>6. CASE p \notin stranded
    <3>1. PICK k \in (i+1)..Len(events) : Brings(events[k], p)
      BY <2>2, <2>3, <2>4, <2>6 DEF QueueTold
    <3>2. CASE k \in 1..n
      <4>1. Lists(events[k], p)
        BY <1>3, <2>2, <3>1, <3>2, TakeEffect DEF Brings
      <4>2. \E d \in batch'.made : p \in Flat[d]
        BY <1>3, <2>2, <3>2, <4>1, TakeEffect
      <4> QED BY <2>1, <2>2, <4>2 DEF Told, Announced
    <3>3. CASE ~(k \in 1..n)
      <4>1. /\ Len(events') = Len(events) - n
            /\ \A j \in 1..(Len(events) - n) : events'[j] = events[n + j]
        BY <2>1, Taken DEF TypeOK
      <4>2. k - n \in 1..Len(events') /\ events'[k - n] = events[k]
        BY <2>4, <3>1, <3>3, <4>1
      <4>3. CASE events[k] = <<"touch", p>>
        BY <4>2, <4>3 DEF Told, Pending, Concerns
      <4>4. CASE Lists(events[k], p)
        BY <2>1, <2>2, <4>2, <4>4 DEF Told, Announced, Queued, Lists
      <4> QED BY <3>1, <4>3, <4>4 DEF Brings
    <3> QED BY <3>2, <3>3
  <2> QED BY <2>5, <2>6
<1>4. ASSUME NEW n \in 1..Len(events), TakeBatch(n) PROVE stage = "idle"
  BY <1>4 DEF TakeBatch
<1>5. ~ApplyBatch /\ ~UpdateStatus
  BY DEF ApplyBatch, UpdateStatus
<1>6. CASE OwnerStep
  BY <1>1, <1>6 DEF OwnerStep, ListDir, AddListed, UpdateListed, env, ghosts
<1>7. CASE ScanStep
  BY <1>1, <1>7 DEF ScanStep, StartWalk, WalkRead, CommitWalk, ApplyGit, StartWatcher, env,
     ghosts
<1>8. CASE UNCHANGED vars
  BY <1>1, <1>8 DEF vars, env, ghosts
<1> QED BY <1>2, <1>3, <1>4, <1>5, <1>6, <1>7, <1>8 DEF Next, HandlerStep

\* Where the listing is wrong by now, the path is overlooked.
LEMMA OwnerToldStep == TypeOK /\ OwnerTold /\ [Next]_vars => OwnerTold'
<1> SUFFICES ASSUME TypeOK, OwnerTold, [Next]_vars, ownerStage' = "add" PROVE OwnerTold'
  BY DEF OwnerTold
<1>1. CASE UNCHANGED <<disk, ownerStage, ownerDir, listing>> /\ overlooked \subseteq overlooked'
  BY <1>1 DEF OwnerTold
<1>2. CASE Change
  <2>1. UNCHANGED <<ownerStage, ownerDir, listing>>
    BY <1>2 DEF Change, Create, Delete, DeleteDir, MoveDir, MakeDir, GitChange, RescanEvent,
       Happens, tracker
  <2>2. ASSUME NEW p \in listing, p \notin disk' PROVE p \in overlooked'
    <3>1. p \in Paths /\ Held(p)
      BY <2>1, <2>2 DEF TypeOK, OwnerTold, Held, OwnerHolds
    <3> QED BY <1>2, <2>1, <2>2, <3>1, ChangeFrame DEF OwnerTold
  <2> QED BY <2>1, <2>2 DEF OwnerTold
<1>3. CASE HandlerStep
  BY <1>1, <1>3 DEF HandlerStep, TakeBatch, ApplyBatch, UpdateStatus, env, tracker, ghosts
<1>4. ASSUME NEW d \in Dirs, ListDir(d) PROVE OwnerTold'
  BY <1>4 DEF ListDir, OwnerTold, env
<1>5. ~AddListed /\ ~UpdateListed
  BY DEF AddListed, UpdateListed
<1>6. ASSUME NEW p \in Paths, WalkRead(p) PROVE OwnerTold'
  <2>1. UNCHANGED <<disk, ownerStage, ownerDir, listing>>
    BY <1>6 DEF WalkRead, env, tracker
  <2>2. ASSUME NEW q \in listing, q \in overlooked PROVE q \in overlooked'
    BY <1>6, <2>1, <2>2 DEF WalkRead, OwnerTold, OwnerHolds
  <2> QED BY <2>1, <2>2 DEF OwnerTold
<1>7. CASE StartWalk \/ CommitWalk \/ ApplyGit \/ StartWatcher
  BY <1>1, <1>7 DEF StartWalk, CommitWalk, ApplyGit, StartWatcher, env, tracker,
     ghosts
<1>8. CASE UNCHANGED vars
  BY <1>1, <1>8 DEF vars, env, tracker, ghosts
<1> QED BY <1>2, <1>3, <1>4, <1>5, <1>6, <1>7, <1>8 DEF Next, OwnerStep, ScanStep

\* Where the walk has read what is wrong by now, the path is overlooked.
LEMMA WalkStep == TypeOK /\ WalkTold /\ [Next]_vars => WalkTold'
<1> SUFFICES ASSUME TypeOK, WalkTold, [Next]_vars, scan' = "walk" PROVE WalkTold'
  BY DEF WalkTold
<1>1. CASE UNCHANGED <<disk, scan, seen>> /\ overlooked \subseteq overlooked'
  BY <1>1 DEF WalkTold
<1>2. CASE Change
  <2>1. UNCHANGED <<scan, seen>>
    BY <1>2 DEF Change, Create, Delete, DeleteDir, MoveDir, MakeDir, GitChange,
       RescanEvent, Happens, scanner
  <2>2. ASSUME NEW p \in Paths, p \notin overlooked', seen[p] # "unread"
        PROVE  p \notin overlooked /\ (p \in disk <=> p \in disk')
    BY <1>2, <2>1, <2>2, ChangeFrame DEF Held
  <2> QED BY <2>1, <2>2 DEF WalkTold
<1>3. CASE HandlerStep
  BY <1>1, <1>3 DEF HandlerStep, TakeBatch, ApplyBatch, UpdateStatus, env, scanner, ghosts
<1>4. CASE OwnerStep
  BY <1>1, <1>4 DEF OwnerStep, ListDir, AddListed, UpdateListed, env, scanner, ghosts
<1>5. CASE StartWalk
  BY <1>5 DEF StartWalk, WalkTold, Unread
<1>6. ASSUME NEW p \in Paths, WalkRead(p) PROVE WalkTold'
  <2>1. /\ disk' = disk /\ scan = "walk"
        /\ seen' = [seen EXCEPT ![p] = IF p \in disk THEN "present" ELSE "absent"]
        /\ \A q \in Paths \ {p} : q \notin overlooked' => q \notin overlooked
    BY <1>6 DEF WalkRead, env
  <2>2. seen \in [Paths -> {"unread", "absent", "present"}]
    BY DEF TypeOK
  <2> QED BY <2>1, <2>2 DEF WalkTold
<1>7. ~CommitWalk /\ ~ApplyGit /\ ~StartWatcher
  BY DEF CommitWalk, ApplyGit, StartWatcher
<1>8. CASE UNCHANGED vars
  BY <1>1, <1>8 DEF vars, env, scanner, ghosts
<1> QED BY <1>2, <1>3, <1>4, <1>5, <1>6, <1>7, <1>8 DEF Next, ScanStep
-----------------------------------------------------------------------------
(***************************************************************************)
(* The index is current.                                                   *)
(***************************************************************************)

\* A directory on its way to the owner thread stays on it until it is listed, and
\* what was listed until it is in the table, or overlooked.
LEMMA ListedStep ==
    ASSUME TypeOK, NoPathTwice, BatchIdle, [Next]_vars, NEW p \in Paths,
           p \in disk, p \in disk', ToList(p)
    PROVE  ToList(p)' \/ Pending(p)' \/ rescan' \/ p \in Live' \/ p \in overlooked'
<1> USE DEF ToList, Lists, Queued
<1>1. CASE Change
  <2>1. UNCHANGED <<batch, toTrack, ownerStage, listing>>
    BY <1>1, ChangeFrame DEF handler, tracker
  <2>2. Queued(p) => Queued(p)' \/ Pending(p)'
    BY <1>1, QueueGrows
  <2> QED BY <2>1, <2>2
<1>2. ASSUME NEW n \in 1..Len(events), TakeBatch(n) PROVE ToList(p)' \/ rescan'
  <2>1. /\ events' = SubSeq(events, n + 1, Len(events)) /\ stage = "idle"
        /\ UNCHANGED <<toTrack, ownerStage, listing>>
        /\ rescan' \/ stage' = "apply"
    BY <1>2 DEF TakeBatch, tracker, Requested
  <2>2. ASSUME NEW i \in 1..Len(events), Lists(events[i], p), stage' = "apply"
        PROVE  ToList(p)'
    <3>1. CASE i \in 1..n
      <4>1. \E d \in batch'.made : p \in Flat[d]
        BY <1>2, <2>2, <3>1, TakeEffect
      <4> QED BY <4>1
    <3>2. CASE ~(i \in 1..n)
      <4>1. /\ Len(events') = Len(events) - n /\ Len(events) \in Nat
            /\ \A j \in 1..(Len(events) - n) : events'[j] = events[n + j]
        BY <2>1, Taken DEF TypeOK
      <4>2. i - n \in 1..Len(events') /\ events'[i - n] = events[i]
        BY <3>2, <4>1
      <4> QED BY <2>2, <4>2
    <3> QED BY <3>1, <3>2
  <2>3. batch.made = {}
    BY <2>1 DEF BatchIdle
  <2> QED BY <2>1, <2>2, <2>3
<1>3. CASE ApplyBatch
  <2>1. UNCHANGED <<events, toTrack, ownerStage, listing>> /\ batch'.made = batch.made
    BY <1>3, BatchTypes DEF ApplyBatch, env, tracker
  <2> QED BY <2>1
<1>4. CASE UpdateStatus
  BY <1>4 DEF UpdateStatus, env
<1>5. ASSUME NEW d \in Dirs, ListDir(d) PROVE ToList(p)'
  <2>1. /\ UNCHANGED <<events, batch>> /\ ownerStage = "idle"
        /\ toTrack' = toTrack \ {d} /\ listing' = Flat[d] \cap disk
        /\ Flat[d] \cap disk # {} => ownerStage' = "add"
    BY <1>5 DEF ListDir, env, handler
  <2>2. p \in Flat[d] => ownerStage' = "add" /\ p \in listing'
    BY <2>1
  <2> QED BY <2>1, <2>2
<1>6. CASE AddListed
  <2>1. UNCHANGED <<events, batch, toTrack>>
    BY <1>6 DEF AddListed, env, handler
  <2>2. p \in listing => p \in Live' \/ p \in overlooked'
    BY <1>6, AddEffect
  <2> QED BY <2>1, <2>2
<1>7. CASE UpdateListed
  BY <1>7 DEF UpdateListed, env, handler
<1>8. CASE StartWalk \/ (\E q \in Paths : WalkRead(q)) \/ ApplyGit \/ StartWatcher
  BY <1>8 DEF StartWalk, WalkRead, ApplyGit, StartWatcher, env, handler, tracker
<1>9. CASE CommitWalk
  BY <1>9 DEF CommitWalk, env, handler
<1>10. CASE UNCHANGED vars
  BY <1>10 DEF vars, env, handler, tracker
<1> QED BY <1>1, <1>2, <1>3, <1>4, <1>5, <1>6, <1>7, <1>8, <1>9, <1>10
        DEF Next, HandlerStep, OwnerStep, ScanStep

\* An action that reads the queue or the disk leaves every path as right, or as
\* well excused, as it found it.
LEMMA CurrentStep == IndInv /\ [Next]_vars => IndexIsCurrent'
<1> SUFFICES ASSUME IndInv, [Next]_vars, NEW p \in Paths
             PROVE  (\/ p \in Live <=> p \in disk
                     \/ p \in overlooked \/ p \in stranded
                     \/ Pending(p) \/ InBatch(p)
                     \/ p \in disk /\ ToList(p)
                     \/ rescan \/ scan = "walk")'
  BY DEF IndexIsCurrent
<1> DEFINE Right == p \in Live <=> p \in disk
           Listed == p \in disk /\ ToList(p)
           Excused == p \in overlooked \/ p \in stranded \/ Pending(p) \/ InBatch(p)
                        \/ rescan \/ scan = "walk"
<1> SUFFICES Right' \/ Listed' \/ Excused'
  OBVIOUS
<1>0. /\ TypeOK /\ NoPathTwice /\ WatchedFirst /\ BatchIdle /\ BatchTold /\ OwnerTold /\ WalkTold
      /\ Right \/ Listed \/ Excused
  BY DEF IndInv, IndexIsCurrent
<1>14. ASSUME disk' = disk, Listed PROVE Right' \/ Listed' \/ Excused'
  BY <1>0, <1>14, ListedStep
<1>2. CASE Change
  <2>1. UNCHANGED <<base, tombstones, overflow, rescan, scan, stage, batch>>
    BY <1>0, <1>2, ChangeFrame DEF table, scanner, handler
  <2>2. p \in Live' <=> p \in Live
    BY <2>1 DEF Live, InOverflow
  <2>3. InBatch(p)' <=> InBatch(p)
    BY <2>1 DEF InBatch, Below
  <2>4. CASE p \in disk <=> p \in disk'
    <3>1. (p \in overlooked' <=> p \in overlooked) /\ (p \in stranded' <=> p \in stranded)
      BY <1>0, <1>2, <2>4, ChangeFrame
    <3>2. Pending(p) => Pending(p)'
      BY <1>0, <1>2, QueueGrows
    <3>3. Listed => Right' \/ Listed' \/ Excused'
      BY <1>0, <2>4, ListedStep
    <3> QED BY <1>0, <2>1, <2>2, <2>3, <2>4, <3>1, <3>2, <3>3
  <2>5. CASE (p \in disk) # (p \in disk')
    <3>1. CASE watching
      <4>1. Told(p)'
        BY <1>0, <1>2, <2>5, <3>1, ChangeTold
      <4>2. Announced(p)' => ToList(p)'
        BY DEF Announced, Queued, Lists, ToList
      <4> QED BY <4>1, <4>2 DEF Told
    <3>2. CASE ~watching
      BY <1>0, <1>2, <2>5, <3>2, ChangeFrame
    <3> QED BY <3>1, <3>2
  <2> QED BY <2>4, <2>5
<1>3. ASSUME NEW n \in 1..Len(events), TakeBatch(n) PROVE Right' \/ Listed' \/ Excused'
  <2>1. /\ UNCHANGED <<disk, base, tombstones, overflow, scan, overlooked, stranded>>
        /\ ~InBatch(p)
        /\ events' = SubSeq(events, n + 1, Len(events))
        /\ rescan' \/ (rescan' = rescan /\ stage' = "apply")
    BY <1>3 DEF TakeBatch, table, scanner, ghosts, InBatch, Requested
  <2>2. p \in Live' <=> p \in Live
    BY <2>1 DEF Live, InOverflow
  <2>3. CASE Pending(p) /\ stage' = "apply"
    <3>1. PICK i \in 1..Len(events) : Concerns(events[i], p)
      BY <2>3 DEF Pending
    <3>2. CASE i \in 1..n
      BY <1>0, <1>3, <2>1, <2>3, <3>1, <3>2, TakeEffect DEF InBatch, Below
    <3>3. CASE ~(i \in 1..n)
      <4>1. /\ Len(events') = Len(events) - n /\ Len(events) \in Nat
            /\ \A j \in 1..(Len(events) - n) : events'[j] = events[n + j]
        BY <1>0, <2>1, Taken DEF TypeOK
      <4>2. i - n \in 1..Len(events') /\ events'[i - n] = events[i]
        BY <3>3, <4>1
      <4> QED BY <3>1, <4>2 DEF Pending, Concerns
    <3> QED BY <3>2, <3>3
  <2> QED BY <1>0, <1>14, <2>1, <2>2, <2>3
<1>4. CASE ApplyBatch
  <2>1. UNCHANGED <<disk, events, scan, overlooked, stranded>> /\ stage = "apply"
    BY <1>4 DEF ApplyBatch, env, scanner, ghosts
  <2>2. Pending(p)' <=> Pending(p)
    BY <2>1 DEF Pending
  <2>6. Untold(p) => Right' \/ Listed' \/ Excused'
    <3>1. Untold(p) => Told(p)
      BY <1>0, <2>1 DEF BatchTold
    <3>2. Announced(p) => ToList(p)
      BY DEF Announced, Queued, Lists, ToList
    <3> QED BY <1>14, <2>1, <2>2, <3>1, <3>2 DEF Told
  <2>3. CASE p \in batch.touched
    <3>1. p \in Live' \/ rescan'
      BY <1>0, <1>4, <2>3, ApplyEffect
    <3>2. p \notin disk => Untold(p)
      BY <2>3 DEF Untold
    <3> QED BY <2>1, <2>6, <3>1, <3>2
  <2>4. CASE p \in (Below(batch.dirs) \cup batch.removed) \ batch.touched
    <3>1. p \notin Live'
      BY <1>0, <1>4, <2>4, ApplyEffect
    <3>2. p \in disk => Untold(p)
      BY <2>4 DEF Untold
    <3> QED BY <2>1, <2>6, <3>1, <3>2
  <2>5. CASE p \notin Below(batch.dirs) \cup batch.removed \cup batch.touched
    <3>1. (p \in Live' <=> p \in Live) /\ (rescan => rescan')
      BY <1>0, <1>4, <2>5, ApplyEffect
    <3>2. ~InBatch(p)
      BY <2>5 DEF InBatch
    <3> QED BY <1>0, <1>14, <2>1, <2>2, <3>1, <3>2
  <2> QED BY <2>3, <2>4, <2>5
<1>5. CASE AddListed
  <2>1. UNCHANGED <<disk, events, rescan, scan, stage, batch, stranded>> /\ ownerStage = "add"
    BY <1>5 DEF AddListed, env, scanner, handler
  <2>2. (Pending(p)' <=> Pending(p)) /\ (InBatch(p)' <=> InBatch(p))
    BY <2>1 DEF Pending, InBatch, Below
  <2>3. p \in overlooked => p \in overlooked'
    BY <1>0, <1>5, AddEffect
  <2>4. CASE p \in listing
    <3>1. p \notin disk => p \in overlooked
      BY <1>0, <2>1, <2>4 DEF OwnerTold
    <3>2. p \in disk => p \in Live' \/ p \in overlooked'
      BY <1>0, <1>5, <2>4, AddEffect
    <3> QED BY <2>1, <2>3, <3>1, <3>2
  <2>5. CASE p \notin listing
    <3>1. p \in Live' <=> p \in Live
      BY <1>0, <1>5, <2>5, AddEffect
    <3> QED BY <1>0, <1>14, <2>1, <2>2, <2>3, <3>1
  <2> QED BY <2>4, <2>5
<1>6. CASE StartWalk
  BY <1>6 DEF StartWalk
<1>7. ASSUME NEW q \in Paths, WalkRead(q) PROVE Right' \/ Listed' \/ Excused'
  BY <1>7 DEF WalkRead
<1>8. CASE CommitWalk
  <2>1. /\ base' = {q \in Paths : seen[q] = "present"} /\ tombstones' = {}
        /\ overflow' = [q \in Paths |-> 0] /\ UNCHANGED <<disk, overlooked>>
        /\ scan = "walk" /\ seen[p] # "unread"
    BY <1>8 DEF CommitWalk, env
  <2>2. p \in Live' <=> seen[p] = "present"
    BY <2>1 DEF Live, InOverflow
  <2>3. seen[p] \in {"absent", "present"}
    BY <1>0, <2>1 DEF TypeOK
  <2> QED BY <1>0, <2>1, <2>2, <2>3 DEF WalkTold
<1>9. CASE UNCHANGED <<env, table, rescan, ghosts, handler, scanner>>
  <2>1. (Right' <=> Right) /\ (Excused' <=> Excused) /\ disk' = disk
    BY <1>9 DEF env, table, handler, scanner, ghosts, Live, InOverflow, Pending, InBatch, Below
  <2> QED BY <1>0, <1>14, <2>1
<1>10. CASE UpdateStatus
  <2>1. ~InBatch(p) /\ UNCHANGED <<env, table, rescan, ghosts, scanner>>
    BY <1>10 DEF UpdateStatus, InBatch
  <2>2. (Right' <=> Right) /\ (Excused => Excused') /\ disk' = disk
    BY <2>1 DEF env, table, scanner, ghosts, Live, InOverflow, Pending
  <2> QED BY <1>0, <1>14, <2>2
<1>11. CASE (\E d \in Dirs : ListDir(d)) \/ UpdateListed
  BY <1>9, <1>11 DEF ListDir, UpdateListed
<1>12. CASE ApplyGit \/ StartWatcher
  <2>1. scan # "walk" /\ UNCHANGED <<env, table, rescan, ghosts, handler>>
    BY <1>12 DEF ApplyGit, StartWatcher
  <2>2. (Right' <=> Right) /\ (Excused => Excused') /\ disk' = disk
    BY <2>1 DEF env, table, handler, ghosts, Live, InOverflow, Pending, InBatch, Below
  <2> QED BY <1>0, <1>14, <2>2
<1>13. CASE UNCHANGED vars
  BY <1>9, <1>13 DEF vars
<1> QED BY <1>2, <1>3, <1>4, <1>5, <1>6, <1>7, <1>8, <1>10, <1>11, <1>12, <1>13
        DEF Next, HandlerStep, OwnerStep, ScanStep

\* The first scan finds nothing that could be wrong.
LEMMA Initially == Init => IndInv
<1> SUFFICES ASSUME Init PROVE IndInv
  OBVIOUS
<1> USE PathAssumption, DirAssumption, LimitAssumption
<1>1. TypeOK
  <2>1. disk \subseteq Paths /\ events \in Seq(Event) /\ changes \in 0..MaxChanges
    BY DEF Init
  <2>2. /\ base \subseteq Paths /\ tombstones \subseteq base /\ capacity \in Nat
        /\ overflow \in [Paths -> Nat] /\ status \subseteq base
    BY DEF Init
  <2>3. batch \in Batch /\ stage = "idle"
    BY DEF Init, Batch, NoBatch
  <2>4. seen \in [Paths -> {"unread", "absent", "present"}]
    BY DEF Init, Unread
  <2> QED BY <2>1, <2>2, <2>3, <2>4 DEF Init, TypeOK
<1>2. WatchedFirst /\ NoPathTwice /\ BatchIdle /\ BatchTold /\ OwnerTold
  BY DEF Init, WatchedFirst, NoPathTwice, BatchIdle, NoBatch, BatchTold, OwnerTold
<1>3. QueueTold
  BY DEF Init, QueueTold
<1>4. WalkTold
  BY DEF Init, WalkTold, Unread
<1>5. IndexIsCurrent
  BY DEF Init, IndexIsCurrent
<1> QED BY <1>1, <1>2, <1>3, <1>4, <1>5 DEF IndInv

\* The inductive invariant: the table is right or excused, and everything in
\* flight will make it right.
THEOREM Invariance == Spec => []IndInv
<1>1. IndInv /\ [Next]_vars => IndInv'
  BY TypeStep, WatchedStep, NoTwiceStep, QueueStep, BatchIdleStep, BatchStep, OwnerToldStep,
     WalkStep, CurrentStep DEF IndInv
<1> QED BY Initially, <1>1, PTL DEF Spec

\* Every variable keeps its type.
THEOREM TypeCorrect == Spec => []TypeOK
<1>1. IndInv => TypeOK
  BY DEF IndInv
<1> QED BY Invariance, <1>1, PTL

\* No path is in the table twice: find_file_index and find_overflow_index,
\* which stop at the first entry they find, miss none.
THEOREM PathsAreUnique == Spec => []NoPathTwice
<1>1. IndInv => NoPathTwice
  BY DEF IndInv
<1> QED BY Invariance, <1>1, PTL

\* The table is right about every path, but for the named windows.
THEOREM TableIsCurrent == Spec => []IndexIsCurrent
<1>1. IndInv => IndexIsCurrent
  BY DEF IndInv
<1> QED BY Invariance, <1>1, PTL
-----------------------------------------------------------------------------
(***************************************************************************)
(* The table implements a set of files.                                    *)
(***************************************************************************)
FilesBatch ==
    IF stage = "apply"
    THEN [gone |-> Below(batch.dirs) \cup batch.removed, touched |-> batch.touched]
    ELSE [gone |-> {}, touched |-> {}]
FilesListing == IF ownerStage = "add" THEN listing ELSE {}

\* The files of the table are paths.
LEMMA LiveIsPaths ==
    ASSUME TypeOK
    PROVE  Live \subseteq Paths
  BY DEF TypeOK, Live, InOverflow

\* A step that leaves what the mapping is made of alone is a stutter.
LEMMA Stutters ==
    ASSUME UNCHANGED <<base, tombstones, overflow, rescan>>,
           UNCHANGED (scan = "walk"), UNCHANGED FilesBatch, UNCHANGED FilesListing
    PROVE  UNCHANGED Files!vars
<1>1. UNCHANGED Live
  BY DEF Live, InOverflow
<1> QED BY <1>1 DEF Files!vars, FilesBatch, FilesListing

\* Every step is a step of TrackedFiles or leaves it as it is.
LEMMA MappedStep == IndInv /\ IndInv' /\ [Next]_vars => [Files!Next]_Files!vars
<1> SUFFICES ASSUME IndInv, IndInv', [Next]_vars PROVE Files!Next \/ UNCHANGED Files!vars
  OBVIOUS
<1>0. TypeOK /\ TypeOK' /\ NoPathTwice
  BY DEF IndInv
<1>1. CASE Change
  <2>1. UNCHANGED <<table, scanner, rescan, handler, tracker>>
    BY <1>1 DEF Change, Create, Delete, DeleteDir, MoveDir, MakeDir, GitChange, RescanEvent, Happens
  <2> QED BY <2>1, Stutters DEF table, scanner, handler, tracker, FilesBatch, FilesListing, Below
<1>2. ASSUME NEW n \in 1..Len(events), TakeBatch(n) PROVE Files!Next
  <2>1. /\ UNCHANGED <<base, tombstones, overflow, scan, ownerStage, listing>>
        /\ stage = "idle"
        /\ \/ rescan' = TRUE /\ stage' = stage
           \/ rescan' = rescan /\ stage' = "apply"
    BY <1>2 DEF TakeBatch, table, scanner, tracker, handler, Requested
  <2>2. UNCHANGED Live
    BY <2>1 DEF Live, InOverflow
  <2>3. CASE rescan' = TRUE /\ stage' = stage
    BY <2>1, <2>2, <2>3 DEF Files!Next, Files!AskForRescan
  <2>4. CASE rescan' = rescan /\ stage' = "apply"
    <3>1. /\ batch'.removed \subseteq Paths /\ batch'.touched \subseteq Paths
          /\ batch'.dirs \subseteq Dirs
      BY <1>0 DEF TypeOK, Batch
    <3>2. Below(batch'.dirs) \subseteq Paths
      BY <3>1, DirAssumption DEF Below
    <3>3. FilesBatch' \in Files!Batch
      BY <3>1, <3>2 DEF FilesBatch, Files!Batch, Below
    <3> QED BY <2>1, <2>2, <2>4, <3>3
            DEF Files!Next, Files!Receive, Files!NoBatch, FilesBatch
  <2> QED BY <2>1, <2>3, <2>4
<1>3. CASE ApplyBatch
  <2>1. /\ UNCHANGED <<scan, ownerStage, listing>>
        /\ stage = "apply" /\ stage' = "status"
    BY <1>3 DEF ApplyBatch, scanner, tracker
  <2> DEFINE gone == Below(batch.dirs) \cup batch.removed
             touched == batch.touched
             lost == touched \ Live'
  <2>2. Live \subseteq Paths /\ Live' \subseteq Paths /\ touched \subseteq Paths
    BY <1>0, LiveIsPaths DEF TypeOK, Batch, Live, InOverflow
  <2>3. \A p \in Paths :
            /\ p \in touched => p \in Live' \/ rescan'
            /\ p \in gone \ touched => p \notin Live'
            /\ p \notin gone \cup touched => (p \in Live' <=> p \in Live)
            /\ p \in Live \ gone => p \in Live'
    BY <1>0, <1>3, ApplyEffect
  <2>4. rescan => rescan'
    BY <1>3 DEF ApplyBatch
  <2> HIDE DEF gone
  <2>5. Live' = (Live \ gone) \cup (touched \ lost)
    BY <2>2, <2>3
  <2>6. lost # {} => rescan'
    BY <2>2, <2>3
  <2> QED BY <2>1, <2>4, <2>5, <2>6 DEF Files!Next, Files!Apply, Files!NoBatch, gone
<1>4. CASE UpdateStatus
  BY <1>4, Stutters DEF UpdateStatus, table, scanner, FilesBatch, FilesListing
<1>5. ASSUME NEW d \in Dirs, ListDir(d) PROVE Files!Next \/ UNCHANGED Files!vars
  <2>1. /\ UNCHANGED <<base, tombstones, overflow, scan, rescan, stage, batch>>
        /\ ownerStage = "idle"
        /\ listing' \subseteq Paths
    BY <1>0, <1>5 DEF ListDir, table, scanner, handler, TypeOK
  <2>2. UNCHANGED Live
    BY <2>1 DEF Live, InOverflow
  <2>3. FilesListing' \subseteq Paths
    BY <2>1 DEF FilesListing
  <2> QED BY <2>1, <2>2, <2>3 DEF Files!Next, Files!List, FilesListing, Below
<1>6. CASE AddListed
  <2>1. /\ UNCHANGED <<scan, rescan, stage, batch>>
        /\ ownerStage = "add" /\ ownerStage' = "status"
    BY <1>6 DEF AddListed, scanner, handler
  <2> DEFINE lost == listing \ Live'
  <2>2. Live \subseteq Paths /\ Live' \subseteq Paths /\ listing \subseteq Paths
    BY <1>0, LiveIsPaths DEF TypeOK, Live, InOverflow
  <2>3. Live' = Live \cup (listing \ lost)
    BY <1>0, <1>6, <2>2, AddEffect
  <2> QED BY <2>1, <2>3 DEF Files!Next, Files!AddListed, Below
<1>7. CASE UpdateListed
  BY <1>7, Stutters DEF UpdateListed, table, scanner, handler, FilesBatch, FilesListing, Below
<1>8. CASE StartWalk
  <2>1. /\ UNCHANGED <<base, tombstones, overflow, stage, batch, ownerStage, listing>>
        /\ scan = "idle" /\ scan' = "walk" /\ rescan /\ rescan' = FALSE
    BY <1>8 DEF StartWalk, table, handler, tracker
  <2>2. UNCHANGED Live
    BY <2>1 DEF Live, InOverflow
  <2> QED BY <2>1, <2>2 DEF Files!Next, Files!Walk, Below
<1>9. ASSUME NEW p \in Paths, WalkRead(p) PROVE UNCHANGED Files!vars
  BY <1>9, Stutters DEF WalkRead, table, handler, tracker, FilesBatch, FilesListing, Below
<1>10. CASE CommitWalk
  <2>1. /\ UNCHANGED <<rescan, stage, batch, ownerStage, listing>>
        /\ scan = "walk" /\ scan' = "git"
    BY <1>10 DEF CommitWalk, handler
  <2>2. Live' \subseteq Paths
    BY <1>0 DEF TypeOK, Live, InOverflow
  <2> QED BY <2>1, <2>2 DEF Files!Next, Files!Replace, Below
<1>11. CASE ApplyGit \/ StartWatcher
  BY <1>11, Stutters DEF ApplyGit, StartWatcher, table, handler, tracker, FilesBatch,
     FilesListing, Below
<1>12. CASE UNCHANGED vars
  BY <1>12, Stutters DEF vars, table, scanner, handler, tracker, FilesBatch, FilesListing, Below
<1> QED BY <1>1, <1>2, <1>3, <1>4, <1>5, <1>6, <1>7, <1>8, <1>9, <1>10, <1>11, <1>12
        DEF Next, HandlerStep, OwnerStep, ScanStep

\* The two-part table with tombstones behaves like a set of files that only a
\* scan replaces and that never drops a file of a batch silently.
THEOREM TableIsASet == Spec => ImplementsTrackedFiles
<1>1. Init => Files!Init
  BY DEF Init, Files!Init, Files!NoBatch, Live, InOverflow
<1> QED BY Invariance, <1>1, MappedStep, PTL DEF Spec, ImplementsTrackedFiles, Files!Spec
=============================================================================
