----------------------------- MODULE WatchProofs ----------------------------
(***************************************************************************)
(* TLAPS proofs about the watches: that a file which is there is known, or *)
(* nobody could be told of it, for any tree of directories, any number of  *)
(* changes of the disk and of rescans.                                     *)
(***************************************************************************)
EXTENDS Watch, SequenceTheorems, FiniteSetTheorems, TLAPS

AllEvents == [kind : Kinds, path : Paths] \cup [kind : {"rescan"}, path : {Root}]
Change(p) == [kind |-> "change", path |-> p]
RescanEvent == [kind |-> "rescan", path |-> Root]

\* TypeOK, part by part: the disk, the scan, the owner.
DiskOK ==
    /\ disk \subseteq Paths /\ \A p \in disk : Parent[p] \in disk \cup {Root}
    /\ ops \in 0..MaxOps /\ rescans \in 0..MaxRescans
    /\ watched \subseteq Nodes /\ watched \subseteq disk \cup {Root}
    /\ missed \subseteq Files \cap disk

ScanOK ==
    /\ known \subseteq Files /\ walked \subseteq Files
    /\ scan \in {"idle", "walk", "commit", "install", "resubscribe"} /\ asked \in BOOLEAN
    /\ install \subseteq Nodes /\ (install # {} => scan = "install")

OwnerOK ==
    /\ owner \in {"recv", "list", "add", "gone"}
    /\ dir \in Nodes \cup {NoDir} /\ (dir = NoDir <=> owner \in {"recv", "gone"})
    /\ listed \subseteq Files /\ held \in BOOLEAN
    /\ {stopped, debouncing} \subseteq BOOLEAN /\ (debouncing \/ stopped)

\* What TypeOK does not say of the queues.
QueuesInv ==
    /\ events \in Seq(AllEvents) /\ channel \in Seq(Dirs)
    /\ batch \in [step : {"idle", "apply", "send"}, remove : SUBSET Paths, add : SUBSET Files, dirs : Seq(Dirs)]
    /\ batch.step = "idle" => batch = NoBatch
    /\ batch.step = "send" => batch.remove = {} /\ batch.add = {}

Types == DiskOK /\ ScanOK /\ OwnerOK /\ QueuesInv

\* The owner keeps a directory only while it handles it, and has watched it if it was there.
OwnerInv ==
    /\ owner = "gone" => stopped
    /\ held => owner \in {"list", "add"}
    /\ held /\ ~stopped => dir \in watched
    /\ scan = "idle" => ~asked

\* Before the root is watched nobody hears of anything, and only the initial scan runs.
Beginning ==
    Root \notin watched /\ ~stopped =>
        /\ watched = {} /\ events = <<>> /\ batch = NoBatch /\ channel = <<>> /\ owner = "recv"
        /\ \/ scan \in {"walk", "commit"} /\ known = {}
           \/ scan = "install" /\ Root \in install

(***************************************************************************)
(* A file that is there is known, or missed, or something is under way     *)
(* that will make it known: an event, a batch, a listing, a walk, or its   *)
(* directory on its way to the owner, who has not listed it yet.           *)
(***************************************************************************)
DirAhead(d) ==
    \/ Change(d) \in Range(events)
    \/ d \in Range(batch.dirs) \/ d \in Range(channel)
    \/ owner = "list" /\ dir = d /\ held
    \/ d \in DirsOf(walked) /\ (scan = "resubscribe" \/ (scan = "commit" /\ Root \in watched))

Ahead(f) ==
    \/ Change(f) \in Range(events)
    \/ f \in batch.add
    \/ owner = "add" /\ f \in listed
    \/ WalkAhead
    \/ scan = "commit" /\ f \in walked
    \/ DirAhead(Parent[f])

SeenInv == ~stopped => \A f \in disk \cap Files : f \in known \cup missed \/ Ahead(f)

(***************************************************************************)
(* A file that came after its directory was listed, and before the listing *)
(* is added: who removes it, or a directory above it, is told of it later. *)
(***************************************************************************)
Late(f) == owner = "add" /\ held /\ ~stopped /\ dir = Parent[f] /\ f \in disk \ listed

RemovalsRetold(f) ==
    \A i \in 1..Len(events) : events[i].kind = "remove" /\ events[i].path \in Above[f] =>
        \E j \in i+1..Len(events) : events[j] = Change(f)
BatchRetold(f) ==
    batch.remove \cap Above[f] # {} =>
        f \in batch.add \/ Change(f) \in Range(events) \/ RescanEvent \in Range(events)

RetoldInv == \A f \in Files : Late(f) => RemovalsRetold(f) /\ BatchRetold(f)

IndInv == Types /\ OwnerInv /\ Beginning /\ SeenInv /\ RetoldInv
-----------------------------------------------------------------------------
\* Sets and sequences.
LEMMA RangeOfConcat ==
    ASSUME NEW S, NEW s \in Seq(S), NEW t \in Seq(S)
    PROVE  Range(s \o t) = Range(s) \cup Range(t)
<1> DEFINE u == s \o t
<1>1. /\ u \in Seq(S) /\ Len(u) = Len(s) + Len(t) /\ Len(s) \in Nat /\ Len(t) \in Nat
      /\ \A i \in 1..Len(u) : u[i] = IF i <= Len(s) THEN s[i] ELSE t[i - Len(s)]
  BY ConcatProperties, LenProperties
<1>2. DOMAIN u = 1..Len(u) /\ DOMAIN s = 1..Len(s) /\ DOMAIN t = 1..Len(t)
  BY <1>1, LenProperties
<1> HIDE DEF u
<1>3. \A i \in 1..Len(u) : u[i] \in Range(s) \cup Range(t)
  <2> TAKE i \in 1..Len(u)
  <2>1. CASE i <= Len(s)
    BY <2>1, <1>1, <1>2 DEF Range
  <2>2. CASE i > Len(s)
    <3>1. i - Len(s) \in 1..Len(t) /\ u[i] = t[i - Len(s)]
      BY <2>2, <1>1
    <3> QED BY <3>1, <1>2 DEF Range
  <2> QED BY <2>1, <2>2, <1>1
<1>4. \A i \in 1..Len(s) : s[i] \in Range(u)
  <2> TAKE i \in 1..Len(s)
  <2>1. i \in 1..Len(u) /\ u[i] = s[i]
    BY <1>1
  <2> QED BY <2>1, <1>2 DEF Range
<1>5. \A i \in 1..Len(t) : t[i] \in Range(u)
  <2> TAKE i \in 1..Len(t)
  <2>1. i + Len(s) \in 1..Len(u) /\ ~(i + Len(s) <= Len(s)) /\ i + Len(s) - Len(s) = i
    BY <1>1
  <2>2. u[i + Len(s)] = t[i + Len(s) - Len(s)]
    BY <1>1, <2>1
  <2> QED BY <2>1, <2>2, <1>2 DEF Range
<1>6. Range(u) = Range(s) \cup Range(t)
  BY <1>2, <1>3, <1>4, <1>5 DEF Range
<1> QED BY <1>6 DEF u

LEMMA SeqOfSet ==
    ASSUME NEW S, IsFiniteSet(S)
    PROVE  SetToSeq(S) \in Seq(S) /\ Range(SetToSeq(S)) = S
<1>1. Cardinality(S) \in Nat /\ ExistsBijection(1..Cardinality(S), S)
  BY FS_CardinalityType
<1>2. PICK g \in [1..Cardinality(S) -> S] : IsInjective(g)
  BY <1>1 DEF ExistsBijection, Bijection, Injection
<1> DEFINE f == SetToSeq(S)
<1>3. f \in [1..Cardinality(S) -> S] /\ IsInjective(f)
  BY <1>2 DEF SetToSeq
<1> HIDE DEF f
<1>4. f \in Injection(1..Cardinality(S), S)
  BY <1>3 DEF Injection
<1>5. Cardinality(1..Cardinality(S)) = Cardinality(S)
  <2>1. 1 \in Int /\ Cardinality(S) \in Int
    BY <1>1
  <2>2. Cardinality(1..Cardinality(S)) = IF 1 > Cardinality(S) THEN 0 ELSE Cardinality(S) - 1 + 1
    BY <2>1, FS_Interval
  <2> QED BY <1>1, <2>2
<1>6. f \in Surjection(1..Cardinality(S), S)
  BY <1>4, <1>5, FS_Injection
<1>7. Range(f) = S
  BY <1>3, <1>6 DEF Surjection, Range
<1>8. f \in Seq(S)
  BY <1>1, <1>3
<1> QED BY <1>7, <1>8 DEF f

\* Whatever is above a path that is there is there as well.
LEMMA AboveIsThere ==
    ASSUME NEW D, D \subseteq Paths, \A p \in D : Parent[p] \in D \cup {Root}, NEW f \in D
    PROVE  Above[f] \subseteq D
<1>1. f \in D /\ (\A q \in D : Parent[q] \in D \cup {Root}) /\ D \in SUBSET Paths
  OBVIOUS
<1>2. Above[f] = {a \in Paths : \A S \in SUBSET Paths : f \in S /\ (\A q \in S : Parent[q] \in S \cup {Root}) => a \in S}
  BY DEF Above
<1> QED BY <1>1, <1>2, Zenon

LEMMA FiniteDirs == \A S : S \subseteq Paths => IsFiniteSet(S)
BY WatchAssumption, FS_Subset DEF Paths

LEMMA Apart == Root \notin Paths /\ Files \cap Dirs = {} /\ Dirs \subseteq Paths /\ Files \subseteq Paths /\ Dirs \subseteq Nodes
BY WatchAssumption DEF Paths, Nodes

LEMMA DirsOfDirs == \A S : S \subseteq Files => DirsOf(S) \subseteq Dirs
BY DEF DirsOf, Above, Paths
-----------------------------------------------------------------------------
LEMMA TypeParts == ASSUME QueuesInv PROVE TypeOK <=> DiskOK /\ ScanOK /\ OwnerOK
<1>1. \A i \in DOMAIN events : events[i] \in AllEvents
  BY LenProperties DEF QueuesInv
<1>2. Range(batch.dirs) \cup Range(channel) \subseteq Nodes
  <2>1. batch.dirs \in Seq(Dirs) /\ channel \in Seq(Dirs)
    BY DEF QueuesInv
  <2>2. \A s \in Seq(Dirs) : Range(s) \subseteq Dirs
    BY LenProperties DEF Range
  <2> QED BY <2>1, <2>2 DEF Nodes
<1>3. batch.step \in {"idle", "apply", "send"} /\ batch.remove \subseteq Paths /\ batch.add \subseteq Files
  BY DEF QueuesInv
<1> QED BY <1>1, <1>2, <1>3 DEF TypeOK, DiskOK, ScanOK, OwnerOK, AllEvents

LEMMA DiskStep ==
    ASSUME DiskOK, ScanOK, OwnerOK, QueuesInv, [Next]_vars
    PROVE  DiskOK'
<1>1. ASSUME NEW p \in Paths, Create(p) PROVE DiskOK'
  BY <1>1, WatchAssumption DEF Create, Untold, Operate, Elsewhere, DiskOK, fs, picker, scanner, owning,
       running
<1>2. ASSUME NEW p \in Paths, Delete(p) PROVE DiskOK'
  BY <1>2, WatchAssumption DEF Delete, Operate, Elsewhere, DiskOK, fs, picker, scanner, owning,
       running
<1>3. CASE Overflow
  BY <1>3, WatchAssumption DEF Overflow, DiskOK, fs, picker, scanner, owning, running
<1>4. CASE Rescan
  BY <1>4, WatchAssumption DEF Rescan, Trigger, DiskOK, fs, picker, scanner, owning, running
<1>5. CASE Stop
  BY <1>5, WatchAssumption DEF Stop, DiskOK, fs, picker, scanner, owning, running
<1>6. CASE Walk
  BY <1>6, WatchAssumption DEF Walk, DiskOK, fs, picker, scanner, owning, running
<1>7. CASE Commit
  BY <1>7, WatchAssumption DEF Commit, Dropped, DiskOK, fs, picker, scanner, owning, running
<1>8. ASSUME NEW d \in Nodes, Install(d) PROVE DiskOK'
  BY <1>8, WatchAssumption DEF Install, DiskOK, fs, picker, scanner, owning, running
<1>9. CASE EndScan
  BY <1>9, WatchAssumption DEF EndScan, DiskOK, fs, picker, scanner, owning, running
<1>10. ASSUME NEW n \in 1..MaxOps, Sort(n) PROVE DiskOK'
  BY <1>10, WatchAssumption DEF Sort, Trigger, DiskOK, fs, picker, scanner, owning, running
<1>11. CASE Apply
  <2>1. Removed \subseteq Files
    BY DEF Removed, ScanOK
  <2> QED BY <1>11, <2>1 DEF Apply, Swept, DiskOK, fs, picker, scanner, owning, running
<1>12. CASE Send
  BY <1>12, WatchAssumption DEF Send, DiskOK, fs, picker, scanner, owning, running
<1>13. CASE DebouncerExits
  BY <1>13, WatchAssumption DEF DebouncerExits, DiskOK, fs, picker, scanner, owning, running
<1>14. CASE Receive
  <2>1. Head(channel) \in Dirs
    BY <1>14, HeadTailProperties DEF QueuesInv, Receive
  <2> QED BY <1>14, <2>1 DEF Receive, TakeDir, WatchDir, DiskOK, fs, picker, scanner, owning,
               running, Nodes
<1>15. CASE List
  BY <1>15, WatchAssumption DEF List, TakeDir, ListDir, DiskOK, fs, picker, scanner, owning, running
<1>16. CASE Add
  BY <1>16, WatchAssumption DEF Add, DiskOK, fs, picker, scanner, owning, running
<1>17. CASE OwnerExits
  BY <1>17, WatchAssumption DEF OwnerExits, DiskOK, fs, picker, scanner, owning, running
<1>18. CASE UNCHANGED vars
  BY <1>18, WatchAssumption DEF vars, DiskOK, fs, picker, scanner, owning, running
<1> QED
  BY <1>1, <1>2, <1>3, <1>4, <1>5, <1>6, <1>7, <1>8, <1>9, <1>10, <1>11, <1>12, <1>13, <1>14,
       <1>15, <1>16, <1>17, <1>18 DEF Next, Scan, Handler, Owner

LEMMA ScanStep ==
    ASSUME DiskOK, ScanOK, OwnerOK, QueuesInv, [Next]_vars
    PROVE  ScanOK'
<1>1. ASSUME NEW p \in Paths, Create(p) PROVE ScanOK'
  BY <1>1, Apart DEF Create, Operate, Elsewhere, ScanOK, fs, picker, scanner, owning, running
<1>2. ASSUME NEW p \in Paths, Delete(p) PROVE ScanOK'
  BY <1>2, Apart DEF Delete, Operate, Elsewhere, ScanOK, fs, picker, scanner, owning, running
<1>3. CASE Overflow
  BY <1>3, Apart DEF Overflow, ScanOK, fs, picker, scanner, owning, running
<1>4. CASE Rescan
  BY <1>4, Apart DEF Rescan, Trigger, ScanOK, fs, picker, scanner, owning, running
<1>5. CASE Stop
  BY <1>5, Apart DEF Stop, ScanOK, fs, picker, scanner, owning, running
<1>6. CASE Walk
  BY <1>6, Apart DEF Walk, ScanOK, fs, picker, scanner, owning, running
<1>7. CASE Commit
  <2>1. DirsOf(walked) \cup {Root} \subseteq Nodes
    BY Apart, DirsOfDirs DEF ScanOK, Nodes
  <2> QED BY <1>7, <2>1 DEF Commit, ScanOK, fs, picker, scanner, owning, running
<1>8. ASSUME NEW d \in Nodes, Install(d) PROVE ScanOK'
  BY <1>8, Apart DEF Install, ScanOK, fs, picker, scanner, owning, running
<1>9. CASE EndScan
  BY <1>9, Apart DEF EndScan, ScanOK, fs, picker, scanner, owning, running
<1>10. ASSUME NEW n \in 1..MaxOps, Sort(n) PROVE ScanOK'
  BY <1>10, Apart DEF Sort, Trigger, ScanOK, fs, picker, scanner, owning, running
<1>11. CASE Apply
  <2>1. batch.add \subseteq Files
    BY DEF QueuesInv
  <2> QED BY <1>11, <2>1 DEF Apply, ScanOK, fs, picker, scanner, owning, running
<1>12. CASE Send
  BY <1>12, Apart DEF Send, ScanOK, fs, picker, scanner, owning, running
<1>13. CASE DebouncerExits
  BY <1>13, Apart DEF DebouncerExits, ScanOK, fs, picker, scanner, owning, running
<1>14. CASE Receive
  BY <1>14, Apart DEF Receive, TakeDir, WatchDir, ScanOK, fs, picker, scanner, owning, running
<1>15. CASE List
  BY <1>15, Apart DEF List, TakeDir, ListDir, ScanOK, fs, picker, scanner, owning, running
<1>16. CASE Add
  BY <1>16 DEF Add, OwnerOK, ScanOK, fs, picker, scanner, owning, running
<1>17. CASE OwnerExits
  BY <1>17, Apart DEF OwnerExits, ScanOK, fs, picker, scanner, owning, running
<1>18. CASE UNCHANGED vars
  BY <1>18, Apart DEF vars, ScanOK, fs, picker, scanner, owning, running
<1> QED
  BY <1>1, <1>2, <1>3, <1>4, <1>5, <1>6, <1>7, <1>8, <1>9, <1>10, <1>11, <1>12, <1>13, <1>14,
       <1>15, <1>16, <1>17, <1>18 DEF Next, Scan, Handler, Owner

LEMMA OwnerStep ==
    ASSUME DiskOK, ScanOK, OwnerOK, QueuesInv, [Next]_vars
    PROVE  OwnerOK'
<1>1. ASSUME NEW p \in Paths, Create(p) PROVE OwnerOK'
  BY <1>1, WatchAssumption DEF Create, Operate, Elsewhere, OwnerOK, fs, picker, scanner, owning,
       running
<1>2. ASSUME NEW p \in Paths, Delete(p) PROVE OwnerOK'
  BY <1>2, WatchAssumption DEF Delete, Operate, Elsewhere, OwnerOK, fs, picker, scanner, owning,
       running
<1>3. CASE Overflow
  BY <1>3, WatchAssumption DEF Overflow, OwnerOK, fs, picker, scanner, owning, running
<1>4. CASE Rescan
  BY <1>4, WatchAssumption DEF Rescan, Trigger, OwnerOK, fs, picker, scanner, owning, running
<1>5. CASE Stop
  BY <1>5, WatchAssumption DEF Stop, OwnerOK, fs, picker, scanner, owning, running
<1>6. CASE Walk
  BY <1>6, WatchAssumption DEF Walk, OwnerOK, fs, picker, scanner, owning, running
<1>7. CASE Commit
  BY <1>7, WatchAssumption DEF Commit, OwnerOK, fs, picker, scanner, owning, running
<1>8. ASSUME NEW d \in Nodes, Install(d) PROVE OwnerOK'
  BY <1>8, WatchAssumption DEF Install, OwnerOK, fs, picker, scanner, owning, running
<1>9. CASE EndScan
  BY <1>9, WatchAssumption DEF EndScan, OwnerOK, fs, picker, scanner, owning, running
<1>10. ASSUME NEW n \in 1..MaxOps, Sort(n) PROVE OwnerOK'
  BY <1>10, WatchAssumption DEF Sort, Trigger, OwnerOK, fs, picker, scanner, owning, running
<1>11. CASE Apply
  BY <1>11, WatchAssumption DEF Apply, OwnerOK, fs, picker, scanner, owning, running
<1>12. CASE Send
  BY <1>12, WatchAssumption DEF Send, OwnerOK, fs, picker, scanner, owning, running
<1>13. CASE DebouncerExits
  BY <1>13, WatchAssumption DEF DebouncerExits, OwnerOK, fs, picker, scanner, owning, running
<1>14. CASE Receive
  <2>1. Head(channel) \in Dirs
    BY <1>14, HeadTailProperties DEF QueuesInv, Receive
  <2> QED BY <1>14, <2>1, WatchAssumption DEF Receive, TakeDir, WatchDir, OwnerOK, fs, picker,
               scanner, owning, running, Nodes
<1>15. CASE List
  BY <1>15 DEF List, TakeDir, ListDir, FilesIn, OwnerOK, fs, picker, scanner, owning, running
<1>16. CASE Add
  BY <1>16, WatchAssumption DEF Add, OwnerOK, fs, picker, scanner, owning, running
<1>17. CASE OwnerExits
  BY <1>17, WatchAssumption DEF OwnerExits, OwnerOK, fs, picker, scanner, owning, running
<1>18. CASE UNCHANGED vars
  BY <1>18, WatchAssumption DEF vars, OwnerOK, fs, picker, scanner, owning, running
<1> QED
  BY <1>1, <1>2, <1>3, <1>4, <1>5, <1>6, <1>7, <1>8, <1>9, <1>10, <1>11, <1>12, <1>13, <1>14,
       <1>15, <1>16, <1>17, <1>18 DEF Next, Scan, Handler, Owner
-----------------------------------------------------------------------------
(***************************************************************************)
(* The queues: what a batch takes off the events, and what it makes of it. *)
(***************************************************************************)
Taken(n, p) == \E i \in 1..n : events[i] = Change(p)

LEMMA SplitEvents ==
    ASSUME QueuesInv, NEW n \in 1..Len(events)
    PROVE  /\ Len(events) \in Nat /\ DOMAIN events = 1..Len(events)
           /\ SubSeq(events, 1, n) \in Seq(AllEvents)
           /\ DOMAIN SubSeq(events, 1, n) = 1..n
           /\ \A i \in 1..n : SubSeq(events, 1, n)[i] = events[i]
           /\ SubSeq(events, n + 1, Len(events)) \in Seq(AllEvents)
           /\ Len(SubSeq(events, n + 1, Len(events))) = Len(events) - n
           /\ \A i \in 1..Len(events) - n : SubSeq(events, n + 1, Len(events))[i] = events[n + i]
<1>1. Len(events) \in Nat /\ DOMAIN events = 1..Len(events)
  BY LenProperties DEF QueuesInv
<1>2. \A i \in 1..Len(events) : events[i] \in AllEvents
  BY ElementOfSeq DEF QueuesInv
<1>3. /\ SubSeq(events, 1, n) \in Seq(AllEvents)
      /\ Len(SubSeq(events, 1, n)) = n
      /\ \A i \in 1..n : SubSeq(events, 1, n)[i] = events[i]
  <2>1. 1 \in Int /\ n \in Int /\ \A i \in 1..n : events[i] \in AllEvents
    BY <1>1, <1>2
  <2>2. /\ SubSeq(events, 1, n) \in Seq(AllEvents)
        /\ Len(SubSeq(events, 1, n)) = IF 1 <= n THEN n - 1 + 1 ELSE 0
        /\ \A i \in 1..n - 1 + 1 : SubSeq(events, 1, n)[i] = events[1 + i - 1]
    BY <2>1, SubSeqProperties
  <2> QED BY <2>2
<1>4. DOMAIN SubSeq(events, 1, n) = 1..n
  BY <1>3, LenProperties
<1> DEFINE rest == SubSeq(events, n + 1, Len(events))
<1>5. /\ rest \in Seq(AllEvents) /\ Len(rest) = Len(events) - n
      /\ \A i \in 1..Len(events) - n : rest[i] = events[n + i]
  <2>1. n + 1 \in Int /\ Len(events) \in Int /\ \A i \in n + 1..Len(events) : events[i] \in AllEvents
    BY <1>1, <1>2
  <2>2. /\ rest \in Seq(AllEvents)
        /\ Len(rest) = IF n + 1 <= Len(events) THEN Len(events) - (n + 1) + 1 ELSE 0
        /\ \A i \in 1..Len(events) - (n + 1) + 1 : rest[i] = events[n + 1 + i - 1]
    BY <2>1, SubSeqProperties
  <2> HIDE DEF rest
  <2>3. Len(events) - (n + 1) + 1 = Len(events) - n
    BY <1>1
  <2>4. Len(rest) = Len(events) - n
    BY <1>1, <2>2
  <2>5. ASSUME NEW i \in 1..Len(events) - n PROVE rest[i] = events[n + i]
    <3>1. i \in 1..Len(events) - (n + 1) + 1 /\ n + 1 + i - 1 = n + i
      BY <1>1, <2>5
    <3> QED BY <2>2, <3>1
  <2> QED BY <2>2, <2>4, <2>5
<1> QED BY <1>1, <1>3, <1>4, <1>5

\* What was touched and is there is added, or listed; what is there and goes was told to be removed.
LEMMA SortedBatch ==
    ASSUME QueuesInv, disk \subseteq Paths, NEW n \in 1..Len(events),
           \A i \in 1..n : events[i].kind # "rescan"
    PROVE  LET b == Sorted(SubSeq(events, 1, n)) IN
           /\ b \in [step : {"apply"}, remove : SUBSET Paths, add : SUBSET Files, dirs : Seq(Dirs)]
           /\ \A f \in disk \cap Files : Taken(n, f) => f \in b.add
           /\ \A d \in disk \cap Dirs : Taken(n, d) => d \in Range(b.dirs)
           /\ \A p \in b.remove \cap disk : \E i \in 1..n : events[i].kind = "remove" /\ events[i].path = p
<1> DEFINE es == SubSeq(events, 1, n)
           paths(k) == {es[i].path : i \in {j \in DOMAIN es : es[j].kind = k}}
           changed == paths("change")
           gone == paths("remove") \cup ((changed \cap Files) \ disk)
           dirs == SetToSeq(changed \cap disk \cap Dirs)
<1>1. Sorted(es) = [step |-> "apply", remove |-> gone, add |-> changed \cap disk \cap Files, dirs |-> dirs]
  BY DEF Sorted
<1>2. DOMAIN es = 1..n /\ (\A i \in 1..n : es[i] = events[i]) /\ \A i \in 1..n : events[i] \in AllEvents
  BY SplitEvents, ElementOfSeq DEF QueuesInv
<1> HIDE DEF es
<1>3. \A i \in 1..n : events[i].path \in Paths /\ events[i] = [kind |-> events[i].kind, path |-> events[i].path]
  BY <1>2 DEF AllEvents, Kinds
<1>4. changed \subseteq Paths /\ gone \subseteq Paths
  BY <1>2, <1>3
<1>5. \A p : Taken(n, p) => p \in changed
  BY <1>2 DEF Taken, Change
<1>6. \A p \in gone \cap disk : \E i \in 1..n : events[i].kind = "remove" /\ events[i].path = p
  BY <1>2
<1> HIDE DEF changed, gone
<1>7. dirs \in Seq(changed \cap disk \cap Dirs) /\ Range(dirs) = changed \cap disk \cap Dirs
  BY <1>4, SeqOfSet, FiniteDirs
<1>8. dirs \in Seq(Dirs)
  BY <1>7, SeqMonotonic
<1> HIDE DEF dirs
<1> QED BY <1>1, <1>4, <1>5, <1>6, <1>7, <1>8 DEF es

LEMMA ResubscribedDirs ==
    ASSUME walked \subseteq Files
    PROVE  Resubscribed \in Seq(Dirs) /\ Range(Resubscribed) = DirsOf(walked)
<1>1. DirsOf(walked) \subseteq Dirs /\ IsFiniteSet(DirsOf(walked))
  BY DirsOfDirs, FiniteDirs, Apart
<1>2. SetToSeq(DirsOf(walked)) \in Seq(DirsOf(walked)) /\ Range(SetToSeq(DirsOf(walked))) = DirsOf(walked)
  BY <1>1, SeqOfSet
<1>3. SetToSeq(DirsOf(walked)) \in Seq(Dirs)
  BY <1>1, <1>2, SeqMonotonic
<1> QED BY <1>2, <1>3 DEF Resubscribed

\* A change of the disk adds one event, or none.
LEMMA Reported ==
    ASSUME QueuesInv, NEW k \in Kinds, NEW p \in Paths, events' = events \o Events(k, p)
    PROVE  /\ events' \in Seq(AllEvents) /\ Len(events) \in Nat
           /\ IF Parent[p] \in watched
              THEN events' = Append(events, [kind |-> k, path |-> p])
              ELSE events' = events
           /\ Range(events) \subseteq Range(events')
<1>1. events \in Seq(AllEvents) /\ [kind |-> k, path |-> p] \in AllEvents
  BY DEF QueuesInv, AllEvents
<1>2. Len(events) \in Nat
  BY <1>1, LenProperties
<1>3. Events(k, p) \in Seq(AllEvents)
  BY <1>1 DEF Events
<1>4. events' \in Seq(AllEvents) /\ Range(events') = Range(events) \cup Range(Events(k, p))
  BY <1>1, <1>3, RangeOfConcat, ConcatProperties
<1>5. Parent[p] \in watched => events' = Append(events, [kind |-> k, path |-> p])
  BY <1>1, AppendIsConcat DEF Events
<1>6. Parent[p] \notin watched => events' = events
  BY <1>1, ConcatEmptySeq DEF Events
<1> QED BY <1>2, <1>4, <1>5, <1>6

BatchOK ==
    /\ batch \in [step : {"idle", "apply", "send"}, remove : SUBSET Paths, add : SUBSET Files, dirs : Seq(Dirs)]
    /\ batch.step = "idle" => batch = NoBatch
    /\ batch.step = "send" => batch.remove = {} /\ batch.add = {}

LEMMA EventsStep ==
    ASSUME QueuesInv, [Next]_vars
    PROVE  events' \in Seq(AllEvents)
<1>1. ASSUME NEW p \in Paths, Create(p) PROVE events' \in Seq(AllEvents)
  BY <1>1, Reported DEF Create, Kinds
<1>2. ASSUME NEW p \in Paths, Delete(p) PROVE events' \in Seq(AllEvents)
  BY <1>2, Reported DEF Delete, Kinds
<1>3. CASE Overflow
  <2>1. RescanEvent \in AllEvents
    BY DEF RescanEvent, AllEvents
  <2>2. <<RescanEvent>> \in Seq(AllEvents)
    BY <2>1
  <2> QED BY <1>3, <2>2 DEF Overflow, RescanEvent
<1>4. CASE Rescan
  BY <1>4, EmptySeq DEF Rescan, Trigger, QueuesInv, fs, picker, scanner, owning, running
<1>5. CASE Stop
  BY <1>5, EmptySeq DEF Stop, QueuesInv, fs, picker, scanner, owning, running
<1>6. CASE Walk
  BY <1>6, EmptySeq DEF Walk, QueuesInv, fs, picker, scanner, owning, running
<1>7. CASE Commit
  BY <1>7, EmptySeq DEF Commit, QueuesInv, fs, picker, scanner, owning, running
<1>8. ASSUME NEW d \in Nodes, Install(d) PROVE events' \in Seq(AllEvents)
  BY <1>8, EmptySeq DEF Install, QueuesInv, fs, picker, scanner, owning, running
<1>9. CASE EndScan
  BY <1>9, EmptySeq DEF EndScan, QueuesInv, fs, picker, scanner, owning, running
<1>10. ASSUME NEW n \in 1..MaxOps, Sort(n) PROVE events' \in Seq(AllEvents)
  <2>1. n \in 1..Len(events)
    BY <1>10, LenProperties DEF Sort, QueuesInv
  <2> QED BY <1>10, <2>1, SplitEvents DEF Sort
<1>11. CASE Apply
  BY <1>11, EmptySeq DEF Apply, QueuesInv, fs, picker, scanner, owning, running
<1>12. CASE Send
  BY <1>12, EmptySeq DEF Send, QueuesInv, fs, picker, scanner, owning, running
<1>13. CASE DebouncerExits
  BY <1>13, EmptySeq DEF DebouncerExits, QueuesInv, fs, picker, scanner, owning, running
<1>14. CASE Receive
  BY <1>14, EmptySeq DEF Receive, TakeDir, WatchDir, QueuesInv, fs, picker, scanner, owning, running
<1>15. CASE List
  BY <1>15, EmptySeq DEF List, TakeDir, ListDir, QueuesInv, fs, picker, scanner, owning, running
<1>16. CASE Add
  BY <1>16, EmptySeq DEF Add, QueuesInv, fs, picker, scanner, owning, running
<1>17. CASE OwnerExits
  BY <1>17, EmptySeq DEF OwnerExits, QueuesInv, fs, picker, scanner, owning, running
<1>18. CASE UNCHANGED vars
  BY <1>18, EmptySeq DEF vars, QueuesInv, fs, picker, scanner, owning, running
<1> QED
  BY <1>1, <1>2, <1>3, <1>4, <1>5, <1>6, <1>7, <1>8, <1>9, <1>10, <1>11, <1>12, <1>13, <1>14,
       <1>15, <1>16, <1>17, <1>18 DEF Next, Scan, Handler, Owner

LEMMA ChannelStep ==
    ASSUME ScanOK, QueuesInv, [Next]_vars
    PROVE  channel' \in Seq(Dirs)
<1>1. ASSUME NEW p \in Paths, Create(p) PROVE channel' \in Seq(Dirs)
  BY <1>1, EmptySeq DEF Create, Operate, Elsewhere, QueuesInv, fs, picker, scanner, owning, running
<1>2. ASSUME NEW p \in Paths, Delete(p) PROVE channel' \in Seq(Dirs)
  BY <1>2, EmptySeq DEF Delete, Operate, Elsewhere, QueuesInv, fs, picker, scanner, owning, running
<1>3. CASE Overflow
  BY <1>3, EmptySeq DEF Overflow, QueuesInv, fs, picker, scanner, owning, running
<1>4. CASE Rescan
  BY <1>4, EmptySeq DEF Rescan, Trigger, QueuesInv, fs, picker, scanner, owning, running
<1>5. CASE Stop
  BY <1>5, EmptySeq DEF Stop, QueuesInv, fs, picker, scanner, owning, running
<1>6. CASE Walk
  BY <1>6, EmptySeq DEF Walk, QueuesInv, fs, picker, scanner, owning, running
<1>7. CASE Commit
  BY <1>7, EmptySeq DEF Commit, QueuesInv, fs, picker, scanner, owning, running
<1>8. ASSUME NEW d \in Nodes, Install(d) PROVE channel' \in Seq(Dirs)
  BY <1>8, EmptySeq DEF Install, QueuesInv, fs, picker, scanner, owning, running
<1>9. CASE EndScan
  BY <1>9, ResubscribedDirs, ConcatProperties DEF EndScan, ScanOK, QueuesInv
<1>10. ASSUME NEW n \in 1..MaxOps, Sort(n) PROVE channel' \in Seq(Dirs)
  BY <1>10, EmptySeq DEF Sort, Trigger, QueuesInv, fs, picker, scanner, owning, running
<1>11. CASE Apply
  BY <1>11, EmptySeq DEF Apply, QueuesInv, fs, picker, scanner, owning, running
<1>12. CASE Send
  <2>1. batch.dirs \in Seq(Dirs) /\ channel \in Seq(Dirs)
    BY DEF QueuesInv
  <2> QED BY <1>12, <2>1, ConcatProperties DEF Send
<1>13. CASE DebouncerExits
  BY <1>13, EmptySeq DEF DebouncerExits, QueuesInv, fs, picker, scanner, owning, running
<1>14. CASE Receive
  BY <1>14, HeadTailProperties DEF Receive, QueuesInv
<1>15. CASE List
  BY <1>15, EmptySeq DEF List, TakeDir, ListDir, QueuesInv, fs, picker, scanner, owning, running
<1>16. CASE Add
  BY <1>16, EmptySeq DEF Add, QueuesInv, fs, picker, scanner, owning, running
<1>17. CASE OwnerExits
  BY <1>17, EmptySeq DEF OwnerExits, QueuesInv, fs, picker, scanner, owning, running
<1>18. CASE UNCHANGED vars
  BY <1>18, EmptySeq DEF vars, QueuesInv, fs, picker, scanner, owning, running
<1> QED
  BY <1>1, <1>2, <1>3, <1>4, <1>5, <1>6, <1>7, <1>8, <1>9, <1>10, <1>11, <1>12, <1>13, <1>14,
       <1>15, <1>16, <1>17, <1>18 DEF Next, Scan, Handler, Owner

LEMMA BatchStep ==
    ASSUME DiskOK, QueuesInv, [Next]_vars
    PROVE  BatchOK'
<1> USE DEF BatchOK
<1>1. ASSUME NEW p \in Paths, Create(p) PROVE BatchOK'
  BY <1>1, EmptySeq DEF Create, Operate, Elsewhere, QueuesInv, fs, picker, scanner, owning, running
<1>2. ASSUME NEW p \in Paths, Delete(p) PROVE BatchOK'
  BY <1>2, EmptySeq DEF Delete, Operate, Elsewhere, QueuesInv, fs, picker, scanner, owning, running
<1>3. CASE Overflow
  BY <1>3, EmptySeq DEF Overflow, QueuesInv, fs, picker, scanner, owning, running
<1>4. CASE Rescan
  BY <1>4, EmptySeq DEF Rescan, Trigger, QueuesInv, fs, picker, scanner, owning, running
<1>5. CASE Stop
  BY <1>5, EmptySeq DEF Stop, QueuesInv, fs, picker, scanner, owning, running
<1>6. CASE Walk
  BY <1>6, EmptySeq DEF Walk, QueuesInv, fs, picker, scanner, owning, running
<1>7. CASE Commit
  BY <1>7, EmptySeq DEF Commit, QueuesInv, fs, picker, scanner, owning, running
<1>8. ASSUME NEW d \in Nodes, Install(d) PROVE BatchOK'
  BY <1>8, EmptySeq DEF Install, QueuesInv, fs, picker, scanner, owning, running
<1>9. CASE EndScan
  BY <1>9, EmptySeq DEF EndScan, QueuesInv, fs, picker, scanner, owning, running
<1>10. ASSUME NEW n \in 1..MaxOps, Sort(n) PROVE BatchOK'
  <2>1. n \in 1..Len(events)
    BY <1>10, LenProperties DEF Sort, QueuesInv
  <2>2. CASE \E i \in DOMAIN SubSeq(events, 1, n) : SubSeq(events, 1, n)[i].kind = "rescan"
    BY <1>10, <2>2 DEF Sort, QueuesInv
  <2>3. CASE ~\E i \in DOMAIN SubSeq(events, 1, n) : SubSeq(events, 1, n)[i].kind = "rescan"
    <3>1. \A i \in 1..n : events[i].kind # "rescan"
      BY <2>1, <2>3, SplitEvents
    <3>2. batch' = Sorted(SubSeq(events, 1, n))
      BY <1>10, <2>3 DEF Sort
    <3> QED BY <2>1, <3>1, <3>2, SortedBatch DEF DiskOK
  <2> QED BY <2>2, <2>3
<1>11. CASE Apply
  <2>1. batch' = [batch EXCEPT !.step = "send", !.remove = {}, !.add = {}]
    BY <1>11 DEF Apply
  <2> QED BY <2>1 DEF QueuesInv
<1>12. CASE Send
  BY <1>12, EmptySeq DEF Send, NoBatch
<1>13. CASE DebouncerExits
  BY <1>13, EmptySeq DEF DebouncerExits, QueuesInv, fs, picker, scanner, owning, running
<1>14. CASE Receive
  BY <1>14, EmptySeq DEF Receive, TakeDir, WatchDir, QueuesInv, fs, picker, scanner, owning, running
<1>15. CASE List
  BY <1>15, EmptySeq DEF List, TakeDir, ListDir, QueuesInv, fs, picker, scanner, owning, running
<1>16. CASE Add
  BY <1>16, EmptySeq DEF Add, QueuesInv, fs, picker, scanner, owning, running
<1>17. CASE OwnerExits
  BY <1>17, EmptySeq DEF OwnerExits, QueuesInv, fs, picker, scanner, owning, running
<1>18. CASE UNCHANGED vars
  BY <1>18, EmptySeq DEF vars, QueuesInv, fs, picker, scanner, owning, running
<1> QED
  BY <1>1, <1>2, <1>3, <1>4, <1>5, <1>6, <1>7, <1>8, <1>9, <1>10, <1>11, <1>12, <1>13, <1>14,
       <1>15, <1>16, <1>17, <1>18 DEF Next, Scan, Handler, Owner

LEMMA QueuesStep ==
    ASSUME DiskOK, ScanOK, QueuesInv, [Next]_vars
    PROVE  QueuesInv'
BY EventsStep, ChannelStep, BatchStep DEF QueuesInv, BatchOK
-----------------------------------------------------------------------------
LEMMA TypesStep == ASSUME Types, [Next]_vars PROVE Types'
BY DiskStep, ScanStep, OwnerStep, QueuesStep DEF Types

LEMMA OwnerInvStep ==
    ASSUME Types, OwnerInv, [Next]_vars
    PROVE  OwnerInv'
<1> USE DEF Types, OwnerOK, ScanOK
<1>1. ASSUME NEW p \in Paths, Create(p) PROVE OwnerInv'
  BY <1>1, WatchAssumption DEF Create, Operate, Elsewhere, OwnerInv, fs, picker, scanner, owning,
       running
<1>2. ASSUME NEW p \in Paths, Delete(p) PROVE OwnerInv'
  BY <1>2, WatchAssumption DEF Delete, Operate, Elsewhere, OwnerInv, fs, picker, scanner, owning,
       running
<1>3. CASE Overflow
  BY <1>3, WatchAssumption DEF Overflow, OwnerInv, fs, picker, scanner, owning, running
<1>4. CASE Rescan
  BY <1>4, WatchAssumption DEF Rescan, Trigger, OwnerInv, fs, picker, scanner, owning, running
<1>5. CASE Stop
  BY <1>5, WatchAssumption DEF Stop, OwnerInv, fs, picker, scanner, owning, running
<1>6. CASE Walk
  BY <1>6, WatchAssumption DEF Walk, OwnerInv, fs, picker, scanner, owning, running
<1>7. CASE Commit
  BY <1>7, WatchAssumption DEF Commit, OwnerInv, fs, picker, scanner, owning, running
<1>8. ASSUME NEW d \in Nodes, Install(d) PROVE OwnerInv'
  BY <1>8 DEF Install, DiskOK, OwnerInv, fs, picker, scanner, owning, running
<1>9. CASE EndScan
  BY <1>9, WatchAssumption DEF EndScan, OwnerInv, fs, picker, scanner, owning, running
<1>10. ASSUME NEW n \in 1..MaxOps, Sort(n) PROVE OwnerInv'
  BY <1>10, WatchAssumption DEF Sort, Trigger, OwnerInv, fs, picker, scanner, owning, running
<1>11. CASE Apply
  BY <1>11, WatchAssumption DEF Apply, OwnerInv, fs, picker, scanner, owning, running
<1>12. CASE Send
  BY <1>12, WatchAssumption DEF Send, OwnerInv, fs, picker, scanner, owning, running
<1>13. CASE DebouncerExits
  BY <1>13, WatchAssumption DEF DebouncerExits, OwnerInv, fs, picker, scanner, owning, running
<1>14. CASE Receive
  BY <1>14, WatchAssumption DEF Receive, TakeDir, WatchDir, OwnerInv, fs, picker, scanner,
       owning, running
<1>15. CASE List
  BY <1>15, WatchAssumption DEF List, TakeDir, ListDir, OwnerInv, fs, picker, scanner, owning,
       running
<1>16. CASE Add
  BY <1>16, WatchAssumption DEF Add, OwnerInv, fs, picker, scanner, owning, running
<1>17. CASE OwnerExits
  BY <1>17 DEF OwnerExits, NoSender, OwnerInv, fs, picker, scanner, owning, running
<1>18. CASE UNCHANGED vars
  BY <1>18, WatchAssumption DEF vars, OwnerInv, fs, picker, scanner, owning, running
<1> QED
  BY <1>1, <1>2, <1>3, <1>4, <1>5, <1>6, <1>7, <1>8, <1>9, <1>10, <1>11, <1>12, <1>13, <1>14,
       <1>15, <1>16, <1>17, <1>18 DEF Next, Scan, Handler, Owner

LEMMA BeginningStep ==
    ASSUME Types, OwnerInv, Beginning, [Next]_vars
    PROVE  Beginning'
<1> SUFFICES ASSUME Root \notin watched', ~stopped'
             PROVE  /\ watched' = {} /\ events' = <<>> /\ batch' = NoBatch /\ channel' = <<>> /\ owner' = "recv"
                    /\ \/ scan' \in {"walk", "commit"} /\ known' = {}
                       \/ scan' = "install" /\ Root \in install'
  BY DEF Beginning
<1>a. ~stopped
  BY DEF Next, Scan, Handler, Owner, Create, Delete, Overflow, Rescan, Stop, Walk, Commit,
       Install, EndScan, Sort, Apply,
     Send, DebouncerExits, Receive, List, Add, OwnerExits, Elsewhere, fs, picker, scanner, owning, running, vars
<1>b. Root \notin watched
  BY <1>a, Apart DEF Next, Scan, Handler, Owner, Create, Delete, Overflow, Rescan, Stop, Walk,
       Commit, Install, EndScan, Sort, Apply,
     Send, DebouncerExits, Receive, List, Add, OwnerExits, Elsewhere, fs, picker, scanner, owning, running, vars,
     TakeDir, WatchDir, ListDir
<1>c. /\ watched = {} /\ events = <<>> /\ batch = NoBatch /\ channel = <<>> /\ owner = "recv"
      /\ \/ scan \in {"walk", "commit"} /\ known = {}
         \/ scan = "install" /\ Root \in install
  BY <1>a, <1>b DEF Beginning
<1> DEFINE G == /\ watched' = {} /\ events' = <<>> /\ batch' = NoBatch /\ channel' = <<>> /\ owner' = "recv"
                /\ \/ scan' \in {"walk", "commit"} /\ known' = {}
                   \/ scan' = "install" /\ Root \in install'
<1> SUFFICES G
  OBVIOUS
<1>1. ASSUME NEW p \in Paths, Create(p) PROVE G
  <2>1. Events("change", p) = <<>>
    BY <1>c DEF Events
  <2>2. events' = <<>>
    BY <1>1, <2>1, <1>c DEF Create
  <2> QED BY <1>1, <2>2, <1>c DEF Create, Elsewhere, fs, picker, scanner, owning, running, NoBatch
<1>2. ASSUME NEW p \in Paths, Delete(p) PROVE G
  <2>1. Events("remove", p) = <<>>
    BY <1>c DEF Events
  <2>2. events' = <<>>
    BY <1>2, <2>1, <1>c DEF Delete
  <2> QED BY <1>2, <2>2, <1>c DEF Delete, Elsewhere, fs, picker, scanner, owning, running, NoBatch
<1>3. CASE Overflow
  BY <1>3, <1>a, <1>b, <1>c DEF Overflow, fs, picker, scanner, owning, running, NoBatch
<1>4. CASE Rescan
  BY <1>4, <1>a, <1>b, <1>c DEF Rescan, Trigger, fs, picker, scanner, owning, running, NoBatch
<1>5. CASE Stop
  BY <1>5, <1>a, <1>b, <1>c DEF Stop, fs, picker, scanner, owning, running, NoBatch
<1>6. CASE Walk
  BY <1>6, <1>a, <1>b, <1>c DEF Walk, fs, picker, scanner, owning, running, NoBatch
<1>7. CASE Commit
  BY <1>7, <1>a, <1>b, <1>c DEF Commit, fs, picker, scanner, owning, running, NoBatch
<1>8. ASSUME NEW d \in Nodes, Install(d) PROVE G
  BY <1>8, <1>a, <1>b, <1>c DEF Install, fs, picker, scanner, owning, running, NoBatch
<1>9. CASE EndScan
  BY <1>9, <1>a, <1>b, <1>c DEF EndScan, fs, picker, scanner, owning, running, NoBatch
<1>10. ASSUME NEW n \in 1..MaxOps, Sort(n) PROVE G
  <2>1. DOMAIN events = {}
    BY <1>c
  <2> QED BY <1>10, <2>1 DEF Sort
<1>11. CASE Apply
  BY <1>11, <1>a, <1>b, <1>c DEF Apply, fs, picker, scanner, owning, running, NoBatch
<1>12. CASE Send
  BY <1>12, <1>a, <1>b, <1>c DEF Send, fs, picker, scanner, owning, running, NoBatch
<1>13. CASE DebouncerExits
  BY <1>13, <1>a, <1>b, <1>c DEF DebouncerExits, fs, picker, scanner, owning, running, NoBatch
<1>14. CASE Receive
  BY <1>14, <1>a, <1>b, <1>c DEF Receive, TakeDir, WatchDir, fs, picker, scanner, owning,
       running, NoBatch
<1>15. CASE List
  BY <1>15, <1>a, <1>b, <1>c DEF List, TakeDir, ListDir, fs, picker, scanner, owning, running,
       NoBatch
<1>16. CASE Add
  BY <1>16, <1>a, <1>b, <1>c DEF Add, fs, picker, scanner, owning, running, NoBatch
<1>17. CASE OwnerExits
  BY <1>17, <1>a, <1>c DEF OwnerExits, NoSender, fs, picker, scanner, owning, running, NoBatch
<1>18. CASE UNCHANGED vars
  BY <1>18, <1>a, <1>b, <1>c DEF vars, fs, picker, scanner, owning, running, NoBatch
<1> QED
  BY <1>1, <1>2, <1>3, <1>4, <1>5, <1>6, <1>7, <1>8, <1>9, <1>10, <1>11, <1>12, <1>13, <1>14,
       <1>15, <1>16, <1>17, <1>18 DEF Next, Scan, Handler, Owner
-----------------------------------------------------------------------------
LEMMA RescanIsInRange ==
    ASSUME NEW ev \in Seq(AllEvents)
    PROVE  (\E i \in DOMAIN ev : ev[i].kind = "rescan") <=> RescanEvent \in Range(ev)
<1>1. \A i \in DOMAIN ev : ev[i] \in AllEvents
  BY LenProperties
<1>2. \A e \in AllEvents : e.kind = "rescan" <=> e = RescanEvent
  BY DEF AllEvents, Kinds, RescanEvent
<1> QED BY <1>1, <1>2 DEF Range

LEMMA TakenOrLeft ==
    ASSUME QueuesInv, NEW n \in 1..Len(events), NEW e \in Range(events),
           events' = SubSeq(events, n + 1, Len(events))
    PROVE  (\E i \in 1..n : events[i] = e) \/ e \in Range(events')
<1>1. PICK i \in 1..Len(events) : events[i] = e
  BY SplitEvents DEF Range
<1>2. CASE i > n
  <2>1. i - n \in 1..Len(events) - n /\ n + (i - n) = i
    BY <1>2, SplitEvents
  <2>2. events'[i - n] = e
    BY <1>1, <2>1, SplitEvents
  <2>3. DOMAIN events' = 1..Len(events) - n
    BY SplitEvents, LenProperties
  <2> QED BY <2>1, <2>2, <2>3 DEF Range
<1> QED BY <1>1, <1>2

\* Nothing else is in the queue of a batch that asks for no rescan.
LEMMA RescanIsLeft ==
    ASSUME QueuesInv, NEW n \in 1..Len(events), RescanEvent \in Range(events),
           events' = SubSeq(events, n + 1, Len(events)),
           \A i \in 1..n : events[i].kind # "rescan"
    PROVE  RescanEvent \in Range(events')
<1>1. RescanEvent.kind = "rescan"
  BY DEF RescanEvent
<1>2. ~ \E i \in 1..n : events[i] = RescanEvent
  BY <1>1
<1>3. (\E i \in 1..n : events[i] = RescanEvent) \/ RescanEvent \in Range(events')
  BY TakenOrLeft
<1> QED BY <1>2, <1>3

LEMMA HeadAndTail ==
    ASSUME NEW S, NEW s \in Seq(S), s # <<>>
    PROVE  Range(s) = {Head(s)} \cup Range(Tail(s))
<1>1. Len(s) \in Nat \ {0} /\ DOMAIN s = 1..Len(s) /\ Head(s) = s[1]
  BY EmptySeq, LenProperties
<1>2. DOMAIN Tail(s) = 1..Len(s) - 1 /\ \A i \in 1..Len(s) - 1 : Tail(s)[i] = s[i + 1]
  BY HeadTailProperties, LenProperties
<1>3. \A i \in 1..Len(s) : i = 1 \/ (i - 1 \in 1..Len(s) - 1 /\ i - 1 + 1 = i)
  BY <1>1
<1>4. \A i \in 1..Len(s) - 1 : i + 1 \in 1..Len(s)
  BY <1>1
<1>5. 1 \in 1..Len(s)
  BY <1>1
<1>6. ASSUME NEW i \in 1..Len(s) PROVE s[i] \in {Head(s)} \cup Range(Tail(s))
  <2>1. CASE i = 1
    BY <2>1, <1>1
  <2>2. CASE i - 1 \in 1..Len(s) - 1 /\ i - 1 + 1 = i
    <3>1. Tail(s)[i - 1] = s[i]
      BY <1>2, <2>2
    <3> QED BY <1>2, <2>2, <3>1 DEF Range
  <2> QED BY <1>3, <2>1, <2>2
<1>7. \A i \in 1..Len(s) - 1 : Tail(s)[i] \in Range(s)
  BY <1>1, <1>2, <1>4 DEF Range
<1> QED BY <1>1, <1>2, <1>5, <1>6, <1>7 DEF Range

LEMMA SeenStep ==
    ASSUME Types, OwnerInv, Beginning, SeenInv, RetoldInv, Types', [Next]_vars
    PROVE  SeenInv'
<1> SUFFICES ASSUME ~stopped', NEW f \in disk' \cap Files
             PROVE  f \in known' \cup missed' \/ Ahead(f)'
  BY DEF SeenInv
<1> DEFINE Walks == scan = "walk" \/ asked \/ RescanEvent \in Range(events)
           G == f \in known' \cup missed' \/ Ahead(f)'
<1> SUFFICES G
  OBVIOUS
<1>a. ~stopped
  BY DEF Next, Scan, Handler, Owner, Create, Delete, Overflow, Rescan, Stop, Walk, Commit,
       Install, EndScan, Sort, Apply,
     Send, DebouncerExits, Receive, List, Add, OwnerExits, Elsewhere, fs, picker, scanner, owning, running, vars
<1>b. f \in disk => f \in known \cup missed \/ Ahead(f)
  BY <1>a DEF SeenInv
<1>w. (WalkAhead <=> Walks) /\ (WalkAhead' <=> Walks')
  BY RescanIsInRange DEF WalkAhead, Types, QueuesInv
<1>p. Parent[f] \in disk' \cup {Root} /\ Parent[f] \in Nodes /\ f \in Files /\ f \in disk'
  BY WatchAssumption, Apart DEF Types, DiskOK
<1> HIDE DEF G
<1>1. ASSUME NEW p \in Paths, Create(p) PROVE G
  <2> USE <1>1 DEF Create, Untold
  <2>1. Range(events) \subseteq Range(events')
    BY Reported DEF Kinds, Types
  <2>2. CASE f # p
    <3>1. f \in disk /\ missed \subseteq missed'
      BY <2>2
    <3> QED BY <1>b, <1>w, <2>1, <3>1 DEF Elsewhere, G, Ahead, DirAhead, fs, picker, scanner,
                 owning, running, vars
  <2>3. CASE f = p /\ Parent[f] \in watched
    <3>1. events' = Append(events, Change(f)) /\ events \in Seq(AllEvents) /\ Change(f) \in AllEvents
      BY <2>3, Reported DEF Kinds, Types, Change, QueuesInv, AllEvents
    <3>2. Change(f) \in Range(events')
      <4>1. Len(events) \in Nat /\ Len(events') = Len(events) + 1 /\ events'[Len(events) + 1] = Change(f)
        BY <3>1, AppendProperties, LenProperties
      <4>2. DOMAIN events' = 1..Len(events')
        BY LenProperties DEF Types, QueuesInv
      <4>3. Len(events) + 1 \in DOMAIN events'
        BY <4>1, <4>2
      <4> QED BY <4>1, <4>3 DEF Range
    <3> QED BY <3>2 DEF G, Ahead
  <2>4. CASE f = p /\ Parent[f] \notin watched /\ ~Told(Parent[f])
    BY <2>4 DEF G
  <2>5. CASE f = p /\ Parent[f] \notin watched /\ WalkAhead
    BY <2>1, <2>5, <1>w DEF Elsewhere, G, Ahead, DirAhead, fs, picker, scanner, owning, running,
         vars
  <2>6. CASE f = p /\ Parent[f] \notin watched /\ Coming(Parent[f])
    <3>1. held /\ dir = Parent[f] => owner = "list"
      BY <2>6, <1>a DEF OwnerInv
    <3>2. DirAhead(Parent[f])
      BY <2>6, <3>1 DEF Coming, DirAhead, Change, Range
    <3>3. DirAhead(Parent[f])'
      BY <2>1, <3>1, <3>2 DEF Elsewhere, DirAhead, fs, picker, scanner, owning, running
    <3> QED BY <3>3 DEF G, Ahead
  <2> QED BY <2>2, <2>3, <2>4, <2>5, <2>6 DEF Told
<1>2. ASSUME NEW p \in Paths, Delete(p) PROVE G
  <2> USE <1>2 DEF Delete
  <2>1. Range(events) \subseteq Range(events')
    BY Reported DEF Kinds, Types
  <2>2. f \in disk /\ f # p /\ Parent[f] # p
    BY <1>p
  <2>3. held /\ dir = Parent[f] => held'
    BY <2>2
  <2>4. DirAhead(Parent[f]) => DirAhead(Parent[f])'
    <3>1. Root \in watched => Root \in watched'
      BY Apart
    <3> QED BY <2>1, <2>3, <3>1 DEF Elsewhere, DirAhead, scanner, owning
  <2>5. WalkAhead => WalkAhead'
    BY <2>1, <1>w DEF Elsewhere, scanner
  <2>6. f \in known \cup missed => f \in known' \cup missed'
    BY <2>2 DEF picker
  <2> QED BY <1>b, <2>1, <2>2, <2>4, <2>5, <2>6 DEF Elsewhere, G, Ahead, scanner, owning
<1>3. CASE Overflow
  <2>1. events' = <<RescanEvent>>
    BY <1>3 DEF Overflow, RescanEvent
  <2>2. RescanEvent \in Range(events')
    BY <2>1 DEF Range
  <2> QED BY <2>2, <1>w DEF G, Ahead
<1>4. CASE Rescan
  <2>1. Walks'
    BY <1>4 DEF Rescan, Trigger, Types, ScanOK
  <2> QED BY <2>1, <1>w DEF G, Ahead
<1>5. CASE Stop
  BY <1>5, <1>b, <1>w DEF Stop, G, Ahead, DirAhead, fs, picker, scanner, owning, running, vars
<1>6. CASE Walk
  BY <1>6, <1>p DEF Walk, G, Ahead, fs
<1>7. CASE Commit
  <2> USE <1>7 DEF Commit, Dropped
  <2>1. CASE f \in walked
    BY <2>1 DEF G
  <2>2. CASE f \notin walked /\ f \in missed
    BY <2>2 DEF G
  <2>3. CASE f \notin walked /\ f \in known /\ f \notin missed
    <3>1. Root \in watched
      BY <1>a, <2>3 DEF Beginning
    <3>2. CASE Parent[f] \in DirsOf(walked)
      BY <3>1, <3>2, <1>a DEF G, Ahead, DirAhead
    <3>3. CASE Parent[f] \notin DirsOf(walked)
      BY <2>3, <3>3, <1>p DEF G, fs
    <3> QED BY <3>2, <3>3
  <2>4. CASE f \notin walked /\ f \notin known /\ f \notin missed
    <3>1. Ahead(f)
      BY <2>4, <1>b, <1>p DEF fs
    <3>2. CASE DirAhead(Parent[f])
      BY <3>2 DEF G, Ahead, DirAhead, scanner, owning, fs
    <3>3. CASE WalkAhead
      BY <3>3, <1>w DEF G, Ahead
    <3> QED BY <2>4, <3>1, <3>2, <3>3 DEF G, Ahead, owning
  <2> QED BY <2>1, <2>2, <2>3, <2>4
<1>8. ASSUME NEW d \in Nodes, Install(d) PROVE G
  BY <1>8, <1>b, <1>w DEF Install, G, Ahead, DirAhead, fs, picker, scanner, owning, running, vars
<1>9. CASE EndScan
  <2> USE <1>9 DEF EndScan
  <2>1. Range(channel) \subseteq Range(channel') /\ (scan = "resubscribe" => DirsOf(walked) \subseteq Range(channel'))
    <3>1. channel \in Seq(Dirs) /\ Resubscribed \in Seq(Dirs) /\ Range(Resubscribed) = DirsOf(walked)
      BY ResubscribedDirs DEF Types, QueuesInv, ScanOK
    <3> QED BY <1>a, <3>1, RangeOfConcat
  <2>2. CASE Walks
    BY <2>2, <1>w DEF G, Ahead
  <2> QED BY <1>b, <1>w, <2>1, <2>2 DEF G, Ahead, DirAhead, fs, picker, scanner, owning, running,
               vars
<1>10. ASSUME NEW n \in 1..MaxOps, Sort(n) PROVE G
  <2> USE <1>10 DEF Sort
  <2>1. n \in 1..Len(events) /\ QueuesInv
    BY LenProperties DEF Types, QueuesInv
  <2>2. batch = NoBatch /\ f \in disk
    BY DEF Types, QueuesInv, fs
  <2>3. CASE \E i \in DOMAIN SubSeq(events, 1, n) : SubSeq(events, 1, n)[i].kind = "rescan"
    <3>1. Walks'
      BY <2>3 DEF Trigger, Types, ScanOK
    <3> QED BY <3>1, <1>w DEF G, Ahead
  <2>4. CASE ~\E i \in DOMAIN SubSeq(events, 1, n) : SubSeq(events, 1, n)[i].kind = "rescan"
    <3>1. \A i \in 1..n : events[i].kind # "rescan"
      BY <2>1, <2>4, SplitEvents
    <3>2. /\ batch' = Sorted(SubSeq(events, 1, n)) /\ UNCHANGED <<scan, asked>>
          /\ events' = SubSeq(events, n + 1, Len(events))
      BY <2>4
    <3>3. \A e \in Range(events) : (\E i \in 1..n : events[i] = e) \/ e \in Range(events')
      BY <2>1, <3>2, TakenOrLeft
    <3>4. /\ \A g \in disk \cap Files : Taken(n, g) => g \in batch'.add
          /\ \A d \in disk \cap Dirs : Taken(n, d) => d \in Range(batch'.dirs)
      BY <2>1, <3>1, <3>2, SortedBatch DEF Types, DiskOK
    <3>5. CASE f \in known \cup missed
      BY <3>5 DEF G, picker
    <3>6. CASE Change(f) \in Range(events)
      BY <2>2, <3>3, <3>4, <3>6 DEF G, Ahead, Taken
    <3>7. CASE Change(Parent[f]) \in Range(events)
      <4>1. Parent[f] # Root
        <5>1. Change(Parent[f]) \in AllEvents
          BY <3>7, LenProperties DEF Types, QueuesInv, Range
        <5> QED BY <5>1, Apart DEF AllEvents, Change
      <4>2. Parent[f] \in disk \cap Dirs
        BY <4>1, <1>p DEF fs, Nodes
      <4> QED BY <3>3, <3>4, <3>7, <4>2 DEF G, Ahead, DirAhead, Taken
    <3>8. CASE WalkAhead
      <4>1. RescanEvent \in Range(events) => RescanEvent \in Range(events')
        BY <2>1, <3>1, <3>2, RescanIsLeft
      <4> QED BY <4>1, <3>2, <3>8, <1>w DEF G, Ahead
    <3>9. CASE (owner = "add" /\ f \in listed) \/ (scan = "commit" /\ f \in walked)
      BY <3>2, <3>9 DEF G, Ahead, owning
    <3>10. Range(batch.dirs) = {} /\ batch.add = {}
      BY <2>2 DEF NoBatch, Range
    <3>11. CASE /\ DirAhead(Parent[f]) /\ Change(Parent[f]) \notin Range(events)
      BY <3>2, <3>10, <3>11 DEF G, Ahead, DirAhead, owning
    <3> QED BY <1>b, <2>2, <3>5, <3>6, <3>7, <3>8, <3>9, <3>10, <3>11 DEF Ahead
  <2> QED BY <2>3, <2>4
<1>11. CASE Apply
  <2> USE <1>11 DEF Apply, Swept
  <2>1. /\ batch'.dirs = batch.dirs /\ f \in disk /\ known' = (known \ Removed) \cup batch.add
        /\ UNCHANGED <<events, scan, asked, walked, watched, channel, owner, dir, listed, held>>
    BY DEF Types, QueuesInv, fs, scanner, owning
  <2>2. CASE f \in batch.add
    BY <2>1, <2>2 DEF G
  <2>3. CASE f \notin batch.add /\ f \in missed
    BY <2>3 DEF G
  <2>4. CASE WalkAhead
    BY <2>1, <2>4, <1>w DEF G, Ahead
  <2>5. CASE f \notin batch.add /\ f \notin missed /\ f \in known \ Removed
    BY <2>1, <2>5 DEF G
  <2>6. CASE f \notin batch.add /\ f \in Removed /\ ~WalkAhead /\ ~Coming(f) /\ ~Coming(Parent[f])
    BY <2>1, <2>6 DEF G
  <2>7. CASE f \notin batch.add /\ f \in Removed /\ ~WalkAhead /\ Coming(f)
    <3>1. f \notin Nodes /\ f \notin Range(channel) /\ f \notin Range(batch.dirs)
      <4>1. \A s \in Seq(Dirs) : Range(s) \subseteq Dirs
        BY LenProperties DEF Range
      <4>2. channel \in Seq(Dirs) /\ batch.dirs \in Seq(Dirs)
        BY DEF Types, QueuesInv
      <4>3. f \notin Nodes
        BY WatchAssumption
      <4> QED BY <4>1, <4>2, <4>3 DEF Nodes
    <3>2. ~(f = dir /\ held)
      BY <3>1 DEF Types, OwnerOK, OwnerInv
    <3>3. f \notin DirsOf(walked)
      BY DEF DirsOf
    <3>4. Change(f) \in Range(events)
      BY <2>7, <3>1, <3>2, <3>3 DEF Coming, Change, Range
    <3> QED BY <2>1, <3>4 DEF G, Ahead
  <2>8. CASE f \notin batch.add /\ f \in Removed /\ ~WalkAhead /\ Coming(Parent[f])
    <3>1. CASE DirAhead(Parent[f])
      BY <2>1, <3>1 DEF G, Ahead, DirAhead
    <3>2. CASE held /\ dir = Parent[f] /\ owner = "add" /\ f \in listed
      BY <2>1, <3>2 DEF G, Ahead
    <3>3. CASE held /\ dir = Parent[f] /\ owner = "add" /\ f \notin listed
      <4>1. BatchRetold(f)
        BY <2>1, <3>3, <1>a DEF RetoldInv, Late
      <4>2. batch.remove \cap Above[f] # {}
        BY <2>8 DEF Removed
      <4>3. Change(f) \in Range(events)
        BY <2>8, <4>1, <4>2, <1>w DEF BatchRetold
      <4> QED BY <2>1, <4>3 DEF G, Ahead
    <3>4. held => owner \in {"list", "add"}
      BY DEF OwnerInv
    <3> QED BY <2>8, <3>1, <3>2, <3>3, <3>4 DEF Coming, DirAhead, Change, Range
  <2>9. CASE f \notin known \cup missed /\ f \notin batch.add /\ ~WalkAhead
    BY <1>b, <2>1, <2>9 DEF G, Ahead, DirAhead
  <2> QED BY <2>2, <2>3, <2>4, <2>5, <2>6, <2>7, <2>8, <2>9
<1>12. CASE Send
  <2> USE <1>12 DEF Send
  <2>1. owner # "gone"
    BY <1>a DEF OwnerInv
  <2>2. Range(channel') = Range(channel) \cup Range(batch.dirs)
    <3>1. channel \in Seq(Dirs) /\ batch.dirs \in Seq(Dirs)
      BY DEF Types, QueuesInv
    <3> QED BY <2>1, <3>1, RangeOfConcat
  <2>3. batch.add = {} 
    BY DEF Types, QueuesInv
  <2> QED BY <1>b, <1>w, <2>2, <2>3 DEF G, Ahead, DirAhead, fs, picker, scanner, owning, running,
               vars
<1>13. CASE DebouncerExits
  BY <1>13, <1>b, <1>w DEF DebouncerExits, G, Ahead, DirAhead, fs, picker, scanner, owning,
       running, vars
<1>14. CASE Receive
  <2> USE <1>14 DEF Receive
  <2>1. Range(channel) = {Head(channel)} \cup Range(channel')
    BY HeadAndTail DEF Types, QueuesInv
  <2>2. Head(channel) \in Dirs
    BY HeadTailProperties DEF Types, QueuesInv
  <2>3. CASE Parent[f] = Head(channel)
    <3>1. Parent[f] \in disk
      BY <1>p, <2>2, <2>3, WatchAssumption DEF fs
    <3> QED BY <2>3, <3>1 DEF G, Ahead, DirAhead
  <2>4. CASE Parent[f] # Head(channel)
    BY <1>b, <1>w, <2>1, <2>4 DEF TakeDir, WatchDir, G, Ahead, DirAhead, fs, picker, scanner,
         owning, running, vars
  <2> QED BY <2>3, <2>4
<1>15. CASE List
  BY <1>15, <1>b, <1>w, <1>p DEF List, TakeDir, ListDir, FilesIn, G, Ahead, DirAhead, fs, picker,
       scanner, owning, running, vars
<1>16. CASE Add
  BY <1>16, <1>b, <1>w DEF Add, G, Ahead, DirAhead, fs, picker, scanner, owning, running, vars
<1>17. CASE OwnerExits
  BY <1>17, <1>b, <1>w DEF OwnerExits, G, Ahead, DirAhead, fs, picker, scanner, owning, running,
       vars
<1>18. CASE UNCHANGED vars
  BY <1>18, <1>b, <1>w DEF vars, G, Ahead, DirAhead, fs, picker, scanner, owning, running, vars
<1> QED
  BY <1>1, <1>2, <1>3, <1>4, <1>5, <1>6, <1>7, <1>8, <1>9, <1>10, <1>11, <1>12, <1>13, <1>14,
       <1>15, <1>16, <1>17, <1>18 DEF Next, Scan, Handler, Owner
-----------------------------------------------------------------------------
\* The one element of a sequence is in its range.
LEMMA SingleRange ==
    ASSUME NEW e
    PROVE  e \in Range(<<e>>)
<1>1. 1 \in DOMAIN <<e>> /\ <<e>>[1] = e
  OBVIOUS
<1> QED BY <1>1, Zenon DEF Range

\* What an event behind the others does for the removals of a file.
LEMMA RetoldAfter ==
    ASSUME QueuesInv, NEW f \in Files, NEW e \in AllEvents, events' = Append(events, e),
           \/ e = Change(f)
           \/ RemovalsRetold(f) /\ ~(e.kind = "remove" /\ e.path \in Above[f])
    PROVE  RemovalsRetold(f)'
<1>1. /\ Len(events) \in Nat /\ Len(events') = Len(events) + 1
      /\ events'[Len(events) + 1] = e /\ \A i \in 1..Len(events) : events'[i] = events[i]
  BY AppendProperties, LenProperties DEF QueuesInv
<1>2. SUFFICES ASSUME NEW i \in 1..Len(events'), events'[i].kind = "remove", events'[i].path \in Above[f]
               PROVE  \E j \in i+1..Len(events') : events'[j] = Change(f)
  BY DEF RemovalsRetold
<1>3. CASE e = Change(f)
  <2>1. i # Len(events) + 1
    BY <1>1, <1>2, <1>3 DEF Change
  <2>2. Len(events) + 1 \in i+1..Len(events')
    BY <1>1, <2>1
  <2> QED BY <1>1, <1>3, <2>2
<1>4. CASE RemovalsRetold(f) /\ ~(e.kind = "remove" /\ e.path \in Above[f])
  <2>1. i # Len(events) + 1
    BY <1>1, <1>2, <1>4
  <2>2. i \in 1..Len(events) /\ events'[i] = events[i]
    BY <1>1, <2>1
  <2>3. PICK j \in i+1..Len(events) : events[j] = Change(f)
    BY <1>2, <1>4, <2>2 DEF RemovalsRetold
  <2>4. j \in i+1..Len(events') /\ events'[j] = events[j]
    BY <1>1, <2>2, <2>3
  <2> QED BY <2>3, <2>4
<1> QED BY <1>3, <1>4

LEMMA RetoldStep ==
    ASSUME Types, OwnerInv, RetoldInv, Types', [Next]_vars
    PROVE  RetoldInv'
<1> SUFFICES ASSUME NEW f \in Files, Late(f)'
             PROVE  RemovalsRetold(f)' /\ BatchRetold(f)'
  BY DEF RetoldInv
<1> DEFINE G == RemovalsRetold(f)' /\ BatchRetold(f)'
<1> SUFFICES G
  OBVIOUS
<1>a. ~stopped
  BY DEF Late, Next, Scan, Handler, Owner, Create, Delete, Overflow, Rescan, Stop, Walk, Commit,
       Install, EndScan, Sort, Apply,
     Send, DebouncerExits, Receive, List, Add, OwnerExits, Elsewhere, fs, picker, scanner, owning, running, vars
<1>b. Late(f) => RemovalsRetold(f) /\ BatchRetold(f)
  BY DEF RetoldInv
<1>t. QueuesInv /\ OwnerInv
  BY DEF Types
<1> HIDE DEF G
<1>1. ASSUME NEW p \in Paths, Create(p) PROVE G
  <2> USE <1>1 DEF Create
  <2>1. owner = "add" /\ held /\ dir = Parent[f] /\ f \notin listed /\ batch' = batch /\ f \in disk'
    BY DEF Late, Elsewhere
  <2>2. Range(events) \subseteq Range(events') /\ [kind |-> "change", path |-> p] \in AllEvents
    BY Reported, <1>t DEF Kinds, AllEvents
  <2>3. CASE f = p
    <3>1. Parent[f] \in watched
      BY <1>a, <1>t, <2>1 DEF OwnerInv
    <3>2. events' = Append(events, Change(f)) /\ Change(f) \in AllEvents
      BY <2>2, <2>3, <3>1, <1>t, Reported DEF Kinds, Change
    <3>3. RemovalsRetold(f)'
      BY <3>2, <1>t, RetoldAfter
    <3>4. Change(f) \in Range(events')
      <4>1. Range(events') = Range(events) \cup Range(<<Change(f)>>)
        <5>1. Events("change", p) = <<Change(f)>> /\ <<Change(f)>> \in Seq(AllEvents)
          BY <2>3, <3>1, <3>2 DEF Events, Change
        <5>2. events' = events \o <<Change(f)>> /\ events \in Seq(AllEvents)
          BY <5>1, <1>t DEF QueuesInv
        <5> QED BY <5>1, <5>2, RangeOfConcat
      <4>2. Change(f) \in Range(<<Change(f)>>)
        BY SingleRange
      <4> QED BY <4>1, <4>2
    <3> QED BY <3>3, <3>4 DEF G, BatchRetold
  <2>4. CASE f # p
    <3>1. RemovalsRetold(f) /\ BatchRetold(f)
      BY <1>a, <1>b, <2>1, <2>4 DEF Late
    <3>2. RemovalsRetold(f)'
      <4>1. events' = Append(events, [kind |-> "change", path |-> p]) => RemovalsRetold(f)'
        BY <2>2, <3>1, <1>t, RetoldAfter
      <4>2. events' = events => RemovalsRetold(f)'
        BY <3>1 DEF RemovalsRetold
      <4> QED BY <4>1, <4>2, <1>t, Reported DEF Kinds
    <3> QED BY <2>1, <2>2, <3>1, <3>2 DEF G, BatchRetold
  <2> QED BY <2>3, <2>4
<1>2. ASSUME NEW p \in Paths, Delete(p) PROVE G
  <2> USE <1>2 DEF Delete
  <2>1. owner = "add" /\ held /\ dir = Parent[f] /\ f \notin listed /\ batch' = batch /\ f \in disk' /\ f \in disk
    BY DEF Late, Elsewhere
  <2>2. Range(events) \subseteq Range(events') /\ [kind |-> "remove", path |-> p] \in AllEvents
    BY Reported, <1>t DEF Kinds, AllEvents
  <2>3. p \notin Above[f]
    <3>1. Above[f] \subseteq disk'
      BY <2>1, AboveIsThere DEF Types, DiskOK
    <3> QED BY <3>1
  <2>4. RemovalsRetold(f) /\ BatchRetold(f)
    BY <1>a, <1>b, <2>1 DEF Late
  <2>5. RemovalsRetold(f)'
    <3>1. events' = Append(events, [kind |-> "remove", path |-> p]) => RemovalsRetold(f)'
      BY <2>2, <2>3, <2>4, <1>t, RetoldAfter
    <3>2. events' = events => RemovalsRetold(f)'
      BY <2>4 DEF RemovalsRetold
    <3> QED BY <3>1, <3>2, <1>t, Reported DEF Kinds
  <2> QED BY <2>1, <2>2, <2>4, <2>5 DEF G, BatchRetold
<1>3. CASE Overflow
  <2>1. events' = <<RescanEvent>>
    BY <1>3 DEF Overflow, RescanEvent
  <2>2. RescanEvent \in Range(events') /\ Len(events') = 1 /\ events'[1] = RescanEvent
    BY <2>1 DEF Range
  <2> QED BY <2>2 DEF G, RemovalsRetold, BatchRetold, RescanEvent
<1>4. CASE Rescan
  BY <1>4, <1>b DEF Rescan, Trigger, G, Late, RemovalsRetold, BatchRetold, fs, picker, scanner,
       owning, running, vars
<1>5. CASE Stop
  BY <1>5, <1>b DEF Stop, G, Late, RemovalsRetold, BatchRetold, fs, picker, scanner, owning,
       running, vars
<1>6. CASE Walk
  BY <1>6, <1>b DEF Walk, G, Late, RemovalsRetold, BatchRetold, fs, picker, scanner, owning,
       running, vars
<1>7. CASE Commit
  BY <1>7, <1>b DEF Commit, G, Late, RemovalsRetold, BatchRetold, fs, picker, scanner, owning,
       running, vars
<1>8. ASSUME NEW d \in Nodes, Install(d) PROVE G
  BY <1>8, <1>b DEF Install, G, Late, RemovalsRetold, BatchRetold, fs, picker, scanner, owning,
       running, vars
<1>9. CASE EndScan
  BY <1>9, <1>b DEF EndScan, G, Late, RemovalsRetold, BatchRetold, fs, picker, scanner, owning,
       running, vars
<1>10. ASSUME NEW n \in 1..MaxOps, Sort(n) PROVE G
  <2> USE <1>10 DEF Sort
  <2>1. n \in 1..Len(events)
    BY LenProperties, <1>t DEF QueuesInv
  <2>2. batch = NoBatch /\ f \in disk /\ Late(f)
    BY <1>t, <1>a DEF QueuesInv, fs, owning, Late
  <2>3. RemovalsRetold(f)
    BY <1>b, <2>2
  <2>4. /\ events' = SubSeq(events, n + 1, Len(events)) /\ Len(events') = Len(events) - n /\ Len(events) \in Nat
        /\ \A i \in 1..Len(events) - n : events'[i] = events[n + i]
    BY <2>1, <1>t, SplitEvents
  <2>5. RemovalsRetold(f)'
    <3>1. SUFFICES ASSUME NEW i \in 1..Len(events'), events'[i].kind = "remove", events'[i].path \in Above[f]
                   PROVE  \E j \in i+1..Len(events') : events'[j] = Change(f)
      BY DEF RemovalsRetold
    <3>2. n + i \in 1..Len(events) /\ events'[i] = events[n + i]
      BY <2>1, <2>4
    <3>3. PICK j \in n+i+1..Len(events) : events[j] = Change(f)
      BY <2>3, <3>1, <3>2 DEF RemovalsRetold
    <3>4. j - n \in i+1..Len(events') /\ j - n \in 1..Len(events) - n /\ n + (j - n) = j
      <4>1. n \in Int /\ i \in Int /\ i >= 1 /\ n >= 1 /\ Len(events) \in Int /\ Len(events') = Len(events) - n
        BY <2>1, <2>4
      <4>2. j \in Int /\ j >= n + i + 1 /\ j <= Len(events)
        BY <3>3, <4>1
      <4> QED BY <4>1, <4>2
    <3>5. events'[j - n] = Change(f)
      BY <2>4, <3>3, <3>4
    <3> QED BY <3>4, <3>5
  <2>6. CASE \E i \in DOMAIN SubSeq(events, 1, n) : SubSeq(events, 1, n)[i].kind = "rescan"
    BY <2>2, <2>5, <2>6 DEF G, BatchRetold, NoBatch
  <2>7. CASE ~\E i \in DOMAIN SubSeq(events, 1, n) : SubSeq(events, 1, n)[i].kind = "rescan"
    <3>1. \A i \in 1..n : events[i].kind # "rescan"
      BY <2>1, <2>7, <1>t, SplitEvents
    <3>2. batch' = Sorted(SubSeq(events, 1, n))
      BY <2>7
    <3>3. /\ Taken(n, f) => f \in batch'.add
          /\ \A p \in batch'.remove \cap disk : \E i \in 1..n : events[i].kind = "remove" /\ events[i].path = p
      BY <2>1, <2>2, <3>1, <3>2, <1>t, SortedBatch DEF Types, DiskOK
    <3>4. Above[f] \subseteq disk
      BY <2>2, AboveIsThere DEF Types, DiskOK
    <3>5. SUFFICES ASSUME batch'.remove \cap Above[f] # {}
                   PROVE  f \in batch'.add \/ Change(f) \in Range(events')
      BY <2>5 DEF G, BatchRetold
    <3>6. PICK i \in 1..n : events[i].kind = "remove" /\ events[i].path \in Above[f]
      <4>1. PICK p \in batch'.remove : p \in Above[f]
        BY <3>5
      <4>2. PICK i \in 1..n : events[i].kind = "remove" /\ events[i].path = p
        BY <3>3, <3>4, <4>1
      <4> QED BY <4>1, <4>2
    <3>7. PICK j \in i+1..Len(events) : events[j] = Change(f)
      BY <2>1, <2>3, <2>4, <3>6 DEF RemovalsRetold
    <3>8. CASE j <= n
      BY <3>3, <3>6, <3>7, <3>8 DEF Taken
    <3>9. CASE j > n
      <4>1. j - n \in 1..Len(events) - n /\ n + (j - n) = j
        BY <2>1, <2>4, <3>6, <3>7, <3>9
      <4>2. events'[j - n] = Change(f) /\ DOMAIN events' = 1..Len(events) - n
        BY <2>4, <3>7, <4>1, LenProperties DEF Types, QueuesInv
      <4> QED BY <4>1, <4>2 DEF Range
    <3> QED BY <2>1, <2>4, <3>6, <3>7, <3>8, <3>9
  <2> QED BY <2>6, <2>7
<1>11. CASE Apply
  <2>1. batch'.remove = {}
    BY <1>11, <1>t DEF Apply, QueuesInv
  <2>2. RemovalsRetold(f)
    BY <1>11, <1>a, <1>b DEF Apply, Late, fs, owning
  <2> QED BY <1>11, <2>1, <2>2 DEF Apply, G, RemovalsRetold, BatchRetold
<1>12. CASE Send
  <2>1. batch'.remove = {}
    BY <1>12 DEF Send, NoBatch
  <2>2. RemovalsRetold(f)
    BY <1>12, <1>a, <1>b DEF Send, Late, fs, owning
  <2> QED BY <1>12, <2>1, <2>2 DEF Send, G, RemovalsRetold, BatchRetold
<1>13. CASE DebouncerExits
  BY <1>13, <1>b DEF DebouncerExits, G, Late, RemovalsRetold, BatchRetold, fs, picker, scanner,
       owning, running, vars
<1>14. CASE Receive
  BY <1>14, <1>b DEF Receive, TakeDir, WatchDir, G, Late, RemovalsRetold, BatchRetold, fs,
       picker, scanner, owning, running, vars
<1>15. CASE List
  <2>1. listed' = FilesIn(dir) \cap disk /\ UNCHANGED <<disk, dir>>
    BY <1>15 DEF List, TakeDir, ListDir, fs
  <2>2. f \in FilesIn(dir) \cap disk /\ f \notin listed'
    BY <2>1 DEF Late, FilesIn
  <2> QED BY <2>1, <2>2
<1>16. CASE Add
  BY <1>16, <1>b DEF Add, G, Late, RemovalsRetold, BatchRetold, fs, picker, scanner, owning,
       running, vars
<1>17. CASE OwnerExits
  BY <1>17, <1>b DEF OwnerExits, G, Late, RemovalsRetold, BatchRetold, fs, picker, scanner,
       owning, running, vars
<1>18. CASE UNCHANGED vars
  BY <1>18, <1>b DEF vars, G, Late, RemovalsRetold, BatchRetold, fs, picker, scanner, owning,
       running, vars
<1> QED
  BY <1>1, <1>2, <1>3, <1>4, <1>5, <1>6, <1>7, <1>8, <1>9, <1>10, <1>11, <1>12, <1>13, <1>14,
       <1>15, <1>16, <1>17, <1>18 DEF Next, Scan, Handler, Owner
-----------------------------------------------------------------------------
LEMMA Initially == Init => IndInv
<1> SUFFICES ASSUME Init PROVE IndInv
  OBVIOUS
<1> USE DEF Init
<1>1. QueuesInv
  BY EmptySeq DEF QueuesInv, NoBatch
<1>2. DiskOK /\ ScanOK /\ OwnerOK
  <2>1. DiskOK
    BY WatchAssumption DEF DiskOK
  <2>2. ScanOK
    BY DEF ScanOK
  <2>3. OwnerOK
    BY WatchAssumption DEF OwnerOK
  <2> QED BY <2>1, <2>2, <2>3
<1>3. OwnerInv /\ Beginning
  BY DEF OwnerInv, Beginning
<1>4. SeenInv /\ RetoldInv
  BY DEF SeenInv, Ahead, WalkAhead, RetoldInv, Late
<1> QED BY <1>1, <1>2, <1>3, <1>4 DEF IndInv, Types

LEMMA Inductive == IndInv /\ [Next]_vars => IndInv'
<1> SUFFICES ASSUME IndInv, [Next]_vars PROVE IndInv'
  OBVIOUS
<1>1. Types
  BY DEF IndInv
<1>2. Types'
  BY <1>1, TypesStep
<1>3. OwnerInv' /\ Beginning' /\ SeenInv' /\ RetoldInv'
  BY <1>1, <1>2, OwnerInvStep, BeginningStep, SeenStep, RetoldStep DEF IndInv
<1> QED BY <1>2, <1>3 DEF IndInv

(***************************************************************************)
(* Invariance: IndInv holds in every reachable state.                      *)
(***************************************************************************)
THEOREM WatchInvariant == Spec => []IndInv
<1>1. Init => IndInv
  BY Initially
<1>2. IndInv /\ [Next]_vars => IndInv'
  BY Inductive
<1> QED BY <1>1, <1>2, PTL DEF Spec

(***************************************************************************)
(* TypeCorrect: types, and that the kernel watches nothing that is gone.   *)
(***************************************************************************)
THEOREM TypeCorrect == Spec => []TypeOK
<1>1. IndInv => TypeOK
  BY TypeParts DEF IndInv, Types
<1> QED BY <1>1, WatchInvariant, PTL

(***************************************************************************)
(* When nothing is left to do, every file that is there is known, or       *)
(* nobody could be told of it.                                             *)
(***************************************************************************)
THEOREM FilesAreKnown == Spec => []FilesAreSeen
<1>1. IndInv => FilesAreSeen
  <2> SUFFICES ASSUME IndInv, Quiet, NEW f \in disk \cap Files
               PROVE  f \in known \cup missed
    BY DEF FilesAreSeen
  <2>1. Range(events) = {} /\ Range(channel) = {} /\ Range(batch.dirs) = {} /\ batch.add = {}
    BY DEF Quiet, NoBatch, Range
  <2>2. ~WalkAhead
    BY DEF IndInv, OwnerInv, Quiet, WalkAhead
  <2>3. ~Ahead(f)
    BY <2>1, <2>2 DEF Ahead, DirAhead, Quiet
  <2> QED BY <2>3 DEF IndInv, SeenInv, Quiet
<1> QED BY <1>1, WatchInvariant, PTL
=============================================================================
