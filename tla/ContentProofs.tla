---------------------------- MODULE ContentProofs ---------------------------
(***************************************************************************)
(* TLAPS proofs about searches of contents: that none of them drops a file *)
(* that holds the pattern or reads one that is gone, for any files, texts, *)
(* words and bigrams, any order of a walk and any number of changes; and   *)
(* that the pages of a search neither skip nor repeat a file with a match, *)
(* for any number of files and any size of chunks and of pages.            *)
(***************************************************************************)
EXTENDS ContentSearch, GrepPaging, SequenceTheorems, FiniteSetTheorems, WellFoundedInduction, TLAPS

\* TypeOK, part by part, with the shape of the two records.
WorldOK ==
    /\ disk \in [Paths -> Texts \cup {NoFile}] /\ edits \in 0..MaxEdits
    /\ dirty \subseteq Paths /\ dirGone \in BOOLEAN
    /\ lost \subseteq Nat /\ shifted \in BOOLEAN

TableOK == files \in Seq(Entry) /\ indexable \in Nat /\ baseCount \in Nat

BuildOK ==
    /\ build = [round |-> build.round, read |-> build.read]
    /\ build.round \in 0..3 /\ build.read \in Seq(Outcome \cup {Unread})

IndexOK ==
    /\ index = [ready |-> index.ready, boundary |-> index.boundary, column |-> index.column,
                tombs |-> index.tombs, modified |-> index.modified]
    /\ index.ready \in BOOLEAN /\ index.boundary \in Nat
    /\ index.tombs \subseteq 1..index.boundary
    /\ DOMAIN index.column \subseteq Grams
    /\ index.column \in [DOMAIN index.column -> SUBSET (1..index.boundary)]
    /\ DOMAIN index.modified \subseteq 1..index.boundary
    /\ index.modified \in [DOMAIN index.modified -> SUBSET Grams]

Types == WorldOK /\ TableOK /\ BuildOK /\ IndexOK

\* A path has one entry at most.
Sole == \A i, j \in DOMAIN files : files[i].path = files[j].path => i = j

(***************************************************************************)
(* The entry of a path that has no event left says what is on the disk,    *)
(* and what went with its directory is gone.                               *)
(***************************************************************************)
EntryTrue(p) ==
    /\ OnDisk(p) => \E i \in DOMAIN files :
        files[i].path = p /\ ~files[i].deleted /\ files[i].empty = IsEmpty(disk[p])
    /\ ~OnDisk(p) => \A i \in DOMAIN files : files[i].path = p => files[i].deleted

EntriesInv == \A p \in Paths : Settled(p) => EntryTrue(p)
GoneInv == dirGone => \A p \in Below \ dirty : ~OnDisk(p)

\* What the index and a build speak of are positions of indexable files.
PositionsInv ==
    /\ indexable <= baseCount /\ baseCount <= Len(files)
    /\ \A i \in DOMAIN files : files[i].overflow <=> i > baseCount
    /\ build.round \in {0, 1} => index.boundary = 0
    /\ build.round \in {2, 3} => index.boundary = indexable
    /\ build.round \in {1, 2} => Len(build.read) = indexable

(***************************************************************************)
(* Index and overlay together are right about a position, of a file that   *)
(* has no event left: an edited file has its bigrams in the overlay, one   *)
(* that was not edited in the columns, and one that is gone has neither,   *)
(* or a tombstone.                                                         *)
(***************************************************************************)
IndexTrue(i) ==
    IF OnDisk(files[i].path)
    THEN IF i \in DOMAIN index.modified
         THEN index.modified[i] = ExtractBigrams(disk[files[i].path])
         ELSE /\ i \notin index.tombs
              /\ \/ disk[files[i].path].nul \/ files[i].binary
                 \/ \A g \in DOMAIN index.column \cap GramsIn(disk[files[i].path].head) : i \in index.column[g]
    ELSE /\ i \notin DOMAIN index.modified
         /\ i \in index.tombs \/ \A g \in DOMAIN index.column : i \notin index.column[g]

IndexInv == \A i \in 1..index.boundary : i \notin lost /\ Settled(files[i].path) => IndexTrue(i)

IndInv == Types /\ Sole /\ EntriesInv /\ GoneInv /\ (~shifted => PositionsInv /\ IndexInv)
-----------------------------------------------------------------------------
(***************************************************************************)
(* The table: what a walk makes of the disk, and what the handlers make of *)
(* the table.                                                              *)
(***************************************************************************)
LEMMA NewEntryIsEntry ==
    ASSUME NEW p \in Paths, NEW over \in BOOLEAN
    PROVE  /\ NewEntry(p, over) \in Entry
           /\ NewEntry(p, over).path = p /\ NewEntry(p, over).overflow = over
           /\ ~NewEntry(p, over).deleted /\ NewEntry(p, over).empty = (~OnDisk(p) \/ IsEmpty(disk[p]))
BY DEF NewEntry, Entry, OnDisk, IsEmpty

\* A walk sees every file that is there, once.
LEMMA WalkFinds ==
    /\ Walked \in Seq(Paths)
    /\ Len(Sorted[IndexedPaths]) \in Nat /\ Len(Sorted[IndexedPaths]) <= Len(Walked)
    /\ \A i \in 1..Len(Walked) : OnDisk(Walked[i])
    /\ \A i, j \in 1..Len(Walked) : Walked[i] = Walked[j] => i = j
    /\ \A p \in Paths : OnDisk(p) => \E i \in 1..Len(Walked) : Walked[i] = p
<1> DEFINE A == IndexedPaths
           B == {p \in Paths : OnDisk(p)} \ IndexedPaths
           s == Sorted[A]
           t == Sorted[B]
<1>1. A \in SUBSET Paths /\ B \in SUBSET Paths /\ A \cap B = {} /\ A \cup B = {p \in Paths : OnDisk(p)}
  BY DEF IndexedPaths, Indexed
<1> HIDE DEF A, B
<1>2. /\ s \in Seq(Paths) /\ {s[i] : i \in DOMAIN s} = A
      /\ \A i, j \in DOMAIN s : s[i] = s[j] => i = j
  BY <1>1, ContentAssumption
<1>3. /\ t \in Seq(Paths) /\ {t[i] : i \in DOMAIN t} = B
      /\ \A i, j \in DOMAIN t : t[i] = t[j] => i = j
  BY <1>1, ContentAssumption
<1>4. Walked = s \o t
  BY DEF Walked, A, B
<1> HIDE DEF s, t
<1>5. DOMAIN s = 1..Len(s) /\ Len(s) \in Nat /\ DOMAIN t = 1..Len(t) /\ Len(t) \in Nat
  BY <1>2, <1>3, LenProperties
<1>6. /\ Walked \in Seq(Paths) /\ Len(Walked) = Len(s) + Len(t)
      /\ \A i \in 1..Len(s) + Len(t) : Walked[i] = IF i <= Len(s) THEN s[i] ELSE t[i - Len(s)]
  BY <1>2, <1>3, <1>4, ConcatProperties
<1>7. \A i \in 1..Len(Walked) :
        \/ i \in DOMAIN s /\ Walked[i] = s[i] /\ Walked[i] \in A
        \/ i - Len(s) \in DOMAIN t /\ Walked[i] = t[i - Len(s)] /\ Walked[i] \in B
  <2> TAKE i \in 1..Len(Walked)
  <2>1. CASE i <= Len(s)
    BY <2>1, <1>2, <1>5, <1>6
  <2>2. CASE i > Len(s)
    <3>1. i - Len(s) \in 1..Len(t) /\ Walked[i] = t[i - Len(s)]
      BY <2>2, <1>5, <1>6
    <3> QED BY <3>1, <1>3, <1>5
  <2> QED BY <2>1, <2>2, <1>5
<1>8. \A i \in 1..Len(Walked) : OnDisk(Walked[i])
  BY <1>1, <1>7
<1>9. ASSUME NEW i \in 1..Len(Walked), NEW j \in 1..Len(Walked), Walked[i] = Walked[j]
      PROVE  i = j
  <2>1. CASE i \in DOMAIN s /\ Walked[i] = s[i] /\ Walked[i] \in A
    BY <2>1, <1>1, <1>2, <1>7, <1>9
  <2>2. CASE i - Len(s) \in DOMAIN t /\ Walked[i] = t[i - Len(s)] /\ Walked[i] \in B
    <3>1. j - Len(s) \in DOMAIN t /\ Walked[j] = t[j - Len(s)]
      BY <2>2, <1>1, <1>7, <1>9
    <3>2. i - Len(s) = j - Len(s)
      BY <2>2, <3>1, <1>3, <1>9
    <3> QED BY <3>2, <1>5
  <2> QED BY <2>1, <2>2, <1>7
<1>10. ASSUME NEW p \in Paths, OnDisk(p) PROVE \E i \in 1..Len(Walked) : Walked[i] = p
  <2>1. CASE p \in A
    <3>1. PICK i \in 1..Len(s) : s[i] = p
      BY <2>1, <1>2, <1>5
    <3>2. i \in 1..Len(Walked) /\ Walked[i] = p
      BY <3>1, <1>5, <1>6
    <3> QED BY <3>2
  <2>2. CASE p \in B
    <3>1. PICK i \in 1..Len(t) : t[i] = p
      BY <2>2, <1>3, <1>5
    <3>2. i + Len(s) \in 1..Len(s) + Len(t) /\ ~(i + Len(s) <= Len(s)) /\ i + Len(s) - Len(s) = i
      BY <3>1, <1>5
    <3>3. Walked[i + Len(s)] = p
      BY <3>1, <3>2, <1>6
    <3> QED BY <3>2, <3>3, <1>6
  <2> QED BY <2>1, <2>2, <1>1, <1>10
<1>11. Len(s) <= Len(Walked)
  BY <1>5, <1>6
<1>12. s = Sorted[IndexedPaths]
  BY DEF s, A
<1> QED BY <1>5, <1>6, <1>8, <1>9, <1>10, <1>11, <1>12

\* The table of a walk.
LEMMA WalkedTable ==
    /\ WalkedFiles \in Seq(Entry) /\ Len(WalkedFiles) = Len(Walked) /\ Len(Walked) \in Nat
    /\ DOMAIN WalkedFiles = 1..Len(Walked)
    /\ \A i \in 1..Len(Walked) : WalkedFiles[i] = NewEntry(Walked[i], FALSE) /\ Walked[i] \in Paths
<1>1. Walked \in Seq(Paths)
  BY WalkFinds
<1>2. DOMAIN Walked = 1..Len(Walked) /\ Len(Walked) \in Nat /\ \A i \in 1..Len(Walked) : Walked[i] \in Paths
  BY <1>1, LenProperties
<1>3. WalkedFiles = [i \in 1..Len(Walked) |-> NewEntry(Walked[i], FALSE)]
  BY <1>2 DEF WalkedFiles
<1>4. \A i \in 1..Len(Walked) : NewEntry(Walked[i], FALSE) \in Entry
  BY <1>2, NewEntryIsEntry
<1>5. WalkedFiles \in [1..Len(Walked) -> Entry]
  BY <1>3, <1>4
<1>6. WalkedFiles \in Seq(Entry) /\ Len(WalkedFiles) = Len(Walked)
  BY <1>2, <1>5
<1> QED BY <1>2, <1>3, <1>6

LEMMA TableDomain ==
    ASSUME TableOK
    PROVE  DOMAIN files = 1..Len(files) /\ Len(files) \in Nat /\ \A i \in DOMAIN files : files[i] \in Entry
BY LenProperties DEF TableOK

\* handle_create_or_modify of a known file, and of one that is not.
LEMMA ModifyCases ==
    ASSUME TableOK, NEW p \in Paths, HandleModify(p)
    PROVE  \/ \E i \in DOMAIN files :
                /\ files[i].path = p /\ OnDisk(p) /\ files' = Refreshed(i)
                /\ index' = IF InOverlay(i)
                            THEN [index EXCEPT !.modified =
                                    [j \in DOMAIN @ \cup {i} |-> IF j = i THEN ExtractBigrams(disk[p]) ELSE @[j]]]
                            ELSE index
                /\ lost' = IF InOverlay(i) THEN lost \ {i} ELSE lost
           \/ /\ \A i \in DOMAIN files : files[i].path # p
              /\ files' = Append(files, NewEntry(p, TRUE)) /\ UNCHANGED <<index, lost>>
<1> DEFINE at == IF BaseAt(p) # {} THEN BaseAt(p) ELSE OverflowAt(p)
<1>1. at \subseteq {i \in DOMAIN files : files[i].path = p}
  BY DEF BaseAt, OverflowAt
<1>2. at = {} => \A i \in DOMAIN files : files[i].path # p
  BY TableDomain DEF BaseAt, OverflowAt, TableOK
<1> QED BY <1>1, <1>2 DEF HandleModify

LEMMA RefreshedEntry ==
    ASSUME TableOK, NEW i \in DOMAIN files
    PROVE  /\ Refreshed(i) \in Seq(Entry) /\ DOMAIN Refreshed(i) = DOMAIN files /\ Len(Refreshed(i)) = Len(files)
           /\ \A j \in DOMAIN files : j # i => Refreshed(i)[j] = files[j]
           /\ Refreshed(i)[i].path = files[i].path /\ Refreshed(i)[i].binary = files[i].binary
           /\ Refreshed(i)[i].overflow = files[i].overflow
           /\ ~Refreshed(i)[i].deleted /\ Refreshed(i)[i].empty = IsEmpty(disk[files[i].path])
<1> DEFINE e == [files[i] EXCEPT !.deleted = FALSE]
           n == [e EXCEPT !.empty = IsEmpty(disk[files[i].path])]
<1>1. files[i] \in Entry /\ DOMAIN files = 1..Len(files) /\ Len(files) \in Nat
  BY TableDomain
<1>2. IsEmpty(disk[files[i].path]) \in BOOLEAN
  BY DEF IsEmpty
<1>3. /\ n \in Entry /\ n.path = files[i].path /\ n.binary = files[i].binary /\ n.overflow = files[i].overflow
      /\ n.deleted = FALSE /\ n.empty = IsEmpty(disk[files[i].path])
  BY <1>1, <1>2 DEF Entry
<1>4. Refreshed(i) = [files EXCEPT ![i] = n]
  BY <1>1 DEF Refreshed, TableOK
<1> HIDE DEF n
<1>5. i \in 1..Len(files) /\ files \in Seq(Entry)
  BY <1>1 DEF TableOK
<1>6. /\ Refreshed(i) \in Seq(Entry) /\ Len(Refreshed(i)) = Len(files)
      /\ \A j \in 1..Len(files) : Refreshed(i)[j] = IF j = i THEN n ELSE files[j]
  BY <1>3, <1>4, <1>5, ExceptSeq
<1>7. DOMAIN Refreshed(i) = DOMAIN files
  BY <1>1, <1>6, LenProperties
<1> QED BY <1>1, <1>3, <1>6, <1>7

LEMMA AppendedEntry ==
    ASSUME TableOK, NEW p \in Paths
    PROVE  LET t == Append(files, NewEntry(p, TRUE)) IN
           /\ t \in Seq(Entry) /\ Len(t) = Len(files) + 1 /\ DOMAIN t = 1..Len(files) + 1
           /\ \A j \in DOMAIN files : t[j] = files[j]
           /\ t[Len(files) + 1] = NewEntry(p, TRUE)
<1>1. NewEntry(p, TRUE) \in Entry /\ files \in Seq(Entry)
  BY NewEntryIsEntry DEF TableOK
<1> DEFINE x == NewEntry(p, TRUE)
           t == Append(files, x)
<1>2. DOMAIN files = 1..Len(files) /\ Len(files) \in Nat /\ x \in Entry
  BY <1>1, TableDomain
<1> HIDE DEF x
<1>3. /\ t \in Seq(Entry) /\ Len(t) = Len(files) + 1
      /\ \A j \in 1..Len(files) : t[j] = files[j]
      /\ t[Len(files) + 1] = x
  BY <1>1, <1>2, AppendProperties
<1> HIDE DEF t
<1>4. DOMAIN t = 1..Len(files) + 1
  BY <1>3, LenProperties
<1> QED BY <1>2, <1>3, <1>4 DEF t, x

\* A sequence without one of its elements.
LEMMA DropAt ==
    ASSUME NEW S, NEW s \in Seq(S), NEW i \in 1..Len(s)
    PROVE  LET t == SubSeq(s, 1, i - 1) \o SubSeq(s, i + 1, Len(s)) IN
           /\ t \in Seq(S) /\ Len(t) = Len(s) - 1 /\ DOMAIN t = 1..Len(s) - 1
           /\ \A j \in 1..Len(s) - 1 : t[j] = IF j < i THEN s[j] ELSE s[j + 1]
<1> DEFINE a == SubSeq(s, 1, i - 1)
           b == SubSeq(s, i + 1, Len(s))
<1>1. Len(s) \in Nat /\ \A j \in 1..Len(s) : s[j] \in S
  BY LenProperties, ElementOfSeq
<1>2. a \in Seq(S) /\ Len(a) = i - 1 /\ \A j \in 1..i - 1 : a[j] = s[j]
  <2>1. 1 \in Int /\ i - 1 \in Int /\ \A j \in 1..i - 1 : s[j] \in S
    BY <1>1
  <2>2. /\ a \in Seq(S) /\ Len(a) = IF 1 <= i - 1 THEN i - 1 - 1 + 1 ELSE 0
        /\ \A j \in 1..i - 1 - 1 + 1 : a[j] = s[1 + j - 1]
    BY <2>1, SubSeqProperties
  <2> HIDE DEF a
  <2>3. Len(a) = i - 1
    BY <2>2, <1>1
  <2>4. ASSUME NEW j \in 1..i - 1 PROVE a[j] = s[j]
    <3>1. j \in 1..i - 1 - 1 + 1 /\ 1 + j - 1 = j
      BY <1>1, <2>4
    <3> QED BY <2>2, <3>1
  <2> QED BY <2>2, <2>3, <2>4
<1>3. b \in Seq(S) /\ Len(b) = Len(s) - i /\ \A j \in 1..Len(s) - i : b[j] = s[i + j]
  <2>1. i + 1 \in Int /\ Len(s) \in Int /\ \A j \in i + 1..Len(s) : s[j] \in S
    BY <1>1
  <2>2. /\ b \in Seq(S) /\ Len(b) = IF i + 1 <= Len(s) THEN Len(s) - (i + 1) + 1 ELSE 0
        /\ \A j \in 1..Len(s) - (i + 1) + 1 : b[j] = s[i + 1 + j - 1]
    BY <2>1, SubSeqProperties
  <2> HIDE DEF b
  <2>3. Len(b) = Len(s) - i
    BY <2>2, <1>1
  <2>4. ASSUME NEW j \in 1..Len(s) - i PROVE b[j] = s[i + j]
    <3>1. j \in 1..Len(s) - (i + 1) + 1 /\ i + 1 + j - 1 = i + j
      BY <1>1, <2>4
    <3> QED BY <2>2, <3>1
  <2> QED BY <2>2, <2>3, <2>4
<1> HIDE DEF a, b
<1> DEFINE t == a \o b
<1>4. /\ t \in Seq(S) /\ Len(t) = Len(a) + Len(b)
      /\ \A j \in 1..Len(a) + Len(b) : t[j] = IF j <= Len(a) THEN a[j] ELSE b[j - Len(a)]
  BY <1>2, <1>3, ConcatProperties
<1> HIDE DEF t
<1>5. Len(t) = Len(s) - 1
  BY <1>1, <1>2, <1>3, <1>4
<1>6. DOMAIN t = 1..Len(s) - 1
  BY <1>4, <1>5, LenProperties
<1>7. ASSUME NEW j \in 1..Len(s) - 1 PROVE t[j] = IF j < i THEN s[j] ELSE s[j + 1]
  <2>1. j \in 1..Len(a) + Len(b)
    BY <1>1, <1>2, <1>3, <1>7
  <2>2. CASE j < i
    <3>1. j <= Len(a) /\ j \in 1..i - 1
      BY <1>1, <1>2, <1>7, <2>2
    <3> QED BY <1>2, <1>4, <2>1, <2>2, <3>1
  <2>3. CASE ~(j < i)
    <3>1. ~(j <= Len(a)) /\ j - Len(a) \in 1..Len(s) - i /\ i + (j - Len(a)) = j + 1
      BY <1>1, <1>2, <1>7, <2>3
    <3>2. t[j] = b[j - Len(a)] /\ b[j - Len(a)] = s[i + (j - Len(a))]
      BY <1>3, <1>4, <2>1, <3>1
    <3> QED BY <2>3, <3>1, <3>2
  <2> QED BY <2>2, <2>3
<1> QED BY <1>4, <1>5, <1>6, <1>7 DEF t, a, b

\* remove_file_by_path: a file below the index, one above it, none.
LEMMA RemoveCases ==
    ASSUME TableOK, NEW p \in Paths, HandleRemove(p)
    PROVE  \/ \E i \in DOMAIN files :
                /\ files[i].path = p /\ i <= baseCount
                /\ files' = [files EXCEPT ![i].deleted = TRUE]
                /\ index' = [index EXCEPT !.tombs = Tombed(i),
                                          !.modified = [j \in DOMAIN @ \ {i} |-> @[j]]]
                /\ lost' = lost \ {i}
           \/ \E i \in DOMAIN files :
                /\ files[i].path = p /\ i > baseCount
                /\ files' = SubSeq(files, 1, i - 1) \o SubSeq(files, i + 1, Len(files))
                /\ UNCHANGED <<index, lost>>
           \/ /\ \A i \in DOMAIN files : files[i].path # p
              /\ UNCHANGED <<files, index, lost>>
<1>1. BaseAt(p) \cup OverflowAt(p) = {i \in DOMAIN files : files[i].path = p}
  BY TableDomain DEF BaseAt, OverflowAt, TableOK
<1>2. CASE \E i \in BaseAt(p) :
            /\ files' = [files EXCEPT ![i].deleted = TRUE]
            /\ index' = [index EXCEPT !.tombs = Tombed(i),
                                      !.modified = [j \in DOMAIN @ \ {i} |-> @[j]]]
            /\ lost' = lost \ {i}
  BY <1>2 DEF BaseAt
<1>3. CASE \E i \in OverflowAt(p) :
            /\ files' = SubSeq(files, 1, i - 1) \o SubSeq(files, i + 1, Len(files))
            /\ UNCHANGED <<index, lost>>
  BY <1>3 DEF OverflowAt
<1>4. CASE BaseAt(p) = {} /\ OverflowAt(p) = {} /\ UNCHANGED <<files, index, lost>>
  BY <1>1, <1>4
<1> QED BY <1>2, <1>3, <1>4 DEF HandleRemove

LEMMA RemovedEntry ==
    ASSUME TableOK, NEW i \in DOMAIN files
    PROVE  LET t == [files EXCEPT ![i].deleted = TRUE] IN
           /\ t \in Seq(Entry) /\ DOMAIN t = DOMAIN files /\ Len(t) = Len(files)
           /\ \A j \in DOMAIN files : j # i => t[j] = files[j]
           /\ t[i].path = files[i].path /\ t[i].binary = files[i].binary
           /\ t[i].overflow = files[i].overflow /\ t[i].deleted /\ t[i].empty = files[i].empty
<1> DEFINE n == [files[i] EXCEPT !.deleted = TRUE]
           t == [files EXCEPT ![i] = n]
<1>1. files[i] \in Entry /\ DOMAIN files = 1..Len(files) /\ Len(files) \in Nat
  BY TableDomain
<1>2. /\ n \in Entry /\ n.path = files[i].path /\ n.binary = files[i].binary /\ n.overflow = files[i].overflow
      /\ n.deleted = TRUE /\ n.empty = files[i].empty
  BY <1>1 DEF Entry
<1>3. t = [files EXCEPT ![i].deleted = TRUE]
  OBVIOUS
<1> HIDE DEF n
<1>4. i \in 1..Len(files) /\ files \in Seq(Entry)
  BY <1>1 DEF TableOK
<1>5. /\ t \in Seq(Entry) /\ Len(t) = Len(files)
      /\ \A j \in 1..Len(files) : t[j] = IF j = i THEN n ELSE files[j]
  BY <1>2, <1>4, ExceptSeq
<1> HIDE DEF t
<1>6. DOMAIN t = DOMAIN files
  BY <1>1, <1>5, LenProperties
<1> QED BY <1>1, <1>2, <1>3, <1>5, <1>6

(***************************************************************************)
(* retain(): the entries it keeps move down, and when the first of them    *)
(* are as many as before, these have not moved.                            *)
(***************************************************************************)
LEMMA LeastNat ==
    ASSUME NEW T, T \subseteq Nat, T # {}
    PROVE  \E x \in T : \A y \in T : x <= y
<1>1. ASSUME NEW x \in Nat, NEW y \in Nat, y < x PROVE <<y, x>> \in OpToRel(<, Nat)
  BY <1>1 DEF OpToRel
<1>2. PICK x \in T : \A y \in T : ~ (<<y, x>> \in OpToRel(<, Nat))
  BY NatLessThanWellFounded, WFMin
<1>3. ASSUME NEW y \in T PROVE x <= y
  <2>1. x \in Nat /\ y \in Nat
    OBVIOUS
  <2>2. ~(y < x)
    BY <1>1, <1>2, <2>1
  <2> QED BY <2>1, <2>2
<1> QED BY <1>3

LEMMA RisingStays ==
    ASSUME NEW n \in Nat, NEW e \in [1..n -> Nat \ {0}], NEW b \in 0..n,
           \A j, k \in 1..n : j < k => e[j] < e[k],
           \A k \in 1..b : e[k] <= b
    PROVE  \A k \in 1..b : e[k] = k
<1> DEFINE Less == {k \in 1..b : e[k] < k}
           More == {m \in 0..b - 1 : e[b - m] > b - m}
<1>1. Less = {}
  <2>1. SUFFICES ASSUME Less # {} PROVE FALSE
    OBVIOUS
  <2>2. Less \subseteq Nat
    OBVIOUS
  <2>3. PICK k \in Less : \A j \in Less : k <= j
    BY <2>1, <2>2, LeastNat
  <2>4. k \in 1..b /\ e[k] < k /\ e[k] \in Nat \ {0}
    OBVIOUS
  <2> HIDE DEF Less
  <2>5. e[k] \in 1..b /\ e[k] \in 1..n /\ k \in 1..n
    BY <2>4
  <2>6. e[e[k]] < e[k]
    BY <2>4, <2>5
  <2>7. e[k] \in Less
    BY <2>5, <2>6 DEF Less
  <2>8. k <= e[k]
    BY <2>3, <2>7
  <2> QED BY <2>4, <2>8
<1>2. More = {}
  <2>1. SUFFICES ASSUME More # {} PROVE FALSE
    OBVIOUS
  <2>2. More \subseteq Nat
    OBVIOUS
  <2>3. PICK m \in More : \A j \in More : m <= j
    BY <2>1, <2>2, LeastNat
  <2>4. m \in 0..b - 1 /\ e[b - m] > b - m
    OBVIOUS
  <2> HIDE DEF More
  <2> DEFINE k == b - m
  <2>5. k \in 1..b /\ k \in 1..n /\ e[k] > k /\ e[k] \in Nat /\ e[k] <= b
    BY <2>4
  <2>6. m - 1 \in 0..b - 1 /\ b - (m - 1) = k + 1 /\ k + 1 \in 1..b /\ k + 1 \in 1..n
    BY <2>4, <2>5
  <2>7. e[k] < e[k + 1]
    BY <2>5, <2>6
  <2>8. e[b - (m - 1)] > b - (m - 1)
    BY <2>5, <2>6, <2>7
  <2>9. m - 1 \in More
    BY <2>6, <2>8 DEF More
  <2> QED BY <2>3, <2>4, <2>9
<1>3. ASSUME NEW k \in 1..b PROVE e[k] = k
  <2>1. e[k] \in Nat /\ ~(e[k] < k)
    BY <1>1
  <2>2. b - k \in 0..b - 1 /\ b - (b - k) = k
    OBVIOUS
  <2>3. ~(e[b - (b - k)] > b - (b - k))
    BY <1>2, <2>2
  <2> QED BY <2>1, <2>2, <2>3
<1> QED BY <1>3

LEMMA Retains ==
    ASSUME TableOK, NEW e \in Retained
    PROVE  /\ Len(e) \in Nat /\ DOMAIN e = 1..Len(e)
           /\ \A k \in DOMAIN e : e[k] \in DOMAIN files /\ files[e[k]].path \notin Below
           /\ \A j, k \in DOMAIN e : j < k => e[j] < e[k]
           /\ \A i \in DOMAIN files : files[i].path \notin Below => \E k \in DOMAIN e : e[k] = i
           /\ [k \in DOMAIN e |-> files[e[k]]] \in Seq(Entry)
           /\ Len([k \in DOMAIN e |-> files[e[k]]]) = Len(e)
<1> DEFINE stay == {i \in DOMAIN files : files[i].path \notin Below}
           t == [k \in DOMAIN e |-> files[e[k]]]
<1>1. PICK n \in 0..Len(files) : e \in [1..n -> stay]
  BY DEF Retained
<1>2. n \in Nat /\ e \in Seq(stay) /\ Len(e) = n /\ DOMAIN e = 1..n
  BY <1>1, TableDomain
<1>3. /\ \A j, k \in DOMAIN e : j < k => e[j] < e[k]
      /\ \A i \in stay : \E k \in DOMAIN e : e[k] = i
  BY DEF Retained
<1>4. \A k \in DOMAIN e : e[k] \in stay
  BY <1>1, <1>2
<1>5. t \in [1..n -> Entry]
  BY <1>2, <1>4, TableDomain
<1>6. t \in Seq(Entry) /\ Len(t) = n
  BY <1>2, <1>5
<1> QED BY <1>2, <1>3, <1>4, <1>6

\* What the first entries are: those of the first places, and the count is theirs.
LEMMA FirstStay ==
    ASSUME TableOK, NEW e \in Retained, CountBelow(e, baseCount, baseCount)
    PROVE  \A k \in 1..baseCount : k \in DOMAIN e /\ e[k] = k
<1>1. /\ Len(e) \in Nat /\ DOMAIN e = 1..Len(e)
      /\ \A k \in DOMAIN e : e[k] \in DOMAIN files
      /\ \A j, k \in DOMAIN e : j < k => e[j] < e[k]
  BY Retains
<1>2. /\ baseCount \in 0..Len(e)
      /\ \A k \in 1..baseCount : k \in DOMAIN e /\ e[k] <= baseCount
  BY <1>1 DEF CountBelow, TableOK
<1>3. e \in [1..Len(e) -> Nat \ {0}]
  <2>1. DOMAIN files \subseteq Nat \ {0}
    BY TableDomain
  <2>2. PICK n \in 0..Len(files) : e \in [1..n -> {i \in DOMAIN files : files[i].path \notin Below}]
    BY DEF Retained
  <2>3. n = Len(e)
    BY <2>2, TableDomain
  <2> QED BY <2>1, <2>2, <2>3
<1> QED BY <1>1, <1>2, <1>3, RisingStays
-----------------------------------------------------------------------------
(***************************************************************************)
(* The types.                                                              *)
(***************************************************************************)
LEMMA BigramsAreGrams ==
    ASSUME NEW t \in Texts
    PROVE  /\ t.head \subseteq Words /\ t.tail \subseteq Words /\ t.nul \in BOOLEAN
           /\ GramsIn(t.head) \subseteq Grams /\ ExtractBigrams(t) \subseteq Grams
<1>1. t \in [head : SUBSET Words, tail : SUBSET Words, nul : BOOLEAN]
  BY ContentAssumption
<1>2. \A w \in Words : GramsOf[w] \subseteq Grams
  BY ContentAssumption
<1> QED BY <1>1, <1>2 DEF GramsIn, ExtractBigrams, WordsOf

LEMMA OutcomesAreOutcomes ==
    ASSUME WorldOK, TableOK, NEW i \in Nat, i > 0
    PROVE  Outcomes(i) \subseteq Outcome
<1>1. CASE i > Len(files)
  BY <1>1 DEF Outcomes
<1>2. CASE ~(i > Len(files))
  <2> DEFINE p == files[i].path
  <2>1. p \in Paths
    BY <1>2, TableDomain DEF Entry
  <2>2. CASE files[i].binary \/ files[i].empty \/ ~Indexed(p)
    BY <1>2, <2>2 DEF Outcomes, Outcome, Skipped
  <2>3. CASE ~(files[i].binary \/ files[i].empty \/ ~Indexed(p)) /\ disk[p].nul
    BY <1>2, <2>3 DEF Outcomes, Outcome
  <2>4. CASE ~(files[i].binary \/ files[i].empty \/ ~Indexed(p)) /\ ~disk[p].nul
    <3>1. disk[p] \in Texts
      BY <2>1, <2>4 DEF Indexed, OnDisk, WorldOK
    <3>2. GramsIn(disk[p].head) \subseteq Grams
      BY <3>1, BigramsAreGrams
    <3> DEFINE H == GramsIn(disk[p].head)
    <3>3. Outcomes(i) = {[kind |-> "indexed", grams |-> gs] : gs \in IF p \in dirty THEN SUBSET H ELSE {H}}
      BY <1>2, <2>4 DEF Outcomes
    <3> HIDE DEF H
    <3> QED BY <3>2, <3>3 DEF Outcome, H
  <2> QED BY <2>2, <2>3, <2>4
<1> QED BY <1>1, <1>2

\* What a build makes of what it has read.
LEMMA ColumnsAre ==
    ASSUME NEW read \in Seq(Outcome \cup {Unread})
    PROVE  LET built == Columns(read) IN
           /\ built.ready \in BOOLEAN
           /\ DOMAIN built.column \subseteq Grams
           /\ \A g \in DOMAIN built.column : built.column[g] = {i \in DOMAIN read : g \in read[i].grams}
           /\ built.column \in [DOMAIN built.column -> SUBSET (1..Len(read))]
<1> DEFINE populated == Cardinality({i \in DOMAIN read : read[i].kind = "indexed"})
           Column(g) == {i \in DOMAIN read : g \in read[i].grams}
           Dense(g) ==
               IF g \in SkipGrams
               THEN 100 * Cardinality(Column(g)) >= 12 * populated
               ELSE Cardinality(Column(g)) >= 2 * ((Len(read) + Word - 1) \div Word)
           Kept == {g \in Grams : Dense(g) /\ 10 * Cardinality(Column(g)) < 9 * populated}
<1>1. Columns(read) = [ready |-> populated > 0, column |-> [g \in Kept |-> Column(g)]]
  BY DEF Columns
<1>2. Kept \subseteq Grams
  OBVIOUS
<1> HIDE DEF populated, Kept
<1>3. DOMAIN read = 1..Len(read)
  BY LenProperties
<1>4. (populated > 0) \in BOOLEAN
  OBVIOUS
<1> DEFINE built == Columns(read)
<1>5. built.ready = (populated > 0) /\ built.column = [g \in Kept |-> Column(g)]
  BY <1>1
<1> HIDE DEF built
<1> QED BY <1>2, <1>3, <1>4, <1>5 DEF built

LEMMA InitTypes == Init => Types
<1> SUFFICES ASSUME Init PROVE Types
  OBVIOUS
<1> USE DEF Init
<1>1. WorldOK
  <2>1. 0 \in 0..MaxEdits /\ disk \in [Paths -> Texts \cup {NoFile}]
    BY ContentAssumption
  <2> QED BY <2>1 DEF WorldOK
<1>2. TableOK
  BY WalkedTable, WalkFinds DEF TableOK
<1>3. BuildOK
  BY DEF BuildOK, NoBuild
<1>4. IndexOK
  BY DEF IndexOK, NoIndex
<1> QED BY <1>1, <1>2, <1>3, <1>4 DEF Types

LEMMA WorldStep == WorldOK /\ TableOK /\ BuildOK /\ [Next]_vars => WorldOK'
<1> SUFFICES ASSUME WorldOK, TableOK, BuildOK, [Next]_vars PROVE WorldOK'
  OBVIOUS
<1> USE DEF WorldOK
<1>1. ASSUME NEW p \in Paths, Edit(p) PROVE WorldOK'
  <2>1. \E t \in Texts \cup {NoFile} : disk' = [disk EXCEPT ![p] = t]
    BY <1>1 DEF Edit
  <2>2. edits' \in 0..MaxEdits
    BY <1>1, ContentAssumption DEF Edit
  <2>3. UNCHANGED <<dirGone, lost, shifted>> /\ dirty' = dirty \cup {p}
    BY <1>1 DEF Edit
  <2> QED BY <2>1, <2>2, <2>3
<1>2. ASSUME NEW p \in Paths, HandleModify(p) PROVE WorldOK'
  <2>1. lost' \subseteq lost
    BY <1>2, ModifyCases
  <2> QED BY <1>2, <2>1 DEF HandleModify
<1>3. ASSUME NEW p \in Paths, HandleRemove(p) PROVE WorldOK'
  <2>1. lost' \subseteq lost
    BY <1>3, RemoveCases
  <2> QED BY <1>3, <2>1 DEF HandleRemove
<1>4. CASE EraseDir
  <2>1. edits' \in 0..MaxEdits
    BY <1>4, ContentAssumption DEF EraseDir
  <2> QED BY <1>4, <2>1 DEF EraseDir
<1>5. CASE HandleDirGone
  <2>1. UNCHANGED <<disk, edits, dirty, lost>> /\ dirGone' = FALSE
    BY <1>5 DEF HandleDirGone
  <2>2. shifted' \in BOOLEAN
    BY <1>5 DEF HandleDirGone
  <2> QED BY <2>1, <2>2
<1>6. CASE TakeSnapshot
  BY <1>6 DEF TakeSnapshot, vars
<1>7. ASSUME NEW i \in DOMAIN build.read, ReadFile(i) PROVE WorldOK'
  BY <1>7 DEF ReadFile, vars
<1>8. CASE Install
  <2>1. DOMAIN build.read \subseteq Nat
    BY LenProperties DEF BuildOK
  <2> QED BY <1>8, <2>1 DEF Install
<1>9. CASE Rescan
  BY <1>9 DEF Rescan, vars
<1>10. CASE UNCHANGED vars
  BY <1>10 DEF vars, vars
<1> QED
  BY <1>1, <1>2, <1>3, <1>4, <1>5, <1>6, <1>7, <1>8, <1>9, <1>10 DEF Next

LEMMA TableStep == TableOK /\ BuildOK /\ [Next]_vars => TableOK'
<1> SUFFICES ASSUME TableOK, BuildOK, [Next]_vars PROVE TableOK'
  OBVIOUS
<1> USE DEF TableOK
<1>1. ASSUME NEW p \in Paths, Edit(p) PROVE TableOK'
  BY <1>1 DEF Edit, vars
<1>2. ASSUME NEW p \in Paths, HandleModify(p) PROVE TableOK'
  <2>1. UNCHANGED <<indexable, baseCount>>
    BY <1>2 DEF HandleModify
  <2>2. CASE \E i \in DOMAIN files : files' = Refreshed(i)
    BY <2>1, <2>2, RefreshedEntry
  <2>3. CASE files' = Append(files, NewEntry(p, TRUE))
    BY <2>1, <2>3, AppendedEntry
  <2> QED BY <1>2, <2>2, <2>3, ModifyCases
<1>3. ASSUME NEW p \in Paths, HandleRemove(p) PROVE TableOK'
  <2>1. UNCHANGED <<indexable, baseCount>>
    BY <1>3 DEF HandleRemove
  <2>2. CASE \E i \in DOMAIN files : files' = [files EXCEPT ![i].deleted = TRUE]
    BY <2>1, <2>2, RemovedEntry
  <2>3. CASE \E i \in DOMAIN files : files' = SubSeq(files, 1, i - 1) \o SubSeq(files, i + 1, Len(files))
    BY <2>1, <2>3, TableDomain, DropAt
  <2>4. CASE UNCHANGED files
    BY <2>1, <2>4
  <2> QED BY <1>3, <2>2, <2>3, <2>4, RemoveCases
<1>4. CASE EraseDir
  BY <1>4 DEF EraseDir, vars
<1>5. CASE HandleDirGone
  <2>1. PICK e \in Retained, b \in 0..Len(files), n \in 0..Len(files) :
            files' = [k \in DOMAIN e |-> files[e[k]]] /\ baseCount' = b /\ indexable' = n
    BY <1>5 DEF HandleDirGone
  <2> QED BY <2>1, Retains
<1>6. CASE TakeSnapshot
  BY <1>6 DEF TakeSnapshot, vars
<1>7. ASSUME NEW i \in DOMAIN build.read, ReadFile(i) PROVE TableOK'
  BY <1>7 DEF ReadFile, vars
<1>8. CASE Install
  <2>1. UNCHANGED <<indexable, baseCount>>
    BY <1>8 DEF Install
  <2> DEFINE Marked(i) == i \in DOMAIN build.read /\ build.read[i].kind = "binary"
             t == [i \in DOMAIN files |-> [files[i] EXCEPT !.binary = @ \/ Marked(i)]]
  <2>2. files' = t
    BY <1>8 DEF Install
  <2>3. \A i \in DOMAIN files : Marked(i) \in BOOLEAN
    OBVIOUS
  <2> HIDE DEF Marked
  <2>4. ASSUME NEW i \in DOMAIN files PROVE [files[i] EXCEPT !.binary = @ \/ Marked(i)] \in Entry
    <3>1. files[i] \in Entry
      BY TableDomain
    <3>2. (files[i].binary \/ Marked(i)) \in BOOLEAN
      OBVIOUS
    <3> QED BY <3>1, <3>2 DEF Entry
  <2>5. t \in [1..Len(files) -> Entry]
    BY <2>4, TableDomain
  <2>6. Len(files) \in Nat
    BY TableDomain
  <2> HIDE DEF t
  <2>7. t \in Seq(Entry)
    BY <2>5, <2>6
  <2> QED BY <2>1, <2>2, <2>7
<1>9. CASE Rescan
  BY <1>9, WalkedTable, WalkFinds DEF Rescan
<1>10. CASE UNCHANGED vars
  BY <1>10 DEF vars, vars
<1> QED
  BY <1>1, <1>2, <1>3, <1>4, <1>5, <1>6, <1>7, <1>8, <1>9, <1>10 DEF Next

LEMMA BuildStep == WorldOK /\ TableOK /\ BuildOK /\ [Next]_vars => BuildOK'
<1> SUFFICES ASSUME WorldOK, TableOK, BuildOK, [Next]_vars PROVE BuildOK'
  OBVIOUS
<1> USE DEF BuildOK
<1>1. ASSUME NEW p \in Paths, Edit(p) PROVE BuildOK'
  BY <1>1 DEF Edit, vars, NoBuild
<1>2. ASSUME NEW p \in Paths, HandleModify(p) PROVE BuildOK'
  BY <1>2 DEF HandleModify, vars, NoBuild
<1>3. ASSUME NEW p \in Paths, HandleRemove(p) PROVE BuildOK'
  BY <1>3 DEF HandleRemove, vars, NoBuild
<1>4. CASE EraseDir
  BY <1>4 DEF EraseDir, vars, NoBuild
<1>5. CASE HandleDirGone
  BY <1>5 DEF HandleDirGone, vars, NoBuild
<1>6. CASE TakeSnapshot
  <2>1. build' = [round |-> 1, read |-> [i \in 1..indexable |-> Unread]]
    BY <1>6 DEF TakeSnapshot
  <2>2. indexable \in Nat
    BY DEF TableOK
  <2>3. [i \in 1..indexable |-> Unread] \in Seq(Outcome \cup {Unread})
    BY <2>2
  <2> QED BY <2>1, <2>3
<1>7. ASSUME NEW i \in DOMAIN build.read, ReadFile(i) PROVE BuildOK'
  <2>1. PICK o \in Outcomes(i) : build' = [build EXCEPT !.read[i] = o]
    BY <1>7 DEF ReadFile
  <2>2. i \in 1..Len(build.read) /\ Len(build.read) \in Nat
    BY <1>7, LenProperties
  <2>3. o \in Outcome \cup {Unread}
    BY <2>2, OutcomesAreOutcomes
  <2>4. [build.read EXCEPT ![i] = o] \in Seq(Outcome \cup {Unread})
    BY <2>2, <2>3, ExceptSeq
  <2>5. build'.round = build.round /\ build'.read = [build.read EXCEPT ![i] = o]
        /\ build' = [round |-> build'.round, read |-> build'.read]
    BY <2>1
  <2> QED BY <2>4, <2>5
<1>8. CASE Install
  <2>1. CASE build' = [round |-> 2, read |-> [i \in DOMAIN build.read |-> Unread]]
    <3>1. DOMAIN build.read = 1..Len(build.read) /\ Len(build.read) \in Nat
      BY LenProperties
    <3>2. [i \in DOMAIN build.read |-> Unread] \in Seq(Outcome \cup {Unread})
      BY <3>1
    <3> QED BY <2>1, <3>2
  <2>2. CASE build' = [round |-> 3, read |-> << >>]
    BY <2>2
  <2> QED BY <1>8, <2>1, <2>2 DEF Install
<1>9. CASE Rescan
  BY <1>9 DEF Rescan, vars, NoBuild
<1>10. CASE UNCHANGED vars
  BY <1>10 DEF vars, vars, NoBuild
<1> QED
  BY <1>1, <1>2, <1>3, <1>4, <1>5, <1>6, <1>7, <1>8, <1>9, <1>10 DEF Next

LEMMA IndexOKStep == Types /\ [Next]_vars => IndexOK'
<1> SUFFICES ASSUME WorldOK, TableOK, BuildOK, IndexOK, [Next]_vars PROVE IndexOK'
  BY DEF Types
<1>1. ASSUME NEW p \in Paths, Edit(p) PROVE IndexOK'
  BY <1>1 DEF Edit, vars, NoIndex, IndexOK
<1>2. ASSUME NEW p \in Paths, HandleModify(p) PROVE IndexOK'
  <2>1. CASE index' = index
    BY <2>1 DEF IndexOK
  <2>2. CASE \E i \in DOMAIN files :
               /\ OnDisk(p) /\ InOverlay(i)
               /\ index' = [index EXCEPT !.modified =
                    [j \in DOMAIN @ \cup {i} |-> IF j = i THEN ExtractBigrams(disk[p]) ELSE @[j]]]
    <3>1. PICK i \in DOMAIN files :
               /\ OnDisk(p) /\ InOverlay(i)
               /\ index' = [index EXCEPT !.modified =
                    [j \in DOMAIN @ \cup {i} |-> IF j = i THEN ExtractBigrams(disk[p]) ELSE @[j]]]
      BY <2>2
    <3> DEFINE m == [j \in DOMAIN index.modified \cup {i} |->
                        IF j = i THEN ExtractBigrams(disk[p]) ELSE index.modified[j]]
    <3>2. i \in 1..index.boundary
      BY <3>1, TableDomain DEF InOverlay, IndexOK
    <3>3. ExtractBigrams(disk[p]) \in SUBSET Grams
      BY <3>1, BigramsAreGrams DEF OnDisk, WorldOK
    <3>4. DOMAIN m \subseteq 1..index.boundary /\ m \in [DOMAIN m -> SUBSET Grams]
      BY <3>2, <3>3 DEF IndexOK
    <3>5. index' = [ready |-> index.ready, boundary |-> index.boundary, column |-> index.column,
                    tombs |-> index.tombs, modified |-> m]
      BY <3>1 DEF IndexOK
    <3> HIDE DEF m
    <3> QED BY <3>4, <3>5 DEF IndexOK
  <2> QED BY <1>2, <2>1, <2>2, ModifyCases
<1>3. ASSUME NEW p \in Paths, HandleRemove(p) PROVE IndexOK'
  <2>1. CASE index' = index
    BY <2>1 DEF IndexOK
  <2>2. CASE \E i \in DOMAIN files :
                index' = [index EXCEPT !.tombs = Tombed(i), !.modified = [j \in DOMAIN @ \ {i} |-> @[j]]]
    <3>1. PICK i \in DOMAIN files :
                index' = [index EXCEPT !.tombs = Tombed(i), !.modified = [j \in DOMAIN @ \ {i} |-> @[j]]]
      BY <2>2
    <3> DEFINE m == [j \in DOMAIN index.modified \ {i} |-> index.modified[j]]
    <3>2. DOMAIN m \subseteq 1..index.boundary /\ m \in [DOMAIN m -> SUBSET Grams]
      BY DEF IndexOK
    <3>3. Tombed(i) \subseteq 1..index.boundary
      BY TableDomain DEF Tombed, IndexOK
    <3>4. index' = [ready |-> index.ready, boundary |-> index.boundary, column |-> index.column,
                    tombs |-> Tombed(i), modified |-> m]
      BY <3>1 DEF IndexOK
    <3> HIDE DEF m
    <3> QED BY <3>2, <3>3, <3>4 DEF IndexOK
  <2> QED BY <1>3, <2>1, <2>2, RemoveCases
<1>4. CASE EraseDir
  BY <1>4 DEF EraseDir, vars, NoIndex, IndexOK
<1>5. CASE HandleDirGone
  BY <1>5 DEF HandleDirGone, vars, NoIndex, IndexOK
<1>6. CASE TakeSnapshot
  BY <1>6 DEF TakeSnapshot, vars, NoIndex, IndexOK
<1>7. ASSUME NEW i \in DOMAIN build.read, ReadFile(i) PROVE IndexOK'
  BY <1>7 DEF ReadFile, vars, NoIndex, IndexOK
<1>8. CASE Install
  <2> DEFINE read == build.read
             built == Columns(read)
  <2>1. index' = [ready |-> built.ready, boundary |-> Len(read), column |-> built.column,
                  tombs |-> {}, modified |-> [i \in {} |-> {}]]
    BY <1>8 DEF Install
  <2>2. read \in Seq(Outcome \cup {Unread})
    BY DEF BuildOK
  <2>3. Len(read) \in Nat
    BY <2>2, LenProperties
  <2>4. /\ built.ready \in BOOLEAN /\ DOMAIN built.column \subseteq Grams
        /\ built.column \in [DOMAIN built.column -> SUBSET (1..Len(read))]
    BY <2>2, ColumnsAre
  <2> HIDE DEF read, built
  <2> QED BY <2>1, <2>3, <2>4 DEF IndexOK
<1>9. CASE Rescan
  BY <1>9 DEF Rescan, vars, NoIndex, IndexOK
<1>10. CASE UNCHANGED vars
  BY <1>10 DEF vars, vars, NoIndex, IndexOK
<1> QED
  BY <1>1, <1>2, <1>3, <1>4, <1>5, <1>6, <1>7, <1>8, <1>9, <1>10 DEF Next

LEMMA TypesStep == Types /\ [Next]_vars => Types'
BY WorldStep, TableStep, BuildStep, IndexOKStep DEF Types
-----------------------------------------------------------------------------
(***************************************************************************)
(* The entries.                                                            *)
(***************************************************************************)
\* The table of a walk has one entry a path, and it is true.
LEMMA WalkIsTrue ==
    ASSUME NEW t, t = WalkedFiles
    PROVE  /\ \A i, j \in DOMAIN t : t[i].path = t[j].path => i = j
           /\ \A i \in DOMAIN t : ~t[i].overflow /\ i <= Len(Walked) /\ OnDisk(t[i].path)
           /\ \A p \in Paths : OnDisk(p) =>
                \E i \in DOMAIN t : t[i].path = p /\ ~t[i].deleted /\ t[i].empty = IsEmpty(disk[p])
<1>1. DOMAIN t = 1..Len(Walked) /\ Len(Walked) \in Nat
  BY WalkedTable
<1>2. ASSUME NEW i \in 1..Len(Walked)
      PROVE  /\ t[i].path = Walked[i] /\ ~t[i].overflow /\ ~t[i].deleted
             /\ t[i].empty = (~OnDisk(Walked[i]) \/ IsEmpty(disk[Walked[i]]))
  <2>1. t[i] = NewEntry(Walked[i], FALSE) /\ Walked[i] \in Paths
    BY WalkedTable
  <2> QED BY <2>1, NewEntryIsEntry
<1>3. ASSUME NEW p \in Paths, OnDisk(p)
      PROVE  \E i \in DOMAIN t : t[i].path = p /\ ~t[i].deleted /\ t[i].empty = IsEmpty(disk[p])
  <2>1. PICK i \in 1..Len(Walked) : Walked[i] = p
    BY <1>3, WalkFinds
  <2>2. t[i].path = p /\ ~t[i].deleted /\ t[i].empty = IsEmpty(disk[p])
    BY <1>2, <1>3, <2>1 DEF IsEmpty
  <2> QED BY <1>1, <2>2
<1> QED BY <1>1, <1>2, <1>3, WalkFinds

\* What a handler does to the table, entry by entry.
LEMMA SoleStep == Types /\ Sole /\ [Next]_vars => Sole'
<1> SUFFICES ASSUME Types, Sole, [Next]_vars PROVE Sole'
  OBVIOUS
<1>20. TableOK /\ TableOK'
  BY TypesStep DEF Types
<1> USE DEF Sole
<1>1. ASSUME NEW p \in Paths, Edit(p) PROVE Sole'
  BY <1>1 DEF Edit, vars
<1>2. ASSUME NEW p \in Paths, HandleModify(p) PROVE Sole'
  <2>1. CASE \E i \in DOMAIN files : files' = Refreshed(i)
    <3>1. PICK i \in DOMAIN files : files' = Refreshed(i)
      BY <2>1
    <3>2. DOMAIN files' = DOMAIN files /\ \A j \in DOMAIN files : files'[j].path = files[j].path
      BY <1>20, <3>1, RefreshedEntry
    <3> QED BY <3>2
  <2>2. CASE (\A i \in DOMAIN files : files[i].path # p) /\ files' = Append(files, NewEntry(p, TRUE))
    <3>1. /\ DOMAIN files' = 1..Len(files) + 1
          /\ \A j \in DOMAIN files : files'[j] = files[j]
          /\ files'[Len(files) + 1] = NewEntry(p, TRUE)
      BY <1>20, <2>2, AppendedEntry
    <3>2. files'[Len(files) + 1].path = p
      BY <3>1, NewEntryIsEntry
    <3>3. \A j \in DOMAIN files' : j \in DOMAIN files \/ j = Len(files) + 1
      BY <1>20, <3>1, TableDomain
    <3>4. ASSUME NEW j \in DOMAIN files', NEW k \in DOMAIN files', files'[j].path = files'[k].path
          PROVE  j = k
      <4>1. CASE j \in DOMAIN files /\ k \in DOMAIN files
        BY <3>1, <3>4, <4>1
      <4>2. CASE j = Len(files) + 1 /\ k \in DOMAIN files
        BY <2>2, <3>1, <3>2, <3>4, <4>2
      <4>3. CASE k = Len(files) + 1 /\ j \in DOMAIN files
        BY <2>2, <3>1, <3>2, <3>4, <4>3
      <4> QED BY <3>3, <4>1, <4>2, <4>3
    <3> QED BY <3>4
  <2> QED BY <1>20, <1>2, <2>1, <2>2, ModifyCases
<1>3. ASSUME NEW p \in Paths, HandleRemove(p) PROVE Sole'
  <2>1. CASE \E i \in DOMAIN files : files' = [files EXCEPT ![i].deleted = TRUE]
    <3>1. PICK i \in DOMAIN files : files' = [files EXCEPT ![i].deleted = TRUE]
      BY <2>1
    <3>2. DOMAIN files' = DOMAIN files /\ \A j \in DOMAIN files : files'[j].path = files[j].path
      BY <1>20, <3>1, RemovedEntry
    <3> QED BY <3>2
  <2>2. CASE \E i \in DOMAIN files : files' = SubSeq(files, 1, i - 1) \o SubSeq(files, i + 1, Len(files))
    <3>1. PICK i \in 1..Len(files) : files' = SubSeq(files, 1, i - 1) \o SubSeq(files, i + 1, Len(files))
      BY <1>20, <2>2, TableDomain
    <3>2. /\ DOMAIN files' = 1..Len(files) - 1
          /\ \A j \in 1..Len(files) - 1 : files'[j] = IF j < i THEN files[j] ELSE files[j + 1]
      BY <1>20, <3>1, DropAt DEF TableOK
    <3>3. Len(files) \in Nat /\ DOMAIN files = 1..Len(files)
      BY <1>20, TableDomain
    <3>4. ASSUME NEW j \in DOMAIN files', NEW k \in DOMAIN files', files'[j].path = files'[k].path
          PROVE  j = k
      <4> DEFINE old(m) == IF m < i THEN m ELSE m + 1
      <4>1. \A m \in DOMAIN files' : old(m) \in DOMAIN files /\ files'[m] = files[old(m)]
        BY <3>2, <3>3
      <4>2. old(j) = old(k)
        BY <3>4, <4>1
      <4> QED BY <3>2, <3>3, <4>2
    <3> QED BY <3>4
  <2>3. CASE UNCHANGED files
    BY <2>3
  <2> QED BY <1>20, <1>3, <2>1, <2>2, <2>3, RemoveCases
<1>4. CASE EraseDir
  BY <1>4 DEF EraseDir, vars
<1>5. CASE HandleDirGone
  <2>1. PICK e \in Retained : files' = [k \in DOMAIN e |-> files[e[k]]]
    BY <1>5 DEF HandleDirGone
  <2>2. /\ DOMAIN e \subseteq Nat
        /\ \A k \in DOMAIN e : e[k] \in DOMAIN files /\ e[k] \in Nat
        /\ \A j, k \in DOMAIN e : j < k => e[j] < e[k]
    <3>1. DOMAIN e \subseteq Nat
      BY <1>20, Retains
    <3>2. DOMAIN files \subseteq Nat
      BY <1>20, TableDomain
    <3>3. /\ \A k \in DOMAIN e : e[k] \in DOMAIN files
          /\ \A j, k \in DOMAIN e : j < k => e[j] < e[k]
      BY <1>20, Retains
    <3> QED BY <3>1, <3>2, <3>3
  <2>3. ASSUME NEW j \in DOMAIN e, NEW k \in DOMAIN e, files[e[j]].path = files[e[k]].path
        PROVE  j = k
    <3>1. e[j] = e[k]
      BY <2>2, <2>3
    <3>2. ~(j < k) /\ ~(k < j) /\ j \in Nat /\ k \in Nat
      BY <2>2, <3>1
    <3> QED BY <3>2
  <2> QED BY <2>1, <2>3
<1>6. CASE TakeSnapshot
  BY <1>6 DEF TakeSnapshot, vars
<1>7. ASSUME NEW i \in DOMAIN build.read, ReadFile(i) PROVE Sole'
  BY <1>7 DEF ReadFile, vars
<1>8. CASE Install
  <2>1. DOMAIN files' = DOMAIN files /\ \A i \in DOMAIN files : files'[i].path = files[i].path
    <3>1. \A i \in DOMAIN files : files[i] \in Entry
      BY <1>20, TableDomain
    <3> QED BY <1>8, <3>1 DEF Install, Entry
  <2> QED BY <2>1
<1>9. CASE Rescan
  BY <1>9, WalkIsTrue DEF Rescan
<1>10. CASE UNCHANGED vars
  BY <1>10 DEF vars, vars
<1> QED
  BY <1>1, <1>2, <1>3, <1>4, <1>5, <1>6, <1>7, <1>8, <1>9, <1>10 DEF Next

LEMMA EntriesStep == Types /\ Sole /\ EntriesInv /\ GoneInv /\ [Next]_vars => EntriesInv'
<1> SUFFICES ASSUME Types, Sole, EntriesInv, GoneInv, [Next]_vars, NEW q \in Paths, Settled(q)'
             PROVE  EntryTrue(q)'
  BY DEF EntriesInv
<1>20. TableOK /\ WorldOK /\ Settled(q)' = (q \notin dirty' /\ ~(dirGone' /\ q \in Below))
  BY DEF Types, Settled
\* An entry of q has one that says the same after the step, and the other way around.
<1> DEFINE As(j, k) == /\ files[j].path = q /\ files'[k].path = q
                       /\ files'[k].deleted = files[j].deleted /\ files'[k].empty = files[j].empty
<1>21. ASSUME Settled(q), disk'[q] = disk[q],
              \A j \in DOMAIN files : files[j].path = q => \E k \in DOMAIN files' : As(j, k),
              \A k \in DOMAIN files' : files'[k].path = q => \E j \in DOMAIN files : As(j, k)
       PROVE  EntryTrue(q)'
  <2>1. EntryTrue(q)
    BY <1>21 DEF EntriesInv
  <2>2. CASE OnDisk(q)
    <3>1. PICK j \in DOMAIN files : files[j].path = q /\ ~files[j].deleted /\ files[j].empty = IsEmpty(disk[q])
      BY <2>1, <2>2 DEF EntryTrue
    <3>2. PICK k \in DOMAIN files' : As(j, k)
      BY <1>21, <3>1
    <3>3. IsEmpty(disk[q]) = IsEmpty(disk'[q]) /\ OnDisk(q)'
      BY <1>21, <2>2 DEF OnDisk
    <3>4. files'[k].path = q /\ ~files'[k].deleted /\ files'[k].empty = IsEmpty(disk'[q])
      BY <3>1, <3>2, <3>3
    <3> QED BY <3>3, <3>4 DEF EntryTrue
  <2>3. CASE ~OnDisk(q)
    <3>1. ~OnDisk(q)'
      BY <1>21, <2>3 DEF OnDisk
    <3>2. ASSUME NEW k \in DOMAIN files', files'[k].path = q PROVE files'[k].deleted
      <4>1. PICK j \in DOMAIN files : As(j, k)
        BY <1>21, <3>2
      <4> QED BY <2>1, <2>3, <4>1 DEF EntryTrue
    <3> QED BY <3>1, <3>2 DEF EntryTrue
  <2> QED BY <2>2, <2>3
<1>22. (UNCHANGED files /\ Settled(q) /\ disk'[q] = disk[q]) => EntryTrue(q)'
  BY <1>21
<1> HIDE DEF As
<1>1. ASSUME NEW p \in Paths, Edit(p) PROVE EntryTrue(q)'
  <2>1. q # p /\ Settled(q) /\ UNCHANGED files
    BY <1>20, <1>1 DEF Edit, Settled
  <2>2. disk'[q] = disk[q]
    BY <1>20, <1>1, <2>1 DEF Edit, WorldOK
  <2> QED BY <1>22, <2>1, <2>2
<1>2. ASSUME NEW p \in Paths, HandleModify(p) PROVE EntryTrue(q)'
  <2>1. UNCHANGED <<disk, dirGone>> /\ dirty' = IF OnDisk(p) THEN dirty \ {p} ELSE dirty
    BY <1>2 DEF HandleModify
  <2>2. p = q => OnDisk(p)
    BY <1>20, <1>2, <2>1 DEF HandleModify
  <2>3. p # q => Settled(q)
    BY <1>20, <2>1 DEF Settled
  <2>4. CASE \E i \in DOMAIN files : files[i].path = p /\ OnDisk(p) /\ files' = Refreshed(i)
    <3>1. PICK i \in DOMAIN files : files[i].path = p /\ OnDisk(p) /\ files' = Refreshed(i)
      BY <2>4
    <3>2. /\ DOMAIN files' = DOMAIN files /\ \A j \in DOMAIN files : j # i => files'[j] = files[j]
          /\ files'[i].path = p /\ ~files'[i].deleted /\ files'[i].empty = IsEmpty(disk[p])
      BY <1>20, <3>1, RefreshedEntry
    <3>3. CASE p = q
      <4>1. OnDisk(q)' /\ files'[i].empty = IsEmpty(disk'[q])
        BY <2>1, <3>1, <3>2, <3>3 DEF OnDisk
      <4> QED BY <3>2, <3>3, <4>1 DEF EntryTrue
    <3>4. CASE p # q
      <4>1. \A j \in DOMAIN files : files[j].path = q => As(j, j)
        BY <3>1, <3>2, <3>4 DEF As
      <4>2. \A k \in DOMAIN files' : files'[k].path = q => As(k, k)
        BY <3>1, <3>2, <3>4 DEF As
      <4> QED BY <1>21, <2>1, <2>3, <3>2, <3>4, <4>1, <4>2
    <3> QED BY <3>3, <3>4
  <2>5. CASE (\A i \in DOMAIN files : files[i].path # p) /\ files' = Append(files, NewEntry(p, TRUE))
    <3> DEFINE l == Len(files) + 1
    <3>1. /\ DOMAIN files' = 1..l /\ \A j \in DOMAIN files : files'[j] = files[j]
          /\ files'[l] = NewEntry(p, TRUE)
      BY <1>20, <2>5, AppendedEntry
    <3>2. Len(files) \in Nat /\ DOMAIN files = 1..Len(files)
      BY <1>20, TableDomain
    <3>3. files'[l].path = p /\ ~files'[l].deleted /\ files'[l].empty = (~OnDisk(p) \/ IsEmpty(disk[p]))
      BY <3>1, NewEntryIsEntry
    <3>4. l \in DOMAIN files' /\ \A j \in DOMAIN files' : j \in DOMAIN files \/ j = l
      BY <3>1, <3>2
    <3>5. \A j \in DOMAIN files : j \in DOMAIN files'
      BY <3>1, <3>2
    <3> HIDE DEF l
    <3>6. CASE p = q
      <4>1. OnDisk(q)' /\ files'[l].empty = IsEmpty(disk'[q])
        BY <2>1, <2>2, <3>3, <3>6 DEF OnDisk, IsEmpty
      <4> QED BY <3>3, <3>4, <3>6, <4>1 DEF EntryTrue
    <3>7. CASE p # q
      <4>1. \A j \in DOMAIN files : files[j].path = q => As(j, j)
        BY <3>1 DEF As
      <4>2. \A k \in DOMAIN files' : files'[k].path = q => k \in DOMAIN files /\ As(k, k)
        BY <3>1, <3>3, <3>4, <3>7 DEF As
      <4> QED BY <1>21, <2>1, <2>3, <3>5, <3>7, <4>1, <4>2
    <3> QED BY <3>6, <3>7
  <2> QED BY <1>20, <1>2, <2>4, <2>5, ModifyCases
<1>3. ASSUME NEW p \in Paths, HandleRemove(p) PROVE EntryTrue(q)'
  <2>1. UNCHANGED <<disk, dirGone>> /\ dirty' = IF OnDisk(p) THEN dirty ELSE dirty \ {p}
    BY <1>3 DEF HandleRemove
  <2>2. p = q => ~OnDisk(p) /\ ~OnDisk(q)'
    BY <1>20, <1>3, <2>1 DEF HandleRemove, OnDisk
  <2>3. p # q => Settled(q)
    BY <1>20, <2>1 DEF Settled
  <2>4. CASE \E i \in DOMAIN files : files[i].path = p /\ files' = [files EXCEPT ![i].deleted = TRUE]
    <3>1. PICK i \in DOMAIN files : files[i].path = p /\ files' = [files EXCEPT ![i].deleted = TRUE]
      BY <2>4
    <3>2. /\ DOMAIN files' = DOMAIN files /\ \A j \in DOMAIN files : j # i => files'[j] = files[j]
          /\ files'[i].path = p /\ files'[i].deleted
      BY <1>20, <3>1, RemovedEntry
    <3>3. CASE p = q
      <4>1. \A k \in DOMAIN files' : files'[k].path = q => k = i
        BY <3>1, <3>2, <3>3 DEF Sole
      <4> QED BY <2>2, <3>2, <3>3, <4>1 DEF EntryTrue
    <3>4. CASE p # q
      <4>1. \A j \in DOMAIN files : files[j].path = q => As(j, j)
        BY <3>1, <3>2, <3>4 DEF As
      <4>2. \A k \in DOMAIN files' : files'[k].path = q => As(k, k)
        BY <3>1, <3>2, <3>4 DEF As
      <4> QED BY <1>21, <2>1, <2>3, <3>2, <3>4, <4>1, <4>2
    <3> QED BY <3>3, <3>4
  <2>5. CASE \E i \in DOMAIN files :
                files[i].path = p /\ files' = SubSeq(files, 1, i - 1) \o SubSeq(files, i + 1, Len(files))
    <3>1. DOMAIN files = 1..Len(files) /\ Len(files) \in Nat
      BY <1>20, TableDomain
    <3>2. PICK i \in 1..Len(files) :
                files[i].path = p /\ files' = SubSeq(files, 1, i - 1) \o SubSeq(files, i + 1, Len(files))
      BY <2>5, <3>1
    <3>3. /\ DOMAIN files' = 1..Len(files) - 1
          /\ \A j \in 1..Len(files) - 1 : files'[j] = IF j < i THEN files[j] ELSE files[j + 1]
      BY <1>20, <3>2, DropAt DEF TableOK
    <3> DEFINE old(k) == IF k < i THEN k ELSE k + 1
    <3>4. \A k \in DOMAIN files' : old(k) \in DOMAIN files /\ old(k) # i /\ files'[k] = files[old(k)]
      BY <3>1, <3>3
    <3>5. ASSUME NEW j \in DOMAIN files, j # i PROVE \E k \in DOMAIN files' : files'[k] = files[j]
      <4> DEFINE n == Len(files)
      <4>0. j \in 1..n /\ i \in 1..n /\ n \in Nat /\ DOMAIN files' = 1..n - 1
        BY <3>1, <3>3
      <4> HIDE DEF n
      <4>1. CASE j < i
        <5>1. j \in DOMAIN files'
          BY <4>0, <4>1
        <5> QED BY <3>3, <4>1, <5>1 DEF n
      <4>2. CASE ~(j < i)
        <5>1. j - 1 \in DOMAIN files' /\ ~(j - 1 < i) /\ j - 1 + 1 = j
          BY <3>5, <4>0, <4>2
        <5> QED BY <3>3, <5>1 DEF n
      <4> QED BY <4>1, <4>2
    <3> HIDE DEF old
    <3>6. CASE p = q
      <4>1. \A k \in DOMAIN files' : files'[k].path # q
        BY <3>1, <3>2, <3>4, <3>6, ZenonT(60) DEF Sole
      <4> QED BY <2>2, <3>6, <4>1 DEF EntryTrue
    <3>7. CASE p # q
      <4>1. ASSUME NEW j \in DOMAIN files, files[j].path = q PROVE \E k \in DOMAIN files' : As(j, k)
        BY <3>2, <3>5, <3>7, <4>1 DEF As
      <4>2. ASSUME NEW k \in DOMAIN files', files'[k].path = q PROVE \E j \in DOMAIN files : As(j, k)
        BY <3>4, <4>2 DEF As
      <4> QED BY <1>21, <2>1, <2>3, <3>7, <4>1, <4>2
    <3> QED BY <3>6, <3>7
  <2>6. CASE (\A i \in DOMAIN files : files[i].path # p) /\ UNCHANGED files
    <3>1. CASE p = q
      BY <2>2, <2>6, <3>1 DEF EntryTrue
    <3>2. CASE p # q
      BY <1>22, <2>1, <2>3, <2>6, <3>2
    <3> QED BY <3>1, <3>2
  <2> QED BY <1>20, <1>3, <2>4, <2>5, <2>6, RemoveCases
<1>4. CASE EraseDir
  <2>1. q \notin Below /\ Settled(q) /\ UNCHANGED files
    BY <1>20, <1>4 DEF EraseDir, Settled
  <2>2. disk'[q] = disk[q]
    BY <1>4, <2>1 DEF EraseDir
  <2> QED BY <1>22, <2>1, <2>2
<1>5. CASE HandleDirGone
  <2>1. PICK e \in Retained : files' = [k \in DOMAIN e |-> files[e[k]]]
    BY <1>5 DEF HandleDirGone
  <2>2. dirGone /\ q \notin dirty /\ UNCHANGED disk
    BY <1>20, <1>5 DEF HandleDirGone
  <2>3. /\ DOMAIN files' = DOMAIN e
        /\ \A k \in DOMAIN e : files'[k] = files[e[k]] /\ e[k] \in DOMAIN files /\ files[e[k]].path \notin Below
    BY <1>20, <2>1, Retains
  <2>4. CASE q \in Below
    <3>1. ~OnDisk(q)'
      BY <2>2, <2>4 DEF GoneInv, OnDisk
    <3>2. \A k \in DOMAIN files' : files'[k].path # q
      BY <2>3, <2>4
    <3> QED BY <3>1, <3>2 DEF EntryTrue
  <2>5. CASE q \notin Below
    <3>1. Settled(q)
      BY <2>2, <2>5 DEF Settled
    <3>2. ASSUME NEW j \in DOMAIN files, files[j].path = q PROVE \E k \in DOMAIN files' : As(j, k)
      <4>1. PICK k \in DOMAIN e : e[k] = j
        BY <1>20, <2>5, <3>2, Retains
      <4> QED BY <2>3, <3>2, <4>1 DEF As
    <3>3. ASSUME NEW k \in DOMAIN files', files'[k].path = q PROVE \E j \in DOMAIN files : As(j, k)
      BY <2>3, <3>3 DEF As
    <3> QED BY <1>21, <2>2, <3>1, <3>2, <3>3
  <2> QED BY <2>4, <2>5
<1>6. CASE TakeSnapshot
  <2>1. Settled(q) /\ UNCHANGED <<files, disk>>
    BY <1>20, <1>6 DEF TakeSnapshot, Settled
  <2> QED BY <1>22, <2>1
<1>7. ASSUME NEW i \in DOMAIN build.read, ReadFile(i) PROVE EntryTrue(q)'
  <2>1. Settled(q) /\ UNCHANGED <<files, disk>>
    BY <1>20, <1>7 DEF ReadFile, Settled
  <2> QED BY <1>22, <2>1
<1>8. CASE Install
  <2>1. /\ DOMAIN files' = DOMAIN files
        /\ \A i \in DOMAIN files : /\ files'[i].path = files[i].path /\ files'[i].deleted = files[i].deleted
                                   /\ files'[i].empty = files[i].empty
    <3>1. \A i \in DOMAIN files : files[i] \in Entry
      BY <1>20, TableDomain
    <3> QED BY <1>8, <3>1 DEF Install, Entry
  <2>2. Settled(q) /\ disk'[q] = disk[q]
    BY <1>20, <1>8 DEF Install, Settled
  <2>3. \A j \in DOMAIN files : files[j].path = q => As(j, j)
    BY <2>1 DEF As
  <2>4. \A k \in DOMAIN files' : files'[k].path = q => As(k, k)
    BY <2>1 DEF As
  <2> QED BY <1>21, <2>1, <2>2, <2>3, <2>4
<1>9. CASE Rescan
  <2>1. files' = WalkedFiles /\ disk' = disk
    BY <1>9 DEF Rescan
  <2>2. CASE OnDisk(q)
    <3>1. PICK i \in DOMAIN files' : files'[i].path = q /\ ~files'[i].deleted /\ files'[i].empty = IsEmpty(disk[q])
      BY <2>1, <2>2, WalkIsTrue
    <3>2. OnDisk(q)' /\ files'[i].empty = IsEmpty(disk'[q])
      BY <2>1, <2>2, <3>1 DEF OnDisk
    <3> QED BY <3>1, <3>2 DEF EntryTrue
  <2>3. CASE ~OnDisk(q)
    <3>1. ~OnDisk(q)' /\ \A i \in DOMAIN files' : files'[i].path # q
      BY <2>1, <2>3, WalkIsTrue DEF OnDisk
    <3> QED BY <3>1 DEF EntryTrue
  <2> QED BY <2>2, <2>3
<1>10. CASE UNCHANGED vars
  <2>1. Settled(q) /\ UNCHANGED <<files, disk>>
    BY <1>20, <1>10 DEF vars, Settled
  <2> QED BY <1>22, <2>1
<1> QED
  BY <1>1, <1>2, <1>3, <1>4, <1>5, <1>6, <1>7, <1>8, <1>9, <1>10 DEF Next

LEMMA GoneInvStep == Types /\ GoneInv /\ [Next]_vars => GoneInv'
<1> SUFFICES ASSUME Types, GoneInv, [Next]_vars, dirGone', NEW q \in Below, q \notin dirty'
             PROVE  ~OnDisk(q)'
  BY DEF GoneInv
<1>20. q \in Paths /\ disk \in [Paths -> Texts \cup {NoFile}]
  BY ContentAssumption DEF Types, WorldOK
<1>1. ASSUME NEW p \in Paths, Edit(p) PROVE ~OnDisk(q)'
  <2>1. dirGone /\ q \notin dirty /\ q # p /\ disk'[q] = disk[q]
    BY <1>20, <1>1 DEF Edit
  <2> QED BY <2>1 DEF GoneInv, OnDisk
<1>2. ASSUME NEW p \in Paths, HandleModify(p) PROVE ~OnDisk(q)'
  <2>1. dirGone /\ q \notin dirty /\ UNCHANGED disk
    BY <1>2 DEF HandleModify
  <2> QED BY <2>1 DEF GoneInv, OnDisk
<1>3. ASSUME NEW p \in Paths, HandleRemove(p) PROVE ~OnDisk(q)'
  <2>1. dirGone /\ q \notin dirty /\ UNCHANGED disk
    BY <1>3 DEF HandleRemove
  <2> QED BY <2>1 DEF GoneInv, OnDisk
<1>4. CASE EraseDir
  BY <1>4, <1>20 DEF EraseDir, OnDisk, GoneInv, vars
<1>5. CASE HandleDirGone
  BY <1>5, <1>20 DEF HandleDirGone, OnDisk, GoneInv, vars
<1>6. CASE TakeSnapshot
  BY <1>6, <1>20 DEF TakeSnapshot, OnDisk, GoneInv, vars
<1>7. ASSUME NEW i \in DOMAIN build.read, ReadFile(i) PROVE ~OnDisk(q)'
  BY <1>7, <1>20 DEF ReadFile, OnDisk, GoneInv, vars
<1>8. CASE Install
  BY <1>8, <1>20 DEF Install, OnDisk, GoneInv, vars
<1>9. CASE Rescan
  BY <1>9, <1>20 DEF Rescan, OnDisk, GoneInv, vars
<1>10. CASE UNCHANGED vars
  BY <1>10, <1>20 DEF vars, OnDisk, GoneInv, vars
<1> QED
  BY <1>1, <1>2, <1>3, <1>4, <1>5, <1>6, <1>7, <1>8, <1>9, <1>10 DEF Next

-----------------------------------------------------------------------------
(***************************************************************************)
(* The positions.  Only the removal of a directory moves a base file; when *)
(* it moves one below a build or an index, shifted says so until the next  *)
(* walk.                                                                   *)
(***************************************************************************)
LEMMA PositionsStep == Types /\ (~shifted => PositionsInv) /\ [Next]_vars => (~shifted' => PositionsInv')
<1> SUFFICES ASSUME Types, ~shifted => PositionsInv, [Next]_vars, ~shifted' PROVE PositionsInv'
  OBVIOUS
<1>20. /\ TableOK /\ DOMAIN files = 1..Len(files) /\ Len(files) \in Nat /\ baseCount \in Nat /\ indexable \in Nat
       /\ index.boundary \in Nat /\ build.round \in 0..3 /\ build.read \in Seq(Outcome \cup {Unread})
       /\ DOMAIN build.read = 1..Len(build.read) /\ Len(build.read) \in Nat
  BY TableDomain, LenProperties DEF Types, TableOK, IndexOK, BuildOK
\* A step that leaves the index and the build alone has the table to answer for.
<1>21. ASSUME ~shifted, UNCHANGED <<baseCount, indexable, build>>, index'.boundary = index.boundary,
              baseCount <= Len(files'), \A i \in DOMAIN files' : files'[i].overflow <=> i > baseCount
       PROVE  PositionsInv'
  BY <1>21 DEF PositionsInv
<1>22. (~shifted /\ UNCHANGED <<files, baseCount, indexable, build, index>>) => PositionsInv'
  BY DEF PositionsInv
<1>1. ASSUME NEW p \in Paths, Edit(p) PROVE PositionsInv'
  BY <1>22, <1>1 DEF Edit
<1>2. ASSUME NEW p \in Paths, HandleModify(p) PROVE PositionsInv'
  <2>1. ~shifted /\ UNCHANGED <<baseCount, indexable, build>>
    BY <1>2 DEF HandleModify
  <2>2. index'.boundary = index.boundary
    BY <1>20, <1>2, ModifyCases DEF Types, IndexOK
  <2>3. CASE \E i \in DOMAIN files : files' = Refreshed(i)
    <3>1. PICK i \in DOMAIN files : files' = Refreshed(i)
      BY <2>3
    <3>2. /\ DOMAIN files' = DOMAIN files /\ Len(files') = Len(files)
          /\ \A j \in DOMAIN files : files'[j].overflow = files[j].overflow
      BY <1>20, <3>1, RefreshedEntry
    <3> QED BY <1>21, <2>1, <2>2, <3>2 DEF PositionsInv
  <2>4. CASE files' = Append(files, NewEntry(p, TRUE))
    <3> DEFINE l == Len(files) + 1
    <3>1. /\ DOMAIN files' = 1..l /\ Len(files') = l /\ \A j \in DOMAIN files : files'[j] = files[j]
          /\ files'[l] = NewEntry(p, TRUE)
      BY <1>20, <2>4, AppendedEntry
    <3>2. files'[l].overflow
      BY <3>1, NewEntryIsEntry
    <3>3. baseCount < l /\ \A j \in DOMAIN files' : j \in DOMAIN files \/ j = l
      BY <1>20, <2>1, <3>1 DEF PositionsInv
    <3>4. baseCount <= Len(files')
      BY <1>20, <3>1, <3>3
    <3> HIDE DEF l
    <3>5. \A j \in DOMAIN files' : files'[j].overflow <=> j > baseCount
      BY <2>1, <3>1, <3>2, <3>3 DEF PositionsInv
    <3> QED BY <1>21, <2>1, <2>2, <3>4, <3>5
  <2> QED BY <1>20, <1>2, <2>3, <2>4, ModifyCases
<1>3. ASSUME NEW p \in Paths, HandleRemove(p) PROVE PositionsInv'
  <2>1. ~shifted /\ UNCHANGED <<baseCount, indexable, build>>
    BY <1>3 DEF HandleRemove
  <2>2. index'.boundary = index.boundary
    BY <1>20, <1>3, RemoveCases DEF Types, IndexOK
  <2>3. CASE \E i \in DOMAIN files : files' = [files EXCEPT ![i].deleted = TRUE]
    <3>1. PICK i \in DOMAIN files : files' = [files EXCEPT ![i].deleted = TRUE]
      BY <2>3
    <3>2. /\ DOMAIN files' = DOMAIN files /\ Len(files') = Len(files)
          /\ \A j \in DOMAIN files : files'[j].overflow = files[j].overflow
      BY <1>20, <3>1, RemovedEntry
    <3> QED BY <1>21, <2>1, <2>2, <3>2 DEF PositionsInv
  <2>4. CASE \E i \in DOMAIN files :
                i > baseCount /\ files' = SubSeq(files, 1, i - 1) \o SubSeq(files, i + 1, Len(files))
    <3>1. PICK i \in 1..Len(files) :
                i > baseCount /\ files' = SubSeq(files, 1, i - 1) \o SubSeq(files, i + 1, Len(files))
      BY <1>20, <2>4
    <3> DEFINE n == Len(files)
    <3>2. /\ DOMAIN files' = 1..n - 1 /\ Len(files') = n - 1
          /\ \A j \in 1..n - 1 : files'[j] = IF j < i THEN files[j] ELSE files[j + 1]
      BY <1>20, <3>1, DropAt DEF TableOK
    <3>3. /\ n \in Nat /\ i \in 1..n /\ i > baseCount /\ baseCount \in Nat
          /\ \A j \in 1..n : files[j].overflow <=> j > baseCount
      BY <1>20, <2>1, <3>1 DEF PositionsInv
    <3> HIDE DEF n
    <3>4. baseCount <= Len(files')
      BY <3>2, <3>3
    <3>5. ASSUME NEW j \in DOMAIN files' PROVE files'[j].overflow <=> j > baseCount
      <4>1. CASE j < i
        BY <3>2, <3>3, <4>1
      <4>2. CASE ~(j < i)
        <5>1. j + 1 \in 1..n /\ j > baseCount /\ j + 1 > baseCount /\ files'[j] = files[j + 1]
          BY <3>2, <3>3, <4>2
        <5> QED BY <3>3, <5>1
      <4> QED BY <4>1, <4>2
    <3> QED BY <1>21, <2>1, <2>2, <3>4, <3>5
  <2>5. CASE UNCHANGED files
    BY <1>21, <2>1, <2>2, <2>5 DEF PositionsInv
  <2> QED BY <1>20, <1>3, <2>3, <2>4, <2>5, RemoveCases
<1>4. CASE EraseDir
  BY <1>22, <1>4 DEF EraseDir
<1>5. CASE HandleDirGone
  <2>1. PICK e \in Retained, b \in 0..Len(files), n \in 0..Len(files) :
            /\ files' = [k \in DOMAIN e |-> files[e[k]]]
            /\ CountBelow(e, baseCount, b) /\ baseCount' = b
            /\ CountBelow(e, indexable, n) /\ indexable' = n
    BY <1>5 DEF HandleDirGone
  <2>2. /\ ~shifted /\ (build.round > 0 => b = baseCount) /\ UNCHANGED <<build, index>>
    BY <1>5, <2>1 DEF HandleDirGone
  <2>3. /\ Len(e) \in Nat /\ DOMAIN e = 1..Len(e) /\ DOMAIN files' = 1..Len(e) /\ Len(files') = Len(e)
        /\ \A k \in 1..Len(e) : files'[k] = files[e[k]] /\ e[k] \in 1..Len(files)
    BY <1>20, <2>1, Retains
  <2>4. /\ b <= Len(e) /\ \A k \in 1..Len(e) : k <= b <=> e[k] <= baseCount
        /\ n <= Len(e) /\ \A k \in 1..Len(e) : k <= n <=> e[k] <= indexable
    BY <2>1, <2>3 DEF CountBelow
  <2>5. n <= b
    <3>1. SUFFICES ASSUME b < n PROVE FALSE
      BY <1>20
    <3>2. n \in 1..Len(e) /\ n <= n
      BY <1>20, <2>3, <2>4, <3>1
    <3>3. e[n] <= indexable /\ e[n] \in Nat
      BY <2>3, <2>4, <3>2
    <3>4. e[n] <= baseCount
      BY <1>20, <2>2, <3>3 DEF PositionsInv
    <3>5. n <= b
      BY <2>4, <3>2, <3>4
    <3> QED BY <3>1, <3>2, <3>5
  <2>6. ASSUME NEW k \in 1..Len(e) PROVE files'[k].overflow <=> k > b
    <3>1. files'[k].overflow <=> e[k] > baseCount
      BY <1>20, <2>2, <2>3 DEF PositionsInv
    <3>2. e[k] \in Nat /\ (k <= b <=> e[k] <= baseCount)
      BY <2>3, <2>4
    <3> QED BY <1>20, <3>1, <3>2
  <2>7. build.round > 0 => n = indexable
    <3>1. SUFFICES ASSUME build.round > 0 PROVE n = indexable
      OBVIOUS
    <3>2. \A k \in 1..baseCount : k \in 1..Len(e) /\ e[k] = k
      BY <1>20, <2>1, <2>2, <2>3, <3>1, FirstStay
    <3>3. \A k \in 1..baseCount : k <= n <=> k <= indexable
      BY <2>4, <3>2
    <3>4. n <= baseCount /\ indexable <= baseCount /\ n \in Nat
      BY <2>2, <2>5, <3>1 DEF PositionsInv
    <3>5. n > 0 => n \in 1..baseCount
      BY <1>20, <3>4
    <3>6. indexable > 0 => indexable \in 1..baseCount
      BY <1>20, <3>4
    <3>7. n <= indexable
      BY <1>20, <3>3, <3>4, <3>5
    <3>8. indexable <= n
      <4>1. CASE indexable > 0
        <5>1. indexable <= indexable
          BY <1>20
        <5> QED BY <3>3, <3>6, <4>1, <5>1
      <4> QED BY <1>20, <3>4, <4>1
    <3> QED BY <1>20, <3>4, <3>7, <3>8
  <2>8. /\ indexable' <= baseCount' /\ baseCount' <= Len(files')
        /\ \A i \in DOMAIN files' : files'[i].overflow <=> i > baseCount'
    BY <2>1, <2>3, <2>4, <2>5, <2>6
  <2>9. /\ build.round \in {0, 1} => index.boundary = 0
        /\ build.round \in {2, 3} => index.boundary = indexable /\ build.round > 0
        /\ build.round \in {1, 2} => Len(build.read) = indexable /\ build.round > 0
    BY <2>2 DEF PositionsInv
  <2> QED BY <2>1, <2>2, <2>7, <2>8, <2>9 DEF PositionsInv
<1>6. CASE TakeSnapshot
  <2>1. ~shifted /\ build.round = 0 /\ UNCHANGED <<files, baseCount, indexable, index>>
    BY <1>6 DEF TakeSnapshot
  <2>2. build'.round = 1 /\ build'.read = [i \in 1..indexable |-> Unread]
    BY <1>6 DEF TakeSnapshot
  <2>3. Len(build'.read) = indexable
    BY <1>20, <2>2
  <2>4. index'.boundary = 0 /\ UNCHANGED <<files, baseCount, indexable>>
    BY <2>1 DEF PositionsInv
  <2>5. /\ indexable' <= baseCount' /\ baseCount' <= Len(files')
        /\ \A i \in DOMAIN files' : files'[i].overflow <=> i > baseCount'
    BY <2>1, <2>4 DEF PositionsInv
  <2>6. build'.round = 1 /\ Len(build'.read) = indexable'
    BY <2>2, <2>3, <2>4
  <2> QED BY <2>4, <2>5, <2>6 DEF PositionsInv
<1>7. ASSUME NEW i \in DOMAIN build.read, ReadFile(i) PROVE PositionsInv'
  <2>1. ~shifted /\ UNCHANGED <<files, baseCount, indexable, index>>
    BY <1>7 DEF ReadFile
  <2>2. PICK o \in Outcomes(i) : build' = [build EXCEPT !.read[i] = o]
    BY <1>7 DEF ReadFile
  <2>3. build'.round = build.round /\ build'.read = [build.read EXCEPT ![i] = o]
    BY <2>2 DEF Types, BuildOK
  <2>4. i \in 1..Len(build.read) /\ o \in Outcome \cup {Unread}
    BY <1>20, <1>7, OutcomesAreOutcomes DEF Types
  <2>5. Len(build'.read) = Len(build.read)
    BY <1>20, <2>3, <2>4, ExceptSeq
  <2> QED BY <2>1, <2>3, <2>5 DEF PositionsInv
<1>8. CASE Install
  <2>1. ~shifted /\ build.round \in {1, 2} /\ UNCHANGED <<baseCount, indexable>>
    BY <1>8 DEF Install
  <2>2. index'.boundary = Len(build.read) /\ Len(build.read) = indexable
    BY <1>8, <2>1 DEF Install, PositionsInv
  <2>3. \/ build'.round = 2 /\ build'.read = [i \in DOMAIN build.read |-> Unread]
        \/ build'.round = 3 /\ build'.read = << >>
    BY <1>8 DEF Install
  <2>4. build'.round = 2 => Len(build'.read) = indexable
    BY <1>20, <2>2, <2>3
  <2>5. DOMAIN files' = DOMAIN files /\ \A i \in DOMAIN files : files'[i].overflow = files[i].overflow
    <3>1. \A i \in DOMAIN files : files[i] \in Entry
      BY <1>20, TableDomain
    <3> QED BY <1>8, <3>1 DEF Install, Entry
  <2>6. Len(files') = Len(files)
    <3>1. TableOK'
      BY TypesStep DEF Types
    <3>2. files' \in Seq(Entry)
      BY <3>1 DEF TableOK
    <3>3. DOMAIN files' = 1..Len(files') /\ Len(files') \in Nat
      BY <3>2, LenProperties
    <3> QED BY <1>20, <2>5, <3>3
  <2> QED BY <2>1, <2>2, <2>3, <2>4, <2>5, <2>6 DEF PositionsInv
<1>9. CASE Rescan
  <2>1. /\ files' = WalkedFiles /\ baseCount' = Len(Walked) /\ indexable' = Len(Sorted[IndexedPaths])
        /\ build'.round = 0 /\ index'.boundary = 0
    BY <1>9 DEF Rescan, NoBuild, NoIndex
  <2>2. /\ Len(files') = Len(Walked) /\ Len(Walked) \in Nat /\ DOMAIN files' = 1..Len(Walked)
        /\ \A i \in DOMAIN files' : ~files'[i].overflow
    BY <2>1, WalkedTable, WalkIsTrue
  <2>3. indexable' <= baseCount'
    BY <2>1, WalkFinds
  <2> QED BY <2>1, <2>2, <2>3 DEF PositionsInv
<1>10. CASE UNCHANGED vars
  BY <1>22, <1>10 DEF vars
<1> QED
  BY <1>1, <1>2, <1>3, <1>4, <1>5, <1>6, <1>7, <1>8, <1>9, <1>10 DEF Next

-----------------------------------------------------------------------------
(***************************************************************************)
(* The index with its overlay.                                             *)
(***************************************************************************)
\* What a build reads of a file that has no event left is what is there.
LEMMA InstalledIsTrue ==
    ASSUME Types, Sole, EntriesInv, NEW i \in DOMAIN files, NEW o, o \in Outcomes(i),
           Settled(files[i].path)
    PROVE  LET p == files[i].path IN
           IF OnDisk(p)
           THEN disk[p].nul \/ files[i].binary \/ \A g \in GramsIn(disk[p].head) : g \in o.grams
           ELSE o.grams = {}
<1> DEFINE p == files[i].path
<1>1. p \in Paths /\ ~(i > Len(files)) /\ p \notin dirty /\ EntryTrue(p)
  BY TableDomain DEF Types, Entry, Settled, EntriesInv
<1>2. CASE ~OnDisk(p)
  <2>1. ~Indexed(p)
    BY <1>2 DEF Indexed
  <2>2. o = Skipped
    BY <1>1, <2>1 DEF Outcomes
  <2> QED BY <1>2, <2>2 DEF Skipped
<1>3. CASE OnDisk(p)
  <2>1. files[i].empty = IsEmpty(disk[p])
    <3>1. PICK j \in DOMAIN files : files[j].path = p /\ files[j].empty = IsEmpty(disk[p])
      BY <1>1, <1>3 DEF EntryTrue
    <3> QED BY <3>1 DEF Sole
  <2>2. CASE IsEmpty(disk[p])
    <3>1. GramsIn(disk[p].head) = {}
      BY <2>2 DEF IsEmpty, WordsOf, GramsIn
    <3> QED BY <1>3, <3>1
  <2>3. CASE ~IsEmpty(disk[p]) /\ ~disk[p].nul /\ ~files[i].binary
    <3>1. ~(files[i].binary \/ files[i].empty \/ ~Indexed(p)) /\ ~disk[p].nul
      BY <1>3, <2>1, <2>3 DEF Indexed
    <3> DEFINE H == GramsIn(disk[p].head)
    <3>2. Outcomes(i) = {[kind |-> "indexed", grams |-> gs] : gs \in IF p \in dirty THEN SUBSET H ELSE {H}}
      BY <1>1, <3>1 DEF Outcomes
    <3> HIDE DEF H
    <3>3. o.grams = H
      BY <1>1, <3>2
    <3> QED BY <1>3, <3>3 DEF H
  <2> QED BY <1>3, <2>2, <2>3
<1> QED BY <1>2, <1>3

LEMMA IndexStep ==
    Types /\ Sole /\ EntriesInv /\ (~shifted => PositionsInv /\ IndexInv) /\ [Next]_vars => (~shifted' => IndexInv')
<1> SUFFICES ASSUME Types, Sole, EntriesInv, ~shifted => PositionsInv /\ IndexInv, [Next]_vars, ~shifted',
                    NEW i \in 1..index'.boundary, i \notin lost', Settled(files[i].path)'
             PROVE  IndexTrue(i)'
  BY DEF IndexInv
<1>20. /\ TableOK /\ WorldOK /\ DOMAIN files = 1..Len(files) /\ Len(files) \in Nat
       /\ baseCount \in Nat /\ indexable \in Nat
       /\ index.boundary \in Nat /\ build.round \in 0..3 /\ build.read \in Seq(Outcome \cup {Unread})
       /\ DOMAIN build.read = 1..Len(build.read) /\ Len(build.read) \in Nat
       /\ \A j \in DOMAIN files : files[j].path \in Paths
  BY TableDomain, LenProperties DEF Types, TableOK, IndexOK, BuildOK, Entry
<1> DEFINE q == files[i].path
<1>21. Settled(files[i].path)' = (files'[i].path \notin dirty' /\ ~(dirGone' /\ files'[i].path \in Below))
  BY DEF Settled
\* A position of the index, when what is known of it stays.
<1>22. ASSUME ~shifted, index'.boundary = index.boundary
       PROVE  i \in 1..index.boundary /\ i <= baseCount /\ i \in DOMAIN files /\ i \in Nat
              /\ baseCount <= Len(files) /\ q \in Paths
  <2>1. PositionsInv
    BY <1>22
  <2>2. i \in 1..index.boundary /\ (build.round \in {0, 1} \/ build.round \in {2, 3})
    BY <1>20, <1>22
  <2>3. index.boundary <= baseCount /\ baseCount <= Len(files)
    BY <1>20, <2>1 DEF PositionsInv
  <2>4. i \in Nat /\ i <= baseCount /\ i \in 1..Len(files)
    BY <1>20, <2>2, <2>3
  <2> QED BY <1>20, <2>2, <2>3, <2>4
<1>23. ASSUME ~shifted, i \in 1..index.boundary, i \notin lost, Settled(q),
              files'[i].path = q, files'[i].binary = files[i].binary, disk'[q] = disk[q],
              index'.column = index.column, i \in index'.tombs <=> i \in index.tombs,
              i \in DOMAIN index'.modified <=> i \in DOMAIN index.modified,
              i \in DOMAIN index.modified => index'.modified[i] = index.modified[i]
       PROVE  IndexTrue(i)'
  <2>1. IndexTrue(i)
    BY <1>23 DEF IndexInv
  <2> DEFINE t == disk[q]
  <2>2. OnDisk(files[i].path)' = OnDisk(q) /\ (disk[files[i].path])' = t
    BY <1>23 DEF OnDisk
  <2>3. ExtractBigrams(disk[files[i].path])' = ExtractBigrams(t)
        /\ GramsIn(disk[files[i].path].head)' = GramsIn(t.head)
    BY <2>2 DEF ExtractBigrams, GramsIn, WordsOf
  <2>4. CASE OnDisk(q) /\ i \in DOMAIN index.modified
    <3>1. index.modified[i] = ExtractBigrams(t)
      BY <2>1, <2>4 DEF IndexTrue
    <3> QED BY <1>23, <2>2, <2>3, <2>4, <3>1 DEF IndexTrue
  <2>5. CASE OnDisk(q) /\ i \notin DOMAIN index.modified
    <3>1. /\ i \notin index.tombs
          /\ t.nul \/ files[i].binary \/ \A g \in DOMAIN index.column \cap GramsIn(t.head) : i \in index.column[g]
      BY <2>1, <2>5 DEF IndexTrue
    <3>2. (disk[files[i].path].nul)' = t.nul
      BY <2>2
    <3> QED BY <1>23, <2>2, <2>3, <2>5, <3>1, <3>2 DEF IndexTrue
  <2>6. CASE ~OnDisk(q)
    <3>1. /\ i \notin DOMAIN index.modified
          /\ i \in index.tombs \/ \A g \in DOMAIN index.column : i \notin index.column[g]
      BY <2>1, <2>6 DEF IndexTrue
    <3> QED BY <1>23, <2>2, <2>6, <3>1 DEF IndexTrue
  <2> QED BY <2>4, <2>5, <2>6
<1>24. (~shifted /\ UNCHANGED <<files, index, lost>> /\ Settled(q) /\ disk'[q] = disk[q]) => IndexTrue(i)'
  BY <1>23
<1> HIDE DEF q
<1>1. ASSUME NEW p \in Paths, Edit(p) PROVE IndexTrue(i)'
  <2>1. ~shifted /\ UNCHANGED <<files, index, lost, dirGone>> /\ dirty' = dirty \cup {p} /\ q = files'[i].path
    BY <1>1 DEF Edit, q
  <2>2. q # p /\ Settled(q) /\ q \in Paths
    BY <1>21, <1>22, <2>1 DEF Settled
  <2>3. disk'[q] = disk[q]
    BY <1>20, <1>1, <2>2 DEF Edit, WorldOK
  <2> QED BY <1>24, <2>1, <2>2, <2>3
<1>2. ASSUME NEW p \in Paths, HandleModify(p) PROVE IndexTrue(i)'
  <2>1. ~shifted /\ UNCHANGED <<disk, dirGone>> /\ dirty' = IF OnDisk(p) THEN dirty \ {p} ELSE dirty
    BY <1>2 DEF HandleModify
  <2>2. CASE \E k \in DOMAIN files :
                /\ files[k].path = p /\ OnDisk(p) /\ files' = Refreshed(k)
                /\ index' = IF InOverlay(k)
                            THEN [index EXCEPT !.modified =
                                    [j \in DOMAIN @ \cup {k} |-> IF j = k THEN ExtractBigrams(disk[p]) ELSE @[j]]]
                            ELSE index
                /\ lost' = IF InOverlay(k) THEN lost \ {k} ELSE lost
    <3>1. PICK k \in DOMAIN files :
                /\ files[k].path = p /\ OnDisk(p) /\ files' = Refreshed(k)
                /\ index' = IF InOverlay(k)
                            THEN [index EXCEPT !.modified =
                                    [j \in DOMAIN @ \cup {k} |-> IF j = k THEN ExtractBigrams(disk[p]) ELSE @[j]]]
                            ELSE index
                /\ lost' = IF InOverlay(k) THEN lost \ {k} ELSE lost
      BY <2>2
    <3>2. /\ index'.boundary = index.boundary /\ index'.column = index.column /\ index'.tombs = index.tombs
          /\ ~InOverlay(k) => index'.modified = index.modified
          /\ InOverlay(k) => index'.modified = [j \in DOMAIN index.modified \cup {k} |->
                                IF j = k THEN ExtractBigrams(disk[p]) ELSE index.modified[j]]
      BY <3>1 DEF Types, IndexOK
    <3>3. i \in 1..index.boundary /\ i <= baseCount /\ i \in DOMAIN files /\ i \in Nat /\ q \in Paths
      BY <1>22, <2>1, <3>2
    <3>4. /\ \A j \in DOMAIN files : j # k => files'[j] = files[j]
          /\ files'[k].path = p /\ files'[k].binary = files[k].binary
      BY <1>20, <3>1, RefreshedEntry
    <3>5. files'[i].path = q /\ files'[i].binary = files[i].binary
      BY <3>1, <3>3, <3>4 DEF q
    <3>6. CASE i = k
      <4>1. InOverlay(i)
        BY <1>20, <3>3 DEF InOverlay
      <4>2. i \in DOMAIN index'.modified /\ index'.modified[i] = ExtractBigrams(disk[p]) /\ files'[i].path = p
        BY <3>2, <3>4, <3>6, <4>1
      <4>3. OnDisk(files[i].path)' /\ ExtractBigrams(disk[files[i].path])' = ExtractBigrams(disk[p])
        BY <2>1, <3>1, <4>2 DEF OnDisk, ExtractBigrams, WordsOf, GramsIn
      <4> QED BY <4>2, <4>3 DEF IndexTrue
    <3>7. CASE i # k
      <4>1. q # p
        BY <3>1, <3>3, <3>7 DEF Sole, q
      <4>2. Settled(q)
        BY <1>21, <2>1, <3>5, <4>1 DEF Settled
      <4>3. i \notin lost
        BY <3>1, <3>7
      <4>4. /\ i \in DOMAIN index'.modified <=> i \in DOMAIN index.modified
            /\ i \in DOMAIN index.modified => index'.modified[i] = index.modified[i]
        BY <3>2, <3>7
      <4> QED BY <1>23, <2>1, <3>2, <3>3, <3>5, <4>2, <4>3, <4>4
    <3> QED BY <3>6, <3>7
  <2>3. CASE /\ \A k \in DOMAIN files : files[k].path # p
             /\ files' = Append(files, NewEntry(p, TRUE)) /\ UNCHANGED <<index, lost>>
    <3>1. i \in 1..index.boundary /\ i \in DOMAIN files /\ q \in Paths
      BY <1>22, <2>1, <2>3
    <3>2. files'[i] = files[i]
      BY <1>20, <2>3, <3>1, AppendedEntry
    <3>3. q # p /\ files'[i].path = q /\ files'[i].binary = files[i].binary
      BY <2>3, <3>1, <3>2 DEF q
    <3>4. Settled(q) /\ i \notin lost
      BY <1>21, <2>1, <2>3, <3>3 DEF Settled
    <3> QED BY <1>23, <2>1, <2>3, <3>1, <3>3, <3>4
  <2> QED BY <1>20, <1>2, <2>2, <2>3, ModifyCases
<1>3. ASSUME NEW p \in Paths, HandleRemove(p) PROVE IndexTrue(i)'
  <2>1. ~shifted /\ UNCHANGED <<disk, dirGone>> /\ dirty' = IF OnDisk(p) THEN dirty ELSE dirty \ {p}
    BY <1>3 DEF HandleRemove
  <2>2. CASE \E k \in DOMAIN files :
                /\ files[k].path = p /\ k <= baseCount
                /\ files' = [files EXCEPT ![k].deleted = TRUE]
                /\ index' = [index EXCEPT !.tombs = Tombed(k),
                                          !.modified = [j \in DOMAIN @ \ {k} |-> @[j]]]
                /\ lost' = lost \ {k}
    <3>1. PICK k \in DOMAIN files :
                /\ files[k].path = p /\ k <= baseCount
                /\ files' = [files EXCEPT ![k].deleted = TRUE]
                /\ index' = [index EXCEPT !.tombs = Tombed(k),
                                          !.modified = [j \in DOMAIN @ \ {k} |-> @[j]]]
                /\ lost' = lost \ {k}
      BY <2>2
    <3>2. /\ index'.boundary = index.boundary /\ index'.column = index.column /\ index'.tombs = Tombed(k)
          /\ index'.modified = [j \in DOMAIN index.modified \ {k} |-> index.modified[j]]
      BY <3>1 DEF Types, IndexOK
    <3>3. i \in 1..index.boundary /\ i <= baseCount /\ i \in DOMAIN files /\ i \in Nat /\ q \in Paths
      BY <1>22, <2>1, <3>2
    <3>4. /\ \A j \in DOMAIN files : j # k => files'[j] = files[j]
          /\ files'[k].path = p /\ files'[k].binary = files[k].binary
      BY <1>20, <3>1, RemovedEntry
    <3>5. files'[i].path = q /\ files'[i].binary = files[i].binary
      BY <3>1, <3>3, <3>4 DEF q
    <3>6. CASE i = k
      <4>1. q = p
        BY <3>1, <3>6 DEF q
      <4>2. ~OnDisk(p) /\ ~OnDisk(files[i].path)'
        BY <1>21, <1>3, <2>1, <3>5, <4>1 DEF HandleRemove, OnDisk
      <4>3. i \in index'.tombs /\ i \notin DOMAIN index'.modified
        BY <1>20, <3>2, <3>3, <3>6 DEF Tombed
      <4> QED BY <4>2, <4>3 DEF IndexTrue
    <3>7. CASE i # k
      <4>1. q # p
        BY <3>1, <3>3, <3>7 DEF Sole, q
      <4>2. Settled(q)
        BY <1>21, <2>1, <3>5, <4>1 DEF Settled
      <4>3. i \notin lost /\ (i \in Tombed(k) <=> i \in index.tombs)
        BY <3>1, <3>7 DEF Tombed
      <4>4. /\ i \in DOMAIN index'.modified <=> i \in DOMAIN index.modified
            /\ i \in DOMAIN index.modified => index'.modified[i] = index.modified[i]
        BY <3>2, <3>7
      <4> QED BY <1>23, <2>1, <3>2, <3>3, <3>5, <4>2, <4>3, <4>4
    <3> QED BY <3>6, <3>7
  <2>3. CASE \E k \in DOMAIN files :
                /\ files[k].path = p /\ k > baseCount
                /\ files' = SubSeq(files, 1, k - 1) \o SubSeq(files, k + 1, Len(files))
                /\ UNCHANGED <<index, lost>>
    <3>1. PICK k \in 1..Len(files) :
                /\ files[k].path = p /\ k > baseCount
                /\ files' = SubSeq(files, 1, k - 1) \o SubSeq(files, k + 1, Len(files))
                /\ UNCHANGED <<index, lost>>
      BY <1>20, <2>3
    <3>2. i \in 1..index.boundary /\ i <= baseCount /\ i \in DOMAIN files /\ i \in Nat /\ q \in Paths
      BY <1>22, <2>1, <3>1
    <3>3. i < k /\ i \in 1..Len(files) - 1
      BY <1>20, <3>1, <3>2
    <3>4. files'[i] = files[i]
      BY <1>20, <3>1, <3>3, DropAt DEF TableOK
    <3>5. q # p /\ files'[i].path = q /\ files'[i].binary = files[i].binary
      <4>1. k \in DOMAIN files /\ i # k
        BY <1>20, <3>1, <3>3
      <4>2. q = files[i].path /\ files[i].path # files[k].path
        BY <3>2, <4>1 DEF Sole, q
      <4> QED BY <3>1, <3>4, <4>2
    <3>6. Settled(q) /\ i \notin lost
      BY <1>21, <2>1, <3>1, <3>5 DEF Settled
    <3> QED BY <1>23, <2>1, <3>1, <3>2, <3>5, <3>6
  <2>4. CASE (\A k \in DOMAIN files : files[k].path # p) /\ UNCHANGED <<files, index, lost>>
    <3>1. i \in DOMAIN files /\ q # p
      BY <1>22, <2>1, <2>4 DEF q
    <3>2. Settled(q)
      BY <1>21, <2>1, <2>4, <3>1 DEF Settled, q
    <3> QED BY <1>24, <2>1, <2>4, <3>2
  <2> QED BY <1>20, <1>3, <2>2, <2>3, <2>4, RemoveCases
<1>4. CASE EraseDir
  <2>1. ~shifted /\ UNCHANGED <<files, index, lost, dirty>> /\ dirGone' /\ q = files'[i].path
    BY <1>4 DEF EraseDir, q
  <2>2. q \notin Below /\ Settled(q) /\ q \in Paths
    BY <1>21, <1>22, <2>1 DEF Settled
  <2>3. disk'[q] = disk[q]
    BY <1>4, <2>2 DEF EraseDir
  <2> QED BY <1>24, <2>1, <2>2, <2>3
<1>5. CASE HandleDirGone
  <2>1. PICK e \in Retained, b \in 0..Len(files), n \in 0..Len(files) :
            /\ files' = [k \in DOMAIN e |-> files[e[k]]]
            /\ CountBelow(e, baseCount, b) /\ baseCount' = b
    BY <1>5 DEF HandleDirGone
  <2>2. /\ ~shifted /\ (build.round > 0 => b = baseCount)
        /\ dirGone /\ UNCHANGED <<build, index, disk, dirty, lost>>
    BY <1>5, <2>1 DEF HandleDirGone
  <2>3. i \in 1..index.boundary /\ i <= baseCount /\ i \in DOMAIN files /\ i \in Nat /\ q \in Paths
    BY <1>22, <2>2
  <2>4. build.round > 0
    <3>1. index.boundary # 0
      BY <1>20, <2>3
    <3> QED BY <1>20, <2>2, <3>1 DEF PositionsInv
  <2>5. i \in DOMAIN e /\ e[i] = i
    <3>1. i \in 1..baseCount
      BY <1>20, <2>3
    <3> QED BY <1>20, <2>1, <2>2, <2>4, <3>1, FirstStay
  <2>6. files'[i] = files[i] /\ files[i].path \notin Below
    BY <1>20, <2>1, <2>5, Retains
  <2>7. Settled(q) /\ files'[i].path = q /\ files'[i].binary = files[i].binary
    BY <1>21, <2>2, <2>6 DEF Settled, q
  <2> QED BY <1>23, <2>2, <2>3, <2>7
<1>6. CASE TakeSnapshot
  <2>1. ~shifted /\ Settled(q) /\ UNCHANGED <<files, disk, index, lost>>
    BY <1>21, <1>6 DEF TakeSnapshot, Settled, q
  <2> QED BY <1>24, <2>1
<1>7. ASSUME NEW r \in DOMAIN build.read, ReadFile(r) PROVE IndexTrue(i)'
  <2>1. ~shifted /\ UNCHANGED <<files, disk, index, lost, dirty, dirGone>>
    BY <1>7 DEF ReadFile
  <2>2. Settled(q)
    BY <1>21, <2>1 DEF Settled, q
  <2> QED BY <1>24, <2>1, <2>2
<1>8. CASE Install
  <2> DEFINE read == build.read
             built == Columns(read)
  <2>1. /\ ~shifted /\ build.round \in {1, 2} /\ UNCHANGED <<disk, dirty, dirGone>>
        /\ index' = [ready |-> built.ready, boundary |-> Len(read), column |-> built.column,
                     tombs |-> {}, modified |-> [k \in {} |-> {}]]
        /\ lost' = {k \in DOMAIN read : Stale(k)}
    BY <1>8 DEF Install
  <2>2. i \in DOMAIN read /\ ~Stale(i)
    BY <1>20, <2>1
  <2>3. i \in DOMAIN files
    BY <1>20, <2>2 DEF Stale
  <2>4. /\ files'[i].path = files[i].path
        /\ files'[i].binary = (files[i].binary \/ (i \in DOMAIN build.read /\ build.read[i].kind = "binary"))
    <3>1. files[i] \in Entry
      BY <1>20, <2>3, TableDomain
    <3> QED BY <1>8, <2>3, <3>1 DEF Install, Entry
  <2>5. Settled(files[i].path)
    BY <1>21, <2>1, <2>4 DEF Settled
  <2>6. read[i] \in Outcomes(i)
    BY <2>2, <2>5 DEF Stale, Settled
  <2>7. \A g \in DOMAIN built.column : built.column[g] = {k \in DOMAIN read : g \in read[k].grams}
    BY <1>20, ColumnsAre
  <2>8. index'.column = built.column /\ index'.tombs = {} /\ DOMAIN index'.modified = {}
    BY <2>1
  <2> DEFINE p == files[i].path
  <2>9. IF OnDisk(p)
        THEN disk[p].nul \/ files[i].binary \/ \A g \in GramsIn(disk[p].head) : g \in read[i].grams
        ELSE read[i].grams = {}
    BY <2>3, <2>5, <2>6, InstalledIsTrue
  <2>10. OnDisk(files[i].path)' = OnDisk(p) /\ (disk[files[i].path])' = disk[p]
    BY <2>1, <2>4 DEF OnDisk
  <2>11. GramsIn(disk[files[i].path].head)' = GramsIn(disk[p].head)
    BY <2>10 DEF GramsIn
  <2>12. CASE ~OnDisk(p)
    <3>1. \A g \in DOMAIN index'.column : i \notin index'.column[g]
      BY <2>7, <2>8, <2>9, <2>12
    <3> QED BY <2>8, <2>10, <2>12, <3>1 DEF IndexTrue
  <2>13. CASE OnDisk(p)
    <3>1. disk[p].nul \/ files'[i].binary
          \/ \A g \in DOMAIN index'.column \cap GramsIn(disk[p].head) : i \in index'.column[g]
      BY <2>2, <2>4, <2>7, <2>8, <2>9, <2>13
    <3>2. (disk[files[i].path].nul)' = disk[p].nul
      BY <2>10
    <3> QED BY <2>8, <2>10, <2>11, <2>13, <3>1, <3>2 DEF IndexTrue
  <2> QED BY <2>12, <2>13
<1>9. CASE Rescan
  <2>1. index'.boundary = 0
    BY <1>9 DEF Rescan, NoIndex
  <2> QED BY <2>1
<1>10. CASE UNCHANGED vars
  <2>1. ~shifted /\ Settled(q) /\ UNCHANGED <<files, disk, index, lost>>
    BY <1>21, <1>10 DEF vars, Settled, q
  <2> QED BY <1>24, <2>1
<1> QED
  BY <1>1, <1>2, <1>3, <1>4, <1>5, <1>6, <1>7, <1>8, <1>9, <1>10 DEF Next

-----------------------------------------------------------------------------
(***************************************************************************)
(* The theorems.                                                           *)
(***************************************************************************)
LEMMA InitInv == Init => IndInv
<1> SUFFICES ASSUME Init PROVE IndInv
  OBVIOUS
<1>1. /\ files = WalkedFiles /\ dirty = {} /\ dirGone = FALSE
      /\ baseCount = Len(Walked) /\ indexable = Len(Sorted[IndexedPaths])
      /\ index.boundary = 0 /\ build.round = 0
  BY DEF Init, NoIndex, NoBuild
<1>2. Types /\ Sole
  BY <1>1, InitTypes, WalkIsTrue DEF Sole
<1>3. ASSUME NEW p \in Paths PROVE EntryTrue(p)
  BY <1>1, WalkIsTrue DEF EntryTrue
<1>4. EntriesInv /\ GoneInv
  BY <1>1, <1>3 DEF EntriesInv, GoneInv
<1>5. PositionsInv
  <2>1. /\ Len(files) = Len(Walked) /\ Len(Walked) \in Nat /\ DOMAIN files = 1..Len(Walked)
        /\ \A i \in DOMAIN files : ~files[i].overflow
    BY <1>1, WalkedTable, WalkIsTrue
  <2>2. indexable <= baseCount
    BY <1>1, WalkFinds
  <2> QED BY <1>1, <2>1, <2>2 DEF PositionsInv
<1>6. IndexInv
  BY <1>1 DEF IndexInv
<1> QED BY <1>2, <1>4, <1>5, <1>6 DEF IndInv

(* What is known of the table, the index and the overlay together holds in *)
(* every state: of the entry of a path without an event, and of each       *)
(* position of the index unless a build has missed a change there          *)
(* (file_picker.rs 1290-1420, bigram_filter.rs 480-600, scan.rs 320-470).  *)
THEOREM ContentInvariant == Spec => []IndInv
<1>1. Init => IndInv
  BY InitInv
<1>2. IndInv /\ [Next]_vars => IndInv'
  BY TypesStep, SoleStep, EntriesStep, GoneInvStep, PositionsStep, IndexStep DEF IndInv
<1> QED BY <1>1, <1>2, PTL DEF Spec

(* The slices a search takes of the table exist, and every position that   *)
(* the index or a build speaks of is a base file's (grep.rs 2076, 2115).   *)
THEOREM PositionsStayValid == Spec => []PositionsAreValid
<1>1. IndInv => PositionsAreValid
  <2> SUFFICES ASSUME IndInv, ~shifted PROVE PositionsAreValid
    BY DEF PositionsAreValid
  <2>1. PositionsInv /\ build.round \in 0..3 /\ index.boundary \in Nat /\ indexable \in Nat
    BY DEF IndInv, Types, BuildOK, IndexOK, TableOK
  <2>2. index.boundary = 0 \/ index.boundary = indexable
    BY <2>1 DEF PositionsInv
  <2>3. index.boundary <= indexable
    BY <2>1, <2>2
  <2> QED BY <2>1, <2>3 DEF PositionsAreValid, PositionsInv
<1> QED BY <1>1, ContentInvariant, PTL

(* A file known to be gone is not searched, unless a change of it fell     *)
(* between the read and the install of a build (grep.rs 2056-2080).        *)
THEOREM GoneStaysUnsearched == Spec => []GoneIsNotSearched
<1>1. IndInv => GoneIsNotSearched
  <2> SUFFICES ASSUME IndInv, NEW p \in Paths, NEW w \in Words, Settled(p), ~OnDisk(p), ~shifted,
                      NEW i \in DOMAIN files, files[i].path = p
               PROVE  /\ i \in PlainSearch(w) => i \in lost
                      /\ i \notin ConstrainedSearch(w) \cup FuzzySearch(w) \cup MultiSearch({w})
    BY DEF GoneIsNotSearched
  <2>1. files[i].deleted
    BY DEF IndInv, EntriesInv, EntryTrue
  <2>2. i \notin Prepared
    BY <2>1 DEF Prepared, Searchable
  <2>3. i \notin ConstrainedSearch(w) /\ i \notin FuzzySearch(w) /\ i \notin MultiSearch({w})
    BY <2>2 DEF ConstrainedSearch, FuzzySearch, MultiSearch, Narrowed
  <2>4. ASSUME i \in PlainSearch(w), i \notin lost PROVE FALSE
    <3>1. Filters(w) /\ i \in PlainCandidates(w)
      BY <2>1, <2>2, <2>4 DEF PlainSearch
    <3>2. i \in 1..index.boundary /\ DOMAIN index.modified \subseteq 1..index.boundary
      BY <3>1 DEF PlainCandidates, Query, QueryModified, IndInv, Types, IndexOK
    <3>3. IndexTrue(i)
      BY <2>4, <3>2 DEF IndInv, IndexInv
    <3>4. /\ i \notin DOMAIN index.modified
          /\ i \in index.tombs \/ \A g \in DOMAIN index.column : i \notin index.column[g]
      BY <3>3 DEF IndexTrue
    <3>5. i \in Query(w) /\ i \notin index.tombs
      BY <3>1, <3>4 DEF PlainCandidates, QueryModified
    <3>6. PICK g \in Tracked(w) : TRUE
      BY <3>1 DEF Filters
    <3>7. g \in DOMAIN index.column /\ i \in index.column[g]
      BY <3>5, <3>6 DEF Query, Tracked
    <3> QED BY <3>4, <3>5, <3>7
  <2> QED BY <2>3, <2>4
<1> QED BY <1>1, ContentInvariant, PTL

\* A search for many patterns reads what one of them would.
LEMMA PatternIsRead ==
    ASSUME NEW ws, NEW w \in ws, Filters(w), NEW i \in Prepared,
           i > index.boundary \/ i \in Query(w) \/ i \in QueryModified(w)
    PROVE  i \in MultiSearch(ws)
<1> DEFINE D == UNION {Query(v) : v \in {u \in ws : Filters(u)}}
           E == UNION {QueryModified(v) : v \in ws}
           C == D \cup E
<1>1. MultiSearch(ws) = IF \E v \in ws : Filters(v) THEN Narrowed(C) ELSE Prepared
  BY DEF MultiSearch
<1>2. (i \in Query(w) => i \in D) /\ (i \in QueryModified(w) => i \in E)
  OBVIOUS
<1> HIDE DEF D, E
<1>3. i > index.boundary \/ i \in C
  BY <1>2
<1> HIDE DEF C
<1> QED BY <1>1, <1>3 DEF Narrowed

(* Once the events of a file are handled, each of the five ways to search  *)
(* reads the file if the pattern is in it, but for the misses the code is  *)
(* known to have (grep.rs 974-1040, 1948-1990, 2060-2175).                 *)
THEOREM GrepFindsEveryFile == Spec => []GrepFindsAll
<1>1. IndInv => GrepFindsAll
  <2> SUFFICES ASSUME IndInv, NEW p \in Paths, NEW w \in Words, Settled(p), Holds(p, w), ~Missed(p, w)
               PROVE  /\ At(p, PlainSearch(w)) /\ At(p, RegexSearch(w)) /\ At(p, FuzzySearch(w))
                      /\ FilledLater(p) \/ At(p, ConstrainedSearch(w))
                      /\ \A v \in Words : Filters(w) \/ ~Filters(v) => At(p, MultiSearch({v, w}))
    BY DEF GrepFindsAll
  <2>1. OnDisk(p) /\ ~disk[p].nul /\ w \in WordsOf(disk[p]) /\ ~shifted
    BY DEF Holds, Missed
  <2>2. PICK i \in DOMAIN files : files[i].path = p /\ ~files[i].deleted /\ files[i].empty = IsEmpty(disk[p])
    BY <2>1 DEF IndInv, EntriesInv, EntryTrue
  <2>3. ~files[i].binary /\ i \notin lost /\ (w \in disk[p].head \/ i \in DOMAIN index.modified)
    BY <2>2 DEF Missed
  <2>4. i \in Prepared
    BY <2>1, <2>2, <2>3 DEF Prepared, Searchable, IsEmpty
  <2>5. i \in Nat /\ i >= 1 /\ index.boundary \in Nat
    BY TableDomain DEF IndInv, Types, IndexOK
  \* A position of the index is a candidate of the query, or of the overlay.
  <2>6. ASSUME Filters(w), ~(i > index.boundary)
        PROVE  IF i \in DOMAIN index.modified THEN i \in QueryModified(w)
                                              ELSE i \in Query(w) /\ i \notin index.tombs
    <3>1. i \in 1..index.boundary
      BY <2>5, <2>6
    <3>2. IndexTrue(i)
      BY <2>1, <2>2, <2>3, <3>1 DEF IndInv, IndexInv
    <3>3. CASE i \in DOMAIN index.modified
      <4>1. index.modified[i] = ExtractBigrams(disk[p])
        BY <2>1, <2>2, <3>2, <3>3 DEF IndexTrue
      <4>2. GramsOf[w] \ SkipGrams \subseteq ExtractBigrams(disk[p])
        BY <2>1 DEF ExtractBigrams, GramsIn
      <4> QED BY <3>3, <4>1, <4>2 DEF QueryModified
    <3>4. CASE i \notin DOMAIN index.modified
      <4>1. i \notin index.tombs /\ \A g \in DOMAIN index.column \cap GramsIn(disk[p].head) : i \in index.column[g]
        BY <2>1, <2>2, <2>3, <3>2, <3>4 DEF IndexTrue
      <4>2. GramsOf[w] \subseteq GramsIn(disk[p].head)
        BY <2>3, <3>4 DEF GramsIn
      <4> QED BY <3>1, <3>4, <4>1, <4>2 DEF Query, Tracked
    <3> QED BY <3>3, <3>4
  <2>7. i \in PlainSearch(w)
    BY <2>2, <2>3, <2>4, <2>6 DEF PlainSearch, PlainCandidates
  <2>8. i \in RegexSearch(w)
    BY <2>2, <2>3, <2>4, <2>6 DEF RegexSearch
  <2>9. i \in FuzzySearch(w)
    BY <2>4, <2>6 DEF FuzzySearch, Narrowed
  <2>10. FilledLater(p) \/ i \in ConstrainedSearch(w)
    BY <2>2, <2>4, <2>6 DEF FilledLater, ConstrainedSearch, PlainCandidates
  <2>11. ASSUME NEW v \in Words, Filters(w) \/ ~Filters(v) PROVE i \in MultiSearch({v, w})
    <3>1. CASE ~Filters(w)
      BY <2>4, <2>11, <3>1 DEF MultiSearch
    <3>2. CASE Filters(w)
      <4>1. i > index.boundary \/ i \in Query(w) \/ i \in QueryModified(w)
        BY <2>6, <3>2
      <4> QED BY <2>4, <3>2, <4>1, PatternIsRead
    <3> QED BY <3>1, <3>2
  <2> QED BY <2>2, <2>7, <2>8, <2>9, <2>10, <2>11 DEF At
<1> QED BY <1>1, ContentInvariant, PTL
-----------------------------------------------------------------------------
(***************************************************************************)
(* Pages of a search.  Where a file stands among those that the offsets    *)
(* count, and the files an offset leaves to be searched.                   *)
(***************************************************************************)
Rank(f) == Cardinality({g \in kept : g <= f})
Position(f) == IF route = "plain" THEN Rank(f) ELSE f
Remaining(from) == {f \in kept : Position(f) > from}

\* Every file with a match was shown, or the offset does not pass it by.
ShownOrAhead ==
    pages > 0 /\ excuse \cap {"cut", "hidden"} = {} =>
        \A f \in Files : hits[f] > 0 => given[f] > 0 \/ (offset > 0 /\ f \in Remaining(offset))

\* Where every file counts, a file that was shown is not ahead, nor was it shown twice.
ShownOnce ==
    "evicted" \notin excuse /\ (route = "plain" \/ kept = Files) =>
        \A f \in Files :
            given[f] \in {0, 1} /\ (given[f] = 1 => pages > 0 /\ (offset > 0 => Position(f) <= offset))

PagesTypes ==
    /\ hits \in [Files -> Nat] /\ kept \subseteq Files
    /\ \A f \in Files : hits[f] > 0 => f \in kept
    /\ offset \in Nat /\ pages \in Nat /\ given \in [Files -> Nat]
    /\ route \in {"plain", "prepared"}
    /\ (pages = 0 => offset = 0)

PagingInv == PagesTypes /\ ShownOrAhead /\ ShownOnce

-----------------------------------------------------------------------------
LEMMA SubsetCard ==
    ASSUME NEW S, IsFiniteSet(S), NEW T, T \subseteq S
    PROVE  /\ IsFiniteSet(T) /\ Cardinality(T) \in Nat /\ Cardinality(S) \in Nat
           /\ Cardinality(T) <= Cardinality(S)
           /\ T # S => Cardinality(T) < Cardinality(S)
<1>1. IsFiniteSet(T) /\ Cardinality(T) <= Cardinality(S) /\ (Cardinality(S) = Cardinality(T) => S = T)
  BY FS_Subset
<1>2. Cardinality(T) \in Nat /\ Cardinality(S) \in Nat
  BY <1>1, FS_CardinalityType
<1> QED BY <1>1, <1>2

\* A finite set of numbers can be put in order: by how many are not above each.
LEMMA OrderExists ==
    ASSUME NEW S \in SUBSET Nat, IsFiniteSet(S)
    PROVE  \E s \in [1..Cardinality(S) -> S] : \A i, j \in 1..Cardinality(S) : i < j => s[i] < s[j]
<1> DEFINE n == Cardinality(S)
           UpTo(f) == {g \in S : g <= f}
           rank == [f \in S |-> Cardinality(UpTo(f))]
           s == [i \in 1..n |-> CHOOSE f \in S : rank[f] = i]
<1>1. n \in Nat
  BY FS_CardinalityType
<1>2. \A f \in S : UpTo(f) \subseteq S /\ f \in UpTo(f)
  OBVIOUS
<1> HIDE DEF n
<1>3. ASSUME NEW f \in S PROVE rank[f] \in 1..n
  <2>1. rank[f] = Cardinality(UpTo(f))
    OBVIOUS
  <2> HIDE DEF rank
  <2>2. /\ IsFiniteSet(UpTo(f)) /\ Cardinality(UpTo(f)) \in Nat /\ Cardinality(UpTo(f)) <= n
    BY <1>2, SubsetCard DEF n
  <2>3. UpTo(f) # {}
    BY <1>2
  <2>4. Cardinality(UpTo(f)) # 0
    BY <2>2, <2>3, FS_EmptySet
  <2> QED BY <1>1, <2>1, <2>2, <2>4
<1>4. ASSUME NEW f \in S, NEW h \in S, f < h PROVE rank[f] < rank[h]
  <2>1. rank[f] = Cardinality(UpTo(f)) /\ rank[h] = Cardinality(UpTo(h))
    OBVIOUS
  <2>2. f \in Nat /\ h \in Nat
    OBVIOUS
  <2>3. UpTo(f) \subseteq UpTo(h) /\ h \in UpTo(h) /\ h \notin UpTo(f)
    <3>1. \A g \in S : g \in Nat
      OBVIOUS
    <3>2. \A g \in S : g <= f => g <= h
      BY <1>4, <2>2, <3>1
    <3>3. h <= h /\ ~(h <= f)
      BY <1>4, <2>2
    <3> QED BY <3>2, <3>3
  <2>4. IsFiniteSet(UpTo(h))
    BY <1>2, SubsetCard
  <2> HIDE DEF rank, UpTo
  <2>5. Cardinality(UpTo(f)) < Cardinality(UpTo(h))
    BY <2>3, <2>4, SubsetCard
  <2> QED BY <2>1, <2>5
<1>5. rank \in [S -> 1..n]
  BY <1>3
<1> HIDE DEF rank
<1>6. \A f, h \in S : rank[f] = rank[h] => f = h
  <2> SUFFICES ASSUME NEW f \in S, NEW h \in S, rank[f] = rank[h] PROVE f = h
    OBVIOUS
  <2>1. f \in Nat /\ h \in Nat /\ rank[f] \in Nat /\ rank[h] \in Nat
    BY <1>5
  <2>2. ~(f < h) /\ ~(h < f)
    BY <1>4, <2>1
  <2> QED BY <2>1, <2>2
<1>7. rank \in Injection(S, 1..n)
  BY <1>5, <1>6 DEF Injection, IsInjective
<1>8. IsFiniteSet(1..n) /\ Cardinality(1..n) = n
  BY <1>1, FS_Interval
<1>9. rank \in Surjection(S, 1..n)
  BY <1>7, <1>8, FS_Injection DEF n
<1>10. \A i \in 1..n : \E f \in S : rank[f] = i
  BY <1>9 DEF Surjection
<1>11. \A i \in 1..n : s[i] \in S /\ rank[s[i]] = i
  BY <1>10
<1>12. s \in [1..n -> S]
  BY <1>11
<1> HIDE DEF s
<1>13. ASSUME NEW i \in 1..n, NEW j \in 1..n, i < j PROVE s[i] < s[j]
  <2>1. s[i] \in Nat /\ s[j] \in Nat /\ rank[s[i]] = i /\ rank[s[j]] = j
    BY <1>11
  <2>2. s[i] # s[j]
    BY <1>1, <1>13, <2>1
  <2>3. ~(s[j] < s[i])
    BY <1>1, <1>4, <1>11, <1>13, <2>1
  <2> QED BY <2>1, <2>2, <2>3
<1> QED BY <1>12, <1>13 DEF n

\* Files in order: all of them, each at its rank.
LEMMA OrderCounts ==
    ASSUME NEW S \in SUBSET Nat, IsFiniteSet(S)
    PROVE  /\ Cardinality(S) \in Nat /\ InOrder(S) \in Seq(S) /\ Len(InOrder(S)) = Cardinality(S)
           /\ \A i \in 1..Cardinality(S) :
                InOrder(S)[i] \in S /\ Cardinality({g \in S : g <= InOrder(S)[i]}) = i
           /\ \A f \in S : \E i \in 1..Cardinality(S) : InOrder(S)[i] = f
<1> DEFINE n == Cardinality(S)
           s == InOrder(S)
<1>1. n \in Nat
  BY FS_CardinalityType
<1>2. s \in [1..n -> S] /\ \A i, j \in 1..n : i < j => s[i] < s[j]
  BY OrderExists DEF InOrder
<1> HIDE DEF s
<1>3. s \in Seq(S) /\ Len(s) = n
  BY <1>1, <1>2, SeqDef
<1>4. \A i \in 1..n : s[i] \in S /\ s[i] \in Nat
  BY <1>2
<1> HIDE DEF n
<1>5. ASSUME NEW i \in 1..n, NEW j \in 1..n PROVE s[i] <= s[j] <=> i <= j
  <2>1. i \in Nat /\ j \in Nat /\ s[i] \in Nat /\ s[j] \in Nat
    BY <1>1, <1>4
  <2>2. i < j => s[i] < s[j]
    BY <1>2
  <2>3. j < i => s[j] < s[i]
    BY <1>2
  <2>4. i = j => s[i] = s[j]
    OBVIOUS
  <2> QED BY <2>1, <2>2, <2>3, <2>4
<1>6. \A i, j \in 1..n : s[i] = s[j] => i = j
  BY <1>1, <1>4, <1>5
<1>7. s \in Injection(1..n, S)
  BY <1>2, <1>6 DEF Injection, IsInjective
<1>8. IsFiniteSet(1..n) /\ Cardinality(1..n) = n
  BY <1>1, FS_Interval
<1>9. \A f \in S : \E i \in 1..n : s[i] = f
  <2>1. s \in Surjection(1..n, S)
    BY <1>7, <1>8, FS_Injection DEF n
  <2> QED BY <2>1 DEF Surjection
<1>10. ASSUME NEW i \in 1..n PROVE Cardinality({g \in S : g <= s[i]}) = i
  <2> DEFINE U == {g \in S : g <= s[i]}
             b == [k \in 1..i |-> s[k]]
  <2>1. 1..i \subseteq 1..n /\ i \in Nat
    BY <1>1
  <2>2. \A k \in 1..i : b[k] \in U
    BY <1>4, <1>5, <2>1
  <2>3. \A g \in U : \E k \in 1..i : b[k] = g
    BY <1>5, <1>9
  <2>4. \A j, k \in 1..i : b[j] = b[k] => j = k
    BY <1>6, <2>1
  <2>5. b \in [1..i -> U]
    BY <2>2
  <2> HIDE DEF b, U
  <2>6. b \in Bijection(1..i, U)
    BY <2>3, <2>4, <2>5 DEF Bijection, Injection, Surjection, IsInjective
  <2>7. IsFiniteSet(1..i) /\ Cardinality(1..i) = i
    BY <2>1, FS_Interval
  <2>8. Cardinality(U) = i
    BY <2>6, <2>7, FS_Bijection DEF ExistsBijection
  <2> QED BY <2>8 DEF U
<1> QED BY <1>1, <1>3, <1>4, <1>9, <1>10 DEF n, s

\* Of the files that are kept, those up to an offset come before those after it.
LEMMA BeforeAndAfter ==
    ASSUME PagesTypes, NEW from \in Nat, NEW f \in kept
    PROVE  LET b == Cardinality({g \in kept : g <= from}) IN
           /\ IsFiniteSet(kept) /\ b \in Nat /\ Rank(f) \in Nat /\ f \in Nat
           /\ f > from <=> Rank(f) > b
           /\ f > from => from + Rank(f) <= f + b
           /\ kept = Files /\ f > from => from + Rank(f) = f + b
<1> DEFINE U == {g \in kept : g <= from}
           V == {g \in kept : g <= f}
           W == from + 1..f
<1>1. kept \subseteq 1..NumFiles /\ NumFiles \in Nat
  BY PagingAssumption DEF PagesTypes, Files
<1>2. IsFiniteSet(1..NumFiles)
  BY <1>1, FS_Interval
<1>3. IsFiniteSet(kept)
  BY <1>1, <1>2, SubsetCard
<1>4. U \subseteq kept /\ V \subseteq kept
  OBVIOUS
<1>5. /\ IsFiniteSet(U) /\ Cardinality(U) \in Nat
      /\ IsFiniteSet(V) /\ Cardinality(V) \in Nat
  BY <1>3, <1>4, SubsetCard
<1>6. f \in Nat /\ \A g \in kept : g \in Nat
  BY <1>1
<1>7. ASSUME f <= from PROVE Cardinality(V) <= Cardinality(U)
  <2>1. \A g \in kept : g <= f => g <= from
    BY <1>6, <1>7
  <2>2. V \subseteq U
    BY <2>1
  <2> HIDE DEF U, V
  <2> QED BY <1>5, <2>2, SubsetCard
<1>8. ASSUME f > from PROVE Cardinality(U) < Cardinality(V) /\ from + Cardinality(V) <= f + Cardinality(U)
  <2>1. \A g \in kept : g <= from => g <= f
    BY <1>6, <1>8
  <2>2. f \in V /\ f \notin U
    BY <1>6, <1>8
  <2>3. U \subseteq V
    BY <2>1
  <2>4. \A g \in kept : g <= f => g <= from \/ g \in W
    BY <1>6
  <2>5. V \subseteq U \cup W
    BY <2>4
  <2>6. IsFiniteSet(W) /\ Cardinality(W) = f - from
    BY <1>6, <1>8, FS_Interval
  <2> HIDE DEF U, V, W
  <2>7. Cardinality(U) < Cardinality(V)
    BY <1>5, <2>2, <2>3, SubsetCard
  <2>8. /\ IsFiniteSet(U \cup W) /\ IsFiniteSet(U \cap W)
        /\ Cardinality(U \cup W) = Cardinality(U) + Cardinality(W) - Cardinality(U \cap W)
    BY <1>5, <2>6, FS_Union, FS_Intersection
  <2>9. Cardinality(U \cap W) \in Nat /\ Cardinality(V) <= Cardinality(U \cup W)
    BY <2>5, <2>8, SubsetCard, FS_CardinalityType
  <2> QED BY <1>5, <1>6, <1>8, <2>6, <2>7, <2>8, <2>9
<1>9. ASSUME kept = Files, f > from PROVE from + Cardinality(V) = f + Cardinality(U)
  <2>1. f <= NumFiles
    BY <1>1
  <2>2. U = 1..from /\ V = 1..f
    BY <1>1, <1>6, <1>9, <2>1 DEF Files
  <2>3. Cardinality(1..from) = from /\ Cardinality(1..f) = f
    BY <1>6, FS_Interval
  <2> HIDE DEF U, V
  <2>4. Cardinality(U) = from /\ Cardinality(V) = f
    BY <2>2, <2>3
  <2> QED BY <1>6, <2>4
<1>10. Rank(f) = Cardinality(V)
  BY DEF Rank
<1> HIDE DEF U, V
<1>11. f > from <=> Rank(f) > Cardinality(U)
  BY <1>5, <1>6, <1>7, <1>8, <1>10
<1> QED BY <1>3, <1>5, <1>6, <1>8, <1>9, <1>10, <1>11 DEF U

\* What is searched from an offset on is what the offset leaves, in order.
LEMMA ToSearchCovers ==
    ASSUME PagesTypes, NEW from \in Nat, NEW list, list = ToSearch(from)
    PROVE  /\ Len(list) \in Nat /\ DOMAIN list = 1..Len(list)
           /\ list = <<>> <=> Len(list) = 0
           /\ \A i \in 1..Len(list) :
                /\ list[i] \in Remaining(from) /\ Position(list[i]) \in Nat
                /\ from + i <= Position(list[i])
                /\ route = "plain" \/ kept = Files => Position(list[i]) = from + i
           /\ \A f \in Remaining(from) : \E i \in 1..Len(list) : list[i] = f
<1> DEFINE n == Cardinality(kept)
           b == Before(from)
           K == InOrder(kept)
<1>1. kept \in SUBSET Nat /\ IsFiniteSet(kept)
  <2>1. NumFiles \in Nat /\ kept \subseteq 1..NumFiles
    BY PagingAssumption DEF PagesTypes, Files
  <2>2. IsFiniteSet(1..NumFiles)
    BY <2>1, FS_Interval
  <2>3. IsFiniteSet(kept)
    BY <2>1, <2>2, SubsetCard
  <2>4. kept \in SUBSET Nat
    BY <2>1
  <2> QED BY <2>3, <2>4
<1>2. /\ n \in Nat /\ K \in Seq(kept) /\ Len(K) = n
      /\ \A i \in 1..n : K[i] \in kept /\ Rank(K[i]) = i
      /\ \A f \in kept : \E i \in 1..n : K[i] = f
  BY <1>1, OrderCounts DEF Rank
<1>3. b \in Nat
  <2>1. {f \in kept : f <= from} \subseteq kept
    OBVIOUS
  <2>2. Cardinality({f \in kept : f <= from}) \in Nat
    BY <1>1, <2>1, SubsetCard
  <2> QED BY <2>2 DEF Before
<1>4. list = SubSeq(K, b + 1, n)
  BY DEF ToSearch
<1> HIDE DEF n, b, K
<1>5. \A i \in b + 1..n : K[i] \in kept
  BY <1>2, <1>3
<1>6. /\ list \in Seq(kept) /\ Len(list) = IF b + 1 <= n THEN n - (b + 1) + 1 ELSE 0
      /\ \A i \in 1..n - (b + 1) + 1 : list[i] = K[b + 1 + i - 1]
  BY <1>2, <1>3, <1>4, <1>5, SubSeqProperties
<1>7. Len(list) \in Nat /\ DOMAIN list = 1..Len(list)
  BY <1>6, LenProperties
<1>8. list = <<>> <=> Len(list) = 0
  BY <1>6, EmptySeq
<1>9. \A i \in 1..Len(list) : b + i \in 1..n /\ list[i] = K[b + i]
  BY <1>2, <1>3, <1>6
<1>10. \A i \in 1..Len(list) : list[i] \in kept /\ Rank(list[i]) = b + i
  BY <1>2, <1>9
<1>11. ASSUME NEW f \in kept, Rank(f) > b PROVE \E i \in 1..Len(list) : list[i] = f
  <2>1. PICK k \in 1..n : K[k] = f
    BY <1>2
  <2>2. k = Rank(f)
    BY <1>2, <2>1
  <2>3. k - b \in 1..Len(list) /\ b + (k - b) = k
    BY <1>2, <1>3, <1>6, <1>11, <2>1, <2>2
  <2> QED BY <1>9, <2>1, <2>3
<1>12. CASE route = "plain"
  <2>1. b = from /\ \A f : Position(f) = Rank(f)
    BY <1>12 DEF b, Before, Position
  <2>2. \A i \in 1..Len(list) : from + i \in Nat /\ from + i > from
    BY <1>7
  <2>3. \A i \in 1..Len(list) :
            list[i] \in kept /\ Position(list[i]) = from + i /\ Position(list[i]) \in Nat
            /\ Position(list[i]) > from /\ from + i <= Position(list[i])
    BY <1>10, <2>1, <2>2
  <2> QED BY <1>7, <1>8, <1>11, <2>1, <2>3 DEF Remaining
<1>13. CASE route # "plain"
  <2>1. b = Cardinality({g \in kept : g <= from}) /\ \A f : Position(f) = f
    BY <1>13 DEF b, Before, Position
  <2>2. ASSUME NEW i \in 1..Len(list)
        PROVE  /\ list[i] \in Nat /\ list[i] > from /\ from + i <= list[i]
               /\ kept = Files => list[i] = from + i
    <3> DEFINE f == list[i]
    <3>1. f \in kept /\ Rank(f) = b + i /\ i \in Nat /\ i > 0
      BY <1>7, <1>10
    <3> HIDE DEF f
    <3>2. /\ f \in Nat /\ (f > from <=> Rank(f) > b) /\ (f > from => from + Rank(f) <= f + b)
          /\ (kept = Files /\ f > from => from + Rank(f) = f + b)
      BY <2>1, <3>1, BeforeAndAfter
    <3> QED BY <1>3, <3>1, <3>2 DEF f
  <2>3. \A f \in kept : f > from => Rank(f) > b
    BY <2>1, BeforeAndAfter
  <2> QED BY <1>7, <1>8, <1>10, <1>11, <1>13, <2>1, <2>2, <2>3 DEF Remaining
<1> QED BY <1>12, <1>13

-----------------------------------------------------------------------------
(***************************************************************************)
(* One page: how far the search goes, what it emits, what it consumes.     *)
(***************************************************************************)
LEMMA MinIs ==
    ASSUME NEW T, T \subseteq Nat, T # {}
    PROVE  Min(T) \in T /\ \A y \in T : Min(T) <= y
BY LeastNat DEF Min

LEMMA MaxIs ==
    ASSUME NEW n \in Nat, NEW T, T \subseteq 1..n, T # {}
    PROVE  Max(T) \in T /\ \A y \in T : y <= Max(T)
<1> DEFINE U == {k \in 0..n : n - k \in T}
<1>1. \A y \in T : y \in 1..n /\ n - y \in 0..n /\ n - (n - y) = y
  OBVIOUS
<1>2. U \subseteq Nat
  OBVIOUS
<1>3. \A y \in T : n - y \in U
  BY <1>1
<1>4. U # {}
  BY <1>3
<1> HIDE DEF U
<1>5. PICK k \in U : \A j \in U : k <= j
  BY <1>2, <1>4, LeastNat
<1>6. k \in 0..n /\ n - k \in T
  BY DEF U
<1>7. \A y \in T : k <= n - y
  BY <1>3, <1>5
<1>8. \A y \in T : n - k >= y
  BY <1>1, <1>6, <1>7
<1>9. \E x \in T : \A y \in T : x >= y
  BY <1>6, <1>8
<1>10. Max(T) \in T /\ \A y \in T : Max(T) >= y
  BY <1>9 DEF Max
<1> QED BY <1>1, <1>10

\* A chunk ends no earlier than any of its files, and within the list.
LEMMA ChunkEndIs ==
    ASSUME NEW list, NEW n \in Nat, n = Len(list), NEW i \in 1..n
    PROVE  ChunkEnd(list, i) \in Nat /\ i <= ChunkEnd(list, i) /\ ChunkEnd(list, i) <= n
<1> DEFINE q == (i - 1) \div ChunkSize
           e == (q + 1) * ChunkSize
<1>1. ChunkSize \in Nat /\ ChunkSize > 0 /\ i \in Nat /\ i - 1 \in Nat
  BY PagingAssumption
<1>2. q \in Nat /\ i - 1 < ChunkSize * q + ChunkSize
  <2> DEFINE a == i - 1
  <2>1. a \in Nat
    BY <1>1
  <2> HIDE DEF a
  <2>2. a \div ChunkSize \in Nat /\ a < ChunkSize * (a \div ChunkSize) + ChunkSize
    BY <1>1, <2>1
  <2> QED BY <2>2 DEF a
<1> HIDE DEF q
<1>3. e \in Nat /\ i <= e
  <2>1. (q + 1) * ChunkSize = ChunkSize * q + ChunkSize /\ (q + 1) * ChunkSize \in Nat
    BY <1>1, <1>2
  <2> QED BY <1>1, <1>2, <2>1
<1> HIDE DEF e
<1>4. {n, e} \subseteq Nat /\ {n, e} # {}
  BY <1>3
<1>5. Min({n, e}) \in {n, e} /\ \A y \in {n, e} : Min({n, e}) <= y
  BY <1>4, MinIs
<1>6. ChunkEnd(list, i) = Min({n, e})
  BY DEF ChunkEnd, e, q
<1> QED BY <1>1, <1>3, <1>5, <1>6

\* A page that skips nothing is filled within what it visits, or visits all.
LEMMA VisitedIs ==
    ASSUME NEW list, NEW n \in Nat, n = Len(list), DOMAIN list = 1..n,
           NEW skipped, skipped \subseteq DOMAIN list
    PROVE  /\ FilledAt(list, skipped) \subseteq 1..n
           /\ Visited(list, skipped) \in 0..n
           /\ skipped = {} /\ FilledAt(list, skipped) = {} => Visited(list, skipped) = n
           /\ skipped = {} /\ FilledAt(list, skipped) # {} =>
                Min(FilledAt(list, skipped)) <= Visited(list, skipped)
<1> DEFINE F == FilledAt(list, skipped)
           stops == F \cup skipped
           v == Visited(list, skipped)
<1>1. F \subseteq 1..n
  BY DEF FilledAt
<1> HIDE DEF F
<1>2. stops \subseteq 1..n /\ stops \subseteq Nat
  <2>1. stops \subseteq 1..n
    BY <1>1
  <2> HIDE DEF stops
  <2>2. 1..n \subseteq Nat
    OBVIOUS
  <2> QED BY <2>1, <2>2
<1>3. v = IF grep = "batch" \/ stops = {} THEN n ELSE ChunkEnd(list, Min(stops))
  BY DEF Visited, F
<1>4. ASSUME F # {} PROVE Min(F) \in 1..n
  <2>1. F \subseteq Nat
    BY <1>1
  <2> QED BY <1>1, <1>4, <2>1, MinIs
<1> HIDE DEF stops, v
<1>5. CASE grep = "batch" \/ stops = {}
  <2>1. v = n
    BY <1>3, <1>5
  <2> QED BY <1>1, <1>4, <2>1 DEF F, v
<1>6. CASE ~(grep = "batch" \/ stops = {})
  <2>1. Min(stops) \in 1..n
    BY <1>2, <1>6, MinIs
  <2>2. v \in Nat /\ Min(stops) <= v /\ v <= n
    BY <1>3, <1>6, <2>1, ChunkEndIs
  <2>3. skipped = {} => stops = F
    BY DEF stops
  <2> QED BY <1>1, <1>6, <2>2, <2>3 DEF F, v
<1> QED BY <1>5, <1>6

LEMMA EmittedIs ==
    ASSUME NEW list, NEW n \in Nat, n = Len(list), DOMAIN list = 1..n,
           NEW skipped, skipped \subseteq DOMAIN list
    PROVE  LET filled == FilledAt(list, skipped)
               out == Emitted(list, skipped)
           IN  /\ out \subseteq 1..Visited(list, skipped) /\ out \subseteq 1..n
               /\ skipped = {} /\ filled = {} => out = {i \in 1..n : hits[list[i]] > 0}
               /\ skipped = {} /\ filled # {} =>
                    /\ Min(filled) \in out
                    /\ out = {i \in 1..Min(filled) : hits[list[i]] > 0}
<1> DEFINE F == FilledAt(list, skipped)
           v == Visited(list, skipped)
           last == IF F = {} THEN v ELSE Min({Min(F), v})
<1>1. /\ F \subseteq 1..n /\ v \in 0..n
      /\ skipped = {} /\ F = {} => v = n
      /\ skipped = {} /\ F # {} => Min(F) <= v
  BY VisitedIs
<1>2. Emitted(list, skipped) = {i \in 1..last : i \notin skipped /\ hits[list[i]] > 0}
  BY DEF Emitted
<1>3. \A i \in F : hits[list[i]] > 0
  BY DEF FilledAt
<1> HIDE DEF F, v
<1>a. F \subseteq 1..n
  BY <1>1
<1>b. v \in 0..n /\ v \in Nat
  BY <1>1
<1>c. F # {} => Min(F) \in F
  <2>1. F \subseteq Nat
    BY <1>a
  <2> QED BY <2>1, MinIs
<1>4. F # {} => Min(F) \in 1..n /\ Min(F) \in Nat
  <2>1. F # {} => Min(F) \in 1..n
    BY <1>a, <1>c
  <2>2. 1..n \subseteq Nat
    OBVIOUS
  <2> QED BY <2>1, <2>2
<1>5. last \in 0..v /\ (F # {} /\ Min(F) <= v => last = Min(F))
  <2>1. CASE F = {}
    BY <1>b, <2>1
  <2>2. CASE F # {}
    <3>1. {Min(F), v} \subseteq Nat /\ {Min(F), v} # {}
      BY <1>b, <1>4, <2>2
    <3>2. Min({Min(F), v}) \in {Min(F), v} /\ \A y \in {Min(F), v} : Min({Min(F), v}) <= y
      BY <3>1, MinIs
    <3>3. last \in {Min(F), v} /\ last <= v /\ last <= Min(F)
      BY <2>2, <3>2
    <3> HIDE DEF last
    <3>4. last \in Nat /\ (Min(F) <= v => last = Min(F))
      BY <1>b, <1>4, <2>2, <3>3
    <3> QED BY <1>b, <3>3, <3>4
  <2> QED BY <2>1, <2>2
<1>6. skipped = {} /\ F = {} => last = n
  BY <1>1
<1>7. skipped = {} /\ F # {} => last = Min(F)
  BY <1>1, <1>5
<1> HIDE DEF last
<1>8. Emitted(list, skipped) \subseteq 1..v /\ Emitted(list, skipped) \subseteq 1..n
  <2>1. last \in Nat /\ last <= v /\ v <= n
    BY <1>b, <1>5
  <2>2. \A i \in 1..last : i \in 1..v /\ i \in 1..n
    BY <1>b, <2>1
  <2>3. Emitted(list, skipped) \subseteq 1..last
    BY <1>2
  <2> QED BY <2>2, <2>3
<1>9. skipped = {} => Emitted(list, skipped) = {i \in 1..last : hits[list[i]] > 0}
  BY <1>2
<1>10. skipped = {} /\ F # {} => Min(F) \in Emitted(list, skipped)
  <2> SUFFICES ASSUME skipped = {}, F # {} PROVE Min(F) \in Emitted(list, skipped)
    OBVIOUS
  <2>1. Min(F) \in 1..Min(F)
    BY <1>4
  <2> QED BY <1>3, <1>c, <1>7, <1>9, <2>1
<1> QED BY <1>6, <1>7, <1>8, <1>9, <1>10 DEF F, v

\* What is emitted lies within what is consumed; a page that skips nothing has
\* emitted every match of what it consumed, and all there are if it is the last.
LEMMA ConsumedIs ==
    ASSUME NEW list, NEW n \in Nat, n = Len(list), DOMAIN list = 1..n,
           NEW skipped, skipped \subseteq DOMAIN list
    PROVE  LET out == Emitted(list, skipped)
               c == Consumed(list, skipped)
           IN  /\ c \in Nat /\ (n > 0 => c > 0)
               /\ \A i \in out : i <= c
               /\ skipped = {} => \A i \in 1..n : i <= c /\ hits[list[i]] > 0 => i \in out
               /\ skipped = {} /\ ~HasMore(list, skipped) =>
                    \A i \in 1..n : hits[list[i]] > 0 => i \in out
<1> DEFINE F == FilledAt(list, skipped)
           v == Visited(list, skipped)
           out == Emitted(list, skipped)
           c == Consumed(list, skipped)
<1>1. F \subseteq 1..n /\ v \in 0..n
  BY VisitedIs
<1>2. /\ out \subseteq 1..v /\ out \subseteq 1..n
      /\ skipped = {} /\ F = {} => out = {i \in 1..n : hits[list[i]] > 0}
      /\ skipped = {} /\ F # {} => Min(F) \in out /\ out = {i \in 1..Min(F) : hits[list[i]] > 0}
  BY EmittedIs
<1>3. c = IF out = {} THEN n
          ELSE IF grep = "chunks" /\ Max(out) \notin F THEN v ELSE Max(out)
  BY DEF Consumed
<1>4. HasMore(list, skipped) <=> skipped # {} \/ (F # {} /\ c < n)
  BY DEF HasMore
<1> HIDE DEF F, v, out, c
<1>5. F # {} => Min(F) \in F
  <2>1. F \subseteq Nat
    BY <1>1
  <2> QED BY <2>1, MinIs
<1>6. out # {} => Max(out) \in out /\ \A i \in out : i <= Max(out)
  BY <1>2, MaxIs
<1>7. out # {} => Max(out) \in 1..n /\ Max(out) <= v
  <2> SUFFICES ASSUME out # {} PROVE Max(out) \in 1..n /\ Max(out) <= v
    OBVIOUS
  <2>1. Max(out) \in out
    BY <1>6
  <2>2. Max(out) \in 1..v /\ Max(out) \in 1..n
    BY <1>2, <2>1
  <2> QED BY <1>1, <2>2
<1>8. c \in Nat /\ (n > 0 => c > 0)
  <2>1. CASE out = {}
    BY <1>3, <2>1
  <2>2. CASE out # {}
    BY <1>1, <1>3, <1>7, <2>2
  <2> QED BY <2>1, <2>2
<1>9. \A i \in out : i <= c
  <2> SUFFICES ASSUME NEW i \in out PROVE i <= c
    OBVIOUS
  <2>1. i <= Max(out) /\ i \in 1..v /\ Max(out) <= v /\ Max(out) \in Nat
    BY <1>2, <1>6, <1>7
  <2>2. c \in {v, Max(out)}
    BY <1>3
  <2> QED BY <1>1, <2>1, <2>2
<1>10. ASSUME skipped = {}, F # {} PROVE c = Min(F)
  <2>1. Min(F) \in out /\ Min(F) \in F /\ out = {i \in 1..Min(F) : hits[list[i]] > 0}
    BY <1>2, <1>5, <1>10
  <2>2. Min(F) \in 1..n
    BY <1>1, <2>1
  <2>3. Max(out) \in out /\ Min(F) <= Max(out) /\ Max(out) \in Nat
    BY <1>6, <1>7, <2>1
  <2>4. Max(out) <= Min(F)
    BY <2>1, <2>2, <2>3
  <2>5. Max(out) = Min(F)
    BY <2>2, <2>3, <2>4
  <2> QED BY <1>3, <2>1, <2>5
<1>11. skipped = {} => \A i \in 1..n : i <= c /\ hits[list[i]] > 0 => i \in out
  <2>1. CASE F = {}
    BY <1>2, <2>1
  <2>2. CASE F # {}
    BY <1>1, <1>2, <1>5, <1>10, <2>2
  <2> QED BY <2>1, <2>2
<1>12. skipped = {} /\ ~HasMore(list, skipped) => \A i \in 1..n : hits[list[i]] > 0 => i \in out
  <2>1. CASE F = {}
    BY <1>2, <2>1
  <2>2. CASE F # {}
    BY <1>4, <1>8, <1>11, <2>2
  <2> QED BY <2>1, <2>2
<1> QED BY <1>8, <1>9, <1>11, <1>12 DEF out, c


LEMMA PositionIsNat ==
    ASSUME PagesTypes, NEW f \in Files
    PROVE  Position(f) \in Nat
<1>1. kept \subseteq 1..NumFiles /\ NumFiles \in Nat /\ f \in Nat
  BY PagingAssumption DEF PagesTypes, Files
<1>2. IsFiniteSet(1..NumFiles)
  BY <1>1, FS_Interval
<1>3. {g \in kept : g <= f} \subseteq 1..NumFiles
  BY <1>1
<1>4. Rank(f) \in Nat
  BY <1>2, <1>3, SubsetCard DEF Rank
<1> QED BY <1>1, <1>4 DEF Position

LEMMA FirstHasRank ==
    ASSUME PagesTypes, NEW f \in kept
    PROVE  Position(f) > 0
<1>1. kept \subseteq 1..NumFiles /\ NumFiles \in Nat
  BY PagingAssumption DEF PagesTypes, Files
<1>2. f \in Nat /\ f > 0
  BY <1>1
<1>3. {g \in kept : g <= 0} = {}
  <2>1. \A g \in kept : ~(g <= 0)
    BY <1>1
  <2> QED BY <2>1
<1>4. Cardinality({g \in kept : g <= 0}) = 0
  BY <1>3, FS_EmptySet
<1>5. 0 \in Nat
  OBVIOUS
<1>6. Rank(f) > Cardinality({g \in kept : g <= 0})
  BY <1>2, <1>5, BeforeAndAfter
<1> QED BY <1>2, <1>4, <1>6 DEF Position

-----------------------------------------------------------------------------
LEMMA PagingStarts == PagingInit => PagingInv
<1> SUFFICES ASSUME PagingInit PROVE PagingInv
  OBVIOUS
<1>1. /\ hits \in [Files -> 0..MaxHits] /\ kept \subseteq Files /\ \A f \in Files \ kept : hits[f] = 0
      /\ route \in {"plain", "prepared"} /\ offset = 0 /\ pages = 0 /\ given = [f \in Files |-> 0]
  BY DEF PagingInit
<1>2. 0..MaxHits \subseteq Nat
  BY PagingAssumption
<1>3. hits \in [Files -> Nat]
  BY <1>1, <1>2
<1>4. \A f \in Files : hits[f] > 0 => f \in kept
  BY <1>1, <1>3
<1>5. \A f \in Files : given[f] = 0
  BY <1>1
<1> QED BY <1>1, <1>3, <1>4, <1>5 DEF PagingInv, PagesTypes, ShownOrAhead, ShownOnce

LEMMA FetchKeeps == PagingInv /\ Fetch => PagingInv'
<1> SUFFICES ASSUME PagingInv, Fetch PROVE PagingInv'
  OBVIOUS
<1> DEFINE from == IF client = "mcp" /\ since = MaxCursors THEN 0 ELSE offset
<1>1. PICK list \in {ToSearch(from)} : \E skipped \in Skippable(list) :
        LET out == Emitted(list, skipped) IN
        \E shown \in Shown(list, out) :
        LET names == {list[i] : i \in shown} IN
        /\ offset' = NextOffset(from, list, skipped)
        /\ given' = [f \in Files |-> IF f \in names THEN given[f] + 1 ELSE given[f]]
        /\ excuse' = excuse \cup (IF skipped # {} THEN {"cut"} ELSE {})
                            \cup (IF shown # out THEN {"hidden"} ELSE {})
                            \cup (IF from # offset THEN {"evicted"} ELSE {})
  BY DEF Fetch
<1>2. PICK skipped \in Skippable(list) :
        LET out == Emitted(list, skipped) IN
        \E shown \in Shown(list, out) :
        LET names == {list[i] : i \in shown} IN
        /\ offset' = NextOffset(from, list, skipped)
        /\ given' = [f \in Files |-> IF f \in names THEN given[f] + 1 ELSE given[f]]
        /\ excuse' = excuse \cup (IF skipped # {} THEN {"cut"} ELSE {})
                            \cup (IF shown # out THEN {"hidden"} ELSE {})
                            \cup (IF from # offset THEN {"evicted"} ELSE {})
  BY <1>1
<1> DEFINE out == Emitted(list, skipped)
<1>3. PICK shown \in Shown(list, out) :
        LET names == {list[i] : i \in shown} IN
        /\ offset' = NextOffset(from, list, skipped)
        /\ given' = [f \in Files |-> IF f \in names THEN given[f] + 1 ELSE given[f]]
        /\ excuse' = excuse \cup (IF skipped # {} THEN {"cut"} ELSE {})
                            \cup (IF shown # out THEN {"hidden"} ELSE {})
                            \cup (IF from # offset THEN {"evicted"} ELSE {})
  BY <1>2
<1> DEFINE n == Len(list)
           names == {list[i] : i \in shown}
           c == Consumed(list, skipped)
<1>4. /\ (pages = 0 \/ offset > 0) /\ pages' = pages + 1
      /\ hits' = hits /\ kept' = kept /\ route' = route
  BY DEF Fetch
<1>5. /\ PagesTypes /\ ShownOrAhead /\ ShownOnce
      /\ hits \in [Files -> Nat] /\ kept \subseteq Files /\ offset \in Nat /\ pages \in Nat
      /\ given \in [Files -> Nat] /\ route \in {"plain", "prepared"} /\ (pages = 0 => offset = 0)
      /\ \A f \in Files : hits[f] > 0 => f \in kept
  BY DEF PagingInv, PagesTypes
<1>6. from \in Nat /\ (from = offset \/ from = 0)
  BY <1>5
<1>7. /\ n \in Nat /\ DOMAIN list = 1..n /\ (list = <<>> <=> n = 0)
      /\ \A i \in 1..n :
           /\ list[i] \in Remaining(from) /\ Position(list[i]) \in Nat /\ from + i <= Position(list[i])
           /\ route = "plain" \/ kept = Files => Position(list[i]) = from + i
      /\ \A f \in Remaining(from) : \E i \in 1..n : list[i] = f
  BY <1>1, <1>5, <1>6, ToSearchCovers
<1>8. skipped \subseteq DOMAIN list
  BY DEF Skippable
<1>9. /\ offset' = NextOffset(from, list, skipped)
      /\ given' = [f \in Files |-> IF f \in names THEN given[f] + 1 ELSE given[f]]
      /\ excuse' = excuse \cup (IF skipped # {} THEN {"cut"} ELSE {})
                          \cup (IF shown # out THEN {"hidden"} ELSE {})
                          \cup (IF from # offset THEN {"evicted"} ELSE {})
  BY <1>3
<1>10. shown \subseteq out
  BY <1>3 DEF Shown
<1> HIDE DEF n, from
<1>11. /\ c \in Nat /\ (n > 0 => c > 0)
       /\ \A i \in out : i <= c
       /\ skipped = {} => \A i \in 1..n : i <= c /\ hits[list[i]] > 0 => i \in out
       /\ skipped = {} /\ ~HasMore(list, skipped) => \A i \in 1..n : hits[list[i]] > 0 => i \in out
  BY <1>7, <1>8, ConsumedIs DEF n
<1>12. out \subseteq 1..n
  BY <1>7, <1>8, EmittedIs DEF n
<1>13. offset' = IF list # <<>> /\ HasMore(list, skipped) THEN from + c ELSE 0
  BY <1>9 DEF NextOffset
<1> HIDE DEF out, c
<1>14. \A f : Position(f)' = Position(f)
  BY <1>4 DEF Position, Rank
<1>15. \A m : Remaining(m)' = {f \in kept : Position(f) > m}
  BY <1>4, <1>14 DEF Remaining
<1>16. names \subseteq kept /\ names \subseteq Files
  BY <1>5, <1>7, <1>10, <1>12 DEF Remaining
<1>17. offset' \in Nat /\ pages' \in Nat /\ pages' > 0
  BY <1>4, <1>5, <1>6, <1>11, <1>13
<1>18. given' \in [Files -> Nat] /\ \A f \in Files : given'[f] = IF f \in names THEN given[f] + 1 ELSE given[f]
  BY <1>5, <1>9
<1>19. PagesTypes'
  BY <1>4, <1>5, <1>17, <1>18 DEF PagesTypes
<1>20. ASSUME excuse' \cap {"cut", "hidden"} = {}, NEW f \in Files, hits[f] > 0
       PROVE  given'[f] > 0 \/ (offset' > 0 /\ f \in kept /\ Position(f) > offset')
  <2>1. skipped = {} /\ shown = out /\ excuse \cap {"cut", "hidden"} = {}
    BY <1>9, <1>20
  <2>2. given[f] \in Nat
    BY <1>5
  <2>3. CASE given[f] > 0
    BY <1>18, <2>2, <2>3
  <2>4. CASE ~(given[f] > 0)
    <3>1. f \in kept
      BY <1>5, <1>20
    <3>2. f \in Remaining(from)
      <4>1. CASE from = 0
        <5>1. Position(f) > 0
          BY <1>5, <3>1, FirstHasRank
        <5> QED BY <3>1, <4>1, <5>1 DEF Remaining
      <4>2. CASE from # 0
        <5>1. from = offset /\ pages > 0
          BY <1>5, <1>6, <4>2
        <5> QED BY <1>5, <1>20, <2>1, <2>4, <5>1 DEF ShownOrAhead
      <4> QED BY <4>1, <4>2
    <3>3. PICK i \in 1..n : list[i] = f
      BY <1>7, <3>2
    <3>4. CASE i \in out
      <4>1. f \in names
        BY <2>1, <3>3, <3>4
      <4> HIDE DEF names
      <4> QED BY <1>18, <2>2, <4>1
    <3>5. CASE i \notin out
      <4>1. HasMore(list, skipped) /\ i > c /\ n # 0
        BY <1>7, <1>11, <1>20, <2>1, <3>3, <3>5
      <4>2. offset' = from + c /\ c > 0
        BY <1>7, <1>11, <1>13, <4>1
      <4>3. Position(f) \in Nat /\ from + i <= Position(f)
        BY <1>7, <3>3
      <4> QED BY <1>6, <1>7, <1>11, <3>1, <4>1, <4>2, <4>3
    <3> QED BY <3>4, <3>5
  <2> QED BY <2>3, <2>4
<1>21. ShownOrAhead'
  BY <1>4, <1>15, <1>20 DEF ShownOrAhead
<1>22. ASSUME "evicted" \notin excuse', route = "plain" \/ kept = Files, NEW f \in Files
       PROVE  given'[f] \in {0, 1} /\ (given'[f] = 1 => (offset' > 0 => Position(f) <= offset'))
  <2>1. "evicted" \notin excuse /\ from = offset
    BY <1>9, <1>22
  <2>2. given[f] \in {0, 1} /\ (given[f] = 1 => pages > 0 /\ (offset > 0 => Position(f) <= offset))
    BY <1>5, <1>22, <2>1 DEF ShownOnce
  <2>3. CASE f \in names
    <3>1. PICK i \in shown : list[i] = f
      BY <2>3
    <3>2. i \in 1..n /\ i <= c
      BY <1>10, <1>11, <1>12
    <3>3. Position(f) = offset + i
      BY <1>7, <1>22, <2>1, <3>1, <3>2
    <3>4. given[f] = 0
      BY <1>4, <1>5, <1>7, <2>2, <3>2, <3>3
    <3>5. given'[f] = 1
      BY <1>18, <2>3, <3>4
    <3>6. offset' > 0 => offset' = offset + c
      BY <1>13, <2>1
    <3> HIDE DEF names
    <3> QED BY <1>5, <1>7, <1>11, <3>2, <3>3, <3>5, <3>6
  <2>4. CASE f \notin names
    <3>1. given'[f] = given[f]
      BY <1>18, <2>4
    <3> HIDE DEF names
    <3>2. offset' > 0 => offset' = offset + c
      BY <1>13, <2>1
    <3>3. ASSUME given[f] = 1 PROVE offset' > 0 => Position(f) <= offset'
      <4>1. offset > 0 /\ Position(f) <= offset
        BY <1>4, <2>2, <3>3, <1>5
      <4>2. Position(f) \in Int
        BY <1>5, PositionIsNat
      <4> QED BY <1>5, <1>11, <3>2, <4>1, <4>2
    <3> QED BY <2>2, <3>1, <3>3
  <2> QED BY <2>3, <2>4
<1>23. ShownOnce'
  BY <1>4, <1>14, <1>17, <1>22 DEF ShownOnce
<1> QED BY <1>19, <1>21, <1>23 DEF PagingInv

LEMMA PagingSteps == PagingInv /\ [PagingNext]_pagingVars => PagingInv'
<1> SUFFICES ASSUME PagingInv, [PagingNext]_pagingVars PROVE PagingInv'
  OBVIOUS
<1>1. CASE Fetch
  BY <1>1, FetchKeeps
<1>2. CASE ~Fetch
  <2>1. /\ hits' = hits /\ kept' = kept /\ route' = route /\ offset' = offset /\ pages' = pages
        /\ given' = given /\ excuse' = excuse
    BY <1>2 DEF PagingNext, StoreOther, pagingVars
  <2>2. PagesTypes'
    BY <2>1 DEF PagingInv, PagesTypes
  <2>3. ShownOrAhead' /\ ShownOnce'
    BY <2>1 DEF PagingInv, ShownOrAhead, ShownOnce, Remaining, Position, Rank
  <2> QED BY <2>2, <2>3 DEF PagingInv
<1> QED BY <1>1, <1>2

THEOREM PagesAreSound == PagingSpec => []PagingInv
BY PagingStarts, PagingSteps, PTL DEF PagingSpec

THEOREM NoMatchIsSkipped == PagingSpec => []NoMatchSkipped
<1>1. PagingInv => NoMatchSkipped
  BY DEF PagingInv, PagesTypes, ShownOrAhead, NoMatchSkipped, Finished
<1> QED BY <1>1, PagesAreSound, PTL

THEOREM NoMatchIsShownTwice == PagingSpec => []NoMatchTwice
<1>1. PagingInv => NoMatchTwice
  BY DEF PagingInv, ShownOnce, NoMatchTwice
<1> QED BY <1>1, PagesAreSound, PTL
=============================================================================
