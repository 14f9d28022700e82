---------------------------- MODULE ContentSearch ----------------------------
(***************************************************************************)
(* Which files each way of searching contents reads (grep.rs), given the   *)
(* state of the index, and what must hold of them.  A search runs under    *)
(* the picker's read lock, so it is a function of the state.               *)
(***************************************************************************)
EXTENDS ContentIndex

\* BigramFilter::query: None when no bigram of the pattern has a column.
Tracked(w) == GramsOf[w] \cap DOMAIN index.column
Filters(w) == index.ready /\ Tracked(w) # {}
Query(w) == {i \in 1..index.boundary : \A g \in Tracked(w) : i \in index.column[g]}

QueryModifiedAll(w) == {i \in DOMAIN index.modified : GramsOf[w] \subseteq index.modified[i]}

\* BigramOverlay::query_modified works on consecutive bigrams only.
QueryModified(w) ==
    {i \in DOMAIN index.modified : GramsOf[w] \ SkipGrams \subseteq index.modified[i]}

\* prepare_files_to_search
Searchable(i) == ~files[i].deleted /\ ~files[i].binary /\ ~files[i].empty
Prepared == {i \in DOMAIN files : Searchable(i)}
Narrowed(C) == {i \in Prepared : files[i].overflow \/ i > index.boundary \/ i \in C}

PlainCandidatesAll(w) == Query(w) \cup QueryModified(w)

\* grep_search without constraints takes the candidates as they come.
PlainCandidates(w) == (Query(w) \ index.tombs) \cup QueryModified(w)
PlainSearch(w) ==
    IF Filters(w)
    THEN {i \in DOMAIN files :
            /\ ~files[i].binary
            /\ i \in PlainCandidates(w) \/ (i > index.boundary /\ ~files[i].deleted)}
    ELSE Prepared

\* With constraints (here: ones that every file satisfies) it filters the
\* prepared files, and knows no boundary.
ConstrainedSearch(w) ==
    IF Filters(w)
    THEN {i \in Prepared : files[i].overflow \/ i \in PlainCandidates(w)}
    ELSE Prepared

\* A regular expression and a fuzzy needle admit every modified file; the
\* expression is the word itself, for which the queries are the same.
RegexSearch(w) ==
    LET C == (Query(w) \ index.tombs) \cup DOMAIN index.modified IN
    IF Filters(w)
    THEN {i \in DOMAIN files :
            /\ ~files[i].binary
            /\ i \in C \/ (i > index.boundary /\ ~files[i].deleted)}
    ELSE Prepared
FuzzySearch(w) ==
    LET C == (Query(w) \ index.tombs) \cup DOMAIN index.modified IN
    IF Filters(w) THEN Narrowed(C) ELSE Prepared

\* multi_grep_search: the union over the patterns that have a column.
MultiSearch(ws) ==
    LET C == (UNION {Query(w) : w \in {v \in ws : Filters(v)}})
                \cup (UNION {QueryModified(w) : w \in ws}) IN
    IF \E w \in ws : Filters(w) THEN Narrowed(C) ELSE Prepared
-----------------------------------------------------------------------------
Settled(p) == p \notin dirty /\ ~(dirGone /\ p \in Below)
Holds(p, w) == OnDisk(p) /\ ~disk[p].nul /\ w \in WordsOf(disk[p])
At(p, found) == \E i \in found : files[i].path = p

(* Where the code is known to miss a match: a change handled between the   *)
(* read and the install of a build; a word beyond the part of the file     *)
(* that is indexed; a file once taken for binary, a mark nothing clears;   *)
(* and everything once a directory was removed below the index.            *)
Missed(p, w) ==
    \/ shifted
    \/ \E i \in DOMAIN files :
        /\ files[i].path = p
        /\ \/ files[i].binary
           \/ i \in lost
           \/ w \notin disk[p].head /\ i \notin DOMAIN index.modified

\* The clause about boundaries: a file that was empty when walked.
FilledLater(p) ==
    \E i \in DOMAIN files : files[i].path = p /\ ~files[i].overflow /\ i > index.boundary

(* Once the events of a file are handled, a search reads the file if the   *)
(* pattern is in it: no prefilter, overlay or boundary of any of the five  *)
(* ways to search drops a match (grep.rs 974-1040, 1948-1990, 2060-2175).  *)
GrepFindsAll ==
    \A p \in Paths, w \in Words :
        Settled(p) /\ Holds(p, w) /\ ~Missed(p, w) =>
            /\ At(p, PlainSearch(w)) /\ At(p, RegexSearch(w)) /\ At(p, FuzzySearch(w))
            /\ FilledLater(p) \/ At(p, ConstrainedSearch(w))
            /\ \A v \in Words : Filters(w) \/ ~Filters(v) => At(p, MultiSearch({v, w}))

(* A file known to be gone is not searched: its candidate bit is cleared   *)
(* by the overlay's tombstones, which undeleting it must not leave behind  *)
(* and an edit must not undo (grep.rs 2056-2080).                          *)
GoneIsNotSearched ==
    \A p \in Paths, w \in Words :
        Settled(p) /\ ~OnDisk(p) /\ ~shifted =>
            \A i \in DOMAIN files : files[i].path = p =>
                /\ i \in PlainSearch(w) => i \in lost
                /\ i \notin ConstrainedSearch(w) \cup FuzzySearch(w) \cup MultiSearch({w})

(* The slices a search takes of the table exist: the boundary the overlay  *)
(* keeps is still that of the indexable files, and every position that the *)
(* index or a build speaks of is a base file's (grep.rs 2076, 2115).       *)
PositionsAreValid ==
    ~shifted =>
        /\ indexable <= baseCount /\ baseCount <= Len(files)
        /\ \A i \in DOMAIN files : files[i].overflow <=> i > baseCount
        /\ build.round \in {2, 3} => index.boundary = indexable
        /\ build.round \in {1, 2} => Len(build.read) = indexable
        /\ index.boundary <= indexable

(* "returns files where ANY query matches" (the multi_grep tool of         *)
(* fff-mcp): a pattern that has no column beside one that has is one of    *)
(* them.                                                                   *)
AnyPatternMatches ==
    \A p \in Paths, v, w \in Words :
        Settled(p) /\ Holds(p, w) /\ ~Missed(p, w) => At(p, MultiSearch({v, w}))
=============================================================================
