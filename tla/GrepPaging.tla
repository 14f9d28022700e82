----------------------------- MODULE GrepPaging -----------------------------
(***************************************************************************)
(* Paging through the results of a search of contents: perform_grep and    *)
(* collect_grep_results (grep.rs) answer one page and the offset of the    *)
(* next, and a client asks again with it: the picker's window, which keeps *)
(* the offset itself, or an MCP client, for which the server keeps it      *)
(* under a cursor and shows what fits of the page, while the offset goes   *)
(* on behind all of it.                                                    *)
(*                                                                         *)
(* The file list is that of the query, sorted, and stays the same from one *)
(* page to the next.  The search of a chunk is parallel; the abort signal  *)
(* and the time budget make it skip files wherever it stands.              *)
(***************************************************************************)
EXTENDS Naturals, FiniteSets, Sequences, FiniteSetsExt

CONSTANTS
    NumFiles,           \* files that the constraints leave
    MaxHits,            \* max_matches_per_file
    PageLimit,          \* page_limit, a soft cap
    ChunkSize,          \* PAGINATED_CHUNK_SIZE
    MaxResults,         \* max_results of an MCP client
    MaxCursors,         \* MAX_CURSORS
    MaxPages            \* BOUND: requests of the client

ASSUME PagingAssumption ==
    /\ NumFiles \in Nat /\ MaxHits \in Nat \ {0} /\ PageLimit \in Nat \ {0}
    /\ ChunkSize \in Nat \ {0} /\ MaxResults \in Nat \ {0} /\ MaxCursors \in Nat /\ MaxPages \in Nat

Files == 1..NumFiles

VARIABLES
    hits,               \* [Files -> matches of the file]
    kept,               \* the files that the bigram candidates leave
    route,              \* "plain": offsets count kept files; "prepared": all of them
    grep,               \* "chunks": perform_grep; "batch": collect_grep_results
    client,             \* "window" or "mcp"
    offset,             \* next_file_offset of the last page
    since,              \* cursors the server has stored since ours
    pages,              \* requests so far
    given,              \* [Files -> how often it was among the results]
    page,               \* matches of the last page
    excuse              \* GHOST: what went wrong on the way

pagingVars == <<hits, kept, route, grep, client, offset, since, pages, given, page, excuse>>

Excuses == {"cut", "evicted", "hidden"}
PagingTypeOK ==
    /\ hits \in [Files -> 0..MaxHits] /\ kept \subseteq Files
    /\ route \in {"plain", "prepared"} /\ grep \in {"chunks", "batch"}
    /\ client \in {"window", "mcp"}
    /\ offset \in 0..(2 * NumFiles) /\ since \in 0..MaxCursors /\ pages \in 0..MaxPages
    /\ given \in [Files -> 0..MaxPages]
    /\ page \in Nat /\ excuse \subseteq Excuses
-----------------------------------------------------------------------------
\* Files as the list, which is sorted, has them.
InOrder(S) ==
    CHOOSE s \in [1..Cardinality(S) -> S] : \A i, j \in 1..Cardinality(S) : i < j => s[i] < s[j]

BeforeNever(from) == IF route = "plain" THEN 0 ELSE Cardinality({f \in kept : f <= from})

\* The candidates an offset leaves out.  Without constraints they are paged as
\* they are; prepare_files_to_search pages the files first, and the candidates
\* are picked from the page.
Before(from) == IF route = "plain" THEN from ELSE Cardinality({f \in kept : f <= from})
ToSearch(from) == SubSeq(InOrder(kept), Before(from) + 1, Cardinality(kept))

\* The matches of some files of a list.
HitsOf(list, positions) == FoldSet(LAMBDA i, sum : sum + hits[list[i]], 0, positions)

FilledAt(list, skipped) ==
    {i \in DOMAIN list : i \notin skipped /\ hits[list[i]] > 0 /\ HitsOf(list, (1..i) \ skipped) >= PageLimit}

ChunkEnd(list, i) == Min({Len(list), ((i - 1) \div ChunkSize + 1) * ChunkSize})

\* The last file looked at: perform_grep stops after the chunk in which the page
\* was filled or a file was skipped.
Visited(list, skipped) ==
    IF grep = "batch" THEN Len(list)
    ELSE LET stops == FilledAt(list, skipped) \cup skipped IN
         IF stops = {} THEN Len(list) ELSE ChunkEnd(list, Min(stops))

Emitted(list, skipped) ==
    LET filled == FilledAt(list, skipped)
        last == IF filled = {} THEN Visited(list, skipped)
                ELSE Min({Min(filled), Visited(list, skipped)})
    IN {i \in 1..last : i \notin skipped /\ hits[list[i]] > 0}

ConsumedChunk(list, skipped) == Visited(list, skipped)
ConsumedToLast(list, skipped) ==
    LET out == Emitted(list, skipped) IN IF out = {} THEN Len(list) ELSE Max(out) - 1

\* files_consumed: up to the file that filled the page, or else the chunk, or
\* else (of a batch) the last file with a match; everything if there is none.
Consumed(list, skipped) ==
    LET out == Emitted(list, skipped) IN
    IF out = {} THEN Len(list)
    ELSE IF grep = "chunks" /\ Max(out) \notin FilledAt(list, skipped) THEN Visited(list, skipped)
    ELSE Max(out)

HasMore(list, skipped) ==
    \/ skipped # {}
    \/ /\ FilledAt(list, skipped) # {}
       /\ Consumed(list, skipped) < Len(list)

NextOffset(from, list, skipped) ==
    IF list # << >> /\ HasMore(list, skipped) THEN from + Consumed(list, skipped) ELSE 0

\* What GrepFormatter may show of a page: of the first max_results matches, what
\* the character budget leaves (one chunk at least), the definitions first and
\* without the import lines behind an expanded one.
Shown(list, out) ==
    IF client = "window" THEN {out}
    ELSE LET first == {i \in out : HitsOf(list, {j \in out : j < i}) < MaxResults} IN
         {shown \in SUBSET first : first # {} => shown # {}}

\* The files one parallel step may skip: of one chunk, the last it looks at.
Skippable(list) ==
    {S \in SUBSET DOMAIN list :
        S # {} => \E i \in S : /\ \A j \in S : ChunkEnd(list, j) = ChunkEnd(list, i) \/ grep = "batch"
                               /\ Visited(list, S) >= Max(S)}

Fetch ==
    LET from == IF client = "mcp" /\ since = MaxCursors THEN 0 ELSE offset IN
    /\ pages < MaxPages /\ (pages = 0 \/ offset > 0)
    /\ \E list \in {ToSearch(from)} : \E skipped \in Skippable(list) :
        LET out == Emitted(list, skipped) IN
        \E shown \in Shown(list, out) :
        LET names == {list[i] : i \in shown} IN
        /\ offset' = NextOffset(from, list, skipped)
        /\ given' = [f \in Files |-> IF f \in names THEN given[f] + 1 ELSE given[f]]
        /\ page' = HitsOf(list, out)
        /\ excuse' = excuse \cup (IF skipped # {} THEN {"cut"} ELSE {})
                            \cup (IF shown # out THEN {"hidden"} ELSE {})
                            \cup (IF from # offset THEN {"evicted"} ELSE {})
    /\ pages' = pages + 1
    /\ since' = 0
    /\ UNCHANGED <<hits, kept, route, grep, client>>

StoreOtherPast ==
    /\ client = "mcp" /\ offset > 0 /\ since' = since + 1
    /\ UNCHANGED <<hits, kept, route, grep, client, offset, pages, given, page, excuse>>

\* CursorStore::store, for another search: the oldest goes.
StoreOther ==
    /\ client = "mcp" /\ offset > 0 /\ since < MaxCursors
    /\ since' = since + 1
    /\ UNCHANGED <<hits, kept, route, grep, client, offset, pages, given, page, excuse>>

PagingInit ==
    /\ hits \in [Files -> 0..MaxHits] /\ kept \in SUBSET Files
    /\ \A f \in Files \ kept : hits[f] = 0
    /\ route \in {"plain", "prepared"} /\ grep \in {"chunks", "batch"}
    /\ client \in {"window", "mcp"}
    /\ offset = 0 /\ since = 0 /\ pages = 0
    /\ given = [f \in Files |-> 0] /\ page = 0 /\ excuse = {}

PagingNext == Fetch \/ StoreOther
PagingSpec == PagingInit /\ [][PagingNext]_pagingVars /\ WF_pagingVars(Fetch)
-----------------------------------------------------------------------------
Finished == pages > 0 /\ offset = 0

(* A client that follows the offsets to the end has seen every file with a *)
(* match (grep.rs 1297-1340, 1395-1415), where the clock cut no page short *)
(* and the server showed every page whole: what max_results, the character *)
(* budget or an expanded definition keep off a page (output.rs 178, 287,   *)
(* 356) is never shown, since the cursor goes on behind it (366).          *)
NoMatchSkipped ==
    Finished /\ excuse \cap {"cut", "hidden"} = {} =>
        \A f \in Files : hits[f] > 0 => given[f] > 0

(* No file is on two pages, unless the offset, which counts the files left *)
(* by the prefilter, is used to skip files before it; or a cursor was lost *)
(* and the search began again (grep.rs 1507-1517, 2141-2175).              *)
NoMatchTwice ==
    "evicted" \notin excuse /\ (route = "plain" \/ kept = Files) =>
        \A f \in Files : given[f] <= 1

(* Following the offsets comes to an end: within the bound on requests, no *)
(* client is sent round for ever (MaxPages is more than there are files).  *)
PagingEnds == <>(Finished \/ "evicted" \in excuse)

(* "Every file in the chunk was visited by rayon (matched or not)"         *)
(* (grep.rs:1301): following the offsets misses nothing, whatever the time *)
(* budget did.                                                             *)
EveryFileVisited ==
    Finished /\ "hidden" \notin excuse => \A f \in Files : hits[f] > 0 => given[f] > 0
=============================================================================
