---------------------------- MODULE FuzzySearch -----------------------------
(***************************************************************************)
(* Fuzzy search of files and directories (score.rs, FilePicker::fuzzy_     *)
(* search...), and the clients that page through its results: the Neovim   *)
(* picker by page, the C interface by offset, the MCP server by cursor and *)
(* the pi extension by cursor over the C interface.                        *)
(* How similar a text is to a path is the matcher's: Similar.              *)
(***************************************************************************)
EXTENDS QueryParser

CONSTANTS
    FileSeq, BaseCount,     \* the index: files of the scan, then those added since
    DirSeq,
    Similar(_, _),          \* text token, item -> score of the match, 0 for none
    Combo(_, _, _),         \* recalled?, query, file -> what it gains as the query's last choice
    CurrentFile,
    PartialAbove,           \* 100: no partial sort up to so many results
    Queries, Sizes, Offsets \* inputs of the clients

\* What the clients search for; a query of three words or more may be shortened to two.
Searched == Queries \cup {SubSeq(q, 1, 2) : q \in {r \in Queries : Len(r) >= 3}}

\* A path has one entry, and no directory has a file's.
ASSUME SearchAssumption ==
    /\ FileSeq \in Seq(Items) /\ DirSeq \in Seq(Items) /\ IsInjective(FileSeq \o DirSeq)
    /\ BaseCount \in 0..Len(FileSeq)
    /\ \A i \in Items : /\ {"frecency", "bonus", "modified", "dirty", "deleted"} \subseteq DOMAIN i
                        /\ i.frecency \in Int /\ i.bonus \in Int /\ i.modified \in Int
    /\ \A i \in Items, t \in Tokens : Similar(t, i) \in Int /\ Similar(Bare(t), i) \in Int
    /\ \A recalled \in BOOLEAN, q \in Searched, i \in Items : Combo(recalled, q, i) \in Int
    /\ Queries \subseteq Seq(Tokens) /\ Sizes \subseteq Nat \ {0} /\ Offsets \subseteq Nat

VARIABLES
    filesFound, dirsFound,  \* what each search finds in the index, which stands still here
    client,     \* "none" | "lua" | "c" | "mcp" | "pi": whose session it is
    asked,      \* the query and the kind of search of the last call, and of the session's first
    page,       \* offset and limit of the last call; index: lua's and pi's page
    result,     \* what the call returned: items, total
    more,       \* the client knows how to go on
    seen        \* what the session has shown so far

vars == <<filesFound, dirsFound, client, asked, page, result, more, seen>>
-----------------------------------------------------------------------------
(***************************************************************************)
(* match_fuzzy_parts: each part narrows the matches of the previous one,   *)
(* every round divides by the number of parts.                             *)
(***************************************************************************)
Valid(text) == Pick(text, {k \in DOMAIN text : text[k].shape \notin {"short", "empty"}})

BaseScore(parts, i) ==
    LET score[k \in 1..Len(parts)] ==
            IF k = 1 THEN Similar(parts[1], i) ELSE (score[k-1] + Similar(parts[k], i)) \div Len(parts)
    IN  score[Len(parts)]

Matches(parts, i) == parts # <<>> /\ \A k \in DOMAIN parts : Similar(parts[k], i) > 0
Matching(list, parts) == Pick(list, {k \in DOMAIN list : Matches(parts, list[k])})

\* One text of less than two characters lists by frecency; of files, so do not several.
ByText(text) == IF Len(text) = 1 THEN Valid(text) # <<>> ELSE text # <<>>

(***************************************************************************)
(* match_and_score_in_arena and fuzzy_match_and_score_dirs.                *)
(***************************************************************************)
Filtered(cs, items) ==
    IF cs = <<>> THEN items
    ELSE LET kept == ApplyConstraints(cs, ToSet(items))
         IN  Pick(items, {k \in DOMAIN items : items[k] \in kept})

Penalty(i, base) == IF i = CurrentFile THEN base ELSE 0

Weighted(base, i) ==
    base + (base * i.frecency) \div 100 + (IF i.dirty THEN (base * 15) \div 100 ELSE 0)
         + i.bonus - Penalty(i, base \div 4)
FileScore(parts, i, combo) == Weighted(BaseScore(parts, i), i) + combo[i]

FrecencyScore(i) ==
    i.frecency + (IF i.dirty THEN (i.frecency * 15) \div 100 ELSE 0) - Penalty(i, i.frecency)

Scored(list, score) ==
    [k \in DOMAIN list |-> [item |-> list[k], total |-> score[list[k]], modified |-> list[k].modified]]

InArena(items, p, combo) ==
    LET kept == Filtered(p.constraints, items)
        live == Pick(kept, {k \in DOMAIN kept : ~kept[k].deleted})
        parts == Valid(p.text)
    IN  IF ByText(p.text)
        THEN Scored(Matching(live, parts), [i \in Items |-> FileScore(parts, i, combo)])
        ELSE Scored(live, [i \in Items |-> FrecencyScore(i)])

\* Files added since the scan come first.
FileResults(p, combo) ==
    InArena(SubSeq(FileSeq, BaseCount + 1, Len(FileSeq)), p, combo)
        \o InArena(SubSeq(FileSeq, 1, BaseCount), p, combo)

\* Directories, and a mixed search, are sorted by score alone.
ByTotal(s) == [k \in DOMAIN s |-> [s[k] EXCEPT !.modified = 0]]

DirScore(base, i) == base + (base * i.frecency) \div 100 + i.bonus

DirResults(p) ==
    LET dirs == Filtered(p.constraints, DirSeq)
        parts == Valid(p.text)
        results == IF parts # <<>>
                   THEN Scored(Matching(dirs, parts),
                               [i \in Items |-> DirScore(BaseScore(parts, i), i)])
                   ELSE Scored(dirs, [i \in Items |-> i.frecency])
    IN  ByTotal(results)
-----------------------------------------------------------------------------
(***************************************************************************)
(* sort_and_paginate.  The partial sort leaves ties in any order, the full *)
(* sort in the order of the list.                                          *)
(***************************************************************************)
Above(a, b) == a.total > b.total \/ (a.total = b.total /\ a.modified > b.modified)

\* The sequences of the n first results.
Tops(results, n) ==
    {s \in [1..n -> ToSet(results)] :
        /\ IsInjective(s)
        /\ \A k \in 1..n-1 : ~Above(s[k+1], s[k])
        /\ \A r \in ToSet(results) \ {s[k] : k \in 1..n} : ~Above(r, s[n])}

Place(results, n) ==
    Cardinality({k \in DOMAIN results : Above(results[k], results[n])
                                        \/ (k < n /\ ~Above(results[n], results[k]))}) + 1

Stable(results) ==
    [k \in DOMAIN results |-> results[CHOOSE n \in DOMAIN results : Place(results, n) = k]]

\* A page; a list that fits the limit is returned whole.
Least(a, b) == IF a < b THEN a ELSE b
Slice(s, offset, limit) == SubSeq(s, offset + 1, Least(offset + limit, Len(s)))

\* Altered: the first result of the page goes with the ones before it.
CutLate(s, offset, limit) == IF Len(s) > limit THEN Slice(s, offset + 1, limit - 1) ELSE s
Cut(s, offset, limit) == IF Len(s) > limit THEN Slice(s, offset, limit) ELSE s

\* Altered: the partial sort keeps a page, whatever the offset.
NeededPage(total, offset, limit) == Least(limit, total)
Needed(total, offset, limit) == Least(offset + limit, total)

Pages(results, offset, limit) ==
    LET total == Len(results)
        needed == Needed(total, offset, limit)
        partial == needed < total \div 2 /\ total > PartialAbove
    IN  IF offset >= total THEN {<<>>}
        ELSE {Cut(s, offset, limit) : s \in IF partial THEN Tops(results, needed) ELSE {Stable(results)}}

(***************************************************************************)
(* fuzzy_search, fuzzy_search_directories, fuzzy_search_mixed.  The mixed  *)
(* search takes twice what it needs of either, merges by score and cuts;   *)
(* a query that ends with a slash is for directories only.                 *)
(***************************************************************************)
DirsOnly(q) == q # <<>> /\ Last(q).shape = "segment"

\* A recalled query is searched among files, its last choice boosted however rare it is.
Kinds == {"files", "recalled", "dirs", "mixed"}
Parser(kind) == IF kind = "recalled" THEN "files" ELSE kind
Combos(q, kind) == [i \in Items |-> Combo(kind = "recalled", q, i)]

FilesFound == [q \in Searched |-> [kind \in Kinds |-> FileResults(Parse(q, Parser(kind)), Combos(q, kind))]]
DirsFound == [q \in Searched |-> [kind \in Kinds |-> DirResults(Parse(q, Parser(kind)))]]

Found(q, kind) ==
    CASE kind \in {"files", "recalled"} -> filesFound[q][kind]
      [] kind = "dirs" -> dirsFound[q][kind]
      [] kind = "mixed" /\ DirsOnly(q) -> dirsFound[q][kind]
      [] kind = "mixed" /\ ~DirsOnly(q) -> ByTotal(filesFound[q][kind] \o dirsFound[q][kind])

Mixed(q, offset, limit) ==
    LET most == 2 * (offset + limit)
    IN  UNION {Tops(ByTotal(f \o d), Len(f \o d)) :
                f \in Pages(filesFound[q]["mixed"], 0, most), d \in Pages(dirsFound[q]["mixed"], 0, most)}

Answers(q, kind, offset, limit) ==
    LET pages == CASE kind \in {"files", "recalled"} -> Pages(filesFound[q][kind], offset, limit)
                   [] kind = "dirs" -> Pages(dirsFound[q][kind], offset, limit)
                   [] kind = "mixed" /\ DirsOnly(q) ->
                        {Slice(s, offset, limit) : s \in Pages(dirsFound[q][kind], 0, 2 * (offset + limit))}
                   [] kind = "mixed" /\ ~DirsOnly(q) -> {Slice(s, offset, limit) : s \in Mixed(q, offset, limit)}
    IN  {[items |-> s, total |-> Len(Found(q, kind))] : s \in pages}
-----------------------------------------------------------------------------
Shown(r) == {r.items[k].item : k \in DOMAIN r.items}

\* One call of a client, in a new session when `fresh'.
Call(c, fresh, q, kind, offset, limit, index) ==
    /\ client' = c
    /\ asked' = [query |-> q, searched |-> q, kind |-> kind, first |-> IF fresh THEN kind ELSE asked.first]
    /\ page' = [offset |-> offset, limit |-> limit, index |-> index]
    /\ result' \in Answers(q, kind, offset, limit)
    /\ seen' = (IF fresh THEN {} ELSE seen) \cup Shown(result')
    /\ UNCHANGED <<filesFound, dirsFound>>

(***************************************************************************)
(* The Neovim picker: update_results_sync, load_page_at_index.  Only the   *)
(* first page of a query recalled from the history is ranked as such.      *)
(***************************************************************************)
Type(q, size, recalled) ==
    /\ Call("lua", TRUE, q, IF recalled THEN "recalled" ELSE "files", 0, size, 0)
    /\ more' = (result'.total > size)

LoadPage(n) ==
    /\ client = "lua" /\ result.total # 0
    /\ n \in {page.index - 1, page.index + 1} \cap 0..((result.total - 1) \div page.limit)
    /\ Call("lua", FALSE, asked.query, "files", n * page.limit, page.limit, n)
    /\ more' = (result'.total > (n + 1) * page.limit)

(***************************************************************************)
(* The C interface: its page index is the offset.                          *)
(***************************************************************************)
Search(q, kind, offset, size) ==
    /\ Call("c", TRUE, q, kind, offset, size, offset)
    /\ more' = FALSE

(***************************************************************************)
(* find_files_text.  No result for three words or more: the first two are  *)
(* searched instead.  The cursor holds the offset alone.                   *)
(***************************************************************************)
Cursor(offset, r) == offset + Len(r.items) < r.total

FindFiles(q, size) ==
    LET retry == Len(q) >= 3 /\ \E r \in Answers(q, "files", 0, size) : r.items = <<>>
        searched == IF retry THEN SubSeq(q, 1, 2) ELSE q
    IN  /\ client' = "mcp"
        /\ asked' = [query |-> q, searched |-> searched, kind |-> "files", first |-> "files"]
        /\ page' = [offset |-> 0, limit |-> size, index |-> 0]
        /\ result' \in Answers(searched, "files", 0, size)
        /\ seen' = Shown(result')
        /\ more' = Cursor(0, result')
        /\ UNCHANGED <<filesFound, dirsFound>>

FindMore(size) ==
    /\ client = "mcp" /\ more
    /\ LET offset == page.offset + Len(result.items)
       IN  /\ Call("mcp", FALSE, asked.query, "files", offset, size, 0)
           /\ more' = Cursor(offset, result')

(***************************************************************************)
(* pi's find tool counts its pages and passes the number on as page index. *)
(***************************************************************************)
HasMore(index, size, r) == Len(r.items) >= size /\ r.total > index * size + Len(r.items)

PiFind(q, size) ==
    /\ Call("pi", TRUE, q, "files", 0, size, 0)
    /\ more' = HasMore(0, size, result')

PiMore ==
    /\ client = "pi" /\ more
    /\ Call("pi", FALSE, asked.query, "files", page.index + 1, page.limit, page.index + 1)
    /\ more' = HasMore(page.index + 1, page.limit, result')
-----------------------------------------------------------------------------
Init ==
    /\ filesFound = FilesFound /\ dirsFound = DirsFound
    /\ client = "none"
    /\ asked = [query |-> <<>>, searched |-> <<>>, kind |-> "files", first |-> "files"]
    /\ page = [offset |-> 0, limit |-> 1, index |-> 0]
    /\ result = [items |-> <<>>, total |-> 0]
    /\ more = FALSE
    /\ seen = {}

\* A search remembers nothing of the one before it: a session ends where the next begins.
Close ==
    /\ client # "none"
    /\ client' = "none" /\ more' = FALSE /\ seen' = {}
    /\ asked' = [query |-> <<>>, searched |-> <<>>, kind |-> "files", first |-> "files"]
    /\ page' = [offset |-> 0, limit |-> 1, index |-> 0]
    /\ result' = [items |-> <<>>, total |-> 0]
    /\ UNCHANGED <<filesFound, dirsFound>>

Open ==
    /\ client = "none"
    /\ \E q \in Queries, size \in Sizes :
        \/ \E recalled \in BOOLEAN : Type(q, size, recalled)
        \/ FindFiles(q, size)
        \/ PiFind(q, size)
        \/ \E kind \in {"files", "dirs", "mixed"}, offset \in Offsets : Search(q, kind, offset, size)

Next ==
    \/ Open
    \/ \E n \in 0..Len(FileSeq) : LoadPage(n)
    \/ \E size \in Sizes : FindMore(size)
    \/ PiMore
    \/ Close

Spec == Init /\ [][Next]_vars
-----------------------------------------------------------------------------
(***************************************************************************)
(* What a query says, token by token.                                      *)
(***************************************************************************)
Recognised(t, c) ==
    \/ t.neg
    \/ t.shape = "extension"
    \/ t.shape = "star" /\ c = "dirs"
    \/ t.shape \in Globs /\ IsGlob(t, c) /\ t.shape # "star"
    \/ t.shape = "segment" /\ Segments(c)
    \/ t.shape = "type" /\ Types(c)
    \/ t.shape = "git" /\ GitStatus(c)

\* A lone path, and a name nothing else is looked for in, are texts.
IsFilter(q, n, c) ==
    \/ Recognised(q[n], c) /\ (q[n].shape = "segment" /\ ~q[n].neg => Len(q) > 1)
    \/ /\ q[n].shape = "name" /\ Names(c) /\ \A k \in 1..n-1 : q[k].shape # "name" \/ q[k].neg
       /\ \E k \in DOMAIN q \ {n} : ~Recognised(q[k], c)

Satisfies(i, t, c) ==
    CASE t.shape = "segment" /\ Segments(c) -> t.v \in i.segments
      [] t.shape = "extension" /\ Extensions(c) -> i.ext = t.v
      [] IsGlob(t, c) /\ (t.shape = "extension" => ~Extensions(c)) -> t.v \in i.globs
      [] t.shape = "type" /\ Types(c) -> TRUE
      [] t.shape = "git" /\ GitStatus(c) -> i.status = t.v
      [] t.shape = "name" /\ Names(c) -> i.name = t.v
      [] OTHER -> t.v \in i.words

Accepted(q, c, i) ==
    LET filters == {n \in DOMAIN q : IsFilter(q, n, c)}
        exts == {n \in filters : q[n].shape = "extension" /\ ~q[n].neg /\ Extensions(c)}
    IN  /\ exts # {} => \E n \in exts : Satisfies(i, q[n], c)
        /\ \A n \in filters \ exts : Satisfies(i, q[n], c) # q[n].neg

(***************************************************************************)
(* The items a search keeps are those the query's tokens ask for, each     *)
(* token read on its own and exactly once, as a filter or as a text, in    *)
(* every kind of search: negations are applied once, extensions are        *)
(* alternatives, the match of a glob is that glob's.                       *)
(***************************************************************************)
FilterMeansQuery ==
    \A c \in Searches :
        LET q == asked.query
            p == Parse(q, c)
        IN  /\ ApplyConstraints(p.constraints, Items) = {i \in Items : Accepted(q, c, i)}
            /\ Len(p.constraints) = Cardinality({n \in DOMAIN q : IsFilter(q, n, c)})
            /\ p.text # <<>> => Len(p.text) + Len(p.constraints) = Len(q)

(***************************************************************************)
(* A page is the part of the ranking its offset and limit ask for, ties in *)
(* any order: the k-th result has fewer than its rank above it, and its    *)
(* rank or more not below.  A list that fits the limit comes whole,        *)
(* whatever the offset, except in a mixed search.                          *)
(***************************************************************************)
Rankings == Found(asked.searched, asked.kind)

PagesAreTheRanking ==
    client # "none" =>
        LET total == Len(Rankings)
            whole == asked.kind # "mixed" /\ total <= page.limit /\ page.offset < total
            start == IF whole THEN 0 ELSE page.offset
            items == result.items
        IN  /\ result.total = total
            /\ Len(items) = IF start < total THEN Least(page.limit, total - start) ELSE 0
            /\ \A j, k \in DOMAIN items : items[j].item = items[k].item => j = k
            /\ \A k \in DOMAIN items :
                /\ Cardinality({n \in 1..total : Above(Rankings[n], items[k])}) < start + k
                /\ start + k <= Cardinality({n \in 1..total : ~Above(items[k], Rankings[n])})

(***************************************************************************)
(* Nobody skips a result: once the Neovim picker or an agent of the MCP    *)
(* server has paged past the rank of a result, it has been shown.  Ties    *)
(* may change places between two calls, and the second page of a shortened *)
(* query is one of the query it was made from.  A session that began with  *)
(* a recalled query goes on in the ranking without the boost, of which the *)
(* first page has not been shown.                                          *)
(***************************************************************************)
Alone(n) == \A k \in DOMAIN Rankings : ~Above(Rankings[k], Rankings[n]) /\ ~Above(Rankings[n], Rankings[k]) => k = n
Rank(n) == Cardinality({k \in DOMAIN Rankings : Above(Rankings[k], Rankings[n])}) + 1
Missed == IF asked.kind = asked.first THEN 0 ELSE page.limit

ShownAfter(low) ==
    \A n \in DOMAIN Rankings :
        Alone(n) /\ low < Rank(n) /\ Rank(n) <= page.offset + Len(result.items) => Rankings[n].item \in seen

NoResultSkipped == client \in {"lua", "mcp"} /\ asked.query = asked.searched => ShownAfter(Missed)

(***************************************************************************)
(* The same of sessions that begin with a recalled query: the boost lifts  *)
(* a file to the first page, "No combo boost override for page navigation" *)
(* (picker_ui.lua) ranks the second page without it, and the file that was *)
(* pushed from the end of the first page is on neither.  SearchRecall.cfg. *)
(***************************************************************************)
RecallSkipsNothing == client = "lua" => ShownAfter(0)

(***************************************************************************)
(* packages/pi-fff says "N more matches available, cursor to continue" as  *)
(* long as there are some: an agent that is told of no more has seen all.  *)
(***************************************************************************)
PiSeesAll == client = "pi" /\ ~more => \A n \in DOMAIN Rankings : Rankings[n].item \in seen
=============================================================================
