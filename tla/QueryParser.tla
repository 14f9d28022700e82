---------------------------- MODULE QueryParser -----------------------------
(***************************************************************************)
(* The query language (fff-query-parser) and the filter of its constraints *)
(* (constraints.rs).  A token is of one of the shapes the parser tells     *)
(* apart, possibly behind a `!'; its value stands for the rest of it.      *)
(***************************************************************************)
EXTENDS Integers, Sequences, FiniteSets, SequencesExt

CONSTANTS
    Tokens,     \* [neg : BOOLEAN, shape : Shapes, v : values]
    Items       \* files and directories: what the constraints tell of them, see ItemsAssumption

Shapes == { "word", "short",            \* foo, f
            "located", "line",          \* foo:12, :12
            "escaped",                  \* \*.rs
            "extension",                \* *.rs
            "star", "stars", "bare", "deep",    \* *, *foo*, fo?, src/**
            "segment",                  \* /src or src/
            "name",                     \* main.rs
            "type", "git", "gitother" } \* type:rs, git:modified, git:?

Globs == {"star", "stars", "bare", "deep"}

ASSUME TokensAssumption == \A t \in Tokens : t.neg \in BOOLEAN /\ t.shape \in Shapes

\* ext, name, and the sets of path segments, of globs and of words the item matches;
\* the similarity to a text token comes with FuzzySearch.  A word that is excluded (!foo)
\* is looked for as it is typed in the path's lower case: one with an upper-case letter
\* is among no item's words, and excludes nothing.
ASSUME ItemsAssumption ==
    \A i \in Items : {"ext", "name", "segments", "globs", "words", "status"} \subseteq DOMAIN i

\* The members of a list at some of its places, in its order.
Pick(s, I) ==
    [k \in 1..Cardinality(I) |-> s[CHOOSE i \in I : Cardinality({j \in I : j <= i}) = k]]

Searches == {"files", "dirs", "mixed", "grep", "aigrep"}
-----------------------------------------------------------------------------
(***************************************************************************)
(* config.rs: what each kind of search recognises.                         *)
(***************************************************************************)
Extensions(c) == c # "dirs"
Segments(c) == c \in {"files", "grep", "aigrep"}
Types(c) == c # "dirs"
GitStatus(c) == c \in {"files", "mixed"}
Locations(c) == c \in {"files", "dirs", "mixed"}
Names(c) == c \in {"files", "aigrep"}

\* is_glob_pattern.  An extension is a wildcard pattern too.
IsGlob(t, c) ==
    CASE c = "grep" -> t.shape = "deep"
      [] c = "aigrep" -> t.shape \in {"deep", "stars"}
      [] OTHER -> t.shape \in Globs \cup {"extension"}

None == [c |-> "none", neg |-> FALSE, t |-> <<>>]
Constraint(kind, neg, t) == [c |-> kind, neg |-> neg, t |-> t]

(***************************************************************************)
(* parse_token without and with its negation.  Only the first ignores a    *)
(* lone star.                                                              *)
(***************************************************************************)
ParseInner(t, c, negated) ==
    IF t.shape = "extension" /\ Extensions(c) THEN Constraint("extension", FALSE, t)
    ELSE IF t.shape = "star" /\ Extensions(c) /\ ~negated THEN None
    ELSE CASE t.shape = "segment" /\ Segments(c) -> Constraint("segment", FALSE, t)
           [] IsGlob(t, c) -> Constraint("glob", FALSE, t)
           [] t.shape = "type" /\ Types(c) -> Constraint("type", FALSE, t)
           [] t.shape = "git" /\ GitStatus(c) -> Constraint("git", FALSE, t)
           [] t.shape = "name" /\ Names(c) -> Constraint("path", FALSE, t)
           [] OTHER -> None

ParseToken(t, c) ==
    LET inner == ParseInner(t, c, t.neg)
    IN  IF ~t.neg THEN inner
        ELSE Constraint(IF inner = None THEN "text" ELSE inner.c, TRUE, t)
-----------------------------------------------------------------------------
(***************************************************************************)
(* QueryParser::parse.  A text part is a token; the location of the last   *)
(* one is taken off it.                                                    *)
(***************************************************************************)
Located(t) == ~t.neg /\ t.shape \in {"located", "line"}
Bare(t) == [t EXCEPT !.shape = IF t.shape = "line" THEN "empty" ELSE "word"]

Result(cs, text, c) ==
    LET loc == Locations(c) /\ text # <<>> /\ Located(Last(text))
        rest == IF loc THEN [text EXCEPT ![Len(text)] = Bare(Last(text))] ELSE text
    IN  [constraints |-> cs,
         text |-> IF \A i \in DOMAIN rest : rest[i].shape = "empty" THEN <<>> ELSE rest,
         location |-> loc]

\* One token: a file name is what to look for, and so is a path.
ParseOne(t, c) ==
    LET p == ParseToken(t, c)
    IN  IF p # None /\ (p.neg \/ p.c \notin {"path", "segment"})
        THEN Result(<<p>>, <<>>, c)
        ELSE Result(<<>>, <<t>>, c)

IsName(p) == p.c = "path" /\ ~p.neg

\* Altered: the only file name stays a filter.
ParseManyKept(q, c) ==
    LET parsed == [i \in DOMAIN q |-> ParseToken(q[i], c)]
        text == {i \in DOMAIN q : parsed[i] = None}
    IN  Result(Pick(parsed, DOMAIN q \ text), Pick(q, text), c)

\* Several: the first file name is a constraint and the others are text, but a query
\* of constraints alone looks for the name.
ParseMany(q, c) ==
    LET parsed == [i \in DOMAIN q |-> ParseToken(q[i], c)]
        names == {i \in DOMAIN q : IsName(parsed[i])}
        first == {i \in names : \A j \in names : i <= j}
        text == {i \in DOMAIN q : parsed[i] = None} \cup (names \ first)
        promoted == IF text = {} THEN first ELSE {}
    IN  Result(Pick(parsed, DOMAIN q \ (text \cup promoted)), Pick(q, text \cup promoted), c)

Parse(q, c) ==
    CASE Len(q) = 0 -> Result(<<>>, <<>>, c)
      [] Len(q) = 1 -> ParseOne(q[1], c)
      [] OTHER -> ParseMany(q, c)
-----------------------------------------------------------------------------
(***************************************************************************)
(* apply_constraints.  Extensions are alternatives, all else must hold.    *)
(* The globs are matched beforehand, in order, and found again by counting *)
(* the globs evaluated for the item so far.                                *)
(***************************************************************************)
IsExtension(p) == p.c = "extension" /\ ~p.neg
Others(cs) == Pick(cs, {n \in DOMAIN cs : ~IsExtension(cs[n])})
GlobsOf(cs) == Pick(cs, {n \in DOMAIN cs : cs[n].c = "glob"})

\* Altered: the negation is applied here too.
CollectGlobsNegated(cs) ==
    LET globs == GlobsOf(cs)
    IN  [k \in DOMAIN globs |-> {i \in Items : (globs[k].t.v \in i.globs) # globs[k].neg}]

\* Negation is left to the evaluation.
CollectGlobs(cs) ==
    LET globs == GlobsOf(cs)
    IN  [k \in DOMAIN globs |-> {i \in Items : globs[k].t.v \in i.globs}]

GlobIndex(cs, n) == Cardinality({k \in 1..n : cs[k].c = "glob"})

\* item_matches_constraint_at_index; a type is not looked at.
MatchesAt(i, cs, n, globs) ==
    LET p == cs[n]
        plain == CASE p.c = "glob" -> GlobIndex(cs, n) > Len(globs) \/ i \in globs[GlobIndex(cs, n)]
                   [] p.c = "extension" -> i.ext = p.t.v
                   [] p.c = "segment" -> p.t.v \in i.segments
                   [] p.c = "path" -> i.name = p.t.v
                   [] p.c = "git" -> i.status = p.t.v
                   [] p.c = "text" -> p.t.v \in i.words
                   [] OTHER -> TRUE
    IN  plain # p.neg

ApplyConstraints(cs, items) ==
    LET others == Others(cs)
        globs == CollectGlobs(others)
        exts == {cs[n].t.v : n \in {k \in DOMAIN cs : IsExtension(cs[k])}}
    IN  {i \in items : /\ exts # {} => i.ext \in exts
                       /\ \A n \in DOMAIN others : MatchesAt(i, others, n, globs)}
=============================================================================
