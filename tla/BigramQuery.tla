----------------------------- MODULE BigramQuery -----------------------------
(***************************************************************************)
(* How a regular expression and a fuzzy needle become a query over bigrams *)
(* (bigram_query.rs): the prefilter that decides which files are read.     *)
(*                                                                         *)
(* An expression is grown one operator at a time.  It carries its language *)
(* (the strings of at most MaxLen bytes, the reference) and what decompose *)
(* computes: the query, the bytes it may begin and end with, and whether   *)
(* it may be empty.  A part of a concatenation is a group, which the       *)
(* parser does not flatten.  Bytes are lower case; an anchor matches the   *)
(* empty string wherever it stands.                                        *)
(***************************************************************************)
EXTENDS Naturals, FiniteSets, Sequences, FiniteSetsExt

CONSTANTS
    Bytes, Printable,   \* bytes, and those within 32..126
    Literals, Classes,  \* leaves of an expression; a class is the sequence of its ranges
    Counts,             \* <<min, max>> of a repetition; max may be Unbounded
    MaxClass,           \* MAX_CLASS_EXPAND
    MaxLen,             \* BOUND: length of the strings of a language
    MaxSteps,           \* BOUND: operators of an expression
    MaxNeedle,          \* BOUND: length of a fuzzy needle
    Probes              \* num_probes

Unbounded == 99

ASSUME QueryAssumption ==
    /\ Printable \subseteq Bytes
    /\ Literals \subseteq UNION {[1..n -> Bytes] : n \in 1..MaxLen}
    /\ Classes \subseteq Seq(SUBSET Bytes)
    /\ Counts \subseteq Nat \X Nat
    /\ MaxClass \in Nat /\ MaxNeedle \in Nat /\ Probes \in Nat
    /\ MaxSteps \in Nat /\ MaxLen \in 1..(Unbounded - 1)

Strings == UNION {[1..n -> Bytes] : n \in 0..MaxLen}
Max2(x, y) == IF x >= y THEN x ELSE y
-----------------------------------------------------------------------------
(***************************************************************************)
(* Queries.  A key is two printable bytes, with its kind: next to each     *)
(* other, or one apart.                                                    *)
(***************************************************************************)
Any == [op |-> "any"]
Key(kind, x, y) == [op |-> kind, key |-> <<x, y>>]
IsKey(x, y) == x \in Printable /\ y \in Printable
AllKeys == {Key(kind, x, y) : kind \in {"consec", "skip"}, x \in Printable, y \in Printable}

\* Trees of so many operators, one below the other; decompose nests one more in
\* each of its steps.
Atoms == {Any} \cup AllKeys
Over(Q) == [op : {"and", "or"}, args : (SUBSET Q) \ {{}}]
Tree(depth) ==
    LET tree[n \in 0..depth] == IF n = 0 THEN Atoms ELSE tree[n - 1] \cup Over(tree[n - 1])
    IN  tree[depth]
Deepest == MaxSteps + 2

\* simplify_and, simplify_or: nested nodes of the same kind are flattened.
Simplify(op, children) ==
    LET flat == UNION {IF q.op = op THEN q.args ELSE {q} : q \in children} IN
    IF flat = {} THEN Any
    ELSE IF \E q \in flat : flat = {q} THEN CHOOSE q \in flat : TRUE
    ELSE [op |-> op, args |-> flat]
And(children) == Simplify("and", children \ {Any})
Or(children) == IF Any \in children THEN Any ELSE Simplify("or", children)

\* The keys a file of content s has, as the builder records them.
KeysIn(s) ==
    {Key("consec", s[i], s[i + 1]) : i \in {j \in 1..(Len(s) - 1) : IsKey(s[j], s[j + 1])}}
    \cup
    {Key("skip", s[i], s[i + 2]) : i \in {j \in 1..(Len(s) - 2) : IsKey(s[j], s[j + 2])}}

\* evaluate, for a file with these keys: the bit of the file, from the bits of
\* a query's operands, or "none".  A key without a column filters nothing, alone
\* or in a disjunction.
Bit(q, bit, tracked, keys) ==
    CASE q.op = "any" -> "none"
      [] q.op \in {"consec", "skip"} ->
            IF q \notin tracked THEN "none" ELSE IF q \in keys THEN "in" ELSE "out"
      [] q.op = "and" ->
            IF \A c \in q.args : bit[c] = "none" THEN "none"
            ELSE IF \E c \in q.args : bit[c] = "out" THEN "out" ELSE "in"
      [] q.op = "or" ->
            IF \E c \in q.args : bit[c] = "none" THEN "none"
            ELSE IF \E c \in q.args : bit[c] = "in" THEN "in" ELSE "out"
Evaluate(query, tracked, keys) ==
    LET bit[q \in Tree(Deepest)] == Bit(q, bit, tracked, keys) IN bit[query]

Passes(q, tracked, keys) == Evaluate(q, tracked, keys) # "out"
-----------------------------------------------------------------------------
(***************************************************************************)
(* Sets of bytes, bounded by MaxClass; Unknown is None.                    *)
(***************************************************************************)
Unknown == {"unknown"}
Known(B) == IF B = {} \/ Cardinality(B) > MaxClass THEN Unknown ELSE B

\* merge_byte_sets: of an alternation, all must be known.
Merge(Sets) == IF Unknown \in Sets THEN Unknown ELSE Known(UNION Sets)

\* expand_class, of bytes, which is what the parser makes of a pattern that does
\* not turn Unicode on: range by range, the bytes that can be printed.  A range is
\* too much if it has more bytes than the room that those so far leave; what
\* cannot be printed takes no room and is left out.
Listed(class, n) == Printable \cap UNION {class[i] : i \in 1..n}
ExpandClass(class) ==
    IF \E n \in DOMAIN class : Cardinality(Listed(class, n - 1)) + Cardinality(class[n]) > MaxClass
    THEN Unknown
    ELSE Known(Listed(class, Len(class)))

CrossAll(kind, last, first) ==
    IF last = Unknown \/ first = Unknown THEN Any
    ELSE LET pairs == {p \in last \X first : IsKey(p[1], p[2])} IN
         IF pairs = {} THEN Any ELSE And({Key(kind, p[1], p[2]) : p \in pairs})

\* cross_product: one of the pairs that may meet.
Cross(kind, last, first) ==
    IF last = Unknown \/ first = Unknown THEN Any
    ELSE LET pairs == {p \in last \X first : IsKey(p[1], p[2])} IN
         IF pairs = {} THEN Any ELSE Or({Key(kind, p[1], p[2]) : p \in pairs})

\* What collect_first and collect_last meet of the parts, in their order; they
\* end with the first part that may not be empty.
End(bytes, p) == [bytes |-> bytes, empty |-> p.empty, max |-> p.max]
Firsts(parts) == [i \in DOMAIN parts |-> End(parts[i].first, parts[i])]
Lasts(parts) ==
    [i \in DOMAIN parts |-> End(parts[Len(parts) + 1 - i].last, parts[Len(parts) + 1 - i])]
Leading(ends) == {i \in DOMAIN ends : \A j \in 1..(i - 1) : ends[j].empty}

CollectSome(ends) ==
    Known(UNION {ends[i].bytes : i \in {j \in Leading(ends) : ends[j].bytes # Unknown}})

Collect(ends) ==
    IF \E i \in Leading(ends) : ends[i].bytes = Unknown /\ ~ends[i].empty THEN Unknown
    ELSE Known(UNION {ends[i].bytes : i \in {j \in Leading(ends) : ends[j].bytes # Unknown}})
-----------------------------------------------------------------------------
(***************************************************************************)
(* decompose, one operator for each kind of node.                          *)
(*                                                                         *)
(* "loose" is a ghost: the expression has a shape of which decompose asks  *)
(* for too much.  Those are a class of which some bytes cannot be printed  *)
(* and the others are known (whatever its size: those are not counted); a  *)
(* part that may be empty and of which it does not know the bytes, at an   *)
(* end of a group; and a part that may be empty, repeated.                 *)
(***************************************************************************)
EmptyNode ==
    [lang |-> {<< >>}, query |-> Any, first |-> Unknown, last |-> Unknown,
     empty |-> TRUE, min |-> 0, max |-> 0, loose |-> FALSE]

ByteOrNone(b) == IF b \in Printable THEN {b} ELSE Unknown
Literal(s) ==
    [lang |-> {s}, query |-> And(KeysIn(s)),
     first |-> ByteOrNone(s[1]), last |-> ByteOrNone(s[Len(s)]),
     empty |-> FALSE, min |-> Len(s), max |-> Len(s), loose |-> FALSE]

Members(class) == UNION {class[i] : i \in DOMAIN class}
Class(class) ==
    [lang |-> {<<b>> : b \in Members(class)}, query |-> Any,
     first |-> ExpandClass(class), last |-> ExpandClass(class),
     empty |-> FALSE, min |-> 1, max |-> 1,
     loose |-> ExpandClass(class) # Unknown /\ ~(Members(class) \subseteq Printable)]

Join(A, B) == {st \in {s \o t : s \in A, t \in B} : Len(st) <= MaxLen}
Chain(langs) ==
    LET words[n \in 0..Len(langs)] == IF n = 0 THEN {<< >>} ELSE Join(words[n - 1], langs[n])
    IN  words[Len(langs)]
Sum(numbers) ==
    LET sum[n \in 0..Len(numbers)] == IF n = 0 THEN 0 ELSE sum[n - 1] + numbers[n]
    IN  sum[Len(numbers)]
AtMost(m) == IF m > MaxLen THEN Unbounded ELSE m

Hides(ends) ==
    \E i \in Leading(ends) : ends[i].bytes = Unknown /\ ends[i].empty /\ ends[i].max > 0

Concat(parts) ==
    LET Adjacent == {Cross("consec", parts[i].last, parts[i + 1].first) :
                        i \in {j \in 1..(Len(parts) - 1) :
                                    ~parts[j].empty /\ ~parts[j + 1].empty}}
        \* across a part that is one byte wide
        Apart == {Cross("skip", parts[i].last, parts[i + 2].first) :
                        i \in {j \in 1..(Len(parts) - 2) :
                                    /\ parts[j + 1].min = 1 /\ parts[j + 1].max = 1
                                    /\ ~parts[j].empty /\ ~parts[j + 2].empty}}
    IN [lang |-> Chain([i \in DOMAIN parts |-> parts[i].lang]),
        query |-> And({parts[i].query : i \in DOMAIN parts} \cup Adjacent \cup Apart),
        first |-> Collect(Firsts(parts)), last |-> Collect(Lasts(parts)),
        empty |-> \A i \in DOMAIN parts : parts[i].empty,
        min |-> AtMost(Sum([i \in DOMAIN parts |-> parts[i].min])),
        max |-> AtMost(Sum([i \in DOMAIN parts |-> parts[i].max])),
        loose |-> \/ \E i \in DOMAIN parts : parts[i].loose
                  \/ Hides(Firsts(parts)) \/ Hides(Lasts(parts))]

Alternation(x, y) ==
    [lang |-> x.lang \cup y.lang, query |-> Or({x.query, y.query}),
     first |-> Merge({x.first, y.first}), last |-> Merge({x.last, y.last}),
     empty |-> x.empty \/ y.empty,
     min |-> Min({x.min, y.min}), max |-> Max({x.max, y.max}),
     loose |-> x.loose \/ y.loose]

Repetition(x, count) ==
    LET min == count[1]
        max == count[2]
        upto == IF max = Unbounded THEN Max2(MaxLen, min) ELSE max
    IN [lang |-> UNION {Chain([i \in 1..n |-> x.lang]) : n \in min..upto},
        query |-> IF min = 0 THEN Any
                  ELSE And({x.query} \cup
                           (IF min >= 2 THEN {Cross("consec", x.last, x.first)} ELSE {})),
        first |-> x.first, last |-> x.last,
        empty |-> min = 0 \/ x.empty,
        min |-> AtMost(min * x.min),
        max |-> IF x.max = 0 THEN 0 ELSE IF max = Unbounded THEN Unbounded ELSE AtMost(max * x.max),
        loose |-> x.loose \/ (min >= 2 /\ x.empty)]
-----------------------------------------------------------------------------
(***************************************************************************)
(* fuzzy_to_bigram_query: most of a few evenly spaced bigrams.             *)
(***************************************************************************)
MaxTypos(typed) == Min({Len(typed) \div 3, 2})

RequiredMore(n, typos) == n - typos + 1
Required(n, typos) == n - typos

\* Where the needle has a bigram with a key, and the keys in their order: a bigram
\* that cannot be printed is dropped before anything is counted.
Places(typed) == {p \in 1..(Len(typed) - 1) : IsKey(typed[p], typed[p + 1])}
Nth(S, k) == CHOOSE p \in S : Cardinality({q \in S : q <= p}) = k
KeysTyped(typed) ==
    [k \in 1..Cardinality(Places(typed)) |->
        LET p == Nth(Places(typed), k) IN Key("consec", typed[p], typed[p + 1])]

FuzzyQuery(typed) ==
    LET keys == KeysTyped(typed)
        n == Min({Probes, Len(keys)})
        probe == IF n = Len(keys) THEN keys
                 ELSE [i \in 1..n |-> keys[1 + ((i - 1) * (Len(keys) - 1)) \div (n - 1)]]
        typos == MaxTypos(typed)
        All(P) == {probe[i] : i \in P}
    IN IF Places(typed) = {} THEN Any
       ELSE IF typos = 0 THEN And({keys[i] : i \in DOMAIN keys})
       ELSE IF n <= typos THEN Or({keys[i] : i \in DOMAIN keys})
       ELSE Or({And(All(P)) : P \in kSubset(Required(n, typos), 1..n)})

\* A text in which one letter of the needle is replaced by another one.
Mistyped(typed, place) == [typed EXCEPT ![place] = "other"]

\* The bigrams with a key that the letter is in.
Spoiled(typed, place) == Places(typed) \cap {place - 1, place}
-----------------------------------------------------------------------------
VARIABLES
    node, steps,        \* the expression
    needle              \* the fuzzy needle as it is typed

queryVars == <<node, steps, needle>>

Leaves == {EmptyNode} \cup {Literal(s) : s \in Literals} \cup {Class(class) : class \in Classes}
Beside == {<< >>} \cup {<<l>> : l \in Leaves}

Grow ==
    /\ needle = << >> /\ steps < MaxSteps
    /\ steps' = steps + 1 /\ UNCHANGED needle

Group ==
    /\ Grow
    /\ \E l, r \in Beside : l \o r # << >> /\ node' = Concat(l \o <<node>> \o r)
Alternate == Grow /\ \E l \in Leaves : node' = Alternation(node, l)
Repeat == Grow /\ \E c \in Counts : node' = Repetition(node, c)

Type ==
    /\ node = EmptyNode /\ steps = 0 /\ Len(needle) < MaxNeedle
    /\ \E b \in Bytes : needle' = Append(needle, b)
    /\ UNCHANGED <<node, steps>>

QueryInit == node \in Leaves /\ steps = 0 /\ needle = << >>
QueryNext == Group \/ Alternate \/ Repeat \/ Type
QuerySpec == QueryInit /\ [][QueryNext]_queryVars

QueryTypeOK ==
    /\ node.lang \subseteq Strings /\ node.empty \in BOOLEAN /\ node.loose \in BOOLEAN
    /\ node.first \in SUBSET Printable \cup {Unknown}
    /\ node.last \in SUBSET Printable \cup {Unknown}
    /\ steps \in 0..MaxSteps /\ Len(needle) <= MaxNeedle
-----------------------------------------------------------------------------
(* What decompose promises of a query, for the shapes that are not loose:  *)
(* a file that holds any match has all it asks for, whichever keys have a  *)
(* column (bigram_query.rs 64-140, 269-333, 399-473).                      *)
MatchesPass ==
    ~node.loose =>
        \A s \in node.lang : \A k \in AllKeys \cup {Any} :
            Passes(node.query, AllKeys \ {k}, KeysIn(s))

(* What the operators rely on of one another: the bytes a part may begin   *)
(* and end with are all of them, and it is empty only if it says so        *)
(* (bigram_query.rs 142-154, 567-648).                                     *)
EndsAreKnown ==
    /\ << >> \in node.lang => node.empty
    /\ ~node.loose => \A s \in node.lang \ {<< >>} :
            /\ node.first # Unknown => s[1] \in node.first
            /\ node.last # Unknown => s[Len(s)] \in node.last

(* A needle for which typos are allowed is found where any one of its      *)
(* letters is wrong, however few of its bigrams are probed, unless the     *)
(* letter is in all the bigrams that can be printed, or in more of them    *)
(* than typos are allowed: in the middle of three to five letters, for     *)
(* which one is (bigram_query.rs 165-230).                                 *)
OneTypoPasses ==
    MaxTypos(needle) > 0 =>
        \A i \in DOMAIN needle :
            /\ Cardinality(Spoiled(needle, i)) <= MaxTypos(needle)
            /\ Spoiled(needle, i) # Places(needle) \/ Places(needle) = {}
            => Passes(FuzzyQuery(needle), AllKeys, KeysIn(Mistyped(needle, i)))

(* "max_typos = min(len/3,2) every typo destroys at most 2 consecutive     *)
(* bigrams So out of N bigrams at least N - 2 * max_typos have to present" *)
(* (bigram_query.rs:166): one typo of those allowed never hides a file.    *)
EveryTypoPasses ==
    MaxTypos(needle) > 0 =>
        \A i \in DOMAIN needle :
            Passes(FuzzyQuery(needle), AllKeys, KeysIn(Mistyped(needle, i)))

(* "walks the HIR to extract guaranteed bigram keys" (bigram_query.rs:3),  *)
(* with no exception.                                                      *)
KeysAreGuaranteed == \A s \in node.lang : Passes(node.query, AllKeys, KeysIn(s))
=============================================================================
