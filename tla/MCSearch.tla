------------------------------ MODULE MCSearch ------------------------------
(***************************************************************************)
(* Five files and two directories, queries of up to three tokens.          *)
(***************************************************************************)
EXTENDS FuzzySearch

Token(shape, v) == [neg |-> FALSE, shape |-> shape, v |-> v]
Not(t) == [t EXCEPT !.neg = TRUE]

Foo == Token("word", "foo")
Bar == Token("word", "bar")
F == Token("short", "f")
Line == Token("line", "12")
FooLine == Token("located", "foo")
Rs == Token("extension", "rs")
Lua == Token("extension", "lua")
Star == Token("star", "*")
Stars == Token("stars", "*foo*")
Deep == Token("deep", "src/**")
Src == Token("segment", "src")
Main == Token("name", "foo.rs")
Mod == Token("name", "bar.lua")
Type_ == Token("type", "rs")
Modified == Token("git", "modified")

MCPlain == {Foo, Bar, F, Line, FooLine, Rs, Lua, Star, Stars, Deep, Src, Main, Mod, Type_, Modified}
MCTokens == MCPlain \cup {Not(t) : t \in {Foo, Rs, Star, Stars, Deep, Src, Type_, Modified}}

MCQueries ==
    {<<>>} \cup {<<t>> : t \in MCTokens} \cup {<<t, u>> : t \in MCTokens, u \in {Foo, Rs, Main, Src, FooLine, Not(Stars)}}
        \cup {<<Foo, Bar, t>> : t \in {F, Line, Deep, Main, Modified}}
        \cup {<<Rs, Lua, Not(Deep)>>, <<Not(Stars), Deep, Foo>>, <<Not(Deep), Stars, Foo>>,
              <<Main, Mod, Foo>>, <<Src, Main, Rs>>, <<Main, Mod>>, <<Star, Not(Star)>>, <<Rs, Lua>>, <<Foo, Foo, F>>}

File(name, ext, words, segments, globs, frecency, modified, status, deleted) ==
    [name |-> name, ext |-> ext, words |-> words, segments |-> segments,
     globs |-> globs \cup {"*", "*." \o ext}, frecency |-> frecency, bonus |-> 0, modified |-> modified,
     dirty |-> status = "modified", status |-> status, deleted |-> deleted]

F1 == File("foo.rs", "rs", {"foo"}, {"src"}, {"src/**", "*foo*"}, 10, 3, "clean", FALSE)
F2 == File("bar.lua", "lua", {"bar"}, {}, {}, 10, 3, "modified", FALSE)
F3 == File("foobar.rs", "rs", {"foo", "bar"}, {}, {"*foo*"}, 0, 5, "clean", FALSE)
F4 == File("gone.rs", "rs", {"foo"}, {}, {"*foo*"}, 50, 9, "modified", TRUE)
F5 == File("foo.lua", "lua", {"foo"}, {"src"}, {"src/**", "*foo*"}, 0, 2, "modified", FALSE)
F6 == File("new.lua", "lua", {"foo"}, {"src"}, {"src/**", "*foo*"}, 10, 3, "clean", FALSE)
D1 == File("src", "", {}, {}, {}, 10, 0, "clean", FALSE)
D2 == File("foo", "", {"foo"}, {"src"}, {"src/**", "*foo*"}, 3, 0, "clean", FALSE)

MCFileSeq == <<F1, F2, F3, F4, F5, F6>>
MCDirSeq == <<D1, D2>>
MCItems == {F1, F2, F3, F4, F5, F6, D1, D2}

\* Texts are found in the paths that hold the word, better in shorter names.
MCSimilar(t, i) ==
    IF t.shape \in {"word", "name"} /\ (t.v \in i.words \/ t.v = i.name)
    THEN IF i.words = {t.v} THEN 40 ELSE 20
    ELSE 0

\* The last choice for what names bar is F3, for all else F5, the first one often enough to count.
MCCombo(recalled, q, i) ==
    LET bar == Bar \in ToSet(q)
    IN  IF i # (IF bar THEN F3 ELSE F5) THEN 0
        ELSE IF recalled THEN 1000
        ELSE IF bar THEN 300
        ELSE 0
=============================================================================
