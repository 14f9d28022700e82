---------------------------- MODULE MCBigramQuery ----------------------------
(***************************************************************************)
(* Model values of BigramQuery for TLC: two letters and a tab.             *)
(***************************************************************************)
EXTENDS BigramQuery

MCLiterals == {<<"a">>, <<"a", "b", "b">>, <<"t">>}
MCClasses == {<<{"a", "b"}>>, <<{"t"}, {"a", "b"}>>, <<{"b", "t"}>>, <<{"b"}, {"a", "t"}>>, <<{"b"}, {"b"}>>}
MCCounts == {<<0, 1>>, <<1, Unbounded>>, <<2, 3>>}
=============================================================================
