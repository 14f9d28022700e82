------------------------------ MODULE MCContent ------------------------------
(***************************************************************************)
(* Model values of ContentSearch for TLC: three files a walk may index, of *)
(* which a is alone in a directory that may be removed, and d, at first    *)
(* empty or absent.  "foo" and "bar" have bigrams, "x" has none.           *)
(***************************************************************************)
EXTENDS ContentSearch

CONSTANTS a, b, c, d

MCSorted == [S \in SUBSET Paths |-> SelectSeq(<<a, b, c, d>>, LAMBDA p : p \in S)]
MCGramsOf == [w \in Words |-> CASE w = "foo" -> {"fo", "f-o"} [] w = "bar" -> {"ba"} [] w = "x" -> {}]
Text(head, tail) == [head |-> head, tail |-> tail, nul |-> FALSE]
EmptyText == Text({}, {})
Binary == [head |-> {"foo"}, tail |-> {}, nul |-> TRUE]
MCTexts == {EmptyText, Text({"foo"}, {}), Text({"bar", "x"}, {"foo"}), Binary}
MCFirstDisks == {[p \in Paths |-> CASE p = a -> Text({"foo"}, {})
                                    [] p = b -> Text({"foo"}, {})
                                    [] p = c -> Text({"bar", "x"}, {"foo"})
                                    [] p = d -> t] : t \in {EmptyText, NoFile}}
=============================================================================
