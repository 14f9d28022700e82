--------------------------- MODULE MCContentCache ---------------------------
(***************************************************************************)
(* Model values of ContentCache for TLC: a file that shrinks when edited   *)
(* and room for one file less than there are.                              *)
(***************************************************************************)
EXTENDS ContentCache

MCSizeOf == [n \in 0..MaxEdits |-> IF n = 0 THEN 2 ELSE 1]
MCLimits == [l \in {"first", "auto"} |-> IF l = "first" THEN [files |-> 2, bytes |-> 4]
                                                       ELSE [files |-> 1, bytes |-> 3]]
=============================================================================
