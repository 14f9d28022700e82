------------------------------ MODULE MCWatch -------------------------------
(***************************************************************************)
(* Watch for TLC: a directory in another, and a file in each.              *)
(***************************************************************************)
EXTENDS Watch

CONSTANTS a, b, x, y

MCParent == (a :> Root) @@ (b :> a) @@ (x :> a) @@ (y :> b)
=============================================================================
