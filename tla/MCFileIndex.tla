----------------------------- MODULE MCFileIndex -----------------------------
(***************************************************************************)
(* Model values of FileIndex for TLC: directory d1 holds the file a, and b *)
(* is deeper below it.                                                     *)
(***************************************************************************)
EXTENDS FileIndex

CONSTANTS a, b, d1

MCUnder == [d \in Dirs |-> {a, b}]
MCFlat == [d \in Dirs |-> {a}]
=============================================================================
