------------------------------ MODULE MCStores ------------------------------
(***************************************************************************)
(* Stores for TLC: the workers are interchangeable.                        *)
(***************************************************************************)
EXTENDS Stores, TLC

MCSymmetry == Permutations(Workers)
=============================================================================
