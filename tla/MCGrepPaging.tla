---------------------------- MODULE MCGrepPaging ----------------------------
(***************************************************************************)
(* GrepPaging for TLC.                                                     *)
(***************************************************************************)
EXTENDS GrepPaging
=============================================================================
