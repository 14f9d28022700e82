----------------------------- MODULE MCSidecar ------------------------------
(***************************************************************************)
(* Sidecar for TLC.                                                        *)
(***************************************************************************)
EXTENDS Sidecar
=============================================================================
