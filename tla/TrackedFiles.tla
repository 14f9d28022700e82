---------------------------- MODULE TrackedFiles ----------------------------
(***************************************************************************)
(* What the file table of a picker promises, without base and overflow     *)
(* parts, tombstones or capacities: a set of files that is replaced by a   *)
(* scan and nothing else, that loses files only to a batch of events that  *)
(* says they are gone, and that does not take in a file of a batch only    *)
(* if it asks for a rescan.                                                *)
(***************************************************************************)
CONSTANT Paths

VARIABLES live, walking, batch, listing, rescan
vars == <<live, walking, batch, listing, rescan>>

Batch == [gone : SUBSET Paths, touched : SUBSET Paths]
NoBatch == [gone |-> {}, touched |-> {}]

Init ==
    /\ live = {}
    /\ walking = TRUE
    /\ batch = NoBatch
    /\ listing = {}
    /\ rescan = FALSE

\* A batch arrives, or so much of it that a rescan is asked for instead.
Receive ==
    /\ batch = NoBatch
    /\ batch' \in Batch
    /\ UNCHANGED <<live, walking, listing, rescan>>

AskForRescan ==
    /\ rescan' = TRUE
    /\ UNCHANGED <<live, walking, batch, listing>>

\* What is gone goes first, so that a file that came back is kept.
Apply ==
    /\ \E lost \in SUBSET batch.touched :
        /\ live' = (live \ batch.gone) \cup (batch.touched \ lost)
        /\ lost # {} => rescan'
    /\ rescan => rescan'
    /\ batch' = NoBatch
    /\ UNCHANGED <<walking, listing>>

List ==
    /\ listing = {}
    /\ listing' \in SUBSET Paths
    /\ UNCHANGED <<live, walking, batch, rescan>>

AddListed ==
    /\ \E lost \in SUBSET listing : live' = live \cup (listing \ lost)
    /\ listing' = {}
    /\ UNCHANGED <<walking, batch, rescan>>

Walk ==
    /\ rescan /\ ~walking
    /\ walking' = TRUE
    /\ rescan' = FALSE
    /\ UNCHANGED <<live, batch, listing>>

Replace ==
    /\ walking
    /\ walking' = FALSE
    /\ live' \in SUBSET Paths
    /\ UNCHANGED <<batch, listing, rescan>>

Next == Receive \/ AskForRescan \/ Apply \/ List \/ AddListed \/ Walk \/ Replace

Spec == Init /\ [][Next]_vars
=============================================================================
