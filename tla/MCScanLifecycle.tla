--------------------------- MODULE MCScanLifecycle ---------------------------
(***************************************************************************)
(* Model values of ScanLifecycle for TLC.  Both hosts build pickers with   *)
(* warmup and content indexing on (FullIndex); the C API also builds bare  *)
(* ones (Bare), and may fix the cache budget.                              *)
(***************************************************************************)
EXTENDS ScanLifecycle, TLC

FullIndex == [warmup |-> TRUE, content_indexing |-> TRUE, watch |-> TRUE,
              explicit_budget |-> FALSE]
Bare == [warmup |-> FALSE, content_indexing |-> FALSE, watch |-> FALSE,
         explicit_budget |-> TRUE]
OneConfig == {FullIndex}
PickerSymmetry == Permutations(Pickers)
BothConfigs == {FullIndex, Bare}

TwoJobs == 1..2
ThreeJobs == 1..3
FourJobs == 1..4
=============================================================================
