-------------------------- MODULE MCToolGovernance --------------------------
(***************************************************************************)
(* Instances of ToolGovernance for TLC: two calls race on one key, with    *)
(* the same input or with different ones, after any earlier failure.       *)
(***************************************************************************)
EXTENDS ToolGovernance, TLC

Interchangeable == Permutations(Callers) \cup Permutations(Digests)
=============================================================================
