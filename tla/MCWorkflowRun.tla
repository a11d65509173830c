--------------------------- MODULE MCWorkflowRun ---------------------------
(***************************************************************************)
(* Instances of WorkflowRun for TLC.  Drivers are interchangeable model    *)
(* values: the safety run explores them up to permutation, the recovery    *)
(* run, which checks liveness, does not.                                   *)
(***************************************************************************)
EXTENDS WorkflowRun, TLC

DriverSymmetry == Permutations(Driver)
=============================================================================
