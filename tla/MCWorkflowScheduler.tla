------------------------ MODULE MCWorkflowScheduler ------------------------
(***************************************************************************)
(* Two plans for TLC.                                                      *)
(*                                                                         *)
(* Diamond: a router r sends its left branch to the tools a and c and the  *)
(* wait node b, its right branch to the wait node w and to c; a, b (over   *)
(* two parallel edges), c and w join in the tool j.                        *)
(*                                                                         *)
(* Roots: two tools that may need an approval, joined by a third one.      *)
(***************************************************************************)
EXTENDS WorkflowScheduler, TLC

CONSTANTS a, b, c, r, w, j, left, right

DiamondNode == {r, a, b, c, w, j}
DiamondEdge == 1..10
DiamondSource == <<r, r, r, r, r, a, b, b, c, w>>
DiamondTarget == <<a, b, c, c, w, j, j, j, j, j>>
DiamondHandle == <<left, left, left, right, right,
                   NoBranch, NoBranch, NoBranch, NoBranch, NoBranch>>
DiamondType == (r :> "router") @@ (a :> "tool") @@ (b :> "wait")
               @@ (c :> "tool") @@ (w :> "wait") @@ (j :> "tool")
DiamondOrder == (r :> 1) @@ (b :> 2) @@ (a :> 3) @@ (c :> 4) @@ (w :> 5) @@ (j :> 6)
DiamondAttempts == (r :> 1) @@ (a :> 2) @@ (b :> 1) @@ (c :> 1) @@ (w :> 1) @@ (j :> 2)

RootsNode == {a, b, j}
RootsEdge == 1..2
RootsSource == <<a, b>>
RootsTarget == <<j, j>>
RootsHandle == <<NoBranch, NoBranch>>
RootsType == [n \in RootsNode |-> "tool"]
RootsOrder == (a :> 1) @@ (b :> 2) @@ (j :> 3)
RootsAttempts == [n \in RootsNode |-> 1]

ASSUME PlansAcyclic == Acyclic
=============================================================================
