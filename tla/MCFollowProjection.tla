------------------------- MODULE MCFollowProjection -------------------------
(* Instances of FollowProjection for TLC.                                  *)
EXTENDS FollowProjection, TLC

TwoTasksPerEvent == Events \X {"author", "pair"}

Interchangeable == Permutations(Followers) \cup Permutations(Workers)
=============================================================================
