-------------------------- MODULE MCJobRefinement --------------------------
(* Instances of JobRefinement for TLC.                                     *)
EXTENDS JobRefinement, TLC

(* Job ids, worker processes and API calls are interchangeable.            *)
Symmetry == Permutations(Jobs) \cup Permutations(Workers) \cup Permutations(Requests)
=============================================================================
