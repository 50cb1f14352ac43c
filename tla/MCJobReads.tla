----------------------------- MODULE MCJobReads -----------------------------
(* Instances of JobReads for TLC.                                          *)
EXTENDS JobReads, TLC

(* Worker processes and API calls are interchangeable.                     *)
Symmetry == Permutations(Workers) \cup Permutations(Requests)
=============================================================================
