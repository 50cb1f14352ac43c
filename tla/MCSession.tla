----------------------------- MODULE MCSession -----------------------------
(* Instances of Session for TLC.                                           *)
EXTENDS Session, TLC

Symmetry == Permutations(Tabs) \cup Permutations(Users) \cup Permutations(Requests)
=============================================================================
