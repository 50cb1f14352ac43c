----------------------------- MODULE MCApiKeys -----------------------------
(* Instances of ApiKeys, and of Accounts with it, for TLC.                 *)
EXTENDS ApiKeys, TLC

Symmetry == Permutations(Calls) \cup Permutations(Emails) \cup Permutations(Passwords)
=============================================================================
