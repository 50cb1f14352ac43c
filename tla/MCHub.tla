------------------------------- MODULE MCHub -------------------------------
(* Instances of Hub for TLC.                                               *)
EXTENDS Hub, TLC

CONSTANTS u1, u2, c1, c2

OneUser == c1 :> u1 @@ c2 :> u1
=============================================================================
