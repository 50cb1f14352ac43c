--------------------------- MODULE MCLiveUpdates ---------------------------
(* Instances of LiveUpdates for TLC.                                       *)
EXTENDS LiveUpdates, TLC
=============================================================================
