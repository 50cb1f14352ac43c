---------------------------- MODULE MCJobCreate ----------------------------
(* Instances of JobCreate for TLC.  No symmetry: the run checks liveness.  *)
EXTENDS JobCreate, TLC
=============================================================================
