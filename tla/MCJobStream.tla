----------------------------- MODULE MCJobStream -----------------------------
(* Instances of JobStream for TLC.  No symmetry: the run checks liveness.  *)
EXTENDS JobStream, TLC
=============================================================================
