----------------------------- MODULE MCChannel -----------------------------
(* Instances of Channel for TLC.  No symmetry: the run checks liveness too. *)
EXTENDS Channel
==============================================================================
