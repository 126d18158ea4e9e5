---------------------------- MODULE MCMutexState ----------------------------
(* The instance of MutexState for TLC.  No symmetry: the run checks         *)
(* liveness too.                                                            *)
EXTENDS MutexState
==============================================================================
