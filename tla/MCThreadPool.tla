---------------------------- MODULE MCThreadPool ----------------------------
(* Instances of ThreadPool for TLC.  The configurations check liveness, so  *)
(* none of them declares a symmetry.                                        *)
EXTENDS ThreadPool
==============================================================================
