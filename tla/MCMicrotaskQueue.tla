-------------------------- MODULE MCMicrotaskQueue --------------------------
(* Instance of MicrotaskQueue for TLC.                                      *)
EXTENDS MicrotaskQueue, Bitwise

(* "Keep the capacity of |ring_buffer_| power of 2, so that the JIT         *)
(* implementation can calculate the modulo easily": with capacity_ - 1 as a *)
(* mask the builtins and the C++ code find the same slot, after any growth  *)
(* and shrinking.                                                           *)
MaskIsModulo ==
    capacity_ > 0 => \A i \in 0..(2 * capacity_ - 1) : i & (capacity_ - 1) = i % capacity_
==============================================================================
