------------------------ MODULE MCWorkStealingDeque ------------------------
(* Instances of WorkStealingDeque for TLC.                                  *)
EXTENDS WorkStealingDeque, TLC

(* IsPowerOfTwo says what its name says, up to twice the pool's capacity.   *)
ASSUME PowersOfTwo == \A n \in 0..128 : IsPowerOfTwo(n) <=> \E k \in 0..7 : n = 2^k

(* An item is only a pointer: no invariant, no fairness condition and no    *)
(* temporal property names one, so exchanging items maps a fair behaviour   *)
(* that violates a property to another one.  Thieves are named by the       *)
(* liveness property and stay distinct.                                     *)
ItemSymmetry == Permutations(Items)
==============================================================================
