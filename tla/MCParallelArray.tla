-------------------------- MODULE MCParallelArray --------------------------
(* Instance of ParallelArray for TLC.                                       *)
EXTENDS ParallelArray

CONSTANTS plain, dropped, throws1, throws2, zero

(* Every array of up to four elements of four kinds, of five elements with  *)
(* different errors, and longer ones.                                       *)
SmallArrays ==
    UNION {[1..n -> {plain, dropped, throws1, throws2}] : n \in 0..4}
      \cup [1..5 -> {plain, throws1, throws2}]
      \cup {[j \in 1..n |-> IF j % 3 = 0 THEN dropped ELSE plain] : n \in 6..15}

(* A neutral initialValue, and another one.                                 *)
SmallInitials == {<<>>, <<zero>>}
==============================================================================
