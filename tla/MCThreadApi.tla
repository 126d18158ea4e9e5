---------------------------- MODULE MCThreadApi ----------------------------
(* Instances of ThreadApi for TLC.                                          *)
EXTENDS ThreadApi

CONSTANTS f1, f2, f3, f4, s1, s2

(* A spawned function, the two chunks of an array, and a reaction.          *)
ApiBatches == {{f1}, {f2, f3}, {f4}}

Calls(ofMain, ofF1, ofF2) ==
    [s \in Scripts |-> CASE s = Main -> ofMain [] s = f1 -> ofF1 [] s = f2 -> ofF2 [] OTHER -> {}]

(* d8 spawns f1 and joins it; f1 awaits a parallel array method, a sleep    *)
(* next to another one of d8, or an intercepted reaction.                   *)
ApiPrograms ==
    {Calls({{f1}}, {{f2, f3}}, {}), Calls({{f1}, s1}, {s2}, {}), Calls({{f1}}, {{f4}}, {})}

(* d8 spawns two functions that both await a sleep.                         *)
AwaitBatches == {{f1}, {f2}}
AwaitPrograms == {Calls({{f1}, {f2}}, {s1}, {s2})}

(* d8 spawns one function and joins it.                                     *)
ExitBatches == {{f1}}
ExitPrograms == {Calls({{f1}}, {}, {})}
==============================================================================
