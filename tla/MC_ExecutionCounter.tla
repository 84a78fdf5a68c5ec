-------------------------- MODULE MC_ExecutionCounter --------------------------
(* Instance of ExecutionCounter for TLC: four calls, three for one key. *)
EXTENDS ExecutionCounter, TLC

CONSTANTS c1, c2, c3, c4, k1, k2

MCKeyOf == c1 :> k1 @@ c2 :> k1 @@ c3 :> k1 @@ c4 :> k2
=============================================================================
