---------------------------- MODULE MCHashTable ----------------------------
(* Four names over two bins, three of them in the same bin, so that chains *)
(* grow, are searched to the end and lose their head, middle and tail.     *)
EXTENDS HashTable, TLC

CONSTANTS k1, k2, k3, k4, v1, v2, v3

(* Addresses are interchangeable. *)
MCSymmetry == Permutations(Values)

MCHash == k1 :> 0 @@ k2 :> 0 @@ k3 :> 0 @@ k4 :> 1
=============================================================================
