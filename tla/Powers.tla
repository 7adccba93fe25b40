-------------------------------- MODULE Powers --------------------------------
(* The powers of two, the sizes of blocks in the buddy system.              *)
EXTENDS Integers

Pow2[k \in Nat] == IF k = 0 THEN 1 ELSE 2 * Pow2[k - 1]
=============================================================================
