------------------------------- MODULE MCBump -------------------------------
(* Instances of Bump: fragments of 512 words. *)
EXTENDS Bump
=============================================================================
