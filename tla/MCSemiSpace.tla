----------------------------- MODULE MCSemiSpace -----------------------------
(* Instances of SemiSpace.  Root slots are interchangeable. *)
EXTENDS SemiSpace, TLC

RootSymmetry == Permutations(Root)
=============================================================================
