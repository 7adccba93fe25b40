----------------------------- MODULE MCWeakPtr ------------------------------
(* Instances of WeakPtr for TLC.                                           *)
EXTENDS WeakPtr, TLC

\* at most one object refers to another one
OnePointer ==
  {g \in [Obj -> SUBSET Obj] :
     \A n, o \in Obj : /\ n \notin g[n]
                       /\ g[n] # {} /\ g[o] # {} => n = o
                       /\ Cardinality(g[n]) <= 1}

Symmetry == Permutations(Obj) \cup Permutations(Wp)
=============================================================================
