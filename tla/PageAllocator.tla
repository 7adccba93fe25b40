---------------------------- MODULE PageAllocator ----------------------------
(***************************************************************************)
(* What the interface MM_Pages of EHC/src/rts/mm/pages.ch promises: a      *)
(* caller that asks for a number of pages is given a block of that many,   *)
(* aligned on the power of two that holds it, and disjoint from every      *)
(* block that has not been given back.                                     *)
(***************************************************************************)
EXTENDS Integers, Powers

CONSTANT Page      \* numbers of the pages of the address space

VARIABLES blocks,  \* the blocks in use, as [page, pages]
          want     \* the number of pages asked for, 0 between calls

PagesOf(b) == b.page .. b.page + b.pages - 1

\* The least power of two that is at least n
Alignment(n) == CHOOSE a \in {Pow2[k] : k \in 0..n} : n <= a /\ a < 2 * n

Init == blocks = {} /\ want = 0

Ask ==
  /\ want = 0
  /\ want' \in Nat \ {0}
  /\ UNCHANGED blocks

\* allocPagesLog2 and allocPages
Grant == \E p \in Page :
  /\ want # 0
  /\ p % Alignment(want) = 0
  /\ \A b \in blocks : PagesOf(b) \cap PagesOf([page |-> p, pages |-> want]) = {}
  /\ blocks' = blocks \cup {[page |-> p, pages |-> want]}
  /\ want' = 0

\* deallocPages
Release == \E b \in blocks :
  /\ want = 0
  /\ blocks' = blocks \ {b}
  /\ UNCHANGED want

Next == Ask \/ Grant \/ Release

Spec == Init /\ [][Next]_<<blocks, want>>
=============================================================================
