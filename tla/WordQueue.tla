------------------------------ MODULE WordQueue ------------------------------
(***************************************************************************)
(* What the runtime system's double ended queue (EHC/src/rts/mm/basic/     *)
(* deque.ch, deque.cc) promises to its users: a first-in first-out         *)
(* sequence of words.  Words are written at the tail in multiples of the   *)
(* element size, any number of them may be read at the head, and a reset   *)
(* forgets everything.  How the words are spread over buffer pages is the  *)
(* business of module Deque, which implements this specification.          *)
(***************************************************************************)
EXTENDS Naturals, Sequences

CONSTANTS Word,     \* the words that are queued
          MaxPush   \* the longest block of words one push writes

VARIABLES content,  \* the words pushed and not yet popped, oldest first
          result    \* the words the last call handed back

vars == <<content, result>>

Init == content = <<>> /\ result = <<>>

\* mm_deque_TailPush: all words of the block, in order, behind the others.
Push ==
  \E n \in 1 .. MaxPush : \E ws \in [1 .. n -> Word] :
    content' = content \o ws /\ result' = <<>>

\* mm_deque_HeadPop: the words handed back, if any, are those that leave.
Pop ==
  \E k \in 0 .. Len(content) :
    /\ result'  = SubSeq(content, 1, k)
    /\ content' = SubSeq(content, k + 1, Len(content))

\* mm_deque_Reset
Reset == content' = <<>> /\ result' = <<>>

Next == Push \/ Pop \/ Reset

Spec == Init /\ [][Next]_vars
=============================================================================
