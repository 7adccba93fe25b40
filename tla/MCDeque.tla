------------------------------- MODULE MCDeque -------------------------------
(* A deque with pages of five words, one word more than two elements of two *)
(* words: the last word of a page stays unused, as in the real pages of     *)
(* 1021 words.  Two pages fill within MaxWords, so every page transition    *)
(* happens.                                                                 *)
EXTENDS Deque
=============================================================================
