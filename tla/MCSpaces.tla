------------------------------- MODULE MCSpaces -------------------------------
(* Small classes (1, 2, 4 and 6 words on pages of 8), two spaces, frames of *)
(* two pages, arrays that start with one slot.                             *)
EXTENDS Spaces

MCSizes == {3, 5, 9}
=============================================================================
