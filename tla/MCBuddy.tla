------------------------------- MODULE MCBuddy -------------------------------
(* Blocks of up to 4 pages.  A first group of 4 or 5 pages at 8 is filled   *)
(* by three blocks; the next one comes before it, and the old descriptions  *)
(* become a third group behind it.  A group of 11 pages or more, which a    *)
(* request of 3 pages gets, fits at 1 and at 8; at 8 it holds an aligned    *)
(* block of 8, which is too large.                                          *)
EXTENDS Buddy
MallocPlaces == {1, 8, 17}
=============================================================================
