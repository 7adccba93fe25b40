------------------------------ MODULE MCIntPrims -----------------------------
(* Words of 6 bits, so that Int has the 16 numbers from -8 to 7 and Int64   *)
(* those from -32 to 31; a C int of 5 bits; Int8 with 3 bits.               *)
EXTENDS IntPrims
=============================================================================
