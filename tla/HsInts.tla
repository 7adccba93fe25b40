------------------------------- MODULE HsInts --------------------------------
(* What the integer types promise a Haskell program: arithmetic modulo the  *)
(* size of the type, division as the class Integral states it, and the      *)
(* bitwise operations of Data.Bits on the two's complement of a number.     *)
(* A program computes on a stack of at most two numbers of one type.        *)
EXTENDS Integers, Sequences, FiniteSetsExt

CONSTANTS
  Types,        \* the integer types
  Bits,         \* Bits[t]: the bits of a number of type t
  Signed,       \* the signed types
  Basic         \* the type conversions go through (Int)

VARIABLES ty, numbers

Low(t)    == IF t \in Signed THEN -(2^(Bits[t] - 1)) ELSE 0
Values(t) == Low(t) .. Low(t) + 2^Bits[t] - 1
Wrap(t, v) == ((v - Low(t)) % 2^Bits[t]) + Low(t)

Abs(x)     == IF x < 0 THEN -x ELSE x
Floor(x, y) == IF y > 0 THEN x \div y ELSE (-x) \div (-y)
Trunc(x, y) == IF (x < 0) = (y < 0) THEN Abs(x) \div Abs(y)
                                    ELSE -(Abs(x) \div Abs(y))

\* the bits of a number, as the set of the places of its ones
Ones(t, v)  == {i \in 0 .. Bits[t] - 1 : (v \div 2^i) % 2 = 1}
Number(t, S) == Wrap(t, SumSet({2^i : i \in S}))
Rotated(t, S, k) == {(i + k) % Bits[t] : i \in S}

(* The results a binary operation may have. Known disagreements, which the  *)
(* README describes, are left open: div when the exact quotient is negative *)
(* and whole, or lies between -1 and 0.                                     *)
DivDiffers(x, y) ==
  (x < 0) # (y < 0) /\ x # 0 /\ (x % Abs(y) = 0 \/ Trunc(x, y) = 0)

Results(t, o, x, y) ==
  CASE o = "+"    -> {Wrap(t, x + y)}
    [] o = "-"    -> {Wrap(t, x - y)}
    [] o = "*"    -> {Wrap(t, x * y)}
    [] o = "quot" -> {Wrap(t, Trunc(x, y))}
    [] o = "rem"  -> {x - y * Trunc(x, y)}
    [] o = "mod"  -> {x - y * Floor(x, y)}
    [] o = "div"  -> IF DivDiffers(x, y) THEN Values(t)
                                         ELSE {Wrap(t, Floor(x, y))}
    [] o = "and"  -> {Number(t, Ones(t, x) \cap Ones(t, y))}
    [] o = "or"   -> {Number(t, Ones(t, x) \cup Ones(t, y))}
    [] o = "xor"  -> {Number(t, (Ones(t, x) \cup Ones(t, y))
                                 \ (Ones(t, x) \cap Ones(t, y)))}

(* Rotating a negative number is left open for every type but Int.          *)
Shifted(t, o, x, k) ==
  CASE o = "shiftL" -> {Wrap(t, x * 2^k)}
    [] o = "shiftR" -> {x \div 2^k}
    [] x < 0 /\ t # Basic -> Values(t)
    [] o = "rotateL" -> {Number(t, Rotated(t, Ones(t, x), k))}
    [] o = "rotateR" -> {Number(t, Rotated(t, Ones(t, x), Bits[t] - k))}
------------------------------------------------------------------------------
Init == ty \in Types /\ \E v \in Values(ty) : numbers = <<v>>

Push == Len(numbers) = 1 /\ ty' = ty
        /\ \E v \in Values(ty) : numbers' = Append(numbers, v)

Divisions == {"quot", "rem", "div", "mod"}

\* the second number is on the stack, or is part of the instruction
Seconds(o) == (IF Len(numbers) = 2 THEN {numbers[2]} ELSE Values(ty))
              \ (IF o \in Divisions THEN {0} ELSE {})

Operate(o) ==
  /\ ty' = ty
  /\ \E v \in Seconds(o) :
       \E r \in Results(ty, o, numbers[1], v) : numbers' = <<r>>

Both(o, p) ==
  /\ Len(numbers) = 2 /\ numbers[2] # 0 /\ ty' = ty
  /\ \E q \in Results(ty, o, numbers[1], numbers[2]),
        r \in Results(ty, p, numbers[1], numbers[2]) : numbers' = <<q, r>>

ShiftBy(o, k) ==
  /\ Len(numbers) = 1 /\ ty' = ty
  /\ \E r \in Shifted(ty, o, numbers[1], k) : numbers' = <<r>>

Negate == Len(numbers) = 1 /\ ty' = ty
          /\ numbers' = <<Wrap(ty, -numbers[1])>>
Complement == Len(numbers) = 1 /\ ty' = ty
              /\ numbers' = <<Wrap(ty, -numbers[1] - 1)>>

Convert == /\ Len(numbers) = 1 /\ ty' \in Types \ {ty} /\ Basic \in {ty, ty'}
           /\ numbers' = <<Wrap(ty', numbers[1])>>

Bounds == /\ Len(numbers) = 1 /\ ty' = ty
          /\ numbers' = <<Low(ty), Low(ty) + 2^Bits[ty] - 1>>

MaxBits == Max({Bits[t] : t \in Types})

Next == \/ Push \/ Bounds \/ Negate \/ Complement \/ Convert
        \/ \E o \in Divisions \cup {"+", "-", "*", "and", "or", "xor"} :
             Operate(o)
        \/ Both("quot", "rem") \/ Both("div", "mod")
        \/ \E o \in {"shiftL", "shiftR", "rotateL", "rotateR"},
              k \in 0 .. MaxBits : ShiftBy(o, k)

Spec == Init /\ [][Next]_<<ty, numbers>>
=============================================================================
