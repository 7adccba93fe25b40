------------------------------ MODULE IntPrims -------------------------------
(* The integer operations of the bytecode interpreter: instructions that    *)
(* compute on tagged words directly, and C primitives, whose arguments the   *)
(* compiled code untags and whose results it tags. A word of the stack that  *)
(* holds an Int ends in the tag 01, by which the collector knows it is no    *)
(* pointer; numbers of full width are boxed and have no tag. The words are   *)
(* patterns of a few bits, sized as a 64 bit build sizes them.               *)
EXTENDS Integers, Sequences, Bitwise

CONSTANTS
  WordBits,     \* Word_SizeInBits, also the size of Int64 and Word64
  CIntBits,     \* the size of a C int, to which smaller types are promoted
  SmallBits     \* the size of Int8 and Word8

ASSUME SizesAssumption == /\ {WordBits, CIntBits, SmallBits} \subseteq Nat
                          /\ 1 < SmallBits /\ SmallBits < CIntBits
                          /\ CIntBits < WordBits

VARIABLES
  ty,           \* the type of the numbers on the stack
  stack         \* at most two words; the last is on top

vars == <<ty, stack>>

SizeOfWordTag == 2
TagInt == 1
ShiftPow2 == 2^SizeOfWordTag

Types  == {"Int", "Word", "Int64", "Word64", "Int8", "Word8"}
Signed == {"Int", "Int64", "Int8"}
Boxed  == {"Int64", "Word64"}
Small  == {"Int8", "Word8"}

\* the bits of a number, of its C type, and of the C type computed in
Bits  == [t \in Types |-> CASE t \in Small -> SmallBits
                            [] t \in Boxed -> WordBits
                            [] OTHER -> WordBits - SizeOfWordTag]
CBits == [t \in Types |-> IF t \in Small THEN SmallBits ELSE WordBits]
Width == [t \in Types |-> IF t \in Small THEN CIntBits ELSE WordBits]
------------------------------------------------------------------------------
\* the pattern of w bits of a number, and the number a pattern stands for
Pattern(w, v) == v % 2^w
Sign(w, p)    == IF p < 2^(w - 1) THEN p ELSE p - 2^w
Cast(signed, w, v) ==
  IF signed THEN Sign(w, Pattern(w, v)) ELSE Pattern(w, v)

\* signed division of C truncates
Abs(x)      == IF x < 0 THEN -x ELSE x
CQuot(x, y) == LET q == Abs(x) \div Abs(y)
               IN  IF (x < 0) = (y < 0) THEN q ELSE -q
CRem(x, y)  == x - y * CQuot(x, y)

\* conversion to and from tagged words
Int2GBInt(v)  == Pattern(WordBits, v * ShiftPow2) + TagInt
UntagWord(x)  == x \div ShiftPow2
GBInt2Int(x)  == Sign(WordBits, x - (x % ShiftPow2)) \div ShiftPow2

\* what the compiled code does with the result and the arguments of a call
Return(t, v) ==
  LET c == Cast(t \in Signed, CBits[t], v)
  IN  IF t \in Boxed THEN Pattern(WordBits, c) ELSE Int2GBInt(c)
Arg(t, x) ==
  LET v == CASE t \in Boxed  -> x
             [] t \in Signed -> GBInt2Int(x)
             [] OTHER        -> UntagWord(x)
  IN  Cast(t \in Signed, CBits[t], v)
------------------------------------------------------------------------------
\* an instruction that multiplies by a signed operand
BugInt_Mul(x, y) ==
  Pattern(WordBits, (x - TagInt) * CQuot(Sign(WordBits, y), ShiftPow2) + TagInt)

\* a subtraction that forgets that the tags cancel
BugInt_Sub(x, y) == Pattern(WordBits, x - y)

\* instructions: x and y are tagged words, and so is the result
Int_Add(x, y)  == Pattern(WordBits, x + y - TagInt)
Int_Sub(x, y)  == Pattern(WordBits, x - y + TagInt)
Int_Mul(x, y)  == Pattern(WordBits, (x - TagInt) * (y \div ShiftPow2) + TagInt)
Int_Quot(x, y) == Int2GBInt(CQuot(GBInt2Int(x), GBInt2Int(y)))

Instruction(o, x, y) == CASE o = "+"    -> Int_Add(x, y)
                          [] o = "-"    -> Int_Sub(x, y)
                          [] o = "*"    -> Int_Mul(x, y)
                          [] o = "quot" -> Int_Quot(x, y)

\* C functions: x and y are numbers of the C type
primDiv(x, y) == LET div == CQuot(x, y)
                 IN  IF div < 0 THEN div - 1 ELSE div
primMod(x, y) == LET mod == CRem(x, y)
                 IN  IF (mod > 0 /\ y < 0) \/ (mod < 0 /\ y > 0)
                     THEN mod + y ELSE mod

Num(o, x, y) == CASE o = "+" -> x + y
                  [] o = "-" -> x - y
                  [] o = "*" -> x * y
Integral(o, x, y) == CASE o = "quot" -> CQuot(x, y)
                       [] o = "rem"  -> CRem(x, y)
                       [] o = "div"  -> primDiv(x, y)
                       [] o = "mod"  -> primMod(x, y)
\* the operands as patterns of the C type
BitLogic(o, p, q) == CASE o = "and" -> p & q
                       [] o = "or"  -> p | q
                       [] o = "xor" -> p ^^ q


\* the operand, cut to the bits of its type and put back in the C type
Lo(t, x) == Cast(t \in Signed, CBits[t], Pattern(Bits[t], x))
ShiftLeft(w, x, k) == Pattern(w, x * 2^k)
ShiftRight(w, x, k) == Pattern(w, x \div 2^k)    \* arithmetic if x < 0

Rotate(t, x, left, right) ==
  Pattern(Bits[t], ShiftLeft(Width[t], Lo(t, x), left)
                     | ShiftRight(Width[t], Lo(t, x), right))

BitShift(t, o, x, k) ==
  CASE o = "shiftL"  -> ShiftLeft(Width[t], Lo(t, x), k)
    [] o = "shiftR"  -> x \div 2^k
    [] o = "rotateL" -> Rotate(t, x, k, Bits[t] - k)
    [] o = "rotateR" -> Rotate(t, x, Bits[t] - k, k)
primComplement(t, x) == Pattern(Bits[t], -x - 1)

\* counts for which C defines the shifts
Counts(t, o) == CASE o \in {"shiftL", "shiftR"} -> 0 .. Width[t] - 1
                  [] t \in Boxed -> 1 .. Bits[t] - 1
                  [] OTHER -> 0 .. Bits[t]
------------------------------------------------------------------------------
Low(t)    == IF t \in Signed THEN -(2^(Bits[t] - 1)) ELSE 0
Values(t) == Low(t) .. Low(t) + 2^Bits[t] - 1
\* division by zero and a quotient out of the C type trap
Divides(t, x, y) == y # 0 /\ ~(t = "Int64" /\ x = Low(t) /\ y = -1)

Init == ty \in Types /\ \E v \in Values(ty) : stack = <<Return(ty, v)>>

\* the program has another number of the same type
Push(v) == /\ ty \notin Small /\ Len(stack) = 1
           /\ stack' = Append(stack, Return(ty, v))
           /\ UNCHANGED ty

InsBinary(o) ==
  /\ ty = "Int" /\ Len(stack) = 2
  /\ o = "quot" => Arg(ty, stack[2]) # 0
  /\ stack' = <<Instruction(o, stack[1], stack[2])>>
  /\ UNCHANGED ty

\* the operand is part of the instruction
InsImmediate(o, v) ==
  /\ ty = "Int" /\ Len(stack) = 1
  /\ o = "quot" => v # 0
  /\ stack' = <<Instruction(o, stack[1], Int2GBInt(v))>>
  /\ UNCHANGED ty

\* the numbers a primitive is called with
X == Arg(ty, stack[1])
Y == Arg(ty, stack[2])

PrimNum(o) ==
  /\ ty \notin Small /\ Len(stack) = 2
  /\ stack' = <<Return(ty, Num(o, X, Y))>>
  /\ UNCHANGED ty

PrimNeg ==
  /\ ty \notin Small /\ Len(stack) = 1
  /\ stack' = <<Return(ty, -X)>>
  /\ UNCHANGED ty

PrimIntegral(o) ==
  /\ ty \notin Small /\ Len(stack) = 2 /\ Divides(ty, X, Y)
  /\ stack' = <<Return(ty, Integral(o, X, Y))>>
  /\ UNCHANGED ty

\* quotient and remainder in one call, as a pair
PrimQuotRemInt ==
  /\ ty = "Int" /\ Len(stack) = 2 /\ Y # 0
  /\ stack' = <<Int2GBInt(CQuot(X, Y)), Int2GBInt(CRem(X, Y))>>
  /\ UNCHANGED ty

PrimDivModInt ==
  /\ ty = "Int" /\ Len(stack) = 2 /\ Y # 0
  /\ stack' = <<Int2GBInt(primDiv(X, Y)), Int2GBInt(primMod(X, Y))>>
  /\ UNCHANGED ty

\* minBound and maxBound of Int, as patterns of a whole word
MaxSInt(w, n) == (2^w - 1) \div 2^(w - n + 1)
MinSInt(w, n) == (2^w - 1) - (2^(n - 1) - 1)
PrimBounds ==
  /\ ty = "Int" /\ Len(stack) = 1
  /\ stack' = <<Return(ty, MinSInt(WordBits, Bits[ty])),
                Return(ty, MaxSInt(WordBits, Bits[ty]))>>
  /\ UNCHANGED ty

PrimBitLogic(o) ==
  /\ ty \in {"Word", "Int64", "Word64"} /\ Len(stack) = 2
  /\ stack' = <<Return(ty, BitLogic(o, Pattern(CBits[ty], X),
                                      Pattern(CBits[ty], Y)))>>
  /\ UNCHANGED ty

PrimBitShift(o, k) ==
  /\ Len(stack) = 1 /\ k \in Counts(ty, o)
  /\ stack' = <<Return(ty, BitShift(ty, o, X, k))>>
  /\ UNCHANGED ty

PrimComplement ==
  /\ Len(stack) = 1
  /\ stack' = <<Return(ty, primComplement(ty, X))>>
  /\ UNCHANGED ty

PrimIntTo(t) ==
  /\ Len(stack) = 1 /\ ty = "Int"
  /\ ty' = t
  /\ stack' = <<Return(t, X)>>

PrimToInt ==
  /\ Len(stack) = 1 /\ ty # "Int"
  /\ ty' = "Int"
  /\ stack' = <<Return("Int", X)>>

Next ==
  \/ \E v \in Values(ty) : Push(v)
  \/ \E o \in {"+", "-", "*", "quot"} :
       InsBinary(o) \/ \E v \in Values("Int") : InsImmediate(o, v)
  \/ \E o \in {"+", "-", "*"} : PrimNum(o)
  \/ PrimNeg
  \/ \E o \in {"quot", "rem", "div", "mod"} : PrimIntegral(o)
  \/ PrimQuotRemInt \/ PrimDivModInt \/ PrimBounds
  \/ \E o \in {"and", "or", "xor"} : PrimBitLogic(o)
  \/ \E o \in {"shiftL", "shiftR", "rotateL", "rotateR"},
        k \in 0 .. WordBits : PrimBitShift(o, k)
  \/ PrimComplement
  \/ \E t \in Types \ {"Int"} : PrimIntTo(t)
  \/ PrimToInt

Spec == Init /\ [][Next]_vars
------------------------------------------------------------------------------
(* Every word on the stack is the one encoding of a number of its type: an  *)
(* Int or Word keeps the integer tag through the arithmetic on tagged words, *)
(* so that no sum or product looks like a pointer to the collector, and a    *)
(* small number has no bits beyond its size, so that equal numbers are equal *)
(* words.                                                                    *)
TypeOK == /\ ty \in Types
          /\ Len(stack) \in 1 .. 2
          /\ \A i \in 1 .. Len(stack) :
               /\ Arg(ty, stack[i]) \in Values(ty)
               /\ stack[i] = Return(ty, Arg(ty, stack[i]))
               /\ ty \notin Boxed => stack[i] % ShiftPow2 = TagInt

(* Whatever sequence of instructions, primitives and conversions a program  *)
(* runs, the numbers its words stand for are those of the Haskell types: the *)
(* wrap-around, the sign of a remainder, the bits a shift or rotation of a   *)
(* number with fewer bits than its C type brings in.                         *)
hs == INSTANCE HsInts WITH Basic <- "Int",
                           numbers <- [i \in 1 .. Len(stack) |->
                                         Arg(ty, stack[i])]
ImplementsHsInts == hs!Spec

=============================================================================
