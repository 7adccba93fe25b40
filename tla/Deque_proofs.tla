------------------------------ MODULE Deque_proofs ------------------------------
(***************************************************************************)
(* The deque of words is a queue of words, and its iterator visits what    *)
(* the queue held when it was made, for every page size, element size and  *)
(* length.                                                                 *)
(*                                                                         *)
(* The first invariant, PagesInv, says that only the first page can be     *)
(* empty and that the first unread word is in it.  It is all the           *)
(* refinement needs: a push appends to the last page and adds pages that   *)
(* concatenate to the rest of the words, a pop drops the pages it has read *)
(* to their ends and moves the offset in the one where it stops.           *)
(*                                                                         *)
(* The second one, IterInv, needs the words in each page to make up whole  *)
(* elements, so that neither the pages nor the end that the iterator       *)
(* remembers cut an element in two; the words up to that end stay where    *)
(* they are, because a push leaves the full pages alone and nothing is     *)
(* popped meanwhile.                                                       *)
(*                                                                         *)
(* FlattenSeq, which the community module defines by a recursive function, *)
(* is unfolded once and for all in FlattenEntry: any table of the          *)
(* concatenations of the first 0, 1, 2, ... parts ends with the flattened  *)
(* sequence, so that the other facts are shown by writing down a table.    *)
(***************************************************************************)
EXTENDS Deque, SequencesExt, SequenceTheorems, Induction, TLAPS

-----------------------------------------------------------------------------
(* Sequences: cutting, dropping, flattening.                               *)

\* f lists what the first n steps, one after the other, make of x.
Passes(f, V, step, x, n) ==
  /\ f \in [0 .. n -> V] /\ f[0] = x
  /\ \A i \in 1 .. n : f[i] = step[i][f[i - 1]]

(* Such a table exists.                                                    *)
LEMMA PassesExist ==
  ASSUME NEW V, NEW n \in Nat, NEW step \in [1 .. n -> [V -> V]], NEW x \in V
  PROVE  \E f : Passes(f, V, step, x, n)
<1> DEFINE S == {m \in Nat : m <= n => \E f : Passes(f, V, step, x, m)}
<1>1. 0 \in S
  <2>1. Passes([i \in 0 .. 0 |-> x], V, step, x, 0)
    BY DEF Passes
  <2> QED
    BY <2>1
<1>2. ASSUME NEW m \in S, m + 1 <= n PROVE m + 1 \in S
  <2>1. PICK f : Passes(f, V, step, x, m)
    BY <1>2
  <2> DEFINE g == [i \in 0 .. m + 1 |-> IF i = m + 1 THEN step[m + 1][f[m]] ELSE f[i]]
  <2>2. step[m + 1][f[m]] \in V
    BY <1>2, <2>1 DEF Passes
  <2>3. g \in [0 .. m + 1 -> V] /\ g[0] = x
    BY <2>1, <2>2 DEF Passes
  <2>4. ASSUME NEW i \in 1 .. m + 1 PROVE g[i] = step[i][g[i - 1]]
    BY <2>1 DEF Passes
  <2>5. Passes(g, V, step, x, m + 1)
    BY <2>3, <2>4 DEF Passes
  <2> QED
    BY <2>5
<1>3. Nat \subseteq S
  <2>1. S \subseteq Nat
    OBVIOUS
  <2>2. \A m \in S : ~ (m + 1 <= n) => m + 1 \in S
    OBVIOUS
  <2> HIDE DEF S
  <2> QED
    BY <1>1, <1>2, <2>1, <2>2, SetInduction
<1> QED
  BY <1>3

\* f tabulates the concatenations of the first 0, 1, 2, ... sequences of s.
Flattening(f, W, s) ==
  /\ f \in [0 .. Len(s) -> Seq(W)] /\ f[0] = <<>>
  /\ \A i \in 1 .. Len(s) : f[i] = f[i - 1] \o s[i]

(* Such a table exists.                                                    *)
LEMMA FlatteningExists ==
  ASSUME NEW W, NEW s \in Seq(Seq(W))
  PROVE  \E f : Flattening(f, W, s)
<1> DEFINE L == Len(s)
           step == [i \in 1 .. L |-> [v \in Seq(W) |-> v \o s[i]]]
<1>0. L \in Nat /\ \A i \in 1 .. L : s[i] \in Seq(W)
  BY LenProperties, ElementOfSeq
<1>1. step \in [1 .. L -> [Seq(W) -> Seq(W)]]
  BY <1>0, ConcatProperties
<1>2. <<>> \in Seq(W)
  BY EmptySeq
<1>3. \A i \in 1 .. L : \A v \in Seq(W) : step[i][v] = v \o s[i]
  OBVIOUS
<1> HIDE DEF step, L
<1>4. PICK f : Passes(f, Seq(W), step, <<>>, L)
  BY <1>0, <1>1, <1>2, PassesExist
<1>5. \A i \in 1 .. L : f[i - 1] \in Seq(W) /\ f[i] = step[i][f[i - 1]]
  BY <1>0, <1>4 DEF Passes
<1>6. \A i \in 1 .. L : f[i] = f[i - 1] \o s[i]
  BY Zenon, <1>3, <1>5
<1>7. Flattening(f, W, s)
  BY Zenon, <1>4, <1>6 DEF Flattening, Passes, L
<1> QED
  BY <1>7

(* FlattenSeq(s) is the last entry of such a table.                        *)
LEMMA FlattenEntry ==
  ASSUME NEW W, NEW s \in Seq(Seq(W)), NEW f, Flattening(f, W, s)
  PROVE  FlattenSeq(s) = f[Len(s)]
<1> DEFINE L == Len(s)
           body(g) == [i \in 1 .. Len(s) |-> IF i = 1 THEN s[i] ELSE g[i - 1] \o s[i]]
<1>0. L \in Nat /\ \A i \in 1 .. L : s[i] \in Seq(W)
  BY LenProperties, ElementOfSeq
<1>1. CASE L = 0
  <2>1. s = <<>>
    BY <1>1, EmptySeq
  <2> QED
    BY <1>1, <2>1, Zenon DEF FlattenSeq, Flattening
<1>2. CASE L # 0
  <2> DEFINE g == [i \in 1 .. L |-> f[i]]
             h == CHOOSE c : c = body(c)
  <2>1. f[1] = s[1]
    <3>1. 1 \in 1 .. L /\ 1 - 1 = 0
      BY <1>0, <1>2
    <3>2. f[1] = <<>> \o s[1]
      BY <3>1 DEF Flattening
    <3> QED
      BY <1>0, <3>1, <3>2, ConcatEmptySeq
  <2>2. ASSUME NEW i \in 1 .. L PROVE g[i] = body(g)[i]
    <3>1. CASE i = 1
      BY <3>1, <2>1
    <3>2. CASE i # 1
      <4>1. i - 1 \in 1 .. L
        BY <3>2, <1>0
      <4>2. f[i] = f[i - 1] \o s[i]
        BY DEF Flattening
      <4> QED
        BY Zenon, <3>2, <4>1, <4>2
    <3> QED
      BY <3>1, <3>2
  <2>3. g = body(g)
    BY Zenon, <2>2
  <2>4. h = body(h)
    <3> HIDE DEF body
    <3> QED
      BY <2>3
  <2>5. FlattenSeq(s) = h[L]
    BY Zenon, <1>2 DEF FlattenSeq
  <2> HIDE DEF h
  <2>6. \A i \in 1 .. L : h[i] = IF i = 1 THEN s[i] ELSE h[i - 1] \o s[i]
    <3>1. \A i \in 1 .. L : h[i] = body(h)[i]
      BY Zenon, <2>4
    <3> QED
      BY Zenon, <3>1
  <2> DEFINE T == {n \in Nat : n + 1 <= L => h[n + 1] = f[n + 1]}
  <2> HIDE DEF body, L
  <2>7. 0 \in T
    <3>1. 1 \in 1 .. L /\ 0 + 1 = 1
      BY <1>0, <1>2
    <3>2. h[1] = s[1]
      BY Zenon, <2>6, <3>1
    <3> QED
      BY <2>1, <3>1, <3>2
  <2>8. ASSUME NEW n \in T, (n + 1) + 1 <= L PROVE h[(n + 1) + 1] = f[(n + 1) + 1]
    <3>1. /\ (n + 1) + 1 \in 1 .. L /\ (n + 1) + 1 # 1 /\ ((n + 1) + 1) - 1 = n + 1
          /\ h[n + 1] = f[n + 1]
      BY <2>8, <1>0
    <3>2. h[(n + 1) + 1] = h[((n + 1) + 1) - 1] \o s[(n + 1) + 1]
      BY Zenon, <3>1, <2>6
    <3>3. f[(n + 1) + 1] = f[((n + 1) + 1) - 1] \o s[(n + 1) + 1]
      BY Zenon, <3>1 DEF Flattening, L
    <3> QED
      BY Zenon, <3>1, <3>2, <3>3
  <2>9. \A n \in T : n + 1 \in T
    BY <2>8
  <2>10. Nat \subseteq T
    <3>1. T \subseteq Nat
      OBVIOUS
    <3> HIDE DEF T
    <3> QED
      BY <2>7, <2>9, <3>1, SetInduction
  <2>11. L - 1 \in Nat /\ (L - 1) + 1 = L
    BY <1>0, <1>2
  <2>12. h[L] = f[L]
    BY <2>10, <2>11
  <2> QED
    BY <2>5, <2>12 DEF L
<1> QED
  BY <1>1, <1>2

(* The flattened sequence is one of the elements of the parts.             *)
LEMMA FlattenType ==
  ASSUME NEW W, NEW s \in Seq(Seq(W))
  PROVE  /\ FlattenSeq(s) \in Seq(W)
         /\ Len(FlattenSeq(s)) \in Nat
<1>1. PICK f : Flattening(f, W, s)
  BY FlatteningExists
<1>2. FlattenSeq(s) = f[Len(s)]
  BY <1>1, FlattenEntry
<1>3. Len(s) \in 0 .. Len(s)
  BY LenProperties
<1>4. FlattenSeq(s) \in Seq(W)
  BY <1>1, <1>2, <1>3 DEF Flattening
<1> QED
  BY <1>4, LenProperties

(* Concatenation is associative, for names of its results.                 *)
LEMMA Associative ==
  ASSUME NEW W, NEW x \in Seq(W), NEW y \in Seq(W), NEW z \in Seq(W), NEW xy, NEW yz,
         xy = x \o y, yz = y \o z
  PROVE  xy \o z = x \o yz
<1>1. (x \o y) \o z = x \o (y \o z)
  OBVIOUS
<1> QED
  BY Zenon, <1>1

(* Flattening distributes over concatenation.                              *)
LEMMA FlattenConcat ==
  ASSUME NEW W, NEW s \in Seq(Seq(W)), NEW t \in Seq(Seq(W))
  PROVE  FlattenSeq(s \o t) = FlattenSeq(s) \o FlattenSeq(t)
<1> DEFINE m == Len(s)
           n == Len(t)
           u == s \o t
<1>1. /\ m \in Nat /\ n \in Nat
      /\ \A i \in 1 .. m : s[i] \in Seq(W)
      /\ \A i \in 1 .. n : t[i] \in Seq(W)
  BY LenProperties, ElementOfSeq
<1>2. /\ u \in Seq(Seq(W)) /\ Len(u) = m + n
      /\ \A i \in 1 .. m + n : u[i] = IF i <= m THEN s[i] ELSE t[i - m]
  BY ConcatProperties
<1> HIDE DEF u
<1>3. PICK f : Flattening(f, W, s)
  BY FlatteningExists
<1>4. PICK h : Flattening(h, W, t)
  BY FlatteningExists
<1>5. FlattenSeq(s) = f[m] /\ FlattenSeq(t) = h[n]
  BY <1>3, <1>4, FlattenEntry
<1> HIDE DEF m, n
<1>6. /\ f \in [0 .. m -> Seq(W)] /\ f[0] = <<>> /\ f[m] \in Seq(W)
      /\ h \in [0 .. n -> Seq(W)] /\ h[0] = <<>>
  <2>1. /\ f \in [0 .. m -> Seq(W)] /\ f[0] = <<>>
        /\ h \in [0 .. n -> Seq(W)] /\ h[0] = <<>>
    BY Zenon, <1>3, <1>4 DEF Flattening, m, n
  <2> QED
    BY <1>1, <2>1
<1> DEFINE cat == [i \in 0 .. n |-> f[m] \o h[i]]
           g == [i \in 0 .. m + n |-> IF i <= m THEN f[i] ELSE cat[i - m]]
<1>7. cat \in [0 .. n -> Seq(W)]
  BY <1>6, ConcatProperties
<1>8. cat[0] = f[m]
  <2>0. 0 \in 0 .. n
    BY <1>1
  <2>1. cat[0] = f[m] \o <<>>
    BY Zenon, <2>0, <1>6
  <2> QED
    BY <1>6, <2>1, ConcatEmptySeq
<1>9. ASSUME NEW i \in 1 .. n PROVE cat[i] = cat[i - 1] \o t[i]
  <2>1. i \in 0 .. n /\ i - 1 \in 0 .. n
    BY <1>1
  <2>2. h[i] = h[i - 1] \o t[i]
    BY Zenon, <1>4 DEF Flattening, n
  <2>3. h[i - 1] \in Seq(W) /\ t[i] \in Seq(W)
    BY Zenon, <1>1, <1>6, <2>1
  <2>4. cat[i] = f[m] \o h[i] /\ cat[i - 1] = f[m] \o h[i - 1]
    BY Zenon, <2>1
  <2> HIDE DEF cat
  <2> QED
    <3>1. PICK a : a = f[m]
      OBVIOUS
    <3>2. PICK b : b = h[i - 1]
      OBVIOUS
    <3>3. PICK c : c = t[i]
      OBVIOUS
    <3>4. PICK d, e : d = h[i] /\ e = cat[i - 1]
      OBVIOUS
    <3>5. e \o c = a \o d
      <4>1. a \in Seq(W) /\ b \in Seq(W) /\ c \in Seq(W)
        BY <1>6, <2>3, <3>1, <3>2, <3>3
      <4>2. e = a \o b /\ d = b \o c
        BY Zenon, <2>2, <2>4, <3>1, <3>2, <3>3, <3>4
      <4> QED
        BY <4>1, <4>2, Associative
    <3> QED
      BY Zenon, <2>4, <3>1, <3>3, <3>4, <3>5
<1> HIDE DEF cat
<1>10. g \in [0 .. m + n -> Seq(W)] /\ g[0] = <<>>
  <2>1. ASSUME NEW i \in 0 .. m + n PROVE (i <= m => i \in 0 .. m) /\ (~ (i <= m) => i - m \in 0 .. n)
    BY <1>1
  <2>2. 0 \in 0 .. m + n /\ 0 <= m
    BY <1>1
  <2> QED
    BY <1>6, <1>7, <2>1, <2>2
<1>11. ASSUME NEW i \in 1 .. m + n PROVE g[i] = g[i - 1] \o u[i]
  <2>0. i \in 0 .. m + n /\ i - 1 \in 0 .. m + n
    BY <1>1
  <2>1. CASE i <= m
    <3>1. i \in 1 .. m /\ i - 1 <= m
      BY <1>1, <2>1
    <3>2. f[i] = f[i - 1] \o s[i]
      BY Zenon, <1>3, <3>1 DEF Flattening, m
    <3> QED
      BY Zenon, <1>2, <2>0, <2>1, <3>1, <3>2
  <2>2. CASE ~ (i <= m)
    <3>1. i - m \in 1 .. n /\ (i - 1) - m = (i - m) - 1
      BY <1>1, <2>2
    <3>2. g[i - 1] = cat[(i - m) - 1]
      <4>1. i - 1 <= m => i - 1 = m /\ (i - m) - 1 = 0
        BY <1>1, <2>2
      <4> QED
        BY <1>8, <2>0, <3>1, <4>1
    <3>3. cat[i - m] = cat[(i - m) - 1] \o t[i - m]
      BY <1>9, <3>1
    <3> QED
      BY Zenon, <1>2, <2>0, <2>2, <3>2, <3>3
  <2> QED
    BY <2>1, <2>2
<1>12. Flattening(g, W, u)
  BY Zenon, <1>2, <1>10, <1>11 DEF Flattening
<1>13. FlattenSeq(u) = g[m + n]
  BY <1>2, <1>12, FlattenEntry
<1>14. g[m + n] = cat[n]
  <2>1. m + n \in 0 .. m + n /\ (m + n) - m = n /\ (m + n <= m => n = 0 /\ m + n = m)
    BY <1>1
  <2> QED
    BY <1>8, <2>1
<1>15. cat[n] = f[m] \o h[n]
  <2>1. n \in 0 .. n
    BY <1>1
  <2> QED
    BY Zenon, <2>1 DEF cat
<1> QED
  BY Zenon, <1>5, <1>13, <1>14, <1>15 DEF u

(* One part is the whole.                                                  *)
LEMMA FlattenOne ==
  ASSUME NEW W, NEW p \in Seq(W)
  PROVE  <<p>> \in Seq(Seq(W)) /\ FlattenSeq(<<p>>) = p
<1>1. <<p>> \in Seq(Seq(W)) /\ Len(<<p>>) = 1 /\ <<p>>[1] = p
  OBVIOUS
<1>2. PICK f : Flattening(f, W, <<p>>)
  BY <1>1, FlatteningExists
<1>3. FlattenSeq(<<p>>) = f[1]
  BY <1>1, <1>2, FlattenEntry
<1>4. f[1] = f[1 - 1] \o <<p>>[1] /\ f[0] = <<>>
  <2> DEFINE s == <<p>>
  <2>1. 1 \in 1 .. Len(s)
    BY <1>1
  <2> HIDE DEF s
  <2>2. Flattening(f, W, s)
    BY <1>2 DEF s
  <2>3. f[1] = f[1 - 1] \o s[1] /\ f[0] = <<>>
    BY Zenon, <2>1, <2>2 DEF Flattening
  <2> QED
    BY Zenon, <2>3 DEF s
<1>5. f[1] = <<>> \o p
  <2>1. 1 - 1 = 0
    OBVIOUS
  <2> QED
    BY Zenon, <1>1, <1>4, <2>1
<1> QED
  BY <1>1, <1>3, <1>5, ConcatEmptySeq

(* No parts make the empty sequence.                                       *)
LEMMA FlattenNone == FlattenSeq(<<>>) = <<>>
<1>1. Len(<<>>) = 0
  OBVIOUS
<1> QED
  BY Zenon, <1>1 DEF FlattenSeq

\* The words in the first p pages of s.
Upto(s, p) == Len(FlattenSeq(SubSeq(s, 1, p)))

(* A sequence cut in two.                                                  *)
LEMMA Cut ==
  ASSUME NEW X, NEW s \in Seq(X), NEW p \in 0 .. Len(s)
  PROVE  /\ SubSeq(s, 1, p) \in Seq(X) /\ Len(SubSeq(s, 1, p)) = p
         /\ SubSeq(s, p + 1, Len(s)) \in Seq(X) /\ Len(SubSeq(s, p + 1, Len(s))) = Len(s) - p
         /\ s = SubSeq(s, 1, p) \o SubSeq(s, p + 1, Len(s))
<1>1. Len(s) \in Nat /\ \A i \in 1 .. Len(s) : s[i] \in X
  BY LenProperties, ElementOfSeq
<1>2. SubSeq(s, 1, p) \in Seq(X) /\ Len(SubSeq(s, 1, p)) = p
  <2>1. \A i \in 1 .. p : s[i] \in X
    BY <1>1
  <2>2. (1 <= p => p - 1 + 1 = p) /\ (~ (1 <= p) => p = 0) /\ p \in Int
    BY <1>1
  <2> QED
    BY <2>1, <2>2, SubSeqProperties
<1>3. SubSeq(s, p + 1, Len(s)) \in Seq(X) /\ Len(SubSeq(s, p + 1, Len(s))) = Len(s) - p
  <2>1. \A i \in p + 1 .. Len(s) : s[i] \in X
    BY <1>1
  <2>2. /\ p + 1 \in Int /\ Len(s) \in Int
        /\ (p + 1 <= Len(s) => Len(s) - (p + 1) + 1 = Len(s) - p)
        /\ (~ (p + 1 <= Len(s)) => Len(s) - p = 0)
    BY <1>1
  <2> QED
    BY <2>1, <2>2, SubSeqProperties
<1>4. SubSeq(s, 1, p) \o SubSeq(s, p + 1, Len(s)) = SubSeq(s, 1, Len(s))
  <2>1. 1 \in 1 .. Len(s) + 1 /\ p \in 1 - 1 .. Len(s) /\ Len(s) \in p .. Len(s)
    BY <1>1
  <2> QED
    BY <2>1, ConcatAdjacentSubSeq
<1>5. SubSeq(s, 1, Len(s)) = s
  BY SubSeqFull
<1> QED
  BY <1>2, <1>3, <1>4, <1>5

(* What page p adds to those before it.                                    *)
LEMMA UptoNext ==
  ASSUME NEW W, NEW s \in Seq(Seq(W)), NEW p \in 1 .. Len(s)
  PROVE  /\ FlattenSeq(SubSeq(s, 1, p)) = FlattenSeq(SubSeq(s, 1, p - 1)) \o s[p]
         /\ Upto(s, p) = Upto(s, p - 1) + Len(s[p])
<1>1. Len(s) \in Nat /\ p \in p .. Len(s) /\ 1 \in 1 .. Len(s) /\ p \in 1 .. Len(s) /\ p - 1 \in 0 .. Len(s)
  BY LenProperties
<1>2. SubSeq(s, 1, p) = SubSeq(s, 1, p - 1) \o <<s[p]>>
  BY <1>1, SubSeqRecursiveSecond
<1>3. s[p] \in Seq(W)
  BY ElementOfSeq
<1>4. SubSeq(s, 1, p - 1) \in Seq(Seq(W))
  BY <1>1, Cut
<1>5. <<s[p]>> \in Seq(Seq(W)) /\ FlattenSeq(<<s[p]>>) = s[p]
  BY <1>3, FlattenOne
<1>6. FlattenSeq(SubSeq(s, 1, p)) = FlattenSeq(SubSeq(s, 1, p - 1)) \o s[p]
  BY <1>2, <1>4, <1>5, FlattenConcat
<1>7. PICK a, b : a = FlattenSeq(SubSeq(s, 1, p - 1)) /\ b = s[p]
  OBVIOUS
<1>8. a \in Seq(W) /\ b \in Seq(W)
  BY <1>3, <1>4, <1>7, FlattenType
<1>9. Len(a \o b) = Len(a) + Len(b)
  BY <1>8, ConcatProperties
<1>10. Upto(s, p) = Len(a \o b) /\ Upto(s, p - 1) = Len(a)
  BY Zenon, <1>6, <1>7 DEF Upto
<1> QED
  BY <1>6, <1>7, <1>9, <1>10

(* No page has no words, all pages have all.                               *)
LEMMA UptoEnds ==
  ASSUME NEW W, NEW s \in Seq(Seq(W))
  PROVE  Upto(s, 0) = 0 /\ Upto(s, Len(s)) = Len(FlattenSeq(s))
<1>1. SubSeq(s, 1, 0) = <<>>
  BY SubSeqEmpty
<1>2. SubSeq(s, 1, Len(s)) = s
  BY SubSeqFull
<1>3. Len(FlattenSeq(<<>>)) = 0
  BY FlattenNone
<1> QED
  BY <1>1, <1>2, <1>3 DEF Upto

(* What is behind the first p pages.                                       *)
LEMMA FlattenRest ==
  ASSUME NEW W, NEW s \in Seq(Seq(W)), NEW p \in 0 .. Len(s)
  PROVE  /\ Upto(s, p) \in Nat /\ Upto(s, p) <= Len(FlattenSeq(s))
         /\ Len(FlattenSeq(SubSeq(s, p + 1, Len(s)))) = Len(FlattenSeq(s)) - Upto(s, p)
         /\ FlattenSeq(s) = FlattenSeq(SubSeq(s, 1, p)) \o FlattenSeq(SubSeq(s, p + 1, Len(s)))
<1>1. PICK a, b : a = SubSeq(s, 1, p) /\ b = SubSeq(s, p + 1, Len(s))
  OBVIOUS
<1>2. a \in Seq(Seq(W)) /\ b \in Seq(Seq(W)) /\ s = a \o b
  BY <1>1, Cut
<1>3. FlattenSeq(s) = FlattenSeq(a) \o FlattenSeq(b)
  BY <1>2, FlattenConcat
<1>4. FlattenSeq(a) \in Seq(W) /\ FlattenSeq(b) \in Seq(W)
  BY <1>2, FlattenType
<1>5. /\ Len(FlattenSeq(s)) = Len(FlattenSeq(a)) + Len(FlattenSeq(b))
      /\ Len(FlattenSeq(a)) \in Nat /\ Len(FlattenSeq(b)) \in Nat
  BY <1>3, <1>4, ConcatProperties, LenProperties
<1> QED
  BY <1>1, <1>3, <1>5 DEF Upto

(* More pages have no less words.                                          *)
LEMMA UptoGrows ==
  ASSUME NEW W, NEW s \in Seq(Seq(W)), NEW q \in 0 .. Len(s), NEW p \in 0 .. q
  PROVE  Upto(s, p) <= Upto(s, q)
<1>0. Len(s) \in Nat /\ p \in 0 .. Len(s)
  BY LenProperties
<1>1. PICK t : t = SubSeq(s, 1, q)
  OBVIOUS
<1>2. t \in Seq(Seq(W)) /\ Len(t) = q
  BY <1>1, Cut
<1>3. SubSeq(t, 1, p) = SubSeq(s, 1, p)
  <2>1. CASE p = 0
    BY <2>1, SubSeqEmpty
  <2>2. CASE p # 0
    <3>1. 1 \in 1 .. Len(s) /\ q \in 1 .. Len(s) /\ 1 \in 1 .. q - 1 + 1 /\ p \in 1 .. q - 1 + 1
          /\ 1 + 1 - 1 = 1 /\ 1 + p - 1 = p
      BY <1>0, <2>2
    <3>2. SubSeq(SubSeq(s, 1, q), 1, p) = SubSeq(s, 1 + 1 - 1, 1 + p - 1)
      BY <3>1, SubSeqOfSubSeq
    <3> QED
      BY <1>1, <3>1, <3>2
  <2> QED
    BY <2>1, <2>2
<1>4. Upto(t, p) <= Len(FlattenSeq(t))
  BY <1>2, FlattenRest
<1> QED
  BY <1>1, <1>3, <1>4 DEF Upto

(* Word j of page p is so far behind the first word of all.                *)
LEMMA FlattenAt ==
  ASSUME NEW W, NEW s \in Seq(Seq(W)), NEW p \in 1 .. Len(s), NEW j \in 1 .. Len(s[p])
  PROVE  /\ Upto(s, p - 1) + j \in 1 .. Len(FlattenSeq(s))
         /\ FlattenSeq(s)[Upto(s, p - 1) + j] = s[p][j]
<1>0. Len(s) \in Nat /\ p \in 0 .. Len(s) /\ p - 1 \in 0 .. Len(s) /\ s[p] \in Seq(W) /\ Len(s[p]) \in Nat
  <2>1. Len(s) \in Nat /\ s[p] \in Seq(W)
    BY LenProperties, ElementOfSeq
  <2> QED
    BY <2>1, LenProperties
<1>1. PICK a, b, c : /\ a = FlattenSeq(SubSeq(s, 1, p - 1)) /\ b = s[p]
                     /\ c = FlattenSeq(SubSeq(s, p + 1, Len(s)))
  OBVIOUS
<1>2. a \in Seq(W) /\ b \in Seq(W) /\ c \in Seq(W)
  BY <1>0, <1>1, Cut, FlattenType
<1>3. FlattenSeq(SubSeq(s, 1, p)) = a \o b
  BY <1>1, UptoNext
<1>4. PICK d : d = a \o b
  OBVIOUS
<1>5. FlattenSeq(s) = d \o c /\ Upto(s, p - 1) = Len(a)
  BY <1>0, <1>1, <1>3, <1>4, FlattenRest DEF Upto
<1>6. d \in Seq(W) /\ Len(d) = Len(a) + Len(b) /\ Len(a) \in Nat /\ Len(c) \in Nat
  BY <1>2, <1>4, ConcatProperties, LenProperties
<1>7. Len(d \o c) = Len(d) + Len(c) /\ \A i \in 1 .. Len(d) : (d \o c)[i] = d[i]
  <2>1. ASSUME NEW i \in 1 .. Len(d) PROVE i \in 1 .. Len(d) + Len(c) /\ i <= Len(d)
    BY <1>6
  <2> QED
    BY <1>2, <1>6, <2>1, ConcatProperties
<1>8. Len(a) + j \in 1 .. Len(d) /\ Len(a) + j \in 1 .. Len(a) + Len(b) /\ ~ (Len(a) + j <= Len(a)) /\ (Len(a) + j) - Len(a) = j
  BY <1>0, <1>1, <1>6
<1>9. d[Len(a) + j] = b[j]
  BY <1>2, <1>4, <1>8, ConcatProperties
<1>10. (d \o c)[Len(a) + j] = b[j]
  BY <1>7, <1>8, <1>9
<1>11. Len(a) + j \in 1 .. Len(d \o c)
  BY <1>6, <1>7, <1>8
<1> QED
  BY Zenon, <1>1, <1>5, <1>10, <1>11

\* The sequence s without its first h members.
Drop(s, h) == SubSeq(s, h + 1, Len(s))

(* What is left when the first h members are dropped.                      *)
LEMMA DropFacts ==
  ASSUME NEW W, NEW s \in Seq(W), NEW h \in 0 .. Len(s)
  PROVE  /\ Drop(s, h) \in Seq(W) /\ Len(Drop(s, h)) = Len(s) - h
         /\ \A i \in 1 .. Len(s) - h : Drop(s, h)[i] = s[h + i]
<1>1. Len(s) \in Nat /\ h \in Nat
  BY LenProperties
<1>2. PICK m, n : m = h + 1 /\ n = Len(s)
  OBVIOUS
<1>3. m \in Int /\ n \in Int /\ \A i \in m .. n : s[i] \in W
  BY <1>1, <1>2, ElementOfSeq
<1>4. /\ SubSeq(s, m, n) \in Seq(W)
      /\ Len(SubSeq(s, m, n)) = IF m <= n THEN n - m + 1 ELSE 0
      /\ \A i \in 1 .. n - m + 1 : SubSeq(s, m, n)[i] = s[m + i - 1]
  BY <1>3, SubSeqProperties
<1>5. PICK x : x = SubSeq(s, m, n)
  OBVIOUS
<1>6. /\ (m <= n => n - m + 1 = Len(s) - h) /\ (~ (m <= n) => Len(s) - h = 0)
      /\ n - m + 1 = Len(s) - h /\ \A i \in 1 .. Len(s) - h : m + i - 1 = h + i
  BY <1>1, <1>2
<1>7. x \in Seq(W) /\ Len(x) = Len(s) - h /\ \A i \in 1 .. Len(s) - h : x[i] = s[h + i]
  BY <1>4, <1>5, <1>6
<1> QED
  BY Zenon, <1>2, <1>5, <1>7 DEF Drop

(* Dropping part of the first of two leaves the second whole.              *)
LEMMA DropConcat ==
  ASSUME NEW W, NEW a \in Seq(W), NEW b \in Seq(W), NEW h \in 0 .. Len(a)
  PROVE  Drop(a \o b, h) = Drop(a, h) \o b
<1>1. Len(a) \in Nat /\ Len(b) \in Nat
  BY LenProperties
<1>2. /\ a \o b \in Seq(W) /\ Len(a \o b) = Len(a) + Len(b)
      /\ \A i \in 1 .. Len(a) + Len(b) : (a \o b)[i] = IF i <= Len(a) THEN a[i] ELSE b[i - Len(a)]
  BY ConcatProperties
<1>3. PICK c : c = a \o b
  OBVIOUS
<1>4. PICK x, y : x = Drop(c, h) /\ y = Drop(a, h)
  OBVIOUS
<1>5. /\ x \in Seq(W) /\ Len(x) = Len(a) + Len(b) - h
      /\ \A i \in 1 .. Len(a) + Len(b) - h : x[i] = c[h + i]
  <2>1. h \in 0 .. Len(c) /\ c \in Seq(W) /\ Len(c) = Len(a) + Len(b)
    BY <1>1, <1>2, <1>3
  <2>2. /\ Drop(c, h) \in Seq(W) /\ Len(Drop(c, h)) = Len(c) - h
        /\ \A i \in 1 .. Len(c) - h : Drop(c, h)[i] = c[h + i]
    BY <2>1, DropFacts
  <2>3. /\ x \in Seq(W) /\ Len(x) = Len(c) - h
        /\ \A i \in 1 .. Len(c) - h : x[i] = c[h + i]
    BY Zenon, <1>4, <2>2
  <2>4. Len(c) - h = Len(a) + Len(b) - h
    BY <2>1
  <2> QED
    BY Zenon, <2>3, <2>4
<1>6. /\ y \in Seq(W) /\ Len(y) = Len(a) - h
      /\ \A i \in 1 .. Len(a) - h : y[i] = a[h + i]
  BY <1>4, DropFacts
<1>7. PICK z : z = y \o b
  OBVIOUS
<1>8. /\ z \in Seq(W) /\ Len(z) = Len(y) + Len(b)
      /\ \A i \in 1 .. Len(y) + Len(b) : z[i] = IF i <= Len(y) THEN y[i] ELSE b[i - Len(y)]
  BY <1>6, <1>7, ConcatProperties
<1>9. ASSUME NEW i \in 1 .. Len(x) PROVE x[i] = z[i]
  <2>1. x[i] = c[h + i] /\ h + i \in 1 .. Len(a) + Len(b) /\ i \in 1 .. Len(y) + Len(b)
    BY <1>1, <1>5, <1>6
  <2>2. c[h + i] = IF h + i <= Len(a) THEN a[h + i] ELSE b[(h + i) - Len(a)]
    BY <1>2, <1>3, <2>1
  <2>3. z[i] = IF i <= Len(y) THEN y[i] ELSE b[i - Len(y)]
    BY <1>8, <2>1
  <2>4. CASE h + i <= Len(a)
    <3>1. i <= Len(y) /\ i \in 1 .. Len(a) - h
      BY <1>1, <1>5, <1>6, <2>4
    <3> QED
      BY <1>6, <2>1, <2>2, <2>3, <2>4, <3>1
  <2>5. CASE ~ (h + i <= Len(a))
    <3>1. ~ (i <= Len(y)) /\ (h + i) - Len(a) = i - Len(y)
      BY <1>1, <1>5, <1>6, <2>5
    <3> QED
      BY <2>1, <2>2, <2>3, <2>5, <3>1
  <2> QED
    BY <2>4, <2>5
<1>10. x = z
  <2>1. Len(x) = Len(z)
    BY <1>1, <1>5, <1>6, <1>8
  <2> QED
    BY <1>5, <1>8, <1>9, <2>1, SeqEqual
<1> QED
  BY Zenon, <1>3, <1>4, <1>7, <1>10

(* Dropping h and then k members drops h + k.                              *)
LEMMA DropTwice ==
  ASSUME NEW W, NEW s \in Seq(W), NEW h \in 0 .. Len(s), NEW k \in 0 .. Len(s) - h
  PROVE  Drop(Drop(s, h), k) = Drop(s, h + k)
<1>1. PICK x : x = Drop(s, h)
  OBVIOUS
<1>2. Len(s) \in Nat /\ h + k \in 0 .. Len(s)
  <2>1. Len(s) \in Nat
    BY LenProperties
  <2> QED
    BY <2>1
<1>3. x \in Seq(W) /\ Len(x) = Len(s) - h /\ \A i \in 1 .. Len(s) - h : x[i] = s[h + i]
  BY <1>1, DropFacts
<1>4. PICK y, z : y = Drop(x, k) /\ z = Drop(s, h + k)
  OBVIOUS
<1>5. y \in Seq(W) /\ Len(y) = Len(x) - k /\ \A i \in 1 .. Len(x) - k : y[i] = x[k + i]
  <2>1. k \in 0 .. Len(x)
    BY <1>3
  <2> QED
    BY <1>3, <1>4, <2>1, DropFacts, ZenonT(60)
<1>6. z \in Seq(W) /\ Len(z) = Len(s) - (h + k) /\ \A i \in 1 .. Len(s) - (h + k) : z[i] = s[(h + k) + i]
  BY <1>2, <1>4, DropFacts
<1>7. ASSUME NEW i \in 1 .. Len(y) PROVE y[i] = z[i]
  <2>1. /\ i \in 1 .. Len(x) - k /\ k + i \in 1 .. Len(s) - h /\ i \in 1 .. Len(s) - (h + k)
        /\ h + (k + i) = (h + k) + i
    BY <1>2, <1>3, <1>5
  <2> QED
    BY <1>3, <1>5, <1>6, <2>1
<1>8. Len(y) = Len(z)
  BY <1>2, <1>3, <1>5, <1>6
<1>9. y = z
  BY <1>5, <1>6, <1>7, <1>8, SeqEqual
<1> QED
  BY Zenon, <1>1, <1>4, <1>9

(* Dropping the first of two leaves the second.                            *)
LEMMA DropAll ==
  ASSUME NEW W, NEW a \in Seq(W), NEW b \in Seq(W)
  PROVE  Drop(a \o b, Len(a)) = b
<1>1. Len(a) \in Nat /\ Len(a) \in 0 .. Len(a)
  BY LenProperties
<1>2. Drop(a, Len(a)) = <<>>
  BY <1>1, SubSeqEmpty DEF Drop
<1>3. Drop(a \o b, Len(a)) = Drop(a, Len(a)) \o b
  BY <1>1, DropConcat
<1> QED
  BY <1>2, <1>3, ConcatEmptySeq

(* What the proofs need of multiplication.                                 *)
LEMMA Products ==
  ASSUME NEW i \in Nat, NEW j \in Nat, NEW m \in Nat, i <= j
  PROVE  i * m <= j * m /\ i * m \in Nat /\ (i + 1) * m = i * m + m
<1>1. PICK d \in Nat : j = i + d
  <2>1. j - i \in Nat /\ j = i + (j - i)
    OBVIOUS
  <2> QED
    BY <2>1
<1>2. j * m = i * m + d * m
  BY <1>1
<1>3. d * m \in Nat /\ i * m \in Nat
  OBVIOUS
<1>4. (i + 1) * m = i * m + m
  OBVIOUS
<1> QED
  BY <1>2, <1>3, <1>4

(* A function on 1 .. n is a sequence of length n.                         *)
LEMMA FunctionIsSeq ==
  ASSUME NEW X, NEW n \in Nat, NEW f \in [1 .. n -> X]
  PROVE  f \in Seq(X) /\ Len(f) = n
OBVIOUS

(* One more member of a prefix.                                            *)
LEMMA OneMore ==
  ASSUME NEW X, NEW s \in Seq(X), NEW m \in Nat, m + 1 \in 1 .. Len(s)
  PROVE  /\ SubSeq(s, 1, m + 1) = Append(SubSeq(s, 1, m), s[m + 1])
         /\ s[m + 1] \in X
         /\ m = 0 => SubSeq(s, 1, m + 1) = <<s[m + 1]>>
<1>1. PICK p : p = m + 1
  OBVIOUS
<1>2. Len(s) \in Nat /\ p \in p .. Len(s) /\ 1 \in 1 .. Len(s) /\ p \in 1 .. Len(s) /\ p - 1 = m /\ m \in 0 .. Len(s)
  <2>1. Len(s) \in Nat
    BY LenProperties
  <2> QED
    BY <1>1, <2>1
<1>3. SubSeq(s, 1, p) = SubSeq(s, 1, p - 1) \o <<s[p]>>
  BY <1>2, SubSeqRecursiveSecond
<1>4. PICK a, x : a = SubSeq(s, 1, m) /\ x = s[p]
  OBVIOUS
<1>5. a \in Seq(X) /\ x \in X
  BY <1>2, <1>4, Cut, ElementOfSeq
<1>6. Append(a, x) = a \o <<x>>
  BY <1>5, AppendIsConcat
<1>7. m = 0 => a = <<>>
  BY <1>4, SubSeqEmpty
<1>8. m = 0 => a \o <<x>> = <<x>>
  <2>1. <<x>> \in Seq(X)
    BY <1>5
  <2> QED
    BY <1>7, <2>1, ConcatEmptySeq
<1> QED
  BY Zenon, <1>1, <1>2, <1>3, <1>4, <1>5, <1>6, <1>8

(* Sequences that agree on their first k members have the same prefix of k *)
(* members.                                                                *)
LEMMA SameStart ==
  ASSUME NEW X, NEW s \in Seq(X), NEW t \in Seq(X), NEW k \in Nat, k <= Len(s), k <= Len(t),
         \A i \in 1 .. k : t[i] = s[i]
  PROVE  SubSeq(t, 1, k) = SubSeq(s, 1, k)
<1>1. PICK a, b : a = SubSeq(t, 1, k) /\ b = SubSeq(s, 1, k)
  OBVIOUS
<1>2. Len(s) \in Nat /\ Len(t) \in Nat /\ k \in 0 .. Len(s) /\ k \in 0 .. Len(t) /\ k \in Int
  <2>1. Len(s) \in Nat /\ Len(t) \in Nat
    BY LenProperties
  <2> QED
    BY <2>1
<1>3. a \in Seq(X) /\ Len(a) = k /\ b \in Seq(X) /\ Len(b) = k
  BY <1>1, <1>2, Cut
<1>4. \A i \in 1 .. k : a[i] = t[i] /\ b[i] = s[i]
  BY <1>1, <1>2
<1>5. \A i \in 1 .. k : a[i] = b[i]
  BY <1>4
<1>6. a = b
  BY <1>3, <1>5, SeqEqual
<1> QED
  BY Zenon, <1>1, <1>6

-----------------------------------------------------------------------------
(* Words and pages.                                                        *)

(* Rounding down to a multiple, and the number of parts that do.           *)
LEMMA Rounding ==
  ASSUME NEW x \in Nat, NEW m \in Nat \ {0}
  PROVE  /\ EntierDownBy(x, m) \in 0 .. x
         /\ x < EntierDownBy(x, m) + m
         /\ x \div m \in Nat
         /\ EntierDownBy(x, m) = (x \div m) * m
BY DEF EntierDownBy

----------------------------------------------------------------------------
(* The pages.                                                              *)

(* The pages hold words and fit; only the first one can be empty, and the  *)
(* first unread word is in it.                                             *)
PagesInOrder ==
  /\ pages \in Seq(Seq(Word)) /\ Len(pages) > 0
  /\ \A p \in 1 .. Len(pages) : Len(pages[p]) <= Cap
  /\ \A p \in 2 .. Len(pages) : Len(pages[p]) > 0
  /\ headOff \in 0 .. Len(pages[1])

(* The types of what the pages make up.                                    *)
LEMMA PageFacts ==
  ASSUME PagesInOrder
  PROVE  /\ Len(pages) \in Nat
         /\ \A p \in 1 .. Len(pages) : pages[p] \in Seq(Word) /\ Len(pages[p]) \in Nat
         /\ FlattenSeq(pages) \in Seq(Word) /\ Len(FlattenSeq(pages)) \in Nat
         /\ headOff \in 0 .. Len(FlattenSeq(pages))
         /\ Content = Drop(FlattenSeq(pages), headOff)
         /\ Content \in Seq(Word) /\ Len(Content) = Len(FlattenSeq(pages)) - headOff
<1>1. /\ Len(pages) \in Nat
      /\ \A p \in 1 .. Len(pages) : pages[p] \in Seq(Word) /\ Len(pages[p]) \in Nat
  <2>1. \A p \in 1 .. Len(pages) : pages[p] \in Seq(Word)
    BY ElementOfSeq DEF PagesInOrder
  <2> QED
    BY <2>1, LenProperties DEF PagesInOrder
<1>2. FlattenSeq(pages) \in Seq(Word) /\ Len(FlattenSeq(pages)) \in Nat
  BY FlattenType DEF PagesInOrder
<1>3. headOff \in 0 .. Len(FlattenSeq(pages))
  <2>1. 1 \in 1 .. Len(pages) /\ 1 - 1 = 0 /\ 1 \in 0 .. Len(pages)
    BY <1>1 DEF PagesInOrder
  <2>2. Upto(pages, 1) = Upto(pages, 0) + Len(pages[1])
    BY <2>1, UptoNext DEF PagesInOrder
  <2>3. Upto(pages, 0) = 0
    BY UptoEnds DEF PagesInOrder
  <2>4. Upto(pages, 1) <= Len(FlattenSeq(pages))
    BY <2>1, FlattenRest DEF PagesInOrder
  <2>5. headOff \in Nat /\ headOff <= Len(pages[1]) /\ Len(pages[1]) \in Nat
    BY <1>1, <2>1 DEF PagesInOrder
  <2> QED
    BY <1>2, <2>2, <2>3, <2>4, <2>5
<1>4. Content = Drop(FlattenSeq(pages), headOff)
  BY DEF Content, Drop
<1>5. Content \in Seq(Word) /\ Len(Content) = Len(FlattenSeq(pages)) - headOff
  BY <1>2, <1>3, <1>4, DropFacts
<1> QED
  BY <1>1, <1>2, <1>3, <1>4, <1>5

(* There are words to pop exactly if there is a word left in the first     *)
(* page, or another page.                                                  *)
LEMMA EmptyWhen ==
  ASSUME PagesInOrder
  PROVE  IsEmptyExact
<1>1. /\ Len(pages) \in Nat /\ Len(pages) > 0 /\ 1 \in 1 .. Len(pages) /\ Len(pages) \in 0 .. Len(pages)
      /\ 1 \in 0 .. Len(pages) /\ 1 - 1 = 0 /\ Len(pages[1]) \in Nat /\ pages[1] \in Seq(Word)
  BY PageFacts DEF PagesInOrder
<1>2. Upto(pages, 1) = Len(pages[1])
  <2>1. Upto(pages, 1) = Upto(pages, 0) + Len(pages[1])
    BY <1>1, UptoNext DEF PagesInOrder
  <2> QED
    BY <1>1, <2>1, UptoEnds DEF PagesInOrder
<1>3. Upto(pages, Len(pages)) = Len(FlattenSeq(pages))
  BY UptoEnds DEF PagesInOrder
<1>4. Content = <<>> <=> Len(FlattenSeq(pages)) = headOff
  <2>1. PICK c : c = Content
    OBVIOUS
  <2>2. c \in Seq(Word) /\ Len(c) = Len(FlattenSeq(pages)) - headOff
    BY <2>1, PageFacts
  <2>3. c = <<>> <=> Len(c) = 0
    BY <2>2, EmptySeq
  <2>4. Len(FlattenSeq(pages)) \in Nat /\ headOff \in 0 .. Len(FlattenSeq(pages))
    BY PageFacts
  <2> QED
    BY <2>1, <2>2, <2>3, <2>4
<1>5. Head(pages) = pages[1]
  BY <1>1 DEF PagesInOrder
<1>6. CASE Len(pages) = 1
  BY <1>1, <1>2, <1>3, <1>4, <1>5, <1>6 DEF IsEmptyExact, IsEmpty, HeadTailShareBuffer, HeadAvailRead, PagesInOrder
<1>7. CASE Len(pages) # 1
  <2>1. 2 \in 1 .. Len(pages) /\ 2 \in 2 .. Len(pages) /\ 2 - 1 = 1 /\ 2 \in 0 .. Len(pages)
    <3>1. PICK n : n = Len(pages)
      OBVIOUS
    <3>2. n \in Nat /\ n > 0 /\ n # 1
      BY <1>1, <1>7, <3>1
    <3>3. 2 \in 1 .. n /\ 2 \in 2 .. n /\ 2 - 1 = 1 /\ 2 \in 0 .. n
      BY <3>2
    <3> QED
      BY <3>1, <3>3
  <2>2. Upto(pages, 2) = Upto(pages, 1) + Len(pages[2])
    BY <2>1, UptoNext DEF PagesInOrder
  <2>3. Upto(pages, 2) <= Len(FlattenSeq(pages)) /\ Len(pages[2]) > 0 /\ Len(pages[2]) \in Nat
    BY <2>1, FlattenRest, PageFacts DEF PagesInOrder
  <2>4. headOff <= Len(pages[1]) /\ headOff \in Nat
    BY <1>1 DEF PagesInOrder
  <2>5. Len(FlattenSeq(pages)) # headOff
    BY <1>1, <1>2, <2>2, <2>3, <2>4, PageFacts
  <2> QED
    BY <1>4, <1>7, <2>5 DEF IsEmptyExact, IsEmpty, HeadTailShareBuffer
<1> QED
  BY <1>6, <1>7

(* The pages a push adds: ws behind its first words, cut in parts of chunk *)
(* words.                                                                  *)
Parts(ws, first, chunk, added) ==
  [j \in 1 .. added |-> SubSeq(ws, first + (j - 1) * chunk + 1, MinOf(first + j * chunk, Len(ws)))]

\* That many parts are needed, and are enough.
PartsFit(n, first, chunk, added) ==
  /\ first \in 0 .. n /\ chunk \in Nat \ {0} /\ added \in Nat
  /\ n <= first + added * chunk
  /\ added > 0 => first + (added - 1) * chunk < n

(* Parts that fit are nowhere empty, and make up what is behind the first  *)
(* words.                                                                  *)
LEMMA PartsOfAll ==
  ASSUME NEW W, NEW ws \in Seq(W), NEW first, NEW chunk, NEW added,
         PartsFit(Len(ws), first, chunk, added)
  PROVE  /\ Parts(ws, first, chunk, added) \in Seq(Seq(W))
         /\ Len(Parts(ws, first, chunk, added)) = added
         /\ \A j \in 1 .. added : Len(Parts(ws, first, chunk, added)[j]) \in 1 .. chunk
         /\ \A j \in 1 .. added : Len(Parts(ws, first, chunk, added)[j])
                                   \in {chunk, Len(ws) - (first + (j - 1) * chunk)}
         /\ FlattenSeq(Parts(ws, first, chunk, added)) = Drop(ws, first)
<1> DEFINE n == Len(ws)
           off == [j \in 0 .. added |-> first + j * chunk]
           end == [j \in 0 .. added |-> MinOf(off[j], n)]
           parts == Parts(ws, first, chunk, added)
<1>0. /\ first \in 0 .. Len(ws) /\ chunk \in Nat \ {0} /\ added \in Nat
      /\ Len(ws) <= first + added * chunk
      /\ added > 0 => first + (added - 1) * chunk < Len(ws)
  BY DEF PartsFit
<1>1. n \in Nat /\ first \in Nat /\ first <= n
  BY <1>0, LenProperties
<1> USE <1>0
<1>2. /\ \A j \in 0 .. added : off[j] \in Nat /\ first <= off[j]
      /\ off[0] = first /\ n <= off[added]
      /\ added > 0 => off[added - 1] < n
  <2>1. ASSUME NEW j \in 0 .. added PROVE off[j] \in Nat /\ first <= off[j]
    <3>1. PICK y : y = j * chunk
      OBVIOUS
    <3>2. y \in Nat /\ off[j] = first + y
      BY <3>1
    <3> HIDE DEF off
    <3> QED
      BY <1>1, <3>2
  <2>2. off[0] = first
    BY <1>1
  <2>3. PICK y, z : y = added * chunk /\ z = (added - 1) * chunk
    OBVIOUS
  <2>4. 0 \in 0 .. added /\ added \in 0 .. added /\ (added > 0 => added - 1 \in 0 .. added)
    OBVIOUS
  <2>5. off[added] = first + y /\ (added > 0 => off[added - 1] = first + z)
    BY Zenon, <2>3, <2>4
  <2>6. n <= first + y /\ (added > 0 => first + z < n)
    BY Zenon, <1>0, <2>3
  <2> HIDE DEF off
  <2> QED
    BY Zenon, <2>1, <2>2, <2>5, <2>6
<1>3. ASSUME NEW j \in 1 .. added PROVE off[j] = off[j - 1] + chunk /\ off[j - 1] < n
  <2>1. j - 1 \in Nat /\ added - 1 \in Nat /\ j - 1 <= added - 1 /\ (j - 1) + 1 = j /\ added > 0
        /\ j - 1 \in 0 .. added /\ added - 1 \in 0 .. added /\ j \in 0 .. added
    OBVIOUS
  <2>2. (j - 1) * chunk <= (added - 1) * chunk /\ j * chunk = (j - 1) * chunk + chunk
        /\ (j - 1) * chunk \in Nat /\ (added - 1) * chunk \in Nat
    BY <2>1, Products
  <2>3. off[j] = first + j * chunk /\ off[j - 1] = first + (j - 1) * chunk /\ off[added - 1] = first + (added - 1) * chunk
    BY <2>1
  <2> HIDE DEF off
  <2>4. off[added - 1] < n
    BY <1>2, <2>1
  <2>5. PICK x, y, z : x = j * chunk /\ y = (j - 1) * chunk /\ z = (added - 1) * chunk
    OBVIOUS
  <2>6. /\ y <= z /\ x = y + chunk /\ y \in Nat /\ z \in Nat
        /\ off[j] = first + x /\ off[j - 1] = first + y /\ off[added - 1] = first + z
    BY Zenon, <2>2, <2>3, <2>5
  <2> QED
    BY <1>1, <2>4, <2>6
<1>4. ASSUME NEW j \in 1 .. added
      PROVE  /\ parts[j] = SubSeq(ws, end[j - 1] + 1, end[j])
             /\ end[j - 1] \in first .. n /\ end[j] \in end[j - 1] + 1 .. n /\ end[j] <= end[j - 1] + chunk
             /\ end[j - 1] = first + (j - 1) * chunk /\ end[j] \in {end[j - 1] + chunk, n}
  <2>1. j - 1 \in 0 .. added /\ j \in 0 .. added
    OBVIOUS
  <2>2. parts[j] = SubSeq(ws, off[j - 1] + 1, MinOf(off[j], n))
    BY Zenon, <2>1 DEF Parts
  <2>3. end[j - 1] = MinOf(off[j - 1], n) /\ end[j] = MinOf(off[j], n)
    BY Zenon, <2>1
  <2>6. first <= off[j - 1] /\ off[j] \in Nat /\ off[j - 1] \in Nat
    <3> HIDE DEF off
    <3> QED
      BY <1>2, <2>1
  <2>7. off[j] = off[j - 1] + chunk /\ off[j - 1] < n
    BY <1>3
  <2>10. off[j - 1] = first + (j - 1) * chunk
    BY Zenon, <2>1
  <2> HIDE DEF off, end, n, parts
  <2>8. end[j - 1] = off[j - 1]
    BY <1>1, <2>3, <2>6, <2>7 DEF MinOf
  <2>9. end[j] \in end[j - 1] + 1 .. n /\ end[j] <= end[j - 1] + chunk /\ end[j] \in {end[j - 1] + chunk, n}
    BY <1>1, <2>3, <2>6, <2>7, <2>8, SMTT(40) DEF MinOf
  <2>11. end[j - 1] \in first .. n
    BY <1>1, <2>6, <2>7, <2>8
  <2>12. parts[j] = SubSeq(ws, end[j - 1] + 1, end[j])
    BY Zenon, <2>2, <2>3, <2>8
  <2> QED
    BY Zenon, <2>8, <2>9, <2>10, <2>11, <2>12
<1>5. end[0] = first /\ end[added] = n
  <2>1. 0 \in 0 .. added /\ added \in 0 .. added
    OBVIOUS
  <2>2. end[0] = MinOf(off[0], n) /\ end[added] = MinOf(off[added], n) /\ off[added] \in Nat
    BY <1>2, <2>1
  <2> HIDE DEF off, end, n
  <2> QED
    BY <1>1, <1>2, <2>2 DEF MinOf
<1>6. ASSUME NEW j \in 1 .. added
      PROVE  /\ parts[j] \in Seq(W) /\ Len(parts[j]) \in 1 .. chunk
             /\ Len(parts[j]) \in {chunk, n - (first + (j - 1) * chunk)}
  <2>1. PICK a, b : a = end[j - 1] + 1 /\ b = end[j]
    OBVIOUS
  <2>2. /\ parts[j] = SubSeq(ws, a, b) /\ a \in 1 .. n /\ b \in a .. n /\ b - a + 1 \in 1 .. chunk
        /\ b - a + 1 \in {chunk, n - (first + (j - 1) * chunk)}
    <3> HIDE DEF end, parts, n, off
    <3>1. parts[j] = SubSeq(ws, a, b)
      BY Zenon, <1>4, <2>1
    <3>2. PICK c : c = end[j - 1]
      OBVIOUS
    <3>3. c \in first .. n /\ b \in c + 1 .. n /\ b <= c + chunk /\ a = c + 1 /\ b \in {c + chunk, n}
      BY Zenon, <1>4, <2>1, <3>2
    <3>4. a \in 1 .. n /\ b \in a .. n /\ b - a + 1 \in 1 .. chunk /\ b - a + 1 \in {chunk, n - c}
      BY <1>1, <3>3
    <3>5. c = first + (j - 1) * chunk
      BY Zenon, <1>4, <3>2
    <3> QED
      BY Zenon, <3>1, <3>4, <3>5
  <2>3. \A i \in a .. b : ws[i] \in W
    BY <1>1, <2>2, ElementOfSeq
  <2>4. a \in Int /\ b \in Int /\ a <= b
    BY <2>2, <1>1
  <2>5. SubSeq(ws, a, b) \in Seq(W) /\ Len(SubSeq(ws, a, b)) = b - a + 1
    BY <2>3, <2>4, SubSeqProperties
  <2> HIDE DEF parts
  <2> QED
    BY Zenon, <2>2, <2>5
<1>7. parts \in Seq(Seq(W)) /\ Len(parts) = added
  <2>1. parts = [j \in 1 .. added |-> parts[j]]
    BY Zenon DEF Parts
  <2> HIDE DEF parts
  <2>2. parts \in [1 .. added -> Seq(W)]
    BY Zenon, <1>6, <2>1
  <2> QED
    BY <2>2, FunctionIsSeq
<1> HIDE DEF off
<1> DEFINE f == [j \in 0 .. added |-> SubSeq(ws, first + 1, end[j])]
<1>8. f[0] = <<>>
  <2>1. 0 \in 0 .. added
    OBVIOUS
  <2>2. f[0] = SubSeq(ws, first + 1, first)
    BY Zenon, <1>5, <2>1
  <2>3. first < first + 1 /\ first \in Int /\ first + 1 \in Int
    BY <1>1
  <2>4. SubSeq(ws, first + 1, first) = <<>>
    BY <2>3, SubSeqEmpty
  <2> QED
    BY Zenon, <2>2, <2>4
<1>9. ASSUME NEW j \in 1 .. added PROVE f[j] = f[j - 1] \o parts[j]
  <2>1. j - 1 \in 0 .. added /\ j \in 0 .. added
    OBVIOUS
  <2>2. f[j] = SubSeq(ws, first + 1, end[j]) /\ f[j - 1] = SubSeq(ws, first + 1, end[j - 1])
    BY Zenon, <2>1
  <2>3. PICK m, k, e : m = first + 1 /\ k = end[j - 1] /\ e = end[j]
    OBVIOUS
  <2>4. m \in 1 .. n + 1 /\ k \in m - 1 .. n /\ e \in k .. n /\ parts[j] = SubSeq(ws, k + 1, e)
    <3> HIDE DEF end, parts, n
    <3>1. parts[j] = SubSeq(ws, k + 1, e)
      BY Zenon, <1>4, <2>3
    <3>2. k \in first .. n /\ e \in k + 1 .. n
      BY Zenon, <1>4, <2>3
    <3> QED
      BY <1>1, <2>3, <3>1, <3>2
  <2>5. SubSeq(ws, m, k) \o SubSeq(ws, k + 1, e) = SubSeq(ws, m, e)
    BY <2>4, ConcatAdjacentSubSeq
  <2> QED
    BY Zenon, <2>2, <2>3, <2>4, <2>5
<1>10. f \in [0 .. added -> Seq(W)]
  <2>1. ASSUME NEW j \in 0 .. added PROVE SubSeq(ws, first + 1, end[j]) \in Seq(W)
    <3>1. end[j] \in first .. n
      <4>1. CASE j = 0
        <5> HIDE DEF end, n
        <5> QED
          BY <1>1, <1>5, <4>1
      <4>2. CASE j # 0
        <5>1. j \in 1 .. added
          BY <4>2
        <5> HIDE DEF end, n, parts
        <5>2. PICK c, e : c = end[j - 1] /\ e = end[j]
          OBVIOUS
        <5>3. c \in first .. n /\ e \in c + 1 .. n
          BY Zenon, <1>4, <5>1, <5>2
        <5> QED
          BY <1>1, <5>2, <5>3
      <4> QED
        BY <4>1, <4>2
    <3>2. PICK m, e : m = first + 1 /\ e = end[j]
      OBVIOUS
    <3>3. m \in Int /\ e \in Int /\ m \in 1 .. n + 1 /\ e <= n
      <4> HIDE DEF end, n
      <4> QED
        BY <1>1, <3>1, <3>2
    <3>4. \A i \in m .. e : ws[i] \in W
      BY <1>1, <3>3, ElementOfSeq
    <3>5. SubSeq(ws, m, e) \in Seq(W)
      BY <3>3, <3>4, SubSeqProperties
    <3> QED
      BY Zenon, <3>2, <3>5
  <2> QED
    BY Zenon, <2>1
<1> HIDE DEF f
<1>11. Flattening(f, W, parts)
  <2> HIDE DEF parts
  <2> QED
    BY Zenon, <1>7, <1>8, <1>9, <1>10 DEF Flattening
<1>12. FlattenSeq(parts) = f[added]
  <2> HIDE DEF parts
  <2> QED
    BY <1>7, <1>11, FlattenEntry
<1>13. f[added] = Drop(ws, first)
  <2>1. added \in 0 .. added
    OBVIOUS
  <2> QED
    BY Zenon, <1>5, <2>1 DEF f, Drop
<1> QED
  BY Zenon, <1>6, <1>7, <1>12, <1>13

----------------------------------------------------------------------------
(* What a push does to the pages.                                          *)

\* So many words are whole elements.
Whole(x) == \E q \in Nat : x = q * EltSize

(* Sums and differences of whole elements are whole, and a smaller one     *)
(* lies an element below.                                                  *)
LEMMA WholeFacts ==
  ASSUME NEW x, NEW y, Whole(x), Whole(y)
  PROVE  /\ x \in Nat /\ Whole(x + y) /\ (y <= x => Whole(x - y)) /\ (x < y => x + EltSize <= y)
         /\ Whole(0) /\ Whole(EltSize)
<1>1. EltSize \in Nat /\ EltSize > 0
  BY DequeAssumption
<1>2. PICK p \in Nat : x = p * EltSize
  BY DEF Whole
<1>3. PICK q \in Nat : y = q * EltSize
  BY DEF Whole
<1>4. x \in Nat /\ y \in Nat
  BY <1>1, <1>2, <1>3
<1>5. Whole(x + y)
  <2>1. p + q \in Nat /\ x + y = (p + q) * EltSize
    BY <1>1, <1>2, <1>3
  <2> QED
    BY <2>1 DEF Whole
<1>6. ASSUME y <= x PROVE Whole(x - y)
  <2>1. CASE q <= p
    <3>1. p - q \in Nat /\ x - y = (p - q) * EltSize
      BY <1>1, <1>2, <1>3, <2>1
    <3> QED
      BY <3>1 DEF Whole
  <2>2. CASE ~ (q <= p)
    <3>1. x <= y
      BY <1>1, <1>2, <1>3, <2>2, Products
    <3>2. x - y = 0 * EltSize
      BY <1>1, <1>4, <1>6, <3>1
    <3> QED
      BY <3>2 DEF Whole
  <2> QED
    BY <2>1, <2>2
<1>7. ASSUME x < y PROVE x + EltSize <= y
  <2>1. CASE q <= p
    <3>1. y <= x
      BY <1>1, <1>2, <1>3, <2>1, Products
    <3> QED
      BY <1>4, <1>7, <3>1
  <2>2. CASE ~ (q <= p)
    <3>1. p + 1 \in Nat /\ p + 1 <= q
      BY <2>2
    <3>2. (p + 1) * EltSize <= q * EltSize /\ (p + 1) * EltSize = p * EltSize + EltSize
      BY <1>1, <3>1, Products
    <3> QED
      BY <1>2, <1>3, <3>2
  <2> QED
    BY <2>1, <2>2
<1>8. Whole(0) /\ Whole(EltSize)
  <2>1. 0 = 0 * EltSize /\ EltSize = 1 * EltSize
    BY <1>1
  <2> QED
    BY <2>1 DEF Whole
<1> QED
  BY <1>4, <1>5, <1>6, <1>7, <1>8

(* So are multiples.                                                       *)
LEMMA WholeProduct ==
  ASSUME NEW i \in Nat, NEW x, Whole(x)
  PROVE  Whole(i * x)
<1>1. EltSize \in Nat
  BY DequeAssumption
<1>2. PICK p \in Nat : x = p * EltSize
  BY DEF Whole
<1>3. i * p \in Nat /\ i * (p * EltSize) = (i * p) * EltSize
  BY <1>1
<1> QED
  BY <1>2, <1>3 DEF Whole

\* All pages of s end with an element.
WholePages(s) == \A p \in 1 .. Len(s) : Whole(Len(s[p]))

(* What a push leaves: the words pushed are behind those that were there.  *)
LEMMA TailPushedFacts ==
  ASSUME PagesInOrder, nrWordsElt \in Nat \ {0}, nrWordsElt <= Cap, NEW ws \in Seq(Word)
  PROVE  /\ TailPushed(ws) \in Seq(Seq(Word)) /\ Len(pages) <= Len(TailPushed(ws))
         /\ \A p \in 1 .. Len(TailPushed(ws)) : Len(TailPushed(ws)[p]) <= Cap
         /\ \A p \in 2 .. Len(TailPushed(ws)) : Len(TailPushed(ws)[p]) > 0
         /\ \A p \in 1 .. Len(pages) - 1 : TailPushed(ws)[p] = pages[p]
         /\ Len(pages[Len(pages)]) <= Len(TailPushed(ws)[Len(pages)])
         /\ FlattenSeq(TailPushed(ws)) = FlattenSeq(pages) \o ws
         /\ nrWordsElt = EltSize /\ Whole(Len(ws)) /\ WholePages(pages) => WholePages(TailPushed(ws))
<1> DEFINE n     == Len(ws)
           first == EntierDownBy(MinOf(n, TailAvailWrite), nrWordsElt)
           chunk == EntierDownBy(Cap, nrWordsElt)
           added == (n - first + chunk - 1) \div chunk
<1>1. PICK L : L = Len(pages)
  OBVIOUS
<1>2. /\ L \in Nat /\ L > 0 /\ L \in 1 .. L /\ L - 1 \in 0 .. L /\ n \in Nat /\ Cap \in Nat
      /\ pages[L] \in Seq(Word) /\ Len(pages[L]) \in Nat /\ Len(pages[L]) <= Cap
      /\ Last(pages) = pages[L]
  <2>1. L \in Nat /\ L > 0 /\ n \in Nat /\ Cap \in Nat
    BY <1>1, PageFacts, LenProperties, DequeAssumption DEF PagesInOrder
  <2>2. L \in 1 .. L /\ L - 1 \in 0 .. L
    BY <2>1
  <2>3. pages[L] \in Seq(Word) /\ Len(pages[L]) \in Nat /\ Len(pages[L]) <= Cap
    BY <1>1, <2>2, PageFacts DEF PagesInOrder
  <2> QED
    BY Zenon, <1>1, <2>1, <2>2, <2>3 DEF Last
<1>3. MinOf(n, TailAvailWrite) \in 0 .. n /\ MinOf(n, TailAvailWrite) <= Cap - Len(pages[L])
  <2>1. PICK k, m : k = Len(pages[L]) /\ m = TailAvailWrite
    OBVIOUS
  <2>2. m = Cap - k
    BY Zenon, <1>2, <2>1 DEF TailAvailWrite
  <2>3. k \in Nat /\ k <= Cap
    BY <1>2, <2>1
  <2> HIDE DEF n
  <2>4. MinOf(n, m) \in 0 .. n /\ MinOf(n, m) <= m
    BY <1>2, <2>2, <2>3 DEF MinOf
  <2> QED
    BY Zenon, <2>1, <2>2, <2>4
<1>4. first \in 0 .. n /\ first <= Cap - Len(pages[L])
  <2>1. first \in 0 .. MinOf(n, TailAvailWrite)
    <3>1. PICK x : x = MinOf(n, TailAvailWrite)
      OBVIOUS
    <3>2. x \in Nat
      BY <1>2, <1>3, <3>1
    <3>3. EntierDownBy(x, nrWordsElt) \in 0 .. x
      BY <3>2, Rounding
    <3> QED
      BY Zenon, <3>1, <3>3
  <2> HIDE DEF first, n
  <2> QED
    BY <1>2, <1>3, <2>1
<1>5. chunk \in 1 .. Cap
  <2>1. chunk \in 0 .. Cap /\ Cap < chunk + nrWordsElt
    BY <1>2, Rounding
  <2> HIDE DEF chunk
  <2> QED
    BY <1>2, <2>1
<1>23. Whole(EltSize) => (nrWordsElt = EltSize => Whole(first) /\ Whole(chunk))
  <2>1. PICK x : x = MinOf(n, TailAvailWrite)
    OBVIOUS
  <2>2. x \in Nat
    BY <1>2, <1>3, <2>1
  <2>3. /\ EntierDownBy(x, nrWordsElt) = (x \div nrWordsElt) * nrWordsElt /\ x \div nrWordsElt \in Nat
        /\ EntierDownBy(Cap, nrWordsElt) = (Cap \div nrWordsElt) * nrWordsElt /\ Cap \div nrWordsElt \in Nat
    BY <1>2, <2>2, Rounding
  <2> QED
    BY Zenon, <2>1, <2>3 DEF Whole
<1> HIDE DEF first, chunk
<1>6. added \in Nat /\ n <= first + added * chunk /\ (added > 0 => first + (added - 1) * chunk < n)
  <2>1. PICK x : x = n - first + chunk - 1
    OBVIOUS
  <2>2. x \in Nat /\ chunk \in Nat \ {0}
    BY <1>2, <1>4, <1>5, <2>1
  <2>3. (x \div chunk) \in Nat /\ (x \div chunk) * chunk \in 0 .. x /\ x < (x \div chunk) * chunk + chunk
    BY <2>2, Rounding
  <2>4. PICK q : q = x \div chunk
    OBVIOUS
  <2>5. PICK y : y = q * chunk
    OBVIOUS
  <2>6. q \in Nat /\ y \in 0 .. x /\ x < y + chunk /\ (q - 1) * chunk = y - chunk
    <3>1. q \in Nat /\ y \in 0 .. x /\ x < y + chunk
      BY <2>3, <2>4, <2>5
    <3>2. (q - 1) * chunk = q * chunk - chunk
      BY <2>2, <3>1
    <3> QED
      BY <3>1, <3>2, <2>5
  <2>7. added = q
    BY <2>1, <2>4
  <2> HIDE DEF added
  <2> QED
    BY <1>2, <1>4, <1>5, <2>1, <2>2, <2>5, <2>6, <2>7
<1> HIDE DEF added
<1> DEFINE A == [pages EXCEPT ![L] = @ \o SubSeq(ws, 1, first)]
           B == Parts(ws, first, chunk, added)
           w == SubSeq(ws, 1, first)
<1>7. TailPushed(ws) = A \o B
  BY Zenon, <1>1 DEF TailPushed, Parts, first, chunk, added
<1>8. /\ B \in Seq(Seq(Word)) /\ Len(B) = added
      /\ \A j \in 1 .. added : Len(B[j]) \in 1 .. chunk
      /\ \A j \in 1 .. added : Len(B[j]) \in {chunk, n - (first + (j - 1) * chunk)}
      /\ FlattenSeq(B) = Drop(ws, first)
  <2>1. chunk \in Nat \ {0}
    BY <1>5
  <2>2. PartsFit(Len(ws), first, chunk, added)
    BY Zenon, <1>4, <1>6, <2>1 DEF PartsFit
  <2> QED
    BY <2>2, PartsOfAll
<1>9. w \in Seq(Word) /\ Len(w) = first /\ ws = w \o Drop(ws, first)
  <2> HIDE DEF w
  <2> QED
    BY <1>4, Cut, ZenonT(60) DEF w, Drop
<1>10. /\ A \in Seq(Seq(Word)) /\ Len(A) = L /\ A[L] = pages[L] \o w
       /\ \A p \in 1 .. L - 1 : A[p] = pages[p]
  <2>1. pages[L] \o w \in Seq(Word)
    BY <1>2, <1>9, ConcatProperties
  <2>2. PICK e : e = pages[L] \o w
    OBVIOUS
  <2>3. A = [pages EXCEPT ![L] = e]
    BY Zenon, <2>2
  <2>4. ASSUME NEW p \in 1 .. L - 1 PROVE p \in 1 .. L /\ p # L
    BY <1>2
  <2>5. /\ [pages EXCEPT ![L] = e] \in Seq(Seq(Word)) /\ Len([pages EXCEPT ![L] = e]) = L
        /\ \A p \in 1 .. L : [pages EXCEPT ![L] = e][p] = IF p = L THEN e ELSE pages[p]
    BY <1>1, <1>2, <2>1, <2>2, ExceptSeq DEF PagesInOrder
  <2> HIDE DEF A, w
  <2> QED
    BY <1>2, <2>2, <2>3, <2>4, <2>5
<1>11. Len(A[L]) = Len(pages[L]) + first
  <2>1. Len(pages[L] \o w) = Len(pages[L]) + Len(w)
    BY <1>2, <1>9, ConcatProperties
  <2> HIDE DEF A, w
  <2> QED
    BY <1>9, <1>10, <2>1
<1> HIDE DEF A, B, w
<1>12. /\ A \o B \in Seq(Seq(Word)) /\ Len(A \o B) = L + added
       /\ \A p \in 1 .. L + added : (A \o B)[p] = IF p <= L THEN A[p] ELSE B[p - L]
  BY <1>8, <1>10, ConcatProperties, ZenonT(60)
<1>13. FlattenSeq(A) = FlattenSeq(pages) \o w
  <2>1. SubSeq(A, 1, L) = A /\ SubSeq(pages, 1, L) = pages
    BY <1>1, <1>10, SubSeqFull DEF PagesInOrder
  <2>2. SubSeq(A, 1, L - 1) = SubSeq(pages, 1, L - 1)
    <3>1. PICK a, b, k : a = SubSeq(A, 1, k) /\ b = SubSeq(pages, 1, k) /\ k = L - 1
      OBVIOUS
    <3>2. k \in 0 .. L /\ k \in Int
      BY <1>2, <3>1
    <3>3. a \in Seq(Seq(Word)) /\ Len(a) = k /\ b \in Seq(Seq(Word)) /\ Len(b) = k
      <4>1. SubSeq(A, 1, k) \in Seq(Seq(Word)) /\ Len(SubSeq(A, 1, k)) = k
        BY <1>10, <3>2, Cut
      <4>2. SubSeq(pages, 1, k) \in Seq(Seq(Word)) /\ Len(SubSeq(pages, 1, k)) = k
        BY <1>1, <3>2, Cut DEF PagesInOrder
      <4> QED
        BY Zenon, <3>1, <4>1, <4>2
    <3>4. \A i \in 1 .. k : a[i] = A[i] /\ b[i] = pages[i]
      BY <3>1, <3>2
    <3>5. \A i \in 1 .. k : a[i] = b[i]
      BY <1>10, <3>1, <3>4
    <3>6. a = b
      BY <3>3, <3>5, SeqEqual
    <3> QED
      BY Zenon, <3>1, <3>6
  <2>3. FlattenSeq(SubSeq(pages, 1, L)) = FlattenSeq(SubSeq(pages, 1, L - 1)) \o pages[L]
    BY <1>1, <1>2, UptoNext DEF PagesInOrder
  <2>4. FlattenSeq(SubSeq(A, 1, L)) = FlattenSeq(SubSeq(A, 1, L - 1)) \o A[L]
    BY <1>2, <1>10, UptoNext
  <2>5. PICK a : a = FlattenSeq(SubSeq(pages, 1, L - 1))
    OBVIOUS
  <2>6. a \in Seq(Word)
    <3>1. SubSeq(pages, 1, L - 1) \in Seq(Seq(Word))
      BY <1>1, <1>2, Cut DEF PagesInOrder
    <3> QED
      BY <2>5, <3>1, FlattenType
  <2>7. PICK c, d, b : c = a \o b /\ d = b \o w /\ b = pages[L]
    OBVIOUS
  <2>8. c \o w = a \o d
    <3>1. b \in Seq(Word) /\ w \in Seq(Word) /\ c = a \o b /\ d = b \o w
      BY Zenon, <1>2, <1>9, <2>7
    <3> QED
      BY <2>6, <3>1, Associative, SMTT(40)
  <2>9. FlattenSeq(A) = a \o d
    BY Zenon, <1>10, <2>1, <2>2, <2>4, <2>5, <2>7
  <2>10. FlattenSeq(pages) = c
    BY Zenon, <2>1, <2>3, <2>5, <2>7
  <2> QED
    BY Zenon, <2>8, <2>9, <2>10
<1>14. FlattenSeq(A \o B) = FlattenSeq(pages) \o ws
  <2>1. FlattenSeq(A \o B) = FlattenSeq(A) \o FlattenSeq(B)
    BY <1>8, <1>10, FlattenConcat
  <2>2. PICK a, b, c : a = FlattenSeq(pages) /\ b = Drop(ws, first) /\ c = FlattenSeq(A)
    OBVIOUS
  <2>3. a \in Seq(Word) /\ b \in Seq(Word)
    <3>1. Drop(ws, first) \in Seq(Word)
      BY <1>4, DropFacts
    <3> QED
      BY <2>2, <3>1, PageFacts
  <2>4. c = a \o w /\ ws = w \o b
    BY Zenon, <1>9, <1>13, <2>2
  <2>5. c \o b = a \o ws
    BY <1>9, <2>3, <2>4, Associative, SMTT(40)
  <2> QED
    BY Zenon, <1>8, <2>1, <2>2, <2>5
<1>15. PICK t : t = A \o B
  OBVIOUS
<1>16. /\ t \in Seq(Seq(Word)) /\ Len(t) = L + added
       /\ \A p \in 1 .. L : t[p] = A[p]
       /\ \A p \in L + 1 .. L + added : p - L \in 1 .. added /\ t[p] = B[p - L]
  <2>1. /\ \A p \in 1 .. L : p \in 1 .. L + added /\ p <= L
        /\ \A p \in L + 1 .. L + added : p \in 1 .. L + added /\ ~ (p <= L) /\ p - L \in 1 .. added
    BY <1>2, <1>6
  <2> QED
    BY Zenon, <1>12, <1>15, <2>1
<1>17. \A p \in 1 .. L - 1 : t[p] = pages[p] /\ p \in 1 .. L
  BY <1>2, <1>10, <1>16
<1>18. Len(t[L]) = Len(pages[L]) + first
  BY <1>2, <1>11, <1>16
<1>19. \A p \in 1 .. L + added : p \in 1 .. L - 1 \/ p = L \/ p \in L + 1 .. L + added
  BY <1>2, <1>6
<1>20. ASSUME NEW p \in 1 .. L + added PROVE Len(t[p]) <= Cap
  <2>1. CASE p \in 1 .. L - 1
    BY <1>1, <1>17, <2>1 DEF PagesInOrder
  <2>2. CASE p = L
    BY <1>2, <1>4, <1>18, <2>2
  <2>3. CASE p \in L + 1 .. L + added
    BY <1>2, <1>5, <1>8, <1>16, <2>3
  <2> QED
    BY <1>19, <2>1, <2>2, <2>3
<1>21. ASSUME NEW p \in 2 .. L + added PROVE Len(t[p]) > 0
  <2>1. CASE p \in 1 .. L - 1
    <3>1. p \in 2 .. L
      BY <1>2, <2>1
    <3> QED
      BY <1>1, <1>17, <2>1, <3>1 DEF PagesInOrder
  <2>2. CASE p = L
    <3>1. p \in 2 .. L
      BY <1>2, <2>2
    <3>2. Len(pages[L]) > 0
      BY <1>1, <2>2, <3>1 DEF PagesInOrder
    <3> QED
      BY <1>2, <1>4, <1>18, <2>2, <3>2
  <2>3. CASE p \in L + 1 .. L + added
    BY <1>2, <1>5, <1>8, <1>16, <2>3
  <2> QED
    BY <1>2, <1>6, <1>19, <2>1, <2>2, <2>3
<1>22. L <= L + added /\ Len(pages[L]) <= Len(t[L])
  BY <1>2, <1>4, <1>6, <1>18
<1>24. ASSUME nrWordsElt = EltSize, Whole(n), WholePages(pages) PROVE WholePages(t)
  <2>1. Whole(first) /\ Whole(chunk)
    BY <1>23, <1>24, WholeFacts
  <2> SUFFICES ASSUME NEW p \in 1 .. L + added PROVE Whole(Len(t[p]))
    BY <1>16 DEF WholePages
  <2>2. CASE p \in 1 .. L - 1
    <3>1. t[p] = pages[p] /\ p \in 1 .. Len(pages)
      BY Zenon, <1>1, <1>17, <2>2
    <3> QED
      BY Zenon, <1>24, <3>1 DEF WholePages
  <2>3. CASE p = L
    <3>1. Whole(Len(pages[L]))
      BY Zenon, <1>1, <1>2, <1>24 DEF WholePages
    <3>2. Whole(Len(pages[L]) + first)
      BY <2>1, <3>1, WholeFacts
    <3> QED
      BY Zenon, <1>18, <2>3, <3>2
  <2>4. CASE p \in L + 1 .. L + added
    <3>1. PICK j : j = p - L
      OBVIOUS
    <3>2. j \in 1 .. added /\ t[p] = B[j]
      BY Zenon, <1>16, <2>4, <3>1
    <3>3. PICK x, m : x = (j - 1) * chunk /\ m = Len(B[j])
      OBVIOUS
    <3>4. m \in {chunk, n - (first + x)} /\ m \in 1 .. chunk
      BY Zenon, <1>8, <3>2, <3>3
    <3>5. Whole(x)
      <4>1. j - 1 \in Nat
        BY <1>6, <3>2
      <4> QED
        BY <2>1, <3>3, <4>1, WholeProduct
    <3>6. CASE m = chunk
      BY Zenon, <2>1, <3>2, <3>3, <3>6
    <3>7. CASE m = n - (first + x)
      <4>1. Whole(first + x)
        BY <2>1, <3>5, WholeFacts
      <4>2. PICK y : y = first + x
        OBVIOUS
      <4>3. y <= n
        BY <1>2, <1>5, <3>4, <3>7, <4>1, <4>2, WholeFacts
      <4>4. Whole(n - y)
        BY <1>24, <4>1, <4>2, <4>3, WholeFacts
      <4> QED
        BY Zenon, <3>2, <3>3, <3>7, <4>2, <4>4
    <3> QED
      BY Zenon, <3>4, <3>6, <3>7
  <2> QED
    BY Zenon, <1>19, <2>2, <2>3, <2>4
<1> QED
  BY Zenon, <1>1, <1>7, <1>14, <1>15, <1>16, <1>17, <1>20, <1>21, <1>22, <1>24

----------------------------------------------------------------------------
(* What a pop does to the pages.                                           *)

\* d pages are left behind when k words are read.
PopsPages(k, d) ==
  /\ d \in 0 .. Len(pages) - 1 /\ k \in 0 .. Len(Content)
  /\ Upto(pages, d) <= headOff + k /\ headOff + k <= Upto(pages, d + 1)

(* The page at which a pop stops exists, and determines what it leaves.    *)
LEMMA HeadPoppedFacts ==
  ASSUME PagesInOrder, NEW n \in Nat
  PROVE  \E d : LET k == MinOf(n, Len(Content))
                IN  /\ PopsPages(k, d)
                    /\ HeadPopped(n) = [pages   |-> Drop(pages, d),
                                        headOff |-> headOff + k - Upto(pages, d),
                                        words   |-> SubSeq(Content, 1, k)]
<1> DEFINE k == MinOf(n, Len(Content))
           ok(p) == /\ p > 0 => ReadUpTo(p) <= k
                    /\ \A q \in p + 1 .. Len(pages) - 1 : ReadUpTo(q) > k
<1>1. PICK L : L = Len(pages)
  OBVIOUS
<1>2. L \in Nat /\ L > 0 /\ headOff \in Nat /\ Len(Content) \in Nat /\ Len(Content) = Len(FlattenSeq(pages)) - headOff
  <2>1. PICK c, x : c = Content /\ x = Len(FlattenSeq(pages))
    OBVIOUS
  <2>2. x \in Nat /\ headOff \in 0 .. x /\ Len(c) = x - headOff
    BY Zenon, <2>1, PageFacts
  <2>3. L \in Nat /\ L > 0
    BY <1>1, PageFacts DEF PagesInOrder
  <2>4. headOff \in Nat /\ Len(c) \in Nat
    BY <2>2
  <2> QED
    BY Zenon, <2>1, <2>2, <2>3, <2>4
<1>3. k \in 0 .. Len(Content)
  <2>1. PICK x : x = Len(Content)
    OBVIOUS
  <2>2. x \in Nat
    BY <1>2, <2>1
  <2>3. MinOf(n, x) \in 0 .. x
    BY <2>2 DEF MinOf
  <2> QED
    BY Zenon, <2>1, <2>3
<1>4. \A p \in 0 .. L : Upto(pages, p) \in Nat
  BY <1>1, FlattenRest DEF PagesInOrder
<1>5. \A p : ReadUpTo(p) = Upto(pages, p) - headOff
  BY Zenon DEF ReadUpTo, Upto
<1> HIDE DEF k
<1>6. k \in Nat
  BY <1>2, <1>3
<1>7. \E p \in 0 .. L - 1 : ok(p)
  <2> DEFINE T == {i \in Nat : i <= L - 1 /\ (L - 1 - i = 0 \/ ReadUpTo(L - 1 - i) <= k)}
  <2>1. L - 1 \in T
    BY <1>2
  <2>2. T \subseteq Nat
    OBVIOUS
  <2>3. PICK i \in T : \A j \in T : i <= j
    <3> HIDE DEF T
    <3> QED
      BY <2>1, <2>2, LeastNatural
  <2>4. i \in Nat /\ i <= L - 1 /\ (L - 1 - i = 0 \/ ReadUpTo(L - 1 - i) <= k)
    OBVIOUS
  <2>5. L - 1 - i \in 0 .. L - 1
    BY <1>2, <2>4
  <2>6. ASSUME NEW q \in L - 1 - i + 1 .. L - 1 PROVE ReadUpTo(q) > k
    <3>1. L - 1 - q \in Nat /\ L - 1 - q <= L - 1 /\ L - 1 - q < i /\ L - 1 - (L - 1 - q) = q /\ q \in 0 .. L
      BY <1>2, <2>4
    <3>2. L - 1 - q \notin T
      <4> HIDE DEF T
      <4> QED
        BY <2>2, <2>3, <3>1
    <3>3. ~ (ReadUpTo(q) <= k)
      BY <3>1, <3>2
    <3>4. ReadUpTo(q) \in Int
      BY <1>2, <1>4, <1>5, <3>1
    <3> QED
      BY <1>6, <3>3, <3>4
  <2>7. ok(L - 1 - i)
    BY <1>1, <2>4, <2>6
  <2> HIDE DEF T, ok
  <2> QED
    BY <2>5, <2>7
<1> DEFINE d == CHOOSE p \in 0 .. Len(pages) - 1 : ok(p)
<1>8. d \in 0 .. L - 1 /\ ok(d)
  <2> HIDE DEF ok
  <2> QED
    BY Zenon, <1>1, <1>7
<1>9. HeadPopped(n) = [pages |-> SubSeq(pages, d + 1, Len(pages)),
                       headOff |-> IF d = 0 THEN headOff + k ELSE k - ReadUpTo(d),
                       words |-> SubSeq(Content, 1, k)]
  BY Zenon DEF HeadPopped, k
<1> HIDE DEF d
<1>10. Upto(pages, d) \in Nat /\ (d = 0 => Upto(pages, d) = 0)
  <2>1. d \in 0 .. L
    BY <1>2, <1>8
  <2>2. d = 0 => Upto(pages, d) = 0
    BY UptoEnds DEF PagesInOrder
  <2> QED
    BY <1>4, <2>1, <2>2
<1>11. PICK u, r, h : u = Upto(pages, d) /\ r = ReadUpTo(d) /\ h = headOff
  OBVIOUS
<1>12. u \in Nat /\ (d = 0 => u = 0) /\ r = u - h /\ h \in Nat /\ (d > 0 => r <= k)
  BY Zenon, <1>2, <1>5, <1>8, <1>10, <1>11
<1>13. (IF d = 0 THEN headOff + k ELSE k - ReadUpTo(d)) = headOff + k - Upto(pages, d)
  <2>1. (IF d = 0 THEN h + k ELSE k - r) = h + k - u
    BY <1>6, <1>12
  <2> QED
    BY Zenon, <1>11, <2>1
<1>14. u <= h + k
  BY <1>2, <1>6, <1>8, <1>12
<1>15. headOff + k <= Upto(pages, d + 1)
  <2>1. CASE d = L - 1
    <3>1. Upto(pages, d + 1) = Len(FlattenSeq(pages))
      <4>1. d + 1 = L
        BY <1>2, <2>1
      <4>2. Upto(pages, L) = Len(FlattenSeq(pages))
        BY <1>1, UptoEnds DEF PagesInOrder
      <4> QED
        BY Zenon, <4>1, <4>2
    <3>2. PICK c, x : c = Len(Content) /\ x = Len(FlattenSeq(pages))
      OBVIOUS
    <3>3. c \in Nat /\ c = x - headOff /\ k \in 0 .. c
      BY Zenon, <1>2, <1>3, <3>2
    <3>4. x \in Nat
      BY Zenon, PageFacts, <3>2
    <3>5. headOff + k <= x
      BY <1>2, <3>3, <3>4
    <3> QED
      BY Zenon, <3>1, <3>2, <3>5
  <2>2. CASE d # L - 1
    <3>1. d + 1 \in d + 1 .. L - 1 /\ d + 1 \in 0 .. L
      BY <1>2, <1>8, <2>2
    <3>2. ReadUpTo(d + 1) > k
      BY <1>1, <1>8, <3>1
    <3>3. ReadUpTo(d + 1) = Upto(pages, d + 1) - headOff /\ Upto(pages, d + 1) \in Nat
      BY <1>4, <1>5, <3>1
    <3> QED
      BY <1>2, <1>6, <3>2, <3>3
  <2> QED
    BY <2>1, <2>2
<1>16. PopsPages(k, d)
  BY Zenon, <1>1, <1>3, <1>8, <1>11, <1>14, <1>15 DEF PopsPages
<1>17. HeadPopped(n) = [pages   |-> Drop(pages, d),
                        headOff |-> headOff + k - Upto(pages, d),
                        words   |-> SubSeq(Content, 1, k)]
  BY Zenon, <1>9, <1>13 DEF Drop
<1> QED
  BY Zenon, <1>16, <1>17 DEF k

(* What a pop leaves is in order, and is what was not read.                *)
LEMMA PoppedInOrder ==
  ASSUME PagesInOrder, NEW k, NEW d, PopsPages(k, d), NEW s, s = Drop(pages, d),
         NEW h, h = headOff + k - Upto(pages, d)
  PROVE  /\ s \in Seq(Seq(Word)) /\ Len(s) = Len(pages) - d /\ Len(s) > 0
         /\ \A p \in 1 .. Len(s) : d + p \in 1 .. Len(pages) /\ s[p] = pages[d + p]
         /\ h \in 0 .. Len(s[1])
         /\ Drop(FlattenSeq(s), h) = Drop(Content, k)
<1>1. PICK L : L = Len(pages)
  OBVIOUS
<1>2. /\ L \in Nat /\ L > 0 /\ d \in 0 .. L - 1 /\ headOff \in Nat /\ k \in 0 .. Len(Content)
      /\ d \in 0 .. L /\ d + 1 \in 1 .. L /\ (d + 1) - 1 = d /\ d \in Nat
  <2>1. L \in Nat /\ L > 0 /\ d \in 0 .. L - 1 /\ k \in 0 .. Len(Content)
    BY <1>1, PageFacts DEF PagesInOrder, PopsPages
  <2>2. headOff \in Nat
    <3>1. headOff \in 0 .. Len(FlattenSeq(pages))
      BY PageFacts
    <3> QED
      BY <3>1
  <2> QED
    BY <2>1, <2>2
<1>3. s \in Seq(Seq(Word)) /\ Len(s) = L - d /\ \A p \in 1 .. L - d : s[p] = pages[d + p]
  BY <1>1, <1>2, DropFacts DEF PagesInOrder
<1>4. \A p \in 1 .. L - d : d + p \in 1 .. L
  BY <1>2
<1>5. s[1] = pages[d + 1] /\ Len(pages[d + 1]) \in Nat /\ Len(s) > 0
  <2>1. 1 \in 1 .. L - d /\ L - d > 0
    BY <1>2
  <2> QED
    BY <1>1, <1>2, <1>3, <2>1, PageFacts
<1>6. Upto(pages, d + 1) = Upto(pages, d) + Len(pages[d + 1])
  BY <1>1, <1>2, UptoNext DEF PagesInOrder
<1>7. Upto(pages, d) \in Nat
  BY <1>1, <1>2, FlattenRest DEF PagesInOrder
<1>8. PICK u, v, c : u = Upto(pages, d) /\ v = Upto(pages, d + 1) /\ c = Len(Content)
  OBVIOUS
<1>9. /\ u \in Nat /\ v = u + Len(pages[d + 1]) /\ u <= headOff + k /\ headOff + k <= v
      /\ h = headOff + k - u /\ k \in 0 .. c
  BY Zenon, <1>2, <1>6, <1>7, <1>8 DEF PopsPages
<1>10. c \in Nat
  BY <1>8, PageFacts, LenProperties
<1>11. h \in 0 .. Len(s[1])
  BY <1>2, <1>5, <1>9, <1>10
<1>12. PICK a, f, g : a = FlattenSeq(SubSeq(pages, 1, d)) /\ f = FlattenSeq(s) /\ g = FlattenSeq(pages)
  OBVIOUS
<1>13. g = a \o f /\ Len(a) = u
  <2>1. g = FlattenSeq(SubSeq(pages, 1, d)) \o FlattenSeq(SubSeq(pages, d + 1, Len(pages)))
    BY <1>1, <1>2, <1>12, FlattenRest DEF PagesInOrder
  <2> QED
    BY Zenon, <1>8, <1>12, <2>1 DEF Upto, Drop
<1>14. a \in Seq(Word) /\ f \in Seq(Word) /\ Len(f) \in Nat
  <2>1. SubSeq(pages, 1, d) \in Seq(Seq(Word))
    BY <1>1, <1>2, Cut DEF PagesInOrder
  <2> QED
    BY <1>3, <1>12, <2>1, FlattenType
<1>15. g \in Seq(Word) /\ Len(g) = u + Len(f)
  BY <1>13, <1>14, ConcatProperties
<1>16. c = Len(g) - headOff /\ headOff \in 0 .. Len(g) /\ Content = Drop(g, headOff)
  BY Zenon, PageFacts, <1>8, <1>12
<1>17. /\ k \in 0 .. Len(g) - headOff /\ headOff + k = u + h
       /\ h \in 0 .. Len(g) - u /\ u \in 0 .. Len(g)
  BY <1>2, <1>9, <1>10, <1>14, <1>15, <1>16, SMTT(40)
<1>18. Drop(Content, k) = Drop(g, headOff + k)
  <2>1. Drop(Drop(g, headOff), k) = Drop(g, headOff + k)
    BY <1>15, <1>16, <1>17, DropTwice
  <2> QED
    BY Zenon, <1>16, <2>1
<1>19. Drop(f, h) = Drop(g, u + h)
  <2>1. Drop(Drop(g, u), h) = Drop(g, u + h)
    BY <1>15, <1>17, DropTwice
  <2>2. Drop(g, u) = f
    <3>1. Drop(a \o f, Len(a)) = f
      BY <1>14, DropAll
    <3> QED
      BY Zenon, <1>13, <3>1
  <2> QED
    BY Zenon, <2>1, <2>2
<1>20. Drop(FlattenSeq(s), h) = Drop(Content, k)
  BY Zenon, <1>12, <1>17, <1>18, <1>19
<1> QED
  BY Zenon, <1>1, <1>3, <1>4, <1>5, <1>11, <1>20

----------------------------------------------------------------------------
(* The invariant of the pages, and the refinement.                         *)

(* The inductive invariant of the pages.                                   *)
PagesInv == PagesInOrder /\ nrWordsElt \in {1, EltSize}

(* The element size is positive and fits in a page.                        *)
LEMMA EltSizes ==
  ASSUME PagesInv
  PROVE  nrWordsElt \in Nat \ {0} /\ nrWordsElt <= Cap /\ EltSize \in Nat \ {0} /\ Cap \in Nat
BY DequeAssumption DEF PagesInv

(* A queue just made has its one page in order.                            *)
LEMMA InitPages ==
  ASSUME Init
  PROVE  PagesInv /\ Content = <<>>
<1>1. pages = << <<>> >> /\ headOff = 0 /\ nrWordsElt = EltSize
  BY DEF Init
<1>2. pages \in Seq(Seq(Word)) /\ FlattenSeq(pages) = <<>>
  <2>1. <<>> \in Seq(Word)
    OBVIOUS
  <2>2. PICK e : e = <<>>
    OBVIOUS
  <2>3. <<e>> \in Seq(Seq(Word)) /\ FlattenSeq(<<e>>) = e
    BY <2>1, <2>2, FlattenOne
  <2> QED
    BY Zenon, <1>1, <2>2, <2>3
<1>3. Len(pages) = 1 /\ pages[1] = <<>> /\ Len(pages[1]) = 0
  BY <1>1
<1>4. PagesInOrder
  <2>1. Cap \in Nat
    BY DequeAssumption
  <2> QED
    BY <1>1, <1>2, <1>3, <2>1 DEF PagesInOrder
<1>5. Content = <<>>
  <2>1. Content = SubSeq(<<>>, 1, 0)
    <3>1. 0 + 1 = 1 /\ Len(<<>>) = 0
      OBVIOUS
    <3> QED
      BY Zenon, <1>1, <1>2, <3>1 DEF Content
  <2> QED
    BY <2>1
<1> QED
  BY <1>1, <1>4, <1>5 DEF PagesInv

(* So has a queue just reset.                                              *)
LEMMA ResetPages ==
  ASSUME Reset
  PROVE  PagesInv' /\ Content' = <<>>
<1>1. pages' = << <<>> >> /\ headOff' = 0 /\ nrWordsElt' = 1
  BY DEF Reset, InitWithSize
<1>2. pages' \in Seq(Seq(Word)) /\ FlattenSeq(pages') = <<>>
  <2>1. <<>> \in Seq(Word)
    OBVIOUS
  <2>2. PICK e : e = <<>>
    OBVIOUS
  <2>3. <<e>> \in Seq(Seq(Word)) /\ FlattenSeq(<<e>>) = e
    BY <2>1, <2>2, FlattenOne
  <2> QED
    BY Zenon, <1>1, <2>2, <2>3
<1>3. Len(pages') = 1 /\ pages'[1] = <<>> /\ Len(pages'[1]) = 0
  BY <1>1
<1>4. PagesInOrder'
  <2>1. Cap \in Nat
    BY DequeAssumption
  <2> QED
    BY <1>1, <1>2, <1>3, <2>1 DEF PagesInOrder
<1>5. Content' = <<>>
  <2>1. Content' = SubSeq(<<>>, 1, 0)
    <3>1. 0 + 1 = 1 /\ Len(<<>>) = 0
      OBVIOUS
    <3> QED
      BY Zenon, <1>1, <1>2, <3>1 DEF Content
  <2> QED
    BY <2>1
<1> QED
  BY <1>1, <1>4, <1>5 DEF PagesInv

(* A push keeps the pages in order and appends its words.                  *)
LEMMA PushedPages ==
  ASSUME PagesInv, NEW ws \in Seq(Word), pages' = TailPushed(ws), UNCHANGED <<headOff, nrWordsElt>>
  PROVE  PagesInv' /\ Content' = Content \o ws
<1>1. PICK s : s = TailPushed(ws)
  OBVIOUS
<1>2. /\ s \in Seq(Seq(Word)) /\ Len(pages) <= Len(s)
      /\ \A p \in 1 .. Len(s) : Len(s[p]) <= Cap
      /\ \A p \in 2 .. Len(s) : Len(s[p]) > 0
      /\ \A p \in 1 .. Len(pages) - 1 : s[p] = pages[p]
      /\ Len(pages[Len(pages)]) <= Len(s[Len(pages)])
      /\ FlattenSeq(s) = FlattenSeq(pages) \o ws
  <2>1. PagesInOrder /\ nrWordsElt \in Nat \ {0} /\ nrWordsElt <= Cap
    BY EltSizes DEF PagesInv
  <2> QED
    BY Zenon, <1>1, <2>1, TailPushedFacts
<1>3. PagesInOrder
  BY DEF PagesInv
<1>4. PICK L : L = Len(pages)
  OBVIOUS
<1>5. L \in Nat /\ L > 0 /\ L \in 1 .. L /\ Len(pages[L]) \in Nat /\ Len(pages[1]) \in Nat
  <2>1. L \in Nat /\ L > 0
    BY <1>3, <1>4, PageFacts DEF PagesInOrder
  <2> QED
    BY <1>3, <1>4, <2>1, PageFacts
<1>6. Len(s) \in Nat /\ \A p \in 1 .. Len(s) : Len(s[p]) \in Nat
  <2>1. \A p \in 1 .. Len(s) : s[p] \in Seq(Word)
    BY <1>2, ElementOfSeq
  <2> QED
    BY <1>2, <2>1, LenProperties
<1>7. headOff \in 0 .. Len(s[1])
  <2>1. Len(pages[1]) <= Len(s[1])
    <3>1. CASE L = 1
      BY <1>2, <1>4, <3>1
    <3>2. CASE L # 1
      <4>1. 1 \in 1 .. L - 1
        BY <1>5, <3>2
      <4>2. s[1] = pages[1]
        BY Zenon, <1>2, <1>4, <4>1
      <4> QED
        BY <1>5, <4>2
    <3> QED
      BY <3>1, <3>2
  <2>2. headOff \in 0 .. Len(pages[1])
    BY <1>3 DEF PagesInOrder
  <2>3. Len(s[1]) \in Nat
    <3>1. 1 \in 1 .. Len(s)
      BY <1>2, <1>4, <1>5, <1>6
    <3> QED
      BY <1>6, <3>1
  <2> QED
    BY <1>5, <2>1, <2>2, <2>3
<1>8. PagesInOrder'
  <2>1. Len(s) > 0
    BY <1>2, <1>4, <1>5, <1>6
  <2> QED
    BY Zenon, <1>1, <1>2, <1>7, <2>1 DEF PagesInOrder
<1>9. Content' = Drop(FlattenSeq(s), headOff)
  BY Zenon, <1>1 DEF Content, Drop
<1>10. Drop(FlattenSeq(pages) \o ws, headOff) = Drop(FlattenSeq(pages), headOff) \o ws
  BY <1>3, PageFacts, DropConcat
<1>11. Content = Drop(FlattenSeq(pages), headOff)
  BY <1>3, PageFacts
<1>12. Content' = Content \o ws
  BY Zenon, <1>2, <1>9, <1>10, <1>11
<1> QED
  BY <1>8, <1>12 DEF PagesInv

(* A pop keeps the pages in order and takes words off the front.           *)
LEMMA PoppedPages ==
  ASSUME PagesInv, NEW n \in Nat, pages' = HeadPopped(n).pages, headOff' = HeadPopped(n).headOff,
         UNCHANGED nrWordsElt
  PROVE  /\ PagesInv'
         /\ \E k \in 0 .. Len(Content) :
              Content' = Drop(Content, k) /\ HeadPopped(n).words = SubSeq(Content, 1, k)
<1>1. PagesInOrder
  BY DEF PagesInv
<1>2. PICK d : LET k == MinOf(n, Len(Content))
               IN  /\ PopsPages(k, d)
                   /\ HeadPopped(n) = [pages   |-> Drop(pages, d),
                                       headOff |-> headOff + k - Upto(pages, d),
                                       words   |-> SubSeq(Content, 1, k)]
  BY <1>1, HeadPoppedFacts
<1>3. PICK k : k = MinOf(n, Len(Content))
  OBVIOUS
<1>4. PICK s, h : s = Drop(pages, d) /\ h = headOff + k - Upto(pages, d)
  OBVIOUS
<1>5. PopsPages(k, d) /\ HeadPopped(n) = [pages |-> s, headOff |-> h, words |-> SubSeq(Content, 1, k)]
  BY Zenon, <1>2, <1>3, <1>4
<1>6. pages' = s /\ headOff' = h /\ HeadPopped(n).words = SubSeq(Content, 1, k)
  <2>1. PICK w, r : w = SubSeq(Content, 1, k) /\ r = HeadPopped(n)
    OBVIOUS
  <2>2. r = [pages |-> s, headOff |-> h, words |-> w]
    BY Zenon, <1>5, <2>1
  <2>3. r.pages = s /\ r.headOff = h /\ r.words = w
    BY <2>2
  <2> QED
    BY Zenon, <2>1, <2>3
<1>7. /\ s \in Seq(Seq(Word)) /\ Len(s) = Len(pages) - d /\ Len(s) > 0
      /\ \A p \in 1 .. Len(s) : d + p \in 1 .. Len(pages) /\ s[p] = pages[d + p]
      /\ h \in 0 .. Len(s[1])
      /\ Drop(FlattenSeq(s), h) = Drop(Content, k)
  <2>1. PopsPages(k, d)
    BY <1>5
  <2> QED
    BY <1>1, <1>4, <2>1, PoppedInOrder
<1>8. \A p \in 1 .. Len(s) : Len(s[p]) <= Cap
  BY <1>1, <1>7 DEF PagesInOrder
<1>9. ASSUME NEW p \in 2 .. Len(s) PROVE Len(s[p]) > 0
  <2>1. Len(pages) \in Nat /\ d \in Nat /\ Len(s) \in Nat
    BY <1>1, <1>5, <1>7, PageFacts DEF PopsPages
  <2>2. p \in 1 .. Len(s) /\ d + p \in 2 .. Len(pages)
    BY <1>7, <2>1
  <2>3. s[p] = pages[d + p]
    BY <1>7, <2>2
  <2> QED
    BY <1>1, <2>2, <2>3 DEF PagesInOrder
<1>10. PagesInOrder'
  BY Zenon, <1>6, <1>7, <1>8, <1>9 DEF PagesInOrder
<1>11. Content' = Drop(Content, k)
  <2>1. Content' = Drop(FlattenSeq(s), h)
    BY Zenon, <1>6 DEF Content, Drop
  <2> QED
    BY Zenon, <1>7, <2>1
<1>12. k \in 0 .. Len(Content)
  BY <1>5 DEF PopsPages
<1> QED
  BY Zenon, <1>6, <1>10, <1>11, <1>12 DEF PagesInv

\* What a push adds: whole elements, so a sequence of words.
LEMMA PushWords ==
  ASSUME NEW n \in 1 .. MaxElts, NEW ws \in [1 .. n * EltSize -> Word]
  PROVE  n * EltSize \in 1 .. MaxElts * EltSize /\ ws \in Seq(Word) /\ Len(ws) = n * EltSize
<1>1. n \in Nat /\ MaxElts \in Nat /\ EltSize \in Nat /\ EltSize > 0 /\ n <= MaxElts /\ n >= 1
  BY DequeAssumption
<1>2. n * EltSize <= MaxElts * EltSize /\ 1 * EltSize <= n * EltSize /\ n * EltSize \in Nat /\ MaxElts * EltSize \in Nat
  BY <1>1, Products
<1>3. PICK x, y : x = n * EltSize /\ y = MaxElts * EltSize
  OBVIOUS
<1>4. x \in Nat /\ y \in Nat /\ x <= y /\ 1 <= x
  <2>1. 1 * EltSize = EltSize
    BY <1>1
  <2>2. x \in Nat /\ y \in Nat /\ x <= y /\ EltSize <= x
    BY Zenon, <1>2, <1>3, <2>1
  <2> QED
    BY <1>1, <2>2
<1>5. x \in 1 .. y
  BY <1>4
<1>6. ws \in Seq(Word) /\ Len(ws) = x
  BY <1>3, <1>4, FunctionIsSeq
<1> QED
  BY Zenon, <1>3, <1>5, <1>6

(* Every step keeps the pages in order, and is one of the abstract queue   *)
(* or a stutter.                                                           *)
LEMMA PagesStep ==
  ASSUME PagesInv, [Next]_vars
  PROVE  PagesInv' /\ [Abstract!Next]_(Abstract!vars)
<1>1. CASE TailPush
  <2>0. PICK n \in 1 .. MaxElts : \E ws \in [1 .. n * EltSize -> Word] :
          pages' = TailPushed(ws) /\ result' = <<>> /\ UNCHANGED <<headOff, nrWordsElt>>
    BY <1>1 DEF TailPush
  <2>1. PICK ws \in [1 .. n * EltSize -> Word] :
          pages' = TailPushed(ws) /\ result' = <<>> /\ UNCHANGED <<headOff, nrWordsElt>>
    BY <2>0
  <2>2. n * EltSize \in 1 .. MaxElts * EltSize /\ ws \in Seq(Word)
    BY PushWords
  <2>3. PagesInv' /\ Content' = Content \o ws
    BY <2>1, <2>2, PushedPages
  <2>4. Abstract!Push
    BY Zenon, <2>1, <2>2, <2>3 DEF Abstract!Push
  <2> QED
    BY <2>3, <2>4 DEF Abstract!Next
<1>2. CASE HeadPop
  <2>1. PICK n \in 1 .. MaxElts :
          /\ pages' = HeadPopped(n * EltSize).pages /\ headOff' = HeadPopped(n * EltSize).headOff
          /\ result' = HeadPopped(n * EltSize).words /\ UNCHANGED nrWordsElt
    BY <1>2 DEF HeadPop
  <2>2. PICK x : x = n * EltSize
    OBVIOUS
  <2>3. x \in Nat
    BY <2>2, DequeAssumption
  <2>4. /\ PagesInv'
        /\ \E k \in 0 .. Len(Content) :
             Content' = Drop(Content, k) /\ HeadPopped(x).words = SubSeq(Content, 1, k)
    BY <2>1, <2>2, <2>3, PoppedPages
  <2>5. Abstract!Pop
    BY Zenon, <2>1, <2>2, <2>4 DEF Abstract!Pop, Drop
  <2> QED
    BY <2>4, <2>5 DEF Abstract!Next
<1>3. CASE Reset
  <2>1. PagesInv' /\ Content' = <<>>
    BY <1>3, ResetPages
  <2>2. result' = <<>>
    BY <1>3 DEF Reset, InitWithSize
  <2>3. Abstract!Reset
    BY <2>1, <2>2 DEF Abstract!Reset
  <2> QED
    BY <2>1, <2>3 DEF Abstract!Next
<1>4. CASE IteratorStart \/ IteratorStep \/ UNCHANGED vars
  <2>1. UNCHANGED <<pages, headOff, nrWordsElt, result>>
    BY <1>4 DEF IteratorStart, IteratorStep, vars
  <2>2. Content' = Content
    BY <2>1 DEF Content
  <2>3. PagesInv'
    BY <2>1 DEF PagesInv, PagesInOrder
  <2> QED
    BY <2>1, <2>2, <2>3 DEF Abstract!vars
<1> QED
  BY <1>1, <1>2, <1>3, <1>4 DEF Next

(* The pages are in order in every reachable state.                        *)
THEOREM PagesInvariance == Spec => []PagesInv
<1>1. Init => PagesInv
  BY InitPages
<1>2. PagesInv /\ [Next]_vars => PagesInv'
  BY PagesStep
<1> QED
  BY <1>1, <1>2, PTL DEF Spec

(* mm_deque_IsEmpty answers exactly whether there is a word to pop, for    *)
(* every page size, element size and length of the queue.                  *)
THEOREM EmptyIffNothingToPop == Spec => []IsEmptyExact
<1>1. PagesInv => IsEmptyExact
  BY EmptyWhen DEF PagesInv
<1> QED
  BY <1>1, PagesInvariance, PTL

(* The deque, with its pages, implements the first-in first-out queue of   *)
(* words of WordQueue: every step is a push, a pop, a reset or a stutter   *)
(* of it.                                                                  *)
THEOREM DequeIsAQueue == Spec => ImplementsWordQueue
<1>1. Init => Abstract!Init
  BY InitPages DEF Abstract!Init, Init
<1>2. PagesInv /\ [Next]_vars => [Abstract!Next]_(Abstract!vars)
  BY PagesStep
<1> QED
  BY <1>1, <1>2, PagesInvariance, PTL DEF Spec, ImplementsWordQueue, Abstract!Spec

----------------------------------------------------------------------------
(* The elements, and the invariant of the iterator.                        *)

(* The number of whole elements in x words.                                *)
LEMMA PartsOfElements ==
  ASSUME NEW x \in Nat, NEW q \in Nat
  PROVE  /\ x \div EltSize \in Nat /\ (x \div EltSize) * EltSize <= x
         /\ q * EltSize <= x => q <= x \div EltSize
         /\ x = q * EltSize => x \div EltSize = q
<1>1. EltSize \in Nat /\ EltSize > 0
  BY DequeAssumption
<1>2. PICK d, y : d = x \div EltSize /\ y = d * EltSize
  OBVIOUS
<1>3. d \in Nat /\ y \in Nat /\ y <= x /\ x < y + EltSize
  <2>1. /\ EntierDownBy(x, EltSize) \in 0 .. x /\ x < EntierDownBy(x, EltSize) + EltSize
        /\ x \div EltSize \in Nat /\ EntierDownBy(x, EltSize) = (x \div EltSize) * EltSize
    <3>1. PICK m : m = EltSize
      OBVIOUS
    <3>2. m \in Nat \ {0}
      BY <1>1, <3>1
    <3>3. /\ EntierDownBy(x, m) \in 0 .. x /\ x < EntierDownBy(x, m) + m
          /\ x \div m \in Nat /\ EntierDownBy(x, m) = (x \div m) * m
      BY <3>2, Rounding
    <3> QED
      BY Zenon, <3>1, <3>3
  <2>2. y \in 0 .. x /\ x < y + EltSize /\ d \in Nat
    BY Zenon, <1>2, <2>1
  <2> QED
    BY <2>2
<1>4. ASSUME q * EltSize <= x PROVE q <= d
  <2> SUFFICES ASSUME d + 1 <= q PROVE FALSE
    BY <1>3
  <2>1. (d + 1) * EltSize <= q * EltSize /\ (d + 1) * EltSize = d * EltSize + EltSize /\ q * EltSize \in Nat
    BY <1>1, <1>3, Products
  <2>2. PICK z, u : z = q * EltSize /\ u = (d + 1) * EltSize
    OBVIOUS
  <2>3. u <= z /\ u = y + EltSize /\ z \in Nat /\ z <= x
    BY Zenon, <1>2, <1>4, <2>1, <2>2
  <2> QED
    BY <1>1, <1>3, <2>3
<1>5. ASSUME x = q * EltSize PROVE d = q
  <2>1. q <= d
    BY <1>4, <1>5
  <2>2. d <= q
    <3> SUFFICES ASSUME q + 1 <= d PROVE FALSE
      BY <1>3
    <3>1. (q + 1) * EltSize <= d * EltSize /\ (q + 1) * EltSize = q * EltSize + EltSize
      BY <1>1, <1>3, Products
    <3>2. PICK u : u = (q + 1) * EltSize
      OBVIOUS
    <3>3. u <= y /\ u = x + EltSize
      BY Zenon, <1>2, <1>5, <3>1, <3>2
    <3> QED
      BY <1>1, <1>3, <3>3
  <2> QED
    BY <1>3, <2>1, <2>2
<1> QED
  BY Zenon, <1>2, <1>3, <1>4, <1>5

\* An element has its words, and there are as many elements as fit.
LEMMA ElementsFacts ==
  ASSUME NEW ws \in Seq(Word)
  PROVE  /\ Elements(ws) \in Seq(Seq(Word)) /\ Len(Elements(ws)) = Len(ws) \div EltSize
         /\ \A e \in 1 .. Len(ws) \div EltSize :
              /\ Len(Elements(ws)[e]) = EltSize
              /\ \A w \in 1 .. EltSize : Elements(ws)[e][w] = ws[(e - 1) * EltSize + w]
<1>1. EltSize \in Nat /\ EltSize > 0 /\ Len(ws) \in Nat
  BY DequeAssumption, LenProperties
<1>2. PICK d, n : d = Len(ws) \div EltSize /\ n = Len(ws)
  OBVIOUS
<1>3. d \in Nat /\ d * EltSize <= n /\ n \in Nat
  BY <1>1, <1>2, PartsOfElements
<1>4. PICK es : es = Elements(ws)
  OBVIOUS
<1>5. es = [e \in 1 .. d |-> SubSeq(ws, (e - 1) * EltSize + 1, e * EltSize)]
  BY Zenon, <1>2, <1>4 DEF Elements
<1>6. ASSUME NEW e \in 1 .. d
      PROVE  /\ es[e] \in Seq(Word) /\ Len(es[e]) = EltSize
             /\ \A w \in 1 .. EltSize : es[e][w] = ws[(e - 1) * EltSize + w]
  <2>1. e - 1 \in Nat /\ e \in Nat /\ e <= d /\ (e - 1) + 1 = e
    BY <1>3
  <2>2. e * EltSize = (e - 1) * EltSize + EltSize /\ e * EltSize <= d * EltSize /\ (e - 1) * EltSize \in Nat
    <3>1. ((e - 1) + 1) * EltSize = (e - 1) * EltSize + EltSize /\ (e - 1) * EltSize \in Nat
      BY <1>1, <2>1, Products
    <3>2. e * EltSize <= d * EltSize
      BY <1>1, <1>3, <2>1, Products
    <3> QED
      BY Zenon, <2>1, <3>1, <3>2
  <2>3. PICK x, y, a : x = (e - 1) * EltSize /\ y = e * EltSize /\ a = x + 1
    OBVIOUS
  <2>4. x \in Nat /\ y = x + EltSize /\ y <= n /\ a = x + 1
    <3>1. PICK z : z = d * EltSize
      OBVIOUS
    <3>2. x \in Nat /\ y = x + EltSize /\ y <= z /\ z <= n /\ z \in Nat
      <4>1. z \in Nat
        BY <1>1, <1>3, <3>1
      <4> QED
        BY Zenon, <1>3, <2>2, <2>3, <3>1, <4>1
    <3> QED
      BY <1>1, <1>3, <2>3, <3>2
  <2>5. \A i \in a .. y : ws[i] \in Word
    <3>1. \A i \in a .. y : i \in 1 .. Len(ws)
      BY <1>1, <1>2, <1>3, <2>4
    <3> QED
      BY <3>1, ElementOfSeq
  <2>6. a \in Int /\ y \in Int /\ a <= y /\ y - a + 1 = EltSize /\ \A w \in 1 .. EltSize : a + w - 1 = x + w
    BY <1>1, <2>4
  <2>7. PICK s : s = SubSeq(ws, a, y)
    OBVIOUS
  <2>8. /\ s \in Seq(Word) /\ Len(s) = y - a + 1
        /\ \A i \in 1 .. y - a + 1 : s[i] = ws[a + i - 1]
    BY <2>5, <2>6, <2>7, SubSeqProperties
  <2>9. \A w \in 1 .. EltSize : s[w] = ws[x + w]
    BY <2>6, <2>8
  <2>10. es[e] = s
    BY Zenon, <1>5, <2>3, <2>7
  <2> QED
    BY Zenon, <2>3, <2>6, <2>8, <2>9, <2>10
<1>7. es \in [1 .. d -> Seq(Word)]
  <2>1. es = [e \in 1 .. d |-> es[e]]
    BY Zenon, <1>5
  <2> QED
    BY Zenon, <1>6, <2>1
<1>8. es \in Seq(Seq(Word)) /\ Len(es) = d
  BY <1>3, <1>7, FunctionIsSeq
<1> QED
  BY Zenon, <1>2, <1>4, <1>6, <1>8

\* The queue that is iterated holds whole elements, none cut by the end of a page.
WholeElements == nrWordsElt = EltSize /\ Whole(headOff) /\ WholePages(pages)

\* The offset in page p of s before which an iteration stops that ends at offset o of page e.
EndOf(s, e, o, p) == IF p = e THEN o ELSE Len(s[p])

\* What is to be visited is still there, up to offset o of page e.
SnapshotOf(s, h, from, e, o) ==
  /\ e \in 1 .. Len(s)
  /\ Whole(o) /\ o <= Len(s[e]) /\ (e > 1 => o > 0)
  /\ h + Len(from) = Upto(s, e - 1) + o
  /\ \A i \in 1 .. Len(from) : from[i] = FlattenSeq(s)[h + i]

\* Offset off of page p is the place of element i.
PlaceOf(s, h, i, p, off) == Whole(off) /\ Upto(s, p - 1) + off = h + (i - 1) * EltSize

\* The iterator it is at the place of the last element it visited.
AtLastSeen(it, s, h) ==
  /\ it.size = EltSize
  /\ it.page \in 1 .. it.endPage
  /\ it.off + EltSize <= EndOf(s, it.endPage, it.endOff, it.page)
  /\ Len(it.seen) \in Nat \ {0}
  /\ PlaceOf(s, h, Len(it.seen), it.page, it.off)

\* It has visited the first so many elements, and all of them once it has ended.
VisitedInOrder(it) ==
  /\ \E m \in 0 .. Len(Elements(it.from)) : it.seen = SubSeq(Elements(it.from), 1, m)
  /\ it.seen # <<>> /\ ~ it.hasData => it.seen = Elements(it.from)

(* The iterators.                                                          *)
Iter == [hasData : BOOLEAN, page : Nat, off : Nat, endPage : Nat, endOff : Nat, size : Nat,
         seen : Seq(Seq(Word)), from : Seq(Word)]

(* The inductive invariant of the iterator, given that of the pages.       *)
IterInv ==
  /\ use = "finalizers" => WholeElements
  /\ iter \in Iter /\ VisitedInOrder(iter)
  /\ iter.hasData => /\ use = "finalizers"
                     /\ SnapshotOf(pages, headOff, iter.from, iter.endPage, iter.endOff)
                     /\ AtLastSeen(iter, pages, headOff)

(* The fields of the iterator have their types.                            *)
LEMMA FromWords ==
  ASSUME iter \in Iter
  PROVE  /\ iter.from \in Seq(Word) /\ iter.seen \in Seq(Seq(Word)) /\ iter.hasData \in BOOLEAN
         /\ iter.page \in Nat /\ iter.off \in Nat /\ iter.endPage \in Nat /\ iter.endOff \in Nat
         /\ iter.size \in Nat
BY DEF Iter

(* The invariant of the iterator contains the property.                    *)
LEMMA PrefixVisited ==
  ASSUME IterInv
  PROVE  IteratorVisitsSnapshot
<1>1. PICK want, seen : want = Elements(iter.from) /\ seen = iter.seen
  OBVIOUS
<1>2. want \in Seq(Seq(Word))
  BY <1>1, FromWords, ElementsFacts DEF IterInv
<1>3. PICK m \in 0 .. Len(want) : seen = SubSeq(want, 1, m)
  BY Zenon, <1>1 DEF IterInv, VisitedInOrder
<1>4. Len(seen) = m /\ seen \in Seq(Seq(Word))
  BY <1>2, <1>3, Cut
<1>5. SubSeq(seen, 1, Len(seen)) = seen
  BY <1>4, SubSeqFull
<1>6. IsPrefix(seen, want)
  <2>1. Len(seen) <= Len(want)
    BY <1>2, <1>4, LenProperties
  <2> QED
    BY Zenon, <1>3, <1>4, <1>5, <2>1 DEF IsPrefix
<1> QED
  BY Zenon, <1>1, <1>6 DEF IteratorVisitsSnapshot, IterInv, VisitedInOrder

\* What stands at the place of an element is that element.
LEMMA ElementAt ==
  ASSUME PagesInOrder, NEW from \in Seq(Word), NEW P, NEW o, SnapshotOf(pages, headOff, from, P, o),
         NEW p \in 1 .. P, NEW off, NEW i \in Nat \ {0}, PlaceOf(pages, headOff, i, p, off),
         off + EltSize <= EndOf(pages, P, o, p)
  PROVE  i \in 1 .. Len(Elements(from)) /\ EltAt(p, off, EltSize) = Elements(from)[i]
<1>1. PICK L, F, n, E : L = Len(pages) /\ F = FlattenSeq(pages) /\ n = Len(from) /\ E = EltSize
  OBVIOUS
<1>2. L \in Nat /\ P \in 1 .. L /\ p \in 1 .. L /\ E \in Nat /\ E > 0 /\ n \in Nat /\ headOff \in Nat
  <2>1. L \in Nat /\ P \in 1 .. L /\ E \in Nat /\ E > 0 /\ n \in Nat
    BY <1>1, PageFacts, LenProperties, DequeAssumption DEF SnapshotOf
  <2>2. headOff \in 0 .. Len(F)
    BY <1>1, PageFacts
  <2> QED
    BY <2>1, <2>2
<1>3. PICK g, gP, u, v, x : /\ g = Len(pages[p]) /\ gP = Len(pages[P])
                            /\ u = Upto(pages, p - 1) /\ v = Upto(pages, P - 1) /\ x = (i - 1) * E
  OBVIOUS
<1>4. g \in Nat /\ gP \in Nat /\ u \in Nat /\ v \in Nat /\ x \in Nat /\ off \in Nat /\ o \in Nat
  <2>1. g \in Nat /\ gP \in Nat
    BY <1>1, <1>2, <1>3, PageFacts
  <2>2. p - 1 \in 0 .. L /\ P - 1 \in 0 .. L /\ i - 1 \in Nat
    BY <1>2
  <2>3. u \in Nat /\ v \in Nat
    BY <1>1, <1>3, <2>2, FlattenRest DEF PagesInOrder
  <2>4. x \in Nat
    BY <1>2, <1>3, <2>2, Products
  <2>5. off \in Nat /\ o \in Nat
    BY WholeFacts DEF PlaceOf, SnapshotOf
  <2> QED
    BY <2>1, <2>3, <2>4, <2>5
<1>5. u + off = headOff + x /\ headOff + n = v + o /\ o <= gP /\ off + E <= IF p = P THEN o ELSE g
  BY Zenon, <1>1, <1>3 DEF PlaceOf, SnapshotOf, EndOf
<1>6. off + E <= g
  <2>1. p = P => g = gP
    BY <1>3
  <2> QED
    BY <1>2, <1>4, <1>5, <2>1
<1>7. u + off + E <= v + o
  <2>1. CASE p = P
    <3>1. u = v
      BY <1>3, <2>1
    <3> QED
      BY <1>2, <1>4, <1>5, <2>1, <3>1
  <2>2. CASE p # P
    <3>1. p \in 0 .. P - 1 /\ P - 1 \in 0 .. L
      BY <1>2, <2>2
    <3>2. Upto(pages, p) <= v
      BY <1>1, <1>3, <3>1, UptoGrows DEF PagesInOrder
    <3>3. Upto(pages, p) = u + g
      BY <1>1, <1>2, <1>3, UptoNext DEF PagesInOrder
    <3> QED
      BY <1>2, <1>4, <1>5, <1>6, <2>2, <3>2, <3>3
  <2> QED
    BY <2>1, <2>2
<1>8. x + E <= n
  BY <1>2, <1>4, <1>5, <1>7
<1>9. i \in 1 .. n \div EltSize
  <2>1. i * E = x + E
    <3>1. ((i - 1) + 1) * E = (i - 1) * E + E
      <4>1. i - 1 \in Nat
        OBVIOUS
      <4> QED
        BY <1>2, <4>1, Products
    <3>2. (i - 1) + 1 = i
      OBVIOUS
    <3> QED
      BY Zenon, <1>3, <3>1, <3>2
  <2>2. i * EltSize <= n
    BY Zenon, <1>1, <1>8, <2>1
  <2>3. i \in Nat /\ i >= 1
    OBVIOUS
  <2>4. i <= n \div EltSize /\ n \div EltSize \in Nat
    BY <1>2, <2>2, <2>3, PartsOfElements
  <2>5. PICK d : d = n \div EltSize
    OBVIOUS
  <2>6. i \in 1 .. d
    BY <2>3, <2>4, <2>5
  <2> QED
    BY Zenon, <2>5, <2>6
<1>10. PICK a, b : a = EltAt(p, off, EltSize) /\ b = Elements(from)[i]
  OBVIOUS
<1>11. Len(b) = E /\ (\A w \in 1 .. E : b[w] = from[x + w]) /\ b \in Seq(Word)
       /\ i \in 1 .. Len(Elements(from))
  <2>1. /\ Elements(from) \in Seq(Seq(Word)) /\ Len(Elements(from)) = n \div EltSize
        /\ \A k \in 1 .. n \div EltSize :
              /\ Len(Elements(from)[k]) = EltSize
              /\ \A w \in 1 .. EltSize : Elements(from)[k][w] = from[(k - 1) * EltSize + w]
    BY <1>1, ElementsFacts
  <2>2. i \in 1 .. Len(Elements(from))
    BY Zenon, <1>9, <2>1
  <2>3. b \in Seq(Word)
    BY <1>10, <2>1, <2>2, ElementOfSeq
  <2> QED
    BY Zenon, <1>1, <1>3, <1>9, <1>10, <2>1, <2>2, <2>3
<1>12. ASSUME NEW w \in 1 .. E PROVE a[w] = b[w] /\ a[w] \in Word
  <2>1. off + w \in 1 .. g /\ off + w <= g /\ x + w \in 1 .. n /\ u + (off + w) = headOff + (x + w)
    BY <1>2, <1>4, <1>5, <1>6, <1>8
  <2>2. a[w] = IF off + w <= Len(pages[p]) THEN pages[p][off + w] ELSE Junk
    BY Zenon, <1>1, <1>10 DEF EltAt
  <2>3. a[w] = pages[p][off + w]
    BY Zenon, <1>3, <2>1, <2>2
  <2>4. PICK j : j = off + w
    OBVIOUS
  <2>5. F[u + j] = pages[p][j] /\ u + j \in 1 .. Len(F)
    <3>1. j \in 1 .. Len(pages[p])
      BY <1>3, <2>1, <2>4
    <3>2. p \in 1 .. Len(pages)
      BY <1>1, <1>2
    <3>3. /\ FlattenSeq(pages)[Upto(pages, p - 1) + j] = pages[p][j]
          /\ Upto(pages, p - 1) + j \in 1 .. Len(FlattenSeq(pages))
      BY <3>1, <3>2, FlattenAt DEF PagesInOrder
    <3> QED
      BY Zenon, <1>1, <1>3, <3>3
  <2>6. F[headOff + (x + w)] = from[x + w]
    BY Zenon, <1>1, <2>1 DEF SnapshotOf
  <2>7. F[u + j] \in Word
    BY <1>1, <2>5, PageFacts, ElementOfSeq
  <2> QED
    BY Zenon, <1>11, <2>1, <2>3, <2>4, <2>5, <2>6, <2>7
<1>13. a \in Seq(Word) /\ Len(a) = E
  <2>1. a = [w \in 1 .. E |-> a[w]]
    BY Zenon, <1>1, <1>10 DEF EltAt
  <2>2. a \in [1 .. E -> Word]
    BY Zenon, <1>12, <2>1
  <2> QED
    BY <1>2, <2>2, FunctionIsSeq
<1>14. a = b
  BY <1>11, <1>12, <1>13, SeqEqual
<1> QED
  BY Zenon, <1>10, <1>11, <1>14

----------------------------------------------------------------------------
(* The start of an iteration.                                              *)

(* An iterator that visited nothing and has ended is in order.             *)
LEMMA NothingVisited ==
  ASSUME NEW it, it \in Iter, it.seen = <<>>, ~ it.hasData
  PROVE  VisitedInOrder(it)
<1>1. PICK want : want = Elements(it.from)
  OBVIOUS
<1>2. want \in Seq(Seq(Word)) /\ Len(want) \in Nat
  <2>1. it.from \in Seq(Word)
    BY DEF Iter
  <2>2. want \in Seq(Seq(Word))
    BY <1>1, <2>1, ElementsFacts
  <2> QED
    BY <2>2, LenProperties
<1>3. SubSeq(want, 1, 0) = <<>> /\ 0 \in 0 .. Len(want)
  BY <1>2, SubSeqEmpty
<1> QED
  BY Zenon, <1>1, <1>3 DEF VisitedInOrder

(* So is the absent iterator.                                              *)
LEMMA NoIterFine == NoIter \in Iter /\ VisitedInOrder(NoIter) /\ ~ NoIter.hasData
<1>1. NoIter \in Iter /\ NoIter.seen = <<>> /\ ~ NoIter.hasData
  <2>1. <<>> \in Seq(Word) /\ <<>> \in Seq(Seq(Word))
    OBVIOUS
  <2> QED
    BY <2>1 DEF NoIter, Iter
<1> QED
  BY <1>1, NothingVisited

\* What the queue holds now is a snapshot that ends where its last page does.
LEMMA SnapshotNow ==
  ASSUME PagesInOrder, WholePages(pages)
  PROVE  SnapshotOf(pages, headOff, Content, Len(pages), Len(pages[Len(pages)]))
<1>1. PICK L, F, C : L = Len(pages) /\ F = FlattenSeq(pages) /\ C = Content
  OBVIOUS
<1>2. L \in Nat /\ L \in 1 .. L /\ Len(pages[L]) \in Nat /\ Whole(Len(pages[L])) /\ (L > 1 => Len(pages[L]) > 0)
  <2>1. L \in Nat /\ L \in 1 .. L /\ (L > 1 => L \in 2 .. L)
    BY <1>1, PageFacts DEF PagesInOrder
  <2> QED
    BY <1>1, <2>1, PageFacts DEF PagesInOrder, WholePages
<1>3. F \in Seq(Word) /\ Len(F) \in Nat /\ headOff \in 0 .. Len(F) /\ C = Drop(F, headOff)
  BY Zenon, <1>1, PageFacts
<1>4. Len(C) = Len(F) - headOff /\ \A i \in 1 .. Len(F) - headOff : C[i] = F[headOff + i]
  BY <1>3, DropFacts
<1>5. Len(F) = Upto(pages, L - 1) + Len(pages[L])
  <2>1. Upto(pages, L) = Len(F)
    BY <1>1, UptoEnds DEF PagesInOrder
  <2>2. Upto(pages, L) = Upto(pages, L - 1) + Len(pages[L])
    BY <1>1, <1>2, UptoNext DEF PagesInOrder
  <2> QED
    BY <2>1, <2>2
<1>6. headOff + Len(C) = Upto(pages, L - 1) + Len(pages[L])
  BY <1>3, <1>4, <1>5
<1>7. \A i \in 1 .. Len(C) : C[i] = F[headOff + i]
  BY Zenon, <1>4
<1>8. Len(pages[L]) <= Len(pages[L])
  BY <1>2
<1> QED
  BY Zenon, <1>1, <1>2, <1>6, <1>7, <1>8 DEF SnapshotOf

(* mm_deque_InitIterator starts at the first element, or has nothing to    *)
(* start with.                                                             *)
LEMMA StartKeepsIter ==
  ASSUME PagesInv, IterInv, IteratorStart
  PROVE  IterInv'
<1>1. use = "finalizers" /\ WholeElements /\ UNCHANGED <<pages, headOff, nrWordsElt, use>>
  BY DEF IteratorStart, IterInv
<1>2. WholeElements'
  BY Zenon, <1>1 DEF WholeElements
<1>3. PagesInOrder /\ Content \in Seq(Word)
  BY PageFacts DEF PagesInv
<1>4. CASE HeadAvailRead > 0
  <2>1. PICK L, o, c, x : L = Len(pages) /\ o = Len(pages[L]) /\ c = Content /\ x = EltAt(1, headOff, EltSize)
    OBVIOUS
  <2>2. L \in Nat /\ L > 0 /\ 1 \in 1 .. L /\ L \in 1 .. L /\ o \in Nat /\ headOff \in Nat
        /\ Len(pages[1]) \in Nat /\ pages # <<>>
    <3>1. L \in Nat /\ L > 0
      BY <1>3, <2>1, PageFacts DEF PagesInOrder
    <3>2. 1 \in 1 .. L /\ L \in 1 .. L
      BY <3>1
    <3>3. o \in Nat /\ Len(pages[1]) \in Nat
      BY <1>3, <2>1, <3>2, PageFacts
    <3>4. headOff \in Nat
      BY <1>3, <3>3 DEF PagesInOrder
    <3>5. pages # <<>>
      BY <1>3, <2>1, <3>1, EmptySeq DEF PagesInOrder
    <3> QED
      BY <3>1, <3>2, <3>3, <3>4, <3>5
  <2>3. iter' = [hasData |-> TRUE, page |-> 1, off |-> headOff, endPage |-> L, endOff |-> o,
                 size |-> EltSize, from |-> c, seen |-> <<x>>]
    <3>1. Last(pages) = pages[L]
      BY Zenon, <2>1 DEF Last
    <3>2. nrWordsElt = EltSize
      BY <1>1 DEF WholeElements
    <3> QED
      BY Zenon, <1>4, <2>1, <3>1, <3>2 DEF IteratorStart
  <2>4. SnapshotOf(pages, headOff, c, L, o)
    BY <1>1, <1>3, <2>1, SnapshotNow DEF WholeElements
  <2>5. headOff + EltSize <= Len(pages[1]) /\ headOff + EltSize <= EndOf(pages, L, o, 1)
    <3>1. headOff < Len(pages[1])
      <4>1. Head(pages) = pages[1]
        BY <1>3, <2>2 DEF PagesInOrder
      <4>2. PICK y : y = Len(pages[1])
        OBVIOUS
      <4>3. y - headOff > 0 /\ y \in Nat
        BY <1>4, <2>2, <4>1, <4>2 DEF HeadAvailRead
      <4> QED
        BY <2>2, <4>2, <4>3
    <3>2. Whole(headOff) /\ Whole(Len(pages[1]))
      BY <1>1, <2>1, <2>2 DEF WholeElements, WholePages
    <3>3. headOff + EltSize <= Len(pages[1])
      BY <3>1, <3>2, WholeFacts
    <3>4. 1 = L => o = Len(pages[1])
      BY Zenon, <2>1
    <3> QED
      BY Zenon, <3>3, <3>4 DEF EndOf
  <2>6. PlaceOf(pages, headOff, 1, 1, headOff)
    <3>1. Upto(pages, 1 - 1) = 0
      <4>1. 1 - 1 = 0
        OBVIOUS
      <4> QED
        BY <1>3, <4>1, UptoEnds DEF PagesInOrder
    <3>2. (1 - 1) * EltSize = 0
      BY DequeAssumption
    <3> QED
      BY <1>1, <2>2, <3>1, <3>2 DEF PlaceOf, WholeElements
  <2>7. 1 \in 1 .. Len(Elements(c)) /\ x = Elements(c)[1]
    <3>1. c \in Seq(Word) /\ 1 \in Nat \ {0}
      BY <1>3, <2>1
    <3> QED
      BY <1>3, <2>1, <2>2, <2>4, <2>5, <2>6, <3>1, ElementAt
  <2>8. PICK want : want = Elements(c)
    OBVIOUS
  <2>9. want \in Seq(Seq(Word)) /\ Len(want) \in Nat
    <3>1. want \in Seq(Seq(Word))
      BY <1>3, <2>1, <2>8, ElementsFacts
    <3> QED
      BY <3>1, LenProperties
  <2>10. <<x>> = SubSeq(want, 1, 1) /\ 1 \in 0 .. Len(want) /\ x \in Seq(Word)
    <3>1. 1 \in 1 .. Len(want) /\ x = want[1]
      BY <2>7, <2>8
    <3>2. SubSeq(want, 1, 1) = <<want[1]>>
      <4>1. 0 + 1 = 1 /\ 0 \in Nat
        OBVIOUS
      <4>2. 0 + 1 \in 1 .. Len(want)
        BY Zenon, <3>1, <4>1
      <4>3. SubSeq(want, 1, 0 + 1) = <<want[0 + 1]>>
        BY <2>9, <4>2, OneMore
      <4> QED
        BY Zenon, <4>1, <4>3
    <3>3. x \in Seq(Word)
      BY <2>9, <3>1, ElementOfSeq
    <3> QED
      BY <2>9, <3>1, <3>2, <3>3
  <2>11. /\ iter'.hasData /\ iter'.page = 1 /\ iter'.off = headOff /\ iter'.endPage = L /\ iter'.endOff = o
         /\ iter'.size = EltSize /\ iter'.from = c /\ iter'.seen = <<x>>
    BY <2>3
  <2>12. iter' \in Iter
    <3>1. <<x>> \in Seq(Seq(Word))
      BY <2>10
    <3>2. c \in Seq(Word) /\ EltSize \in Nat /\ 1 \in Nat
      BY <1>3, <2>1, DequeAssumption
    <3> QED
      BY <2>2, <2>3, <3>1, <3>2 DEF Iter
  <2>13. VisitedInOrder(iter')
    BY Zenon, <2>8, <2>10, <2>11 DEF VisitedInOrder
  <2>14. AtLastSeen(iter', pages, headOff)
    <3>1. Len(<<x>>) = 1 /\ 1 \in Nat \ {0}
      OBVIOUS
    <3> QED
      BY Zenon, <2>2, <2>5, <2>6, <2>11, <3>1 DEF AtLastSeen
  <2>15. SnapshotOf(pages, headOff, iter'.from, iter'.endPage, iter'.endOff)
    BY Zenon, <2>4, <2>11
  <2> QED
    BY Zenon, <1>1, <1>2, <2>12, <2>13, <2>14, <2>15 DEF IterInv
<1>5. CASE ~ (HeadAvailRead > 0)
  <2>1. iter' = [NoIter EXCEPT !.from = Content]
    BY Zenon, <1>5 DEF IteratorStart
  <2>2. iter' \in Iter /\ iter'.seen = <<>> /\ ~ iter'.hasData
    <3>1. PICK c : c = Content
      OBVIOUS
    <3>2. c \in Seq(Word)
      BY <1>3, <3>1
    <3>3. iter' = [NoIter EXCEPT !.from = c]
      BY Zenon, <2>1, <3>1
    <3> QED
      BY <3>2, <3>3, NoIterFine DEF NoIter, Iter
  <2>3. VisitedInOrder(iter')
    BY <2>2, NothingVisited
  <2> QED
    BY Zenon, <1>2, <2>2, <2>3 DEF IterInv
<1> QED
  BY <1>4, <1>5

----------------------------------------------------------------------------
(* A step of the iteration.                                                *)

\* Where the iterator goes from page p, at off behind the element it visited last.
LEMMA NextPlace ==
  ASSUME PagesInOrder, WholePages(pages), iter \in Iter, AtLastSeen(iter, pages, headOff),
         SnapshotOf(pages, headOff, iter.from, iter.endPage, iter.endOff),
         NEW off, off = iter.off + EltSize, NEW q, q = NextPage(off),
         NEW at, at = IF q = iter.page THEN off ELSE 0, NEW m, m = Len(iter.seen)
  PROVE  /\ m \in Nat \ {0}
         /\ \/ /\ q \in 1 .. iter.endPage
               /\ PlaceOf(pages, headOff, m + 1, q, at)
               /\ at + EltSize <= EndOf(pages, iter.endPage, iter.endOff, q)
            \/ /\ q > iter.endPage
               /\ Len(iter.from) = m * EltSize
<1>1. PICK L, E, e, o, p, n, d : /\ L = Len(pages) /\ E = EltSize /\ e = iter.endPage /\ o = iter.endOff
                              /\ p = iter.page /\ n = Len(iter.from) /\ d = iter.off
  OBVIOUS
<1>2. /\ L \in Nat /\ E \in Nat /\ E > 0 /\ e \in 1 .. L /\ p \in 1 .. e /\ p \in Nat /\ e \in Nat /\ o \in Nat
      /\ n \in Nat /\ m \in Nat \ {0} /\ headOff \in Nat /\ d \in Nat /\ off = d + E
  <2>1. L \in Nat /\ E \in Nat /\ E > 0
    BY <1>1, PageFacts, DequeAssumption
  <2>2. p \in Nat /\ e \in Nat /\ o \in Nat /\ n \in Nat /\ d \in Nat
    BY <1>1, FromWords, LenProperties
  <2>3. e \in 1 .. L /\ p \in 1 .. e /\ m \in Nat \ {0} /\ off = d + E
    BY Zenon, <1>1 DEF SnapshotOf, AtLastSeen
  <2>4. headOff \in Nat
    <3>1. headOff \in 0 .. Len(FlattenSeq(pages))
      BY PageFacts
    <3> QED
      BY <3>1
  <2> QED
    BY <2>1, <2>2, <2>3, <2>4
<1>3. \A r : EndOff(r) = EndOf(pages, e, o, r)
  BY Zenon, <1>1 DEF EndOff, EndOf
<1>4. ASSUME NEW r \in 1 .. e
      PROVE  /\ EndOff(r) \in Nat /\ Whole(EndOff(r)) /\ (r > 1 => EndOff(r) > 0)
             /\ r # e => EndOff(r) = Len(pages[r])
             /\ r = e => EndOff(r) = o
             /\ Len(pages[r]) \in Nat
  <2>1. r \in 1 .. L /\ (r > 1 => r \in 2 .. L)
    BY <1>2
  <2>2. Len(pages[r]) \in Nat /\ Whole(Len(pages[r])) /\ (r > 1 => Len(pages[r]) > 0)
    BY <1>1, <2>1, PageFacts DEF PagesInOrder, WholePages
  <2>3. Whole(o) /\ (e > 1 => o > 0)
    BY Zenon, <1>1 DEF SnapshotOf
  <2>4. EndOff(r) = IF r = e THEN o ELSE Len(pages[r])
    BY Zenon, <1>3 DEF EndOf
  <2> QED
    BY <1>2, <2>2, <2>3, <2>4
<1>5. /\ Whole(d) /\ Upto(pages, p - 1) + d = headOff + (m - 1) * E
      /\ off <= EndOff(p)
  BY Zenon, <1>1, <1>3 DEF AtLastSeen, PlaceOf
<1>6. Whole(off)
  BY <1>1, <1>5, WholeFacts
<1>7. PICK u, x : u = Upto(pages, p - 1) /\ x = (m - 1) * E
  OBVIOUS
<1>8. u \in Nat /\ x \in Nat /\ u + off = headOff + x + E /\ (m + 1 - 1) * E = x + E /\ m * E = x + E
  <2>1. p - 1 \in 0 .. L /\ m - 1 \in Nat /\ (m - 1) + 1 = m /\ m + 1 - 1 = m
    BY <1>2
  <2>2. u \in Nat
    BY <1>1, <1>7, <2>1, FlattenRest DEF PagesInOrder
  <2>3. ((m - 1) + 1) * E = (m - 1) * E + E /\ (m - 1) * E \in Nat
    BY <1>2, <2>1, Products
  <2>4. x \in Nat /\ m * E = x + E /\ (m + 1 - 1) * E = x + E
    BY Zenon, <1>7, <2>1, <2>3
  <2>5. u + d = headOff + x
    BY Zenon, <1>5, <1>7
  <2> QED
    BY <1>2, <2>2, <2>4, <2>5
<1>9. CASE off < EndOff(p)
  <2>1. q = p /\ at = off
    BY Zenon, <1>1, <1>9 DEF NextPage
  <2>2. off + E <= EndOff(p)
    BY <1>1, <1>2, <1>4, <1>6, <1>9, WholeFacts
  <2>3. PlaceOf(pages, headOff, m + 1, p, off)
    <3>1. PICK y : y = (m + 1 - 1) * EltSize
      OBVIOUS
    <3>2. y = x + E
      BY Zenon, <1>1, <1>8, <3>1
    <3>3. u + off = headOff + y
      BY <1>2, <1>8, <3>2
    <3> QED
      BY <1>6, <1>7, <3>1, <3>3 DEF PlaceOf
  <2> QED
    BY Zenon, <1>1, <1>2, <1>3, <2>1, <2>2, <2>3
<1>10. CASE ~ (off < EndOff(p))
  <2>1. off = EndOff(p)
    <3>1. EndOff(p) \in Nat
      BY <1>2, <1>4
    <3> QED
      BY <1>2, <1>5, <1>10, <3>1
  <2> DEFINE next(r) == (r > e \/ EndOff(r) > 0) /\ \A z \in p + 1 .. r - 1 : EndOff(z) = 0
  <2>2. q = CHOOSE r \in p + 1 .. e + 1 : next(r)
    BY Zenon, <1>1, <1>10 DEF NextPage
  <2>3. p + 1 \in p + 1 .. e + 1 /\ next(p + 1)
    <3>1. p + 1 \in p + 1 .. e + 1 /\ (p + 1) - 1 = p /\ p + 1 > 1 /\ (p + 1 > e \/ p + 1 \in 1 .. e)
      BY <1>2
    <3>2. p + 1 \in 1 .. e => EndOff(p + 1) > 0
      BY <1>4, <3>1
    <3>3. \A z \in p + 1 .. p : FALSE
      BY <1>2
    <3> QED
      BY Zenon, <3>1, <3>2, <3>3
  <2>4. q \in p + 1 .. e + 1 /\ next(q)
    <3> HIDE DEF next
    <3> QED
      BY Zenon, <2>2, <2>3
  <2>5. q = p + 1
    <3> SUFFICES ASSUME q # p + 1 PROVE FALSE
      OBVIOUS
    <3>1. p + 1 \in p + 1 .. q - 1 /\ p + 1 \in 1 .. e /\ p + 1 > 1
      BY <1>2, <2>4
    <3>2. EndOff(p + 1) = 0
      BY <2>4, <3>1
    <3>3. EndOff(p + 1) > 0
      BY <1>4, <3>1
    <3> QED
      BY <3>2, <3>3
  <2> HIDE DEF next
  <2>6. at = 0 /\ q # p
    <3>1. q # p
      BY <1>2, <2>5
    <3> QED
      BY Zenon, <1>1, <3>1
  <2>7. CASE p = e
    <3>1. off = o
      BY <1>2, <1>4, <2>1, <2>7
    <3>2. headOff + n = u + o
      BY Zenon, <1>1, <1>7, <2>7 DEF SnapshotOf
    <3>3. n = x + E
      BY <1>2, <1>8, <3>1, <3>2
    <3>4. q > e
      BY <1>2, <2>5, <2>7
    <3>5. n = m * E
      BY Zenon, <1>8, <3>3
    <3> QED
      BY Zenon, <1>1, <1>2, <3>4, <3>5
  <2>8. CASE p # e
    <3>1. q \in 1 .. e /\ q > 1 /\ q - 1 = p /\ p \in 1 .. L
      BY <1>2, <2>5, <2>8
    <3>2. off = Len(pages[p])
      BY <1>2, <1>4, <2>1, <2>8
    <3>3. Upto(pages, p) = u + off
      BY <1>1, <1>7, <3>1, <3>2, UptoNext DEF PagesInOrder
    <3>4. Whole(0)
      BY <1>6, WholeFacts
    <3>5. PlaceOf(pages, headOff, m + 1, q, 0)
      <4>1. PICK y : y = (m + 1 - 1) * EltSize
        OBVIOUS
      <4>2. y = x + E
        BY Zenon, <1>1, <1>8, <4>1
      <4>3. Upto(pages, q - 1) + 0 = headOff + y
        BY <1>2, <1>8, <3>1, <3>3, <4>2
      <4> QED
        BY <3>4, <4>1, <4>3 DEF PlaceOf
    <3>6. 0 + E <= EndOff(q)
      <4>1. 0 < EndOff(q) /\ Whole(EndOff(q))
        BY <1>4, <3>1
      <4> QED
        BY <1>1, <3>4, <4>1, WholeFacts
    <3> QED
      BY Zenon, <1>1, <1>2, <1>3, <2>6, <3>1, <3>5, <3>6
  <2> QED
    BY <2>7, <2>8
<1> QED
  BY <1>9, <1>10

(* mm_deque_IteratorNext visits the next element, or ends after the last   *)
(* one.                                                                    *)
LEMMA StepKeepsIter ==
  ASSUME PagesInv, IterInv, IteratorStep
  PROVE  IterInv'
<1>1. /\ PagesInOrder /\ iter.hasData /\ use = "finalizers" /\ WholeElements /\ VisitedInOrder(iter)
      /\ SnapshotOf(pages, headOff, iter.from, iter.endPage, iter.endOff)
      /\ iter \in Iter /\ AtLastSeen(iter, pages, headOff)
  BY DEF IterInv, IteratorStep, PagesInv
<1>2. UNCHANGED <<pages, headOff, nrWordsElt, use>>
  BY DEF IteratorStep
<1>3. WholeElements' /\ WholePages(pages)
  BY Zenon, <1>1, <1>2 DEF WholeElements
<1>4. PICK off, E, p, e, o, from, seen :
        /\ off = iter.off + EltSize /\ E = EltSize /\ p = iter.page /\ e = iter.endPage /\ o = iter.endOff
        /\ from = iter.from /\ seen = iter.seen
  OBVIOUS
<1>5. PICK q : q = NextPage(off)
  OBVIOUS
<1>6. PICK at : at = IF q = p THEN off ELSE 0
  OBVIOUS
<1>7. PICK m : m = Len(seen)
  OBVIOUS
<1>8. iter.size = E
  BY <1>1, <1>4 DEF AtLastSeen
<1>9. iter' = IF q > e THEN [iter EXCEPT !.hasData = FALSE]
              ELSE [iter EXCEPT !.page = q, !.off = at, !.seen = Append(@, EltAt(q, at, E))]
  <2>1. iter.off + iter.size = off
    BY Zenon, <1>4, <1>8
  <2> QED
    BY Zenon, <1>4, <1>5, <1>6, <1>8, <2>1 DEF IteratorStep
<1>10. /\ m \in Nat \ {0}
       /\ \/ /\ q \in 1 .. e
             /\ PlaceOf(pages, headOff, m + 1, q, at)
             /\ at + E <= EndOf(pages, e, o, q)
          \/ /\ q > e
             /\ Len(from) = m * E
  <2>1. at = IF q = iter.page THEN off ELSE 0
    BY Zenon, <1>4, <1>6
  <2>2. m = Len(iter.seen) /\ off = iter.off + EltSize
    BY Zenon, <1>4, <1>7
  <2>3. /\ m \in Nat \ {0}
        /\ \/ /\ q \in 1 .. iter.endPage
              /\ PlaceOf(pages, headOff, m + 1, q, at)
              /\ at + EltSize <= EndOf(pages, iter.endPage, iter.endOff, q)
           \/ /\ q > iter.endPage
              /\ Len(iter.from) = m * EltSize
    BY <1>1, <1>3, <1>5, <2>1, <2>2, NextPlace
  <2> QED
    BY Zenon, <1>4, <2>3
<1>11. PICK want : want = Elements(from)
  OBVIOUS
<1>12. /\ want \in Seq(Seq(Word)) /\ Len(want) \in Nat /\ Len(want) = Len(from) \div EltSize
       /\ from \in Seq(Word) /\ e \in Nat /\ o \in Nat /\ p \in Nat /\ seen \in Seq(Seq(Word))
  <2>1. from \in Seq(Word) /\ e \in Nat /\ o \in Nat /\ p \in Nat /\ seen \in Seq(Seq(Word))
    BY <1>1, <1>4, FromWords
  <2>2. want \in Seq(Seq(Word)) /\ Len(want) = Len(from) \div EltSize
    BY <1>11, <2>1, ElementsFacts
  <2> QED
    BY <2>1, <2>2, LenProperties
<1>13. m \in 0 .. Len(want) /\ seen = SubSeq(want, 1, m)
  <2>1. PICK k \in 0 .. Len(want) : seen = SubSeq(want, 1, k)
    BY Zenon, <1>1, <1>4, <1>11 DEF VisitedInOrder
  <2>2. Len(SubSeq(want, 1, k)) = k
    BY <1>12, Cut
  <2> QED
    BY Zenon, <1>7, <2>1, <2>2
<1>14. CASE q \in 1 .. e /\ PlaceOf(pages, headOff, m + 1, q, at) /\ at + E <= EndOf(pages, e, o, q)
  <2>1. PICK x, i : x = EltAt(q, at, E) /\ i = m + 1
    OBVIOUS
  <2>2. ~ (q > e) /\ q \in Nat /\ at \in Nat /\ i \in Nat \ {0} /\ m \in Nat
    <3>1. ~ (q > e) /\ q \in Nat /\ i \in Nat \ {0} /\ m \in Nat
      BY <1>10, <1>12, <1>14, <2>1
    <3>2. Whole(at)
      BY <1>14 DEF PlaceOf
    <3> QED
      BY <3>1, <3>2, WholeFacts
  <2>3. i \in 1 .. Len(want) /\ x = want[i]
    <3>1. PlaceOf(pages, headOff, i, q, at) /\ at + EltSize <= EndOf(pages, e, o, q)
      BY Zenon, <1>4, <1>14, <2>1
    <3>2. SnapshotOf(pages, headOff, from, e, o)
      BY Zenon, <1>1, <1>4
    <3>3. i \in 1 .. Len(Elements(from)) /\ EltAt(q, at, EltSize) = Elements(from)[i]
      BY <1>1, <1>12, <1>14, <2>2, <3>1, <3>2, ElementAt
    <3> QED
      BY Zenon, <1>4, <1>11, <2>1, <3>3
  <2>4. PICK more : more = Append(seen, x)
    OBVIOUS
  <2>5. more = SubSeq(want, 1, i) /\ i \in 0 .. Len(want)
    <3>1. m + 1 \in 1 .. Len(want)
      BY Zenon, <2>1, <2>3
    <3>2. SubSeq(want, 1, m + 1) = Append(SubSeq(want, 1, m), want[m + 1])
      BY <1>12, <2>2, <3>1, OneMore
    <3>3. i \in 0 .. Len(want)
      BY <1>12, <2>3
    <3> QED
      BY Zenon, <1>13, <2>1, <2>3, <2>4, <3>2, <3>3
  <2>6. more \in Seq(Seq(Word)) /\ Len(more) = i
    BY <1>12, <2>5, Cut
  <2>7. iter' = [iter EXCEPT !.page = q, !.off = at, !.seen = more]
    BY Zenon, <1>4, <1>9, <2>1, <2>2, <2>4
  <2>8. /\ iter'.hasData /\ iter'.page = q /\ iter'.off = at /\ iter'.endPage = e /\ iter'.endOff = o
        /\ iter'.size = E /\ iter'.from = from /\ iter'.seen = more /\ iter' \in Iter
    BY <1>1, <1>4, <1>8, <2>2, <2>6, <2>7 DEF Iter
  <2>9. VisitedInOrder(iter')
    BY Zenon, <1>11, <2>5, <2>8 DEF VisitedInOrder
  <2>10. AtLastSeen(iter', pages, headOff)
    <3>1. PlaceOf(pages, headOff, i, q, at) /\ at + EltSize <= EndOf(pages, e, o, q)
      BY Zenon, <1>4, <1>14, <2>1
    <3> QED
      BY Zenon, <1>4, <1>14, <2>2, <2>6, <2>8, <3>1 DEF AtLastSeen
  <2>11. SnapshotOf(pages, headOff, iter'.from, iter'.endPage, iter'.endOff)
    BY Zenon, <1>1, <1>4, <2>8
  <2> QED
    BY Zenon, <1>1, <1>2, <1>3, <2>8, <2>9, <2>10, <2>11 DEF IterInv
<1>15. CASE q > e /\ Len(from) = m * E
  <2>1. iter' = [iter EXCEPT !.hasData = FALSE]
    BY Zenon, <1>9, <1>15
  <2>2. ~ iter'.hasData /\ iter'.from = from /\ iter'.seen = seen /\ iter' \in Iter
    BY <1>1, <1>4, <2>1 DEF Iter
  <2>3. Len(want) = m
    <3>1. PICK n : n = Len(from)
      OBVIOUS
    <3>2. n \in Nat /\ m \in Nat /\ n = m * EltSize
      <4>1. n \in Nat /\ m \in Nat
        BY <1>10, <1>12, <3>1, LenProperties
      <4> QED
        BY Zenon, <1>4, <1>15, <3>1, <4>1
    <3>3. n \div EltSize = m
      BY <3>2, PartsOfElements
    <3> QED
      BY Zenon, <1>12, <3>1, <3>3
  <2>4. seen = want
    <3>1. SubSeq(want, 1, Len(want)) = want
      BY <1>12, SubSeqFull
    <3> QED
      BY Zenon, <1>13, <2>3, <3>1
  <2>5. VisitedInOrder(iter')
    BY Zenon, <1>11, <1>13, <2>2, <2>4 DEF VisitedInOrder
  <2> QED
    BY Zenon, <1>3, <2>2, <2>5 DEF IterInv
<1> QED
  BY <1>10, <1>14, <1>15

----------------------------------------------------------------------------
(* Pushes and pops, and the invariant.                                     *)

\* A push moves no element that is to be visited, nor the place where the iterator is.
LEMMA PushKeepsSnapshot ==
  ASSUME PagesInOrder, NEW s \in Seq(Seq(Word)), Len(pages) <= Len(s),
         \A r \in 1 .. Len(pages) - 1 : s[r] = pages[r],
         Len(pages[Len(pages)]) <= Len(s[Len(pages)]),
         NEW ws \in Seq(Word), FlattenSeq(s) = FlattenSeq(pages) \o ws,
         NEW it \in Iter, SnapshotOf(pages, headOff, it.from, it.endPage, it.endOff),
         AtLastSeen(it, pages, headOff)
  PROVE  SnapshotOf(s, headOff, it.from, it.endPage, it.endOff) /\ AtLastSeen(it, s, headOff)
<1>1. PICK L, e, o, from, p, h : /\ L = Len(pages) /\ e = it.endPage /\ o = it.endOff /\ from = it.from
                                 /\ p = it.page /\ h = headOff
  OBVIOUS
<1>2. /\ L \in Nat /\ e \in 1 .. L /\ p \in 1 .. e /\ o \in Nat /\ h \in Nat /\ from \in Seq(Word)
      /\ Len(from) \in Nat /\ Len(s) \in Nat
  <2>1. L \in Nat /\ Len(s) \in Nat
    BY <1>1, PageFacts, LenProperties
  <2>2. o \in Nat /\ from \in Seq(Word)
    BY <1>1 DEF Iter
  <2>3. e \in 1 .. L /\ p \in 1 .. e
    BY Zenon, <1>1 DEF SnapshotOf, AtLastSeen
  <2>4. headOff \in 0 .. Len(FlattenSeq(pages))
    BY PageFacts
  <2> QED
    BY <1>1, <2>1, <2>2, <2>3, <2>4, LenProperties
<1>3. /\ Whole(o) /\ o <= Len(pages[e]) /\ (e > 1 => o > 0)
      /\ h + Len(from) = Upto(pages, e - 1) + o
      /\ \A i \in 1 .. Len(from) : from[i] = FlattenSeq(pages)[h + i]
  BY Zenon, <1>1 DEF SnapshotOf
<1>4. Len(pages[e]) \in Nat /\ Len(s[e]) \in Nat /\ s[e] \in Seq(Word)
  <2>1. e \in 1 .. Len(s)
    BY <1>1, <1>2
  <2>2. s[e] \in Seq(Word)
    BY <2>1, ElementOfSeq
  <2> QED
    BY <1>1, <1>2, <2>2, PageFacts, LenProperties
<1>5. o <= Len(s[e])
  <2>1. CASE e = L
    <3>1. Len(pages[e]) <= Len(s[e])
      BY <1>1, <2>1
    <3> QED
      BY <1>2, <1>3, <1>4, <3>1
  <2>2. CASE e # L
    <3>1. e \in 1 .. L - 1
      BY <1>2, <2>2
    <3>2. s[e] = pages[e]
      BY Zenon, <1>1, <3>1
    <3> QED
      BY <1>3, <3>2
  <2> QED
    BY <2>1, <2>2
<1>6. ASSUME NEW k \in 1 .. e PROVE Upto(s, k - 1) = Upto(pages, k - 1)
  <2>1. PICK j : j = k - 1
    OBVIOUS
  <2>2. j \in Nat /\ j <= L /\ j <= Len(s) /\ \A i \in 1 .. j : i \in 1 .. L - 1
    <3>1. PICK N : N = Len(s)
      OBVIOUS
    <3>2. L <= N /\ N \in Nat
      BY Zenon, <1>1, <1>2, <3>1
    <3>3. j \in Nat /\ j <= L /\ j <= N /\ \A i \in 1 .. j : i \in 1 .. L - 1
      BY <1>2, <2>1, <3>2
    <3> QED
      BY Zenon, <3>1, <3>3
  <2>3. \A i \in 1 .. j : s[i] = pages[i]
    BY Zenon, <1>1, <2>2
  <2>4. SubSeq(s, 1, j) = SubSeq(pages, 1, j)
    BY <1>1, <2>2, <2>3, SameStart DEF PagesInOrder
  <2> QED
    BY Zenon, <2>1, <2>4 DEF Upto
<1>7. PICK F, G : F = FlattenSeq(pages) /\ G = FlattenSeq(s)
  OBVIOUS
<1>8. F \in Seq(Word) /\ G = F \o ws /\ Len(F) \in Nat /\ Len(ws) \in Nat
  BY <1>7, PageFacts, LenProperties
<1>9. \A i \in 1 .. Len(F) : G[i] = F[i]
  <2>1. \A i \in 1 .. Len(F) : i \in 1 .. Len(F) + Len(ws) /\ i <= Len(F)
    BY <1>8
  <2> QED
    BY <1>8, <2>1, ConcatProperties
<1>10. h + Len(from) <= Len(F)
  <2>1. Upto(pages, e) = Upto(pages, e - 1) + Len(pages[e])
    BY <1>1, <1>2, UptoNext DEF PagesInOrder
  <2>2. Upto(pages, e) <= Len(F) /\ Upto(pages, e) \in Nat
    <3>1. e \in 0 .. Len(pages)
      BY <1>1, <1>2
    <3> QED
      BY <1>7, <3>1, FlattenRest DEF PagesInOrder
  <2>3. Upto(pages, e - 1) \in Nat
    <3>1. e - 1 \in 0 .. Len(pages)
      <4>1. e - 1 \in 0 .. L
        BY <1>2
      <4> QED
        BY Zenon, <1>1, <4>1
    <3> QED
      BY <3>1, FlattenRest DEF PagesInOrder
  <2>4. PICK u, v, x, n : u = Upto(pages, e) /\ v = Upto(pages, e - 1) /\ x = Len(pages[e]) /\ n = Len(from)
    OBVIOUS
  <2>5. u = v + x /\ u <= Len(F) /\ v \in Nat /\ u \in Nat /\ x \in Nat /\ o <= x /\ h + n = v + o /\ n \in Nat
    BY Zenon, <1>2, <1>3, <1>4, <2>1, <2>2, <2>3, <2>4
  <2>6. h + n <= Len(F)
    BY <1>2, <1>8, <2>5
  <2> QED
    BY Zenon, <2>4, <2>6
<1>11. \A i \in 1 .. Len(from) : from[i] = G[h + i]
  <2> SUFFICES ASSUME NEW i \in 1 .. Len(from) PROVE from[i] = G[h + i]
    OBVIOUS
  <2>1. h + i \in 1 .. Len(F)
    BY <1>2, <1>8, <1>10
  <2>2. from[i] = F[h + i]
    BY Zenon, <1>3, <1>7
  <2> QED
    BY Zenon, <1>9, <2>1, <2>2
<1>12. SnapshotOf(s, headOff, it.from, it.endPage, it.endOff)
  <2>1. e \in 1 .. Len(s) /\ e \in 1 .. e
    BY <1>1, <1>2, SMTT(40)
  <2>2. h + Len(from) = Upto(s, e - 1) + o
    BY Zenon, <1>3, <1>6, <2>1
  <2> QED
    BY Zenon, <1>1, <1>3, <1>5, <1>7, <1>11, <2>1, <2>2 DEF SnapshotOf
<1>13. EndOf(s, e, o, p) = EndOf(pages, e, o, p)
  <2>1. p # e => s[p] = pages[p]
    <3>1. p # e => p \in 1 .. L - 1
      BY <1>2
    <3> QED
      BY Zenon, <1>1, <3>1
  <2> QED
    BY Zenon, <2>1 DEF EndOf
<1>14. AtLastSeen(it, s, headOff)
  <2>1. Upto(s, p - 1) = Upto(pages, p - 1)
    BY <1>2, <1>6
  <2> QED
    BY Zenon, <1>1, <1>13, <2>1 DEF AtLastSeen, PlaceOf
<1> QED
  BY <1>12, <1>14

(* TailPush keeps the invariant of the iterator.                           *)
LEMMA PushKeepsIter ==
  ASSUME PagesInv, IterInv, TailPush
  PROVE  IterInv'
<1>1. PICK n \in 1 .. MaxElts : \E ws \in [1 .. n * EltSize -> Word] :
        pages' = TailPushed(ws) /\ UNCHANGED <<headOff, nrWordsElt, iter, use>>
  BY DEF TailPush
<1>2. PICK ws \in [1 .. n * EltSize -> Word] :
        pages' = TailPushed(ws) /\ UNCHANGED <<headOff, nrWordsElt, iter, use>>
  BY <1>1
<1>3. ws \in Seq(Word) /\ Whole(Len(ws))
  <2>1. ws \in Seq(Word) /\ Len(ws) = n * EltSize
    BY PushWords
  <2>2. n \in Nat
    OBVIOUS
  <2> QED
    BY Zenon, <2>1, <2>2 DEF Whole
<1>4. PICK s : s = TailPushed(ws)
  OBVIOUS
<1>5. /\ s \in Seq(Seq(Word)) /\ Len(pages) <= Len(s)
      /\ \A p \in 1 .. Len(pages) - 1 : s[p] = pages[p]
      /\ Len(pages[Len(pages)]) <= Len(s[Len(pages)])
      /\ FlattenSeq(s) = FlattenSeq(pages) \o ws
      /\ nrWordsElt = EltSize /\ WholePages(pages) => WholePages(s)
  <2>1. PagesInOrder /\ nrWordsElt \in Nat \ {0} /\ nrWordsElt <= Cap
    BY EltSizes DEF PagesInv
  <2> QED
    BY Zenon, <1>3, <1>4, <2>1, TailPushedFacts
<1>6. pages' = s /\ UNCHANGED <<headOff, nrWordsElt, iter, use>>
  BY Zenon, <1>2, <1>4
<1>7. use' = "finalizers" => WholeElements'
  BY Zenon, <1>5, <1>6 DEF IterInv, WholeElements
<1>8. iter.hasData => /\ SnapshotOf(s, headOff, iter.from, iter.endPage, iter.endOff)
                      /\ AtLastSeen(iter, s, headOff)
  BY <1>3, <1>5, PushKeepsSnapshot DEF IterInv, PagesInv
<1> QED
  BY Zenon, <1>6, <1>7, <1>8 DEF IterInv

(* The words up to the end of any page are whole elements.                 *)
LEMMA WholeUpto ==
  ASSUME PagesInOrder, WholePages(pages)
  PROVE  \A p \in 0 .. Len(pages) : Whole(Upto(pages, p))
<1> DEFINE S == {p \in Nat : p <= Len(pages) => Whole(Upto(pages, p))}
<1>1. 0 \in S
  <2>1. Upto(pages, 0) = 0
    BY UptoEnds DEF PagesInOrder
  <2>2. 0 = 0 * EltSize
    BY DequeAssumption
  <2>3. Whole(0)
    BY Zenon, <2>2 DEF Whole
  <2> QED
    BY <2>1, <2>3
<1>2. ASSUME NEW p \in S PROVE p + 1 \in S
  <2> SUFFICES ASSUME p + 1 <= Len(pages) PROVE Whole(Upto(pages, p + 1))
    OBVIOUS
  <2>1. p + 1 \in 1 .. Len(pages) /\ (p + 1) - 1 = p /\ p <= Len(pages) /\ p \in Nat
    BY PageFacts
  <2>2. Upto(pages, p + 1) = Upto(pages, (p + 1) - 1) + Len(pages[p + 1])
    BY <2>1, UptoNext DEF PagesInOrder
  <2>3. Whole(Upto(pages, p)) /\ Whole(Len(pages[p + 1]))
    BY <2>1 DEF WholePages
  <2>4. Whole(Upto(pages, p) + Len(pages[p + 1]))
    BY <2>3, WholeFacts
  <2> QED
    BY Zenon, <2>1, <2>2, <2>4
<1>3. Nat \subseteq S
  <2>1. S \subseteq Nat
    OBVIOUS
  <2> HIDE DEF S
  <2> QED
    BY <1>1, <1>2, <2>1, SetInduction
<1>4. \A p \in 0 .. Len(pages) : p \in Nat /\ p <= Len(pages)
  BY PageFacts
<1> QED
  BY <1>3, <1>4

(* HeadPop, which no caller makes during an iteration, keeps it.           *)
LEMMA PopKeepsIter ==
  ASSUME PagesInv, IterInv, HeadPop
  PROVE  IterInv'
<1>1. PICK n \in 1 .. MaxElts :
        /\ pages' = HeadPopped(n * EltSize).pages /\ headOff' = HeadPopped(n * EltSize).headOff
        /\ iter' = NoIter /\ UNCHANGED <<nrWordsElt, use>>
  BY DEF HeadPop
<1>2. PICK y : y = n * EltSize
  OBVIOUS
<1>3. y \in Nat /\ Whole(y) /\ PagesInOrder
  <2>1. n \in Nat /\ y \in Nat
    BY <1>2, DequeAssumption
  <2> QED
    BY <1>2, <2>1 DEF Whole, PagesInv
<1>4. PICK d : LET k == MinOf(y, Len(Content))
               IN  /\ PopsPages(k, d)
                   /\ HeadPopped(y) = [pages   |-> Drop(pages, d),
                                       headOff |-> headOff + k - Upto(pages, d),
                                       words   |-> SubSeq(Content, 1, k)]
  BY <1>3, HeadPoppedFacts
<1>5. PICK k, u, w : k = MinOf(y, Len(Content)) /\ u = Upto(pages, d) /\ w = SubSeq(Content, 1, k)
  OBVIOUS
<1>6. PICK s, h : s = Drop(pages, d) /\ h = headOff + k - u
  OBVIOUS
<1>7. PopsPages(k, d) /\ HeadPopped(y) = [pages |-> s, headOff |-> h, words |-> w]
  BY Zenon, <1>4, <1>5, <1>6
<1>8. pages' = s /\ headOff' = h
  <2>1. PICK r : r = HeadPopped(y)
    OBVIOUS
  <2>2. r = [pages |-> s, headOff |-> h, words |-> w]
    BY Zenon, <1>7, <2>1
  <2>3. r.pages = s /\ r.headOff = h
    BY <2>2
  <2> QED
    BY Zenon, <1>1, <1>2, <2>1, <2>3
<1>9. ASSUME use = "finalizers" PROVE Whole(h) /\ WholePages(s) /\ nrWordsElt = EltSize
  <2>1. nrWordsElt = EltSize /\ Whole(headOff) /\ WholePages(pages)
    BY <1>9 DEF IterInv, WholeElements
  <2>2. PICK c, F : c = Len(Content) /\ F = Len(FlattenSeq(pages))
    OBVIOUS
  <2>3. c = F - headOff /\ headOff \in 0 .. F /\ F \in Nat
    BY Zenon, <1>3, <2>2, PageFacts
  <2>4. Whole(F)
    <3>1. Upto(pages, Len(pages)) = F
      BY <1>3, <2>2, UptoEnds DEF PagesInOrder
    <3>2. Len(pages) \in 0 .. Len(pages)
      BY <1>3, PageFacts
    <3> QED
      BY <1>3, <2>1, <3>1, <3>2, WholeUpto
  <2>5. Whole(c) /\ headOff \in Nat
    <3>1. headOff <= F /\ headOff \in Nat
      BY <2>3
    <3> QED
      BY <2>1, <2>3, <2>4, <3>1, WholeFacts
  <2>6. Whole(k)
    <3>1. k = y \/ k = c
      BY Zenon, <1>5, <2>2 DEF MinOf
    <3> QED
      BY <1>3, <2>5, <3>1
  <2>7. d \in 0 .. Len(pages) /\ d \in 0 .. Len(pages) - 1 /\ u <= headOff + k
    <3>1. d \in 0 .. Len(pages) - 1 /\ u <= headOff + k
      BY Zenon, <1>5, <1>7 DEF PopsPages
    <3> QED
      BY <1>3, <3>1, PageFacts
  <2>8. Whole(u)
    BY <1>3, <1>5, <2>1, <2>7, WholeUpto
  <2>9. Whole(h)
    <3>1. PICK x : x = headOff + k
      OBVIOUS
    <3>2. Whole(x) /\ u <= x /\ h = x - u
      <4>1. Whole(headOff + k)
        BY <2>1, <2>6, WholeFacts
      <4>2. headOff \in Nat /\ k \in Nat /\ u \in Nat
        BY <2>1, <2>6, <2>8, WholeFacts
      <4>3. h = x - u
        BY <1>6, <3>1, <4>2
      <4> QED
        BY Zenon, <2>7, <3>1, <4>1, <4>3
    <3> QED
      BY <2>8, <3>2, WholeFacts
  <2>10. \A p \in 1 .. Len(s) : d + p \in 1 .. Len(pages) /\ s[p] = pages[d + p]
    BY <1>3, <1>5, <1>6, <1>7, PoppedInOrder
  <2>11. WholePages(s)
    BY Zenon, <2>1, <2>10 DEF WholePages
  <2> QED
    BY <2>1, <2>9, <2>11
<1>10. use' = "finalizers" => WholeElements'
  BY Zenon, <1>1, <1>8, <1>9 DEF WholeElements
<1> QED
  BY Zenon, <1>1, <1>10, NoIterFine DEF IterInv

(* It holds of a queue just made.                                          *)
LEMMA InitIter ==
  ASSUME Init
  PROVE  IterInv
<1>1. pages = << <<>> >> /\ headOff = 0 /\ nrWordsElt = EltSize /\ iter = NoIter
  BY DEF Init
<1>2. Whole(0)
  <2>1. 0 = 0 * EltSize
    BY DequeAssumption
  <2> QED
    BY Zenon, <2>1 DEF Whole
<1>3. \A p \in 1 .. Len(pages) : Len(pages[p]) = 0
  <2>1. Len(pages) = 1 /\ Len(pages[1]) = 0
    BY <1>1
  <2> QED
    BY <2>1
<1>4. WholeElements
  BY Zenon, <1>1, <1>2, <1>3 DEF WholeElements, WholePages
<1> QED
  BY Zenon, <1>1, <1>4, NoIterFine DEF IterInv

(* Every step keeps it.                                                    *)
LEMMA IterStep ==
  ASSUME PagesInv, IterInv, [Next]_vars
  PROVE  IterInv'
<1>1. CASE Reset
  <2>1. use' # "finalizers" /\ iter' = NoIter
    BY <1>1 DEF Reset, InitWithSize
  <2> QED
    BY Zenon, <2>1, NoIterFine DEF IterInv
<1>2. CASE UNCHANGED vars
  <2>1. UNCHANGED <<pages, headOff, nrWordsElt, iter, use>>
    BY <1>2 DEF vars
  <2> QED
    BY Zenon, <2>1 DEF IterInv, WholeElements
<1> QED
  BY <1>1, <1>2, PushKeepsIter, PopKeepsIter, StartKeepsIter, StepKeepsIter DEF Next

(* The iterator is in order in every reachable state.                      *)
THEOREM IteratorInvariance == Spec => [](PagesInv /\ IterInv)
<1>1. Init => PagesInv /\ IterInv
  BY InitPages, InitIter
<1>2. PagesInv /\ IterInv /\ [Next]_vars => PagesInv' /\ IterInv'
  BY PagesStep, IterStep
<1> QED
  BY <1>1, <1>2, PTL DEF Spec

(* An iterator visits the elements the queue held when it was made, in     *)
(* order and each whole, whatever is pushed meanwhile, and all of them     *)
(* when it ends.                                                           *)
THEOREM SnapshotVisited == Spec => []IteratorVisitsSnapshot
<1>1. IterInv => IteratorVisitsSnapshot
  BY PrefixVisited
<1> QED
  BY <1>1, IteratorInvariance, PTL
=================================================================================
