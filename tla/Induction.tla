------------------------------- MODULE Induction -------------------------------
(***************************************************************************)
(* Induction over the natural numbers without an operator parameter, and   *)
(* what the other proof modules need of it: the iterates of a step, and a  *)
(* bound on the length of a descending sequence.  The induction theorems   *)
(* of the library take a predicate, which the provers cannot instantiate;  *)
(* a set of numbers says the same.  Its proof rests on the library's       *)
(* theorem that strict inclusion of finite sets is well founded.           *)
(***************************************************************************)
EXTENDS Integers, Powers, TLAPS, FiniteSetTheorems

(* The intervals 0 .. t of the members t of a set of numbers are finite    *)
(* sets, and the least of them belongs to the least number.                *)
LEMMA LeastNatural ==
  ASSUME NEW T, T \subseteq Nat, T # {}
  PROVE  \E x \in T : \A y \in T : x <= y
<1> DEFINE below == {0 .. t : t \in T}
           R == StrictSubsetOrdering(Nat)
<1>1. below \subseteq FiniteSubsetsOf(Nat) /\ below # {}
  <2>1. ASSUME NEW t \in T PROVE 0 .. t \in FiniteSubsetsOf(Nat)
    <3>1. IsFiniteSet(0 .. t) /\ 0 .. t \subseteq Nat
      BY FS_Interval
    <3> QED
      BY <3>1 DEF FiniteSubsetsOf
  <2> QED
    BY <2>1
<1>2. IsWellFoundedOn(R, FiniteSubsetsOf(Nat))
  BY FS_StrictSubsetOrderingWellFounded
<1>3. \E x \in below : \A y \in below : ~ (<<y, x>> \in R)
  <2> HIDE DEF R, below
  <2> QED
    BY <1>1, <1>2, WFMin
<1>4. PICK x \in T : \A y \in T : ~ (<<0 .. y, 0 .. x>> \in R)
  BY <1>3
<1>5. ASSUME NEW y \in T, y < x PROVE FALSE
  <2>1. 0 .. y \subseteq 0 .. x /\ 0 .. y # 0 .. x /\ 0 .. y \subseteq Nat /\ 0 .. x \subseteq Nat
    <3>1. x \in 0 .. x /\ x \notin 0 .. y
      BY <1>5
    <3> QED
      BY <3>1, <1>5
  <2>2. <<0 .. y, 0 .. x>> \in R
    BY <2>1 DEF StrictSubsetOrdering
  <2> QED
    BY <2>2, <1>4
<1> QED
  BY <1>5

(* Induction: a set that holds 0, and n + 1 with every n, has all numbers. *)
LEMMA SetInduction ==
  ASSUME NEW S, S \subseteq Nat, 0 \in S, \A n \in S : n + 1 \in S
  PROVE  Nat \subseteq S
<1> DEFINE T == Nat \ S
<1> SUFFICES ASSUME T # {} PROVE FALSE
  OBVIOUS
<1>4. PICK x \in T : \A y \in T : x <= y
  BY LeastNatural
<1>5. x # 0 /\ x \in Nat
  BY <1>4
<1>6. x - 1 \in Nat /\ x - 1 < x
  BY <1>5
<1>7. x - 1 \in S
  BY <1>4, <1>6
<1> QED
  BY <1>4, <1>7, <1>5

\* f lists the first n iterates of step from x.
Iterates(f, V, step, x, n) ==
  /\ f \in [0 .. n -> V] /\ f[0] = x
  /\ \A i \in 1 .. n : f[i] = step[f[i - 1]]

(* Any number of iterates exists: what a recursive function computes can   *)
(* be had without unfolding its definition.                                *)
LEMMA IterateExists ==
  ASSUME NEW V, NEW step \in [V -> V], NEW x \in V, NEW n \in Nat
  PROVE  \E f : Iterates(f, V, step, x, n)
<1> DEFINE S == {m \in Nat : \E f : Iterates(f, V, step, x, m)}
<1>1. 0 \in S
  <2>1. Iterates([i \in 0 .. 0 |-> x], V, step, x, 0)
    BY DEF Iterates
  <2> QED
    BY <2>1
<1>2. ASSUME NEW m \in S PROVE m + 1 \in S
  <2>1. PICK f : Iterates(f, V, step, x, m)
    OBVIOUS
  <2> DEFINE g == [i \in 0 .. m + 1 |-> IF i = m + 1 THEN step[f[m]] ELSE f[i]]
  <2>2. g \in [0 .. m + 1 -> V] /\ g[0] = x
    BY <2>1 DEF Iterates
  <2>3. ASSUME NEW i \in 1 .. m + 1 PROVE g[i] = step[g[i - 1]]
    BY <2>1 DEF Iterates
  <2>4. Iterates(g, V, step, x, m + 1)
    BY <2>2, <2>3 DEF Iterates
  <2> QED
    BY <2>4
<1>3. Nat \subseteq S
  <2> HIDE DEF S
  <2>1. S \subseteq Nat
    BY DEF S
  <2> QED
    BY <1>1, <1>2, <2>1, SetInduction
<1> QED
  BY <1>3

(* A sequence of members of a finite set whose ranks decrease is no longer *)
(* than the set is big.                                                    *)
LEMMA DescentBounded ==
  ASSUME NEW X, IsFiniteSet(X), NEW rank \in [X -> Nat], NEW k \in Nat, NEW c \in [0 .. k -> X],
         \A i \in 1 .. k : rank[c[i]] < rank[c[i - 1]]
  PROVE  k < Cardinality(X)
<1> DEFINE S == {j \in Nat : j <= k => \A i \in 0 .. j - 1 : rank[c[j]] < rank[c[i]]}
<1>1. 0 \in S
  OBVIOUS
<1>2. ASSUME NEW j \in S PROVE j + 1 \in S
  <2> SUFFICES ASSUME j + 1 <= k, NEW i \in 0 .. j PROVE rank[c[j + 1]] < rank[c[i]]
    OBVIOUS
  <2>1. /\ j + 1 \in 1 .. k /\ (j + 1) - 1 = j /\ j \in 0 .. k /\ i \in 0 .. k
        /\ j \in Nat /\ i \in Nat /\ j + 1 \in 0 .. k
    OBVIOUS
  <2>2. rank[c[j + 1]] < rank[c[j]]
    BY <2>1
  <2>3. i # j => rank[c[j]] < rank[c[i]]
    BY <2>1
  <2>4. rank[c[j + 1]] \in Nat /\ rank[c[j]] \in Nat /\ rank[c[i]] \in Nat
    BY <2>1
  <2> QED
    BY <2>2, <2>3, <2>4
<1>3. Nat \subseteq S
  <2> HIDE DEF S
  <2>1. S \subseteq Nat
    BY DEF S
  <2> QED
    BY <1>1, <1>2, <2>1, SetInduction
<1>4. ASSUME NEW i \in 0 .. k, NEW j \in 0 .. k, i < j PROVE c[i] # c[j]
  <2>1. rank[c[j]] < rank[c[i]] /\ rank[c[j]] \in Nat
    BY <1>3, <1>4
  <2> QED
    BY <2>1
<1>5. IsFiniteSet(0 .. k) /\ Cardinality(0 .. k) = k + 1
  BY FS_Interval
<1>6. Cardinality(X) \in Nat
  BY FS_CardinalityType
<1>7. \A i, j \in 0 .. k : i # j => i < j \/ j < i
  OBVIOUS
<1>8. ~ (Cardinality(X) < Cardinality(0 .. k))
  BY <1>4, <1>5, <1>7, FS_PigeonHole
<1> QED
  BY <1>5, <1>6, <1>8

\* f lists all iterates of step from x.
Unending(f, V, step, x) ==
  /\ f \in [Nat -> V] /\ f[0] = x
  /\ \A n \in Nat : f[n + 1] = step[f[n]]

(* The endless sequence of iterates.                                       *)
LEMMA SequenceExists ==
  ASSUME NEW V, NEW step \in [V -> V], NEW x \in V
  PROVE  \E f : Unending(f, V, step, x)
<1> DEFINE table(n) == CHOOSE t : Iterates(t, V, step, x, n)
           f == [n \in Nat |-> table(n)[n]]
<1>1. ASSUME NEW n \in Nat PROVE Iterates(table(n), V, step, x, n)
  BY IterateExists
<1>2. ASSUME NEW n \in Nat, NEW m \in Nat, NEW s, NEW t, Iterates(s, V, step, x, n), Iterates(t, V, step, x, m)
      PROVE  \A i \in Nat : i <= n /\ i <= m => s[i] = t[i]
  <2> DEFINE S == {i \in Nat : i <= n /\ i <= m => s[i] = t[i]}
  <2>1. 0 \in S
    BY <1>2 DEF Iterates
  <2>2. ASSUME NEW i \in S PROVE i + 1 \in S
    <3> SUFFICES ASSUME i + 1 <= n, i + 1 <= m PROVE s[i + 1] = t[i + 1]
      OBVIOUS
    <3>1. i + 1 \in 1 .. n /\ i + 1 \in 1 .. m /\ (i + 1) - 1 = i /\ i <= n /\ i <= m
      OBVIOUS
    <3>2. s[i + 1] = step[s[i]] /\ t[i + 1] = step[t[i]]
      BY <1>2, <3>1 DEF Iterates
    <3> QED
      BY <3>1, <3>2
  <2>3. S \subseteq Nat
    OBVIOUS
  <2>4. Nat \subseteq S
    <3> HIDE DEF S
    <3> QED
      BY <2>1, <2>2, <2>3, SetInduction
  <2> QED
    BY <2>4
<1> HIDE DEF table
<1>3. f \in [Nat -> V]
  BY <1>1 DEF Iterates
<1>4. f[0] = x
  BY <1>1 DEF Iterates
<1>5. ASSUME NEW n \in Nat PROVE f[n + 1] = step[f[n]]
  <2>1. n + 1 \in 1 .. n + 1 /\ (n + 1) - 1 = n /\ n + 1 \in Nat
    OBVIOUS
  <2>2. table(n + 1)[n + 1] = step[table(n + 1)[n]]
    BY <1>1, <2>1 DEF Iterates
  <2>3. table(n + 1)[n] = table(n)[n]
    BY <1>1, <1>2, <2>1
  <2> QED
    BY <2>1, <2>2, <2>3
<1>6. Unending(f, V, step, x)
  BY <1>3, <1>4, <1>5 DEF Unending
<1> QED
  BY <1>6

--------------------------------------------------------------------------------
(* Division, multiples and powers of two.                                  *)

(* Division with remainder.                                                *)
LEMMA DivMod ==
  ASSUME NEW x \in Nat, NEW n \in Nat \ {0}
  PROVE  x = (x \div n) * n + (x % n) /\ x % n \in 0 .. n - 1 /\ x \div n \in Nat
<1>1. x % n \in 0 .. n - 1
  OBVIOUS
<1>2. x \div n \in Nat
  OBVIOUS
<1>3. x = (x \div n) * n + (x % n)
  OBVIOUS
<1> QED
  BY <1>1, <1>2, <1>3

(* There is one quotient and one remainder.                                *)
LEMMA DivUnique ==
  ASSUME NEW x \in Nat, NEW n \in Nat \ {0}, NEW q \in Nat, NEW r \in 0 .. n - 1, x = q * n + r
  PROVE  x \div n = q /\ x % n = r
<1>1. PICK d, m : d = x \div n /\ m = x % n
  OBVIOUS
<1>2. x = d * n + m /\ m \in 0 .. n - 1 /\ d \in Nat
  BY <1>1, DivMod
<1>3. ASSUME NEW a \in Nat, NEW b \in Nat, a < b PROVE a * n + n <= b * n
  <2>1. PICK c \in Nat : b = a + 1 + c
    <3>1. b = a + 1 + (b - a - 1) /\ b - a - 1 \in Nat
      BY <1>3
    <3> QED
      BY <3>1
  <2>2. b * n = a * n + n + c * n /\ c * n \in Nat
    BY <2>1
  <2> QED
    BY <2>2
<1>4. ~ (d < q) /\ ~ (q < d)
  BY <1>2, <1>3
<1>5. d = q /\ m = r
  BY <1>2, <1>4
<1> QED
  BY <1>1, <1>5

(* What leaves no remainder is a multiple.                                 *)
LEMMA Multiple ==
  ASSUME NEW x \in Nat, NEW n \in Nat \ {0}
  PROVE  x % n = 0 <=> \E m \in Nat : x = m * n
<1>1. ASSUME x % n = 0 PROVE \E m \in Nat : x = m * n
  <2>1. x = (x \div n) * n + (x % n) /\ x \div n \in Nat
    BY DivMod
  <2>2. PICK m : m = x \div n
    OBVIOUS
  <2>3. x = m * n /\ m \in Nat
    BY <1>1, <2>1, <2>2
  <2> QED
    BY <2>3
<1>2. ASSUME NEW m \in Nat, x = m * n PROVE x % n = 0
  BY <1>2, DivUnique
<1> QED
  BY <1>1, <1>2

(* The first multiple behind a multiple.                                   *)
LEMMA NextMultiple ==
  ASSUME NEW n \in Nat \ {0}, NEW x \in Nat, NEW y \in Nat, x % n = 0, y % n = 0, x < y
  PROVE  x + n <= y
<1>1. PICK a \in Nat : x = a * n
  BY Multiple
<1>2. PICK b \in Nat : y = b * n
  BY Multiple
<1>3. a < b
  <2> SUFFICES ASSUME b <= a PROVE FALSE
    BY <1>1, <1>2
  <2>1. PICK c \in Nat : a = b + c
    <3>1. a = b + (a - b) /\ a - b \in Nat
      OBVIOUS
    <3> QED
      BY <3>1
  <2>2. a * n = b * n + c * n /\ c * n \in Nat
    BY <2>1
  <2> QED
    BY <2>2, <1>1, <1>2
<1>4. PICK c \in Nat : b = a + 1 + c
  <2>1. b = a + 1 + (b - a - 1) /\ b - a - 1 \in Nat
    BY <1>3
  <2> QED
    BY <2>1
<1>5. b * n = a * n + n + c * n /\ c * n \in Nat
  BY <1>4
<1> QED
  BY <1>5, <1>1, <1>2

(* Sums and differences of multiples.                                      *)
LEMMA SumMultiple ==
  ASSUME NEW n \in Nat \ {0}, NEW x \in Nat, NEW y \in Nat, x % n = 0, y % n = 0
  PROVE  (x + y) % n = 0 /\ (y <= x => (x - y) % n = 0)
<1>1. PICK a \in Nat : x = a * n
  BY Multiple
<1>2. PICK b \in Nat : y = b * n
  BY Multiple
<1>3. x + y = (a + b) * n /\ a + b \in Nat /\ x + y \in Nat
  BY <1>1, <1>2
<1>4. ASSUME y <= x PROVE (x - y) % n = 0
  <2>1. CASE b <= a
    <3>1. x - y = (a - b) * n /\ a - b \in Nat /\ x - y \in Nat
      BY <1>1, <1>2, <1>4, <2>1
    <3>2. PICK z, c : z = x - y /\ c = a - b
      OBVIOUS
    <3>3. z % n = 0
      BY <3>1, <3>2, Multiple
    <3> QED
      BY <3>2, <3>3
  <2>2. CASE a < b
    <3>1. x = y
      <4>1. PICK c \in Nat : b = a + 1 + c
        <5>1. b = a + 1 + (b - a - 1) /\ b - a - 1 \in Nat
          BY <2>2
        <5> QED
          BY <5>1
      <4>2. b * n = a * n + n + c * n /\ c * n \in Nat
        BY <4>1
      <4> QED
        BY <4>2, <1>1, <1>2, <1>4
    <3>2. x - y = 0 /\ 0 = 0 * n
      BY <3>1
    <3>3. 0 % n = 0
      BY Multiple
    <3> QED
      BY <3>2, <3>3
  <2> QED
    BY <2>1, <2>2
<1>5. (x + y) % n = 0
  <2>1. PICK z, c : z = x + y /\ c = a + b
    OBVIOUS
  <2>2. z % n = 0
    BY <1>3, <2>1, Multiple
  <2> QED
    BY <2>1, <2>2
<1> QED
  BY <1>4, <1>5

(* Powers of two, by their recursion.                                      *)
LEMMA PowerFacts ==
  /\ Pow2 \in [Nat -> Nat \ {0}]
  /\ Pow2[0] = 1
  /\ \A k \in Nat : Pow2[k + 1] = 2 * Pow2[k]
<1> DEFINE V == Nat \ {0}
           step == [v \in V |-> 2 * v]
           body(g) == [k \in Nat |-> IF k = 0 THEN 1 ELSE 2 * g[k - 1]]
<1>0. step \in [V -> V] /\ 1 \in V
  OBVIOUS
<1>1. PICK f \in [Nat -> V] : f[0] = 1 /\ \A n \in Nat : f[n + 1] = step[f[n]]
  <2>1. PICK f : Unending(f, V, step, 1)
    <3> HIDE DEF step, V
    <3> QED
      BY <1>0, SequenceExists
  <2> QED
    BY <2>1 DEF Unending
<1>2. f = body(f)
  <2>1. ASSUME NEW k \in Nat PROVE f[k] = IF k = 0 THEN 1 ELSE 2 * f[k - 1]
    <3>1. CASE k = 0
      BY <1>1, <3>1
    <3>2. CASE k # 0
      <4>1. k - 1 \in Nat /\ (k - 1) + 1 = k
        BY <3>2
      <4>2. f[k] = step[f[k - 1]] /\ f[k - 1] \in V
        BY <1>1, <4>1
      <4> QED
        BY <3>2, <4>2
    <3> QED
      BY <3>1, <3>2
  <2>2. f = [k \in Nat |-> f[k]]
    BY <1>1
  <2> QED
    BY <2>1, <2>2
<1>3. Pow2 = CHOOSE g : g = body(g)
  BY DEF Pow2
<1>4. Pow2 = body(Pow2)
  <2> HIDE DEF body
  <2> QED
    BY <1>2, <1>3, Zenon
<1>5. \A k \in Nat : Pow2[k] = IF k = 0 THEN 1 ELSE 2 * Pow2[k - 1]
  BY <1>4
<1>6. Pow2[0] = 1
  BY <1>5
<1>7. ASSUME NEW k \in Nat PROVE Pow2[k + 1] = 2 * Pow2[k]
  <2>1. k + 1 \in Nat /\ k + 1 # 0 /\ (k + 1) - 1 = k
    OBVIOUS
  <2> QED
    BY <1>5, <2>1
<1>8. \A k \in Nat : Pow2[k] \in Nat \ {0}
  <2> DEFINE S == {k \in Nat : Pow2[k] \in Nat \ {0}}
  <2>1. 0 \in S
    BY <1>6
  <2>2. ASSUME NEW k \in S PROVE k + 1 \in S
    BY <1>7
  <2>3. S \subseteq Nat
    OBVIOUS
  <2>4. Nat \subseteq S
    <3> HIDE DEF S
    <3> QED
      BY <2>1, <2>2, <2>3, SetInduction
  <2> QED
    BY <2>4
<1>9. Pow2 \in [Nat -> Nat \ {0}]
  <2>1. Pow2 = [k \in Nat |-> Pow2[k]]
    BY <1>4
  <2> QED
    BY <2>1, <1>8
<1> QED
  BY <1>6, <1>7, <1>9

(* They grow, and the larger ones are multiples of the smaller ones.       *)
LEMMA PowerOrder ==
  ASSUME NEW k \in Nat, NEW j \in Nat, k <= j
  PROVE  /\ Pow2[k] <= Pow2[j] /\ (k < j => 2 * Pow2[k] <= Pow2[j])
         /\ j < Pow2[j]
         /\ Pow2[j] % Pow2[k] = 0
<1> DEFINE S == {d \in Nat : /\ \E m \in Nat \ {0} : Pow2[k + d] = m * Pow2[k]
                             /\ d > 0 => 2 * Pow2[k] <= Pow2[k + d]
                             /\ k + d < Pow2[k + d]}
           T == {i \in Nat : i < Pow2[i]}
<1>1. k \in T
  <2>1. 0 \in T
    BY PowerFacts
  <2>2. ASSUME NEW i \in T PROVE i + 1 \in T
    BY PowerFacts
  <2>3. T \subseteq Nat
    OBVIOUS
  <2> HIDE DEF T
  <2> QED
    BY <2>1, <2>2, <2>3, SetInduction
<1>2. 0 \in S
  <2>1. Pow2[k] = 1 * Pow2[k] /\ k + 0 = k
    BY PowerFacts
  <2> QED
    BY <1>1, <2>1
<1>3. ASSUME NEW d \in S PROVE d + 1 \in S
  <2>1. PICK m \in Nat \ {0} : Pow2[k + d] = m * Pow2[k]
    OBVIOUS
  <2>2. Pow2[(k + d) + 1] = 2 * Pow2[k + d] /\ k + (d + 1) = (k + d) + 1
    BY PowerFacts
  <2>3. PICK a, b : a = Pow2[k] /\ b = Pow2[k + d]
    OBVIOUS
  <2>4. a \in Nat \ {0} /\ b \in Nat \ {0} /\ b = m * a
    BY <2>1, <2>3, PowerFacts
  <2>5. 2 * b = (2 * m) * a /\ 2 * m \in Nat \ {0} /\ a <= b
    <3>1. PICK c \in Nat : m = c + 1
      <4>1. m = (m - 1) + 1 /\ m - 1 \in Nat
        OBVIOUS
      <4> QED
        BY <4>1
    <3>2. b = c * a + a /\ c * a \in Nat
      BY <2>4, <3>1
    <3> QED
      BY <2>4, <3>2
  <2>6. 2 * a <= 2 * b
    BY <2>4, <2>5
  <2>7. k + (d + 1) < 2 * b
    <3>1. k + d < b /\ k + d \in Nat
      BY <2>3
    <3> QED
      BY <2>4, <3>1
  <2> QED
    BY <2>2, <2>3, <2>5, <2>6, <2>7
<1>4. Nat \subseteq S
  <2>1. S \subseteq Nat
    OBVIOUS
  <2> HIDE DEF S
  <2> QED
    BY <1>2, <1>3, <2>1, SetInduction
<1>5. j - k \in S /\ k + (j - k) = j
  BY <1>4
<1>6. PICK m \in Nat \ {0} : Pow2[j] = m * Pow2[k]
  BY <1>5
<1>7. /\ j - k > 0 => 2 * Pow2[k] <= Pow2[j]
      /\ j < Pow2[j]
  BY <1>5
<1>8. PICK a, b : a = Pow2[k] /\ b = Pow2[j]
  OBVIOUS
<1>9. a \in Nat \ {0} /\ b \in Nat \ {0} /\ b = m * a
  BY <1>6, <1>8, PowerFacts
<1>10. b % a = 0
  BY <1>9, Multiple
<1>11. a <= b
  BY <1>7, <1>8, <1>9
<1> QED
  BY <1>7, <1>8, <1>10, <1>11

(* The highest bit of a number.                                            *)
LEMMA HighestBit ==
  ASSUME NEW w \in Nat, NEW j \in Nat, NEW x \in Nat, Pow2[w] <= x, x < Pow2[j]
  PROVE  \E k \in w .. j - 1 : Pow2[k] <= x /\ x < Pow2[k + 1]
<1> DEFINE T == {k \in Nat : x < Pow2[k + 1]}
<1>1. j > w
  BY PowerOrder, PowerFacts
<1>2. j - 1 \in T
  <2>1. j - 1 \in Nat /\ (j - 1) + 1 = j
    BY <1>1
  <2> QED
    BY <2>1
<1>3. PICK k \in T : \A m \in T : k <= m
  <2>1. T \subseteq Nat
    OBVIOUS
  <2> HIDE DEF T
  <2> QED
    BY <1>2, <2>1, LeastNatural
<1>4. k \in Nat /\ k <= j - 1 /\ x < Pow2[k + 1]
  BY <1>2, <1>3
<1>5. k >= w
  <2> SUFFICES ASSUME k + 1 <= w PROVE FALSE
    BY <1>4
  <2>1. Pow2[k + 1] <= Pow2[w]
    BY <1>4, PowerOrder
  <2> QED
    BY <1>4, <2>1, PowerFacts
<1>6. Pow2[k] <= x
  <2>1. CASE k = w
    BY <2>1
  <2>2. CASE k > w
    <3>1. k - 1 \in Nat /\ (k - 1) + 1 = k /\ ~ (k <= k - 1)
      BY <1>4, <2>2
    <3>2. k - 1 \notin T
      BY <1>3, <3>1
    <3> QED
      BY <1>4, <3>1, <3>2, PowerFacts
  <2> QED
    BY <1>4, <1>5, <2>1, <2>2
<1> QED
  BY <1>4, <1>5, <1>6

(* Two powers are equal only when their exponents are.                     *)
LEMMA PowersDiffer ==
  ASSUME NEW k \in Nat, NEW l \in Nat, Pow2[k] = Pow2[l]
  PROVE  k = l
<1>1. ~ (k < l)
  BY PowerOrder, PowerFacts
<1>2. ~ (l < k)
  BY PowerOrder, PowerFacts
<1> QED
  BY <1>1, <1>2
================================================================================
