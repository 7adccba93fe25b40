----------------------------- MODULE Spaces_proofs -----------------------------
(***************************************************************************)
(* For every size of pages, frames and groups of classes, number of        *)
(* clients and spaces, and sequence of calls: what is written in a chunk   *)
(* stays there, sizes are found back from addresses, every chunk of a      *)
(* class is in use or in its free list, no page is lost or used twice, and *)
(* the range map leads from every address to its space.                    *)
(*                                                                         *)
(* The invariant is Sound.  Its core is Good, which says of the allocator  *)
(* that fragments and frames have no pages in common, that the data of     *)
(* their pages tell what they are, that the pages of each class are linked *)
(* in a list, and that its free list has just the chunks that are not in   *)
(* use.  On it rest: no chunk has two owners, clients find what they wrote *)
(* (HeldIn), arrays fit in their chunks (TablesIn), and the range map      *)
(* leads to the space of every frame and to no other (Mapped).             *)
(*                                                                         *)
(* Each operation of the allocator keeps Good and the words of all chunks  *)
(* but those it is called for (Keeps), so that what others rely on can be  *)
(* carried over from one call to the next within a step.  That free        *)
(* chunks and chunks in use are apart comes from where they lie: a page    *)
(* is cut in chunks of one size, and no two fragments share a page.        *)
(***************************************************************************)
EXTENDS Spaces, TLAPS, Induction, SequenceTheorems

-----------------------------------------------------------------------------
(* Sizes of classes, and the chunks of a page.                             *)

Classes == 0..NrClasses - 1

\* The classes come in groups of one power of two
LogOf(c)   == c \div GroupSize
Rounded(c) == ((c % GroupSize) + 1) * Pow2[LogOf(c)] + (Pow2[LogOf(c)] - 1) * GroupSize

(* What the constants are.                                                 *)
LEMMA Constants ==
  /\ PageWords \in Nat \ {0} /\ GroupSize \in Nat \ {0} /\ NrGroups \in Nat \ {0}
  /\ NrClasses \in Nat /\ MaxRounded \in Nat /\ MaxRounded < PageWords
  /\ NrPages \in Nat /\ NrPages > 1 /\ MaxFrags \in Nat
<1>1. GroupSize \in Nat \ {0} /\ Pow2[NrGroups] \in Nat \ {0}
  BY LofAssumption, PowerFacts DEF GroupSize
<1>2. NrGroups \in Nat \ {0} /\ PageWords \in Nat
  BY LofAssumption
<1>3. NrClasses \in Nat
  BY <1>1, <1>2 DEF NrClasses
<1>4. MaxRounded \in Nat
  <2>1. Pow2[NrGroups] - 1 \in Nat
    BY <1>1
  <2> QED
    BY <1>1, <2>1 DEF MaxRounded
<1>5. MaxRounded < PageWords
  BY LofAssumption DEF MaxRounded, GroupSize
<1> QED
  BY <1>1, <1>2, <1>3, <1>4, <1>5, LofAssumption

(* Multiplication keeps the order.                                         *)
LEMMA MulOrder ==
  ASSUME NEW a \in Nat, NEW b \in Nat, NEW c \in Nat, a <= b
  PROVE  a * c <= b * c /\ a * c \in Nat /\ b * c \in Nat /\ (a < b => a * c + c <= b * c)
<1>1. PICK d \in Nat : b = a + d
  <2>1. b = a + (b - a) /\ b - a \in Nat
    OBVIOUS
  <2> QED
    BY <2>1
<1>2. b * c = a * c + d * c /\ d * c \in Nat /\ a * c \in Nat
  BY <1>1
<1>3. ASSUME a < b PROVE a * c + c <= b * c
  <2>1. PICK e \in Nat : d = e + 1
    <3>1. d = (d - 1) + 1 /\ d - 1 \in Nat
      BY <1>1, <1>3
    <3> QED
      BY <3>1
  <2>2. d * c = e * c + c /\ e * c \in Nat
    BY <2>1
  <2> QED
    BY <1>2, <2>2
<1> QED
  BY <1>2, <1>3

(* A quotient is less than what the number is less than a multiple of.     *)
LEMMA DivLess ==
  ASSUME NEW x \in Nat, NEW n \in Nat \ {0}, NEW b \in Nat
  PROVE  x \div n < b <=> x < b * n
<1>1. PICK d, r : d = x \div n /\ r = x % n
  OBVIOUS
<1>2. x = d * n + r /\ r \in 0..n - 1 /\ d \in Nat
  BY <1>1, DivMod
<1>3. ASSUME d < b PROVE x < b * n
  BY <1>2, <1>3, MulOrder
<1>4. ASSUME b <= d PROVE b * n <= x
  BY <1>2, <1>4, MulOrder
<1>5. b * n \in Nat
  OBVIOUS
<1> QED
  BY <1>1, <1>2, <1>3, <1>4, <1>5

(* Max is what its name says.                                              *)
LEMMA MaxFacts ==
  ASSUME NEW S, S \subseteq Nat, S # {}, NEW n \in Nat, \A x \in S : x <= n
  PROVE  Max(S) \in S /\ \A x \in S : x <= Max(S)
<1> DEFINE T == {n - x : x \in S}
<1>0. \A x \in S : x \in Nat /\ x <= n /\ n - x \in Nat
  OBVIOUS
<1>1. T \subseteq Nat /\ T # {}
  BY <1>0
<1>2. PICK t \in T : \A y \in T : t <= y
  BY <1>1, LeastNatural
<1>3. PICK m \in S : t = n - m
  OBVIOUS
<1>4. \A x \in S : x <= m
  <2> SUFFICES ASSUME NEW x \in S PROVE x <= m
    OBVIOUS
  <2>1. n - x \in T
    OBVIOUS
  <2>3. x \in Nat /\ m \in Nat
    OBVIOUS
  <2>2. n - m <= n - x
    BY <1>2, <1>3, <2>1
  <2> HIDE DEF T
  <2> QED
    BY <2>2, <2>3
<1>5. \E y \in S : \A x \in S : y >= x
  BY <1>4
<1>6. Max(S) \in S /\ \A x \in S : Max(S) >= x
  BY <1>5 DEF Max
<1> QED
  BY <1>6

(* Min is what its name says.                                              *)
LEMMA MinFacts ==
  ASSUME NEW S, S \subseteq Nat, S # {}
  PROVE  Min(S) \in S /\ \A x \in S : Min(S) <= x
<1>1. \E x \in S : \A y \in S : x <= y
  BY LeastNatural
<1> QED
  BY <1>1 DEF Min

(* What a class is like: it holds chunks of a size that fits in a page.    *)
LEMMA ClassFacts ==
  ASSUME NEW c \in Classes
  PROVE  /\ LogOf(c) \in Nat /\ LogOf(c) < NrGroups
         /\ Rounded(c) \in Nat \ {0} /\ Rounded(c) < PageWords
         /\ Pow2[LogOf(c)] \in Nat \ {0}
         /\ Pow2[LogOf(c)] * PageWords \in Nat /\ PageWords <= Pow2[LogOf(c)] * PageWords
<1>1. PICK g, k, j : g = GroupSize /\ k = LogOf(c) /\ j = c % GroupSize
  OBVIOUS
<1>2. c \in Nat /\ c < NrGroups * g
  BY <1>1, Constants DEF Classes, NrClasses
<1>3. g \in Nat \ {0} /\ j \in 0..g - 1 /\ k \in Nat /\ c = k * g + j
  BY <1>1, <1>2, Constants, DivMod DEF LogOf
<1>4. k < NrGroups
  BY <1>1, <1>2, <1>3, DivLess, Constants DEF LogOf
<1>5. PICK p, q : p = Pow2[k] /\ q = Pow2[NrGroups]
  OBVIOUS
<1>6. p \in Nat \ {0} /\ q \in Nat \ {0} /\ 2 * p <= q
  BY <1>3, <1>4, <1>5, PowerFacts, PowerOrder, Constants
<1>7. Rounded(c) = (j + 1) * p + (p - 1) * g
  BY <1>1, <1>5 DEF Rounded
<1>8. (j + 1) * p <= g * p /\ (j + 1) * p \in Nat /\ (p - 1) * g \in Nat /\ g * p \in Nat
  BY <1>3, <1>6, MulOrder
<1>9. (j + 1) * p >= p
  BY <1>3, <1>6, MulOrder
<1>10. g * p + (p - 1) * g = (2 * p - 1) * g
  BY <1>3, <1>6
<1>11. (2 * p - 1) * g <= (q - 1) * g
  BY <1>3, <1>6, MulOrder
<1>12. (q - 1) * g = MaxRounded
  BY <1>1, <1>5 DEF MaxRounded
<1>13. Rounded(c) \in Nat \ {0} /\ Rounded(c) <= MaxRounded
  <2>1. PICK a, b, d, e : a = (j + 1) * p /\ b = (p - 1) * g /\ d = g * p /\ e = (2 * p - 1) * g
    OBVIOUS
  <2>2. /\ a \in Nat /\ b \in Nat /\ d \in Nat /\ a <= d /\ p <= a /\ e = d + b
        /\ Rounded(c) = a + b /\ e <= MaxRounded
    BY <1>7, <1>8, <1>9, <1>10, <1>11, <1>12, <2>1
  <2> QED
    BY <1>6, <2>2, Constants
<1>14. p * PageWords \in Nat /\ PageWords <= p * PageWords
  BY <1>6, Constants, MulOrder
<1>15. Rounded(c) < PageWords
  BY <1>13, Constants
<1> QED
  BY <1>1, <1>3, <1>4, <1>5, <1>6, <1>13, <1>14, <1>15

(* The highest bit of a number of NrGroups bits.                           *)
LEMMA MsBitFacts ==
  ASSUME NEW x \in Nat \ {0}, x < Pow2[NrGroups]
  PROVE  /\ MsBit(x) \in Nat /\ MsBit(x) < NrGroups
         /\ Pow2[MsBit(x)] <= x /\ x < 2 * Pow2[MsBit(x)]
<1> DEFINE T == {b \in 0..NrGroups - 1 : (x \div Pow2[b]) % 2 = 1}
<1>0. PICK n : n = NrGroups
  OBVIOUS
<1>1. PICK k \in 0..NrGroups - 1 : Pow2[k] <= x /\ x < Pow2[k + 1]
  <2>1. n \in Nat /\ Pow2[0] <= x /\ x < Pow2[n] /\ x \in Nat /\ 0 \in Nat
    BY <1>0, Constants, PowerFacts
  <2>2. \E k \in 0..n - 1 : Pow2[k] <= x /\ x < Pow2[k + 1]
    BY <2>1, HighestBit
  <2> QED
    BY <1>0, <2>2
<1>2. k \in Nat /\ Pow2[k] \in Nat \ {0} /\ Pow2[k + 1] = 2 * Pow2[k] /\ NrGroups \in Nat
  BY <1>1, PowerFacts, Constants
<1>3. k \in T
  <2>1. PICK p : p = Pow2[k]
    OBVIOUS
  <2>2. x = 1 * p + (x - p) /\ x - p \in 0..p - 1 /\ p \in Nat \ {0}
    BY <1>1, <1>2, <2>1
  <2>3. x \div p = 1
    BY <2>2, DivUnique
  <2> QED
    BY <1>1, <2>1, <2>3
<1>4. ASSUME NEW b \in T PROVE b <= k
  <2> SUFFICES ASSUME k < b PROVE FALSE
    BY <1>2
  <2>1. b \in Nat /\ k + 1 <= b
    BY <1>2
  <2>2. Pow2[k + 1] <= Pow2[b] /\ Pow2[b] \in Nat \ {0}
    BY <1>2, <2>1, PowerOrder, PowerFacts
  <2>3. PICK p : p = Pow2[b]
    OBVIOUS
  <2>4. x = 0 * p + x /\ x \in 0..p - 1 /\ p \in Nat \ {0}
    BY <1>1, <1>2, <2>2, <2>3
  <2>5. x \div p = 0
    BY <2>4, DivUnique
  <2> QED
    BY <2>3, <2>5
<1>5. Max(T) = k
  <2>1. Max(T) \in T /\ \A b \in T : b <= Max(T)
    <3>1. T \subseteq Nat /\ T # {} /\ \A b \in T : b <= k
      BY <1>2, <1>3, <1>4
    <3> QED
      BY <1>2, <3>1, MaxFacts
  <2>2. Max(T) <= k /\ k <= Max(T)
    BY <1>3, <1>4, <2>1
  <2>3. Max(T) \in Nat
    <3>1. T \subseteq Nat
      OBVIOUS
    <3> HIDE DEF T
    <3> QED
      BY <2>1, <3>1
  <2> QED
    BY <1>2, <2>2, <2>3
<1> QED
  BY <1>1, <1>2, <1>5 DEF MsBit

(* The class of a size, and that it is of that size at least.              *)
LEMMA SizeClassFacts ==
  ASSUME NEW w \in Nat \ {0}, w <= MaxRounded
  PROVE  /\ SizeClass(w).inx \in Classes
         /\ SizeClass(w).log = LogOf(SizeClass(w).inx)
         /\ SizeClass(w).rounded = Rounded(SizeClass(w).inx)
         /\ w <= SizeClass(w).rounded
<1>1. PICK g, q, n, d, r : g = GroupSize /\ q = Pow2[NrGroups] /\ n = NrGroups /\ d = (w - 1) \div g /\ r = (w - 1) % g
  OBVIOUS
<1>2. g \in Nat \ {0} /\ q \in Nat \ {0} /\ n \in Nat \ {0} /\ w - 1 \in Nat
  BY <1>1, Constants, PowerFacts
<1>3. w - 1 = d * g + r /\ r \in 0..g - 1 /\ d \in Nat
  BY <1>1, <1>2, DivMod
<1>4. d < q - 1
  <2>1. w - 1 < (q - 1) * g
    <3>1. PICK v : v = (q - 1) * g
      OBVIOUS
    <3>2. v = MaxRounded /\ v \in Nat
      BY <1>1, <3>1, Constants DEF MaxRounded
    <3> QED
      BY <3>1, <3>2
  <2>2. q - 1 \in Nat
    BY <1>2
  <2> QED
    BY <1>1, <1>2, <2>1, <2>2, DivLess
<1>5. PICK k : k = MsBit(d + 1)
  OBVIOUS
<1>6. k \in Nat /\ k < n /\ Pow2[k] <= d + 1 /\ d + 1 < 2 * Pow2[k]
  BY <1>1, <1>2, <1>3, <1>4, <1>5, MsBitFacts
<1>7. PICK p : p = Pow2[k]
  OBVIOUS
<1>8. p \in Nat \ {0} /\ p <= d + 1 /\ d + 1 < 2 * p
  BY <1>6, <1>7, PowerFacts
<1>9. PICK off, y : off = (p - 1) * g /\ y = w - 1 - off
  OBVIOUS
<1>10. off \in Nat /\ y = (d + 1 - p) * g + r /\ y \in Nat /\ y < g * p
  <2>1. off \in Nat
    BY <1>2, <1>8, <1>9
  <2>2. d * g = (p - 1) * g + (d + 1 - p) * g
    BY <1>2, <1>3, <1>8
  <2>6. PICK a, b : a = d * g /\ b = (d + 1 - p) * g
    OBVIOUS
  <2>7. a \in Nat /\ b \in Nat /\ a = off + b /\ w - 1 = a + r /\ y = w - 1 - off
    BY <1>2, <1>3, <1>8, <1>9, <2>2, <2>6
  <2>3. y = (d + 1 - p) * g + r
    BY <1>3, <2>1, <2>6, <2>7
  <2>4. (d + 1 - p) * g <= (p - 1) * g /\ (d + 1 - p) * g \in Nat
    BY <1>2, <1>3, <1>8, MulOrder
  <2>5. (p - 1) * g + g = g * p
    BY <1>2, <1>8
  <2>8. PICK e, f : e = (p - 1) * g /\ f = g * p
    OBVIOUS
  <2>9. e \in Nat /\ f = e + g /\ b <= e /\ y = b + r
    BY <1>9, <2>1, <2>3, <2>4, <2>5, <2>6, <2>8
  <2>10. y \in Nat /\ y < f
    BY <1>2, <1>3, <2>7, <2>9
  <2> QED
    BY <2>1, <2>3, <2>8, <2>10
<1>11. PICK j, s : j = y \div p /\ s = y % p
  OBVIOUS
<1>12. y = j * p + s /\ s \in 0..p - 1 /\ j \in Nat /\ j < g
  BY <1>2, <1>8, <1>10, <1>11, DivMod, DivLess
<1>13. PICK inx : inx = k * g + j
  OBVIOUS
<1>14. inx \div g = k /\ inx % g = j /\ inx \in Nat
  <2>1. k * g \in Nat
    BY <1>2, <1>6
  <2>2. inx \in Nat /\ j \in 0..g - 1
    BY <1>2, <1>12, <1>13, <2>1
  <2> QED
    BY <1>2, <1>6, <1>13, <2>2, DivUnique
<1>15. inx \in Classes
  <2>1. inx < n * g
    BY <1>2, <1>6, <1>14, DivLess
  <2>2. n * g \in Nat
    BY <1>2
  <2> QED
    BY <1>1, <1>14, <2>1, <2>2 DEF Classes, NrClasses
<1>16. LogOf(inx) = k /\ Rounded(inx) = (j + 1) * p + off
  BY <1>1, <1>7, <1>9, <1>14 DEF LogOf, Rounded
<1>17. RoundUp(w - off, p) = (j + 1) * p
  <2>1. w - off + p - 1 = (j + 1) * p + s /\ w - off + p - 1 \in Nat
    BY <1>8, <1>9, <1>10, <1>12
  <2>2. PICK z : z = w - off + p - 1
    OBVIOUS
  <2>3. z \div p = j + 1
    BY <1>8, <1>12, <2>1, <2>2, DivUnique
  <2> QED
    BY <2>2, <2>3 DEF RoundUp
<1>18. SizeClass(w) = [log |-> k, inx |-> inx, rounded |-> (j + 1) * p + off]
  <2>1. w - 1 - off = y
    BY <1>9
  <2> QED
    BY <1>1, <1>5, <1>7, <1>9, <1>11, <1>13, <1>17, <2>1 DEF SizeClass
<1>19. w <= (j + 1) * p + off
  <2>1. w = j * p + s + 1 + off
    BY <1>9, <1>10, <1>12
  <2>2. (j + 1) * p = j * p + p /\ j * p \in Nat
    BY <1>8, <1>12
  <2> QED
    BY <1>8, <1>10, <1>12, <2>1, <2>2
<1> QED
  BY <1>15, <1>16, <1>18, <1>19

(* The chunks of a block of pages of a class, one behind the other.        *)
LEMMA ChunksShape ==
  ASSUME NEW page \in Nat, NEW c \in Classes
  PROVE  \E last \in Nat :
           /\ ChunksOf(page, LogOf(c), Rounded(c)) = {page * PageWords + 1 + k * Rounded(c) : k \in 0..last}
           /\ 1 + (last + 1) * Rounded(c) <= Pow2[LogOf(c)] * PageWords
<1>1. PICK r, s : r = Rounded(c) /\ s = Pow2[LogOf(c)] * PageWords
  OBVIOUS
<1>2. r \in Nat \ {0} /\ s \in Nat /\ r < s
  BY <1>1, ClassFacts, Constants
<1>3. PICK d : d = (s - 1) \div r
  OBVIOUS
<1>4. d \in Nat /\ d * r <= s - 1 /\ d >= 1
  <2>1. s - 1 \in Nat
    BY <1>2
  <2>2. d \in Nat
    BY <1>2, <1>3, <2>1, DivMod
  <2>3. ~ (d < d) /\ ~ (s - 1 < d * r)
    BY <1>2, <1>3, <2>1, <2>2, DivLess
  <2>4. ~ (d < 1)
    <3>1. ~ (s - 1 < 1 * r) /\ 1 \in Nat
      BY <1>2
    <3> QED
      BY <1>2, <1>3, <2>1, <3>1, DivLess
  <2>5. d * r \in Nat
    BY <1>2, <2>2
  <2> QED
    BY <2>1, <2>2, <2>3, <2>4, <2>5
<1>5. d - 1 \in Nat /\ (d - 1) + 1 = d
  BY <1>4
<1>6. ChunksOf(page, LogOf(c), Rounded(c)) = {page * PageWords + 1 + k * Rounded(c) : k \in 0..d - 1}
  BY <1>1, <1>3 DEF ChunksOf
<1>7. 1 + d * r <= s
  <2>1. PICK v : v = d * r
    OBVIOUS
  <2>2. v \in Nat /\ v <= s - 1
    BY <1>2, <1>4, <2>1
  <2> QED
    BY <1>2, <2>1, <2>2
<1> QED
  BY <1>1, <1>5, <1>6, <1>7

(* They lie in the pages, behind the first word, and do not overlap.       *)
LEMMA ChunksFacts ==
  ASSUME NEW page \in Nat, NEW c \in Classes, NEW C, C = ChunksOf(page, LogOf(c), Rounded(c))
  PROVE  /\ page * PageWords + 1 \in C
         /\ \A a \in C : /\ a \in Nat /\ page * PageWords < a
                         /\ a + Rounded(c) <= page * PageWords + Pow2[LogOf(c)] * PageWords
         /\ \A a, b \in C : a < b => a + Rounded(c) <= b
<1>1. PICK r, s, t : r = Rounded(c) /\ s = Pow2[LogOf(c)] * PageWords /\ t = page * PageWords
  OBVIOUS
<1>2. PICK n \in Nat : C = {t + 1 + k * r : k \in 0..n} /\ 1 + (n + 1) * r <= s
  BY <1>1, ChunksShape
<1>3. r \in Nat \ {0} /\ s \in Nat /\ t \in Nat
  BY <1>1, ClassFacts, Constants
<1>4. t + 1 \in C
  <2>1. 0 \in 0..n /\ t + 1 + 0 * r = t + 1
    BY <1>3
  <2> QED
    BY <1>2, <2>1
<1>5. ASSUME NEW a \in C PROVE a \in Nat /\ t < a /\ a + r <= t + s
  <2>1. PICK k \in 0..n : a = t + 1 + k * r
    BY <1>2
  <2>2. PICK v, u : v = k * r /\ u = (n + 1) * r
    OBVIOUS
  <2>3. v \in Nat /\ u \in Nat /\ v + r <= u /\ 1 + u <= s
    BY <1>2, <1>3, <2>2, MulOrder
  <2> QED
    BY <1>3, <2>1, <2>2, <2>3
<1>6. ASSUME NEW a \in C, NEW b \in C, a < b PROVE a + r <= b
  <2>1. PICK k \in 0..n : a = t + 1 + k * r
    BY <1>2
  <2>2. PICK j \in 0..n : b = t + 1 + j * r
    BY <1>2
  <2>3. PICK v, u : v = k * r /\ u = j * r
    OBVIOUS
  <2>4. v \in Nat /\ u \in Nat /\ k \in Nat /\ j \in Nat
    BY <1>3, <2>3
  <2>5. ~ (j <= k)
    BY <1>3, <1>6, <2>1, <2>2, <2>3, <2>4, MulOrder
  <2>6. v + r <= u
    BY <1>3, <2>3, <2>4, <2>5, MulOrder
  <2> QED
    BY <1>3, <2>1, <2>2, <2>3, <2>4, <2>6
<1> QED
  BY <1>1, <1>4, <1>5, <1>6

(* The page of an address.                                                 *)
LEMMA PageOf ==
  ASSUME NEW a \in Nat
  PROVE  /\ PageOfAddr(a) \in Nat
         /\ \A p \in Nat : p <= PageOfAddr(a) <=> p * PageWords <= a
<1>1. PageOfAddr(a) \in Nat
  BY Constants, DivMod DEF PageOfAddr
<1>2. ASSUME NEW p \in Nat PROVE p <= PageOfAddr(a) <=> p * PageWords <= a
  <2>1. PageOfAddr(a) < p <=> a < p * PageWords
    BY Constants, DivLess DEF PageOfAddr
  <2>2. p * PageWords \in Nat
    BY Constants
  <2> QED
    BY <1>1, <2>1, <2>2
<1> QED
  BY <1>1, <1>2

(* The number of pages that some words take.                               *)
LEMMA PagesFacts ==
  ASSUME NEW w \in Nat \ {0}
  PROVE  /\ PagesOf(w) \in Nat \ {0} /\ w <= PagesOf(w) * PageWords
         /\ \A d \in Nat : d * PageWords < w <=> d < PagesOf(w)
<1>1. PICK u : u = PageWords
  OBVIOUS
<1>2. u \in Nat \ {0}
  BY <1>1, Constants
<1>3. PICK q, z : z = w + u - 1 /\ q = z \div u
  OBVIOUS
<1>4. z \in Nat /\ q \in Nat
  BY <1>2, <1>3, DivMod
<1>5. PagesOf(w) = q
  <2>1. RoundUp(w, u) = q * u
    BY <1>3 DEF RoundUp
  <2>2. q * u = q * u + 0 /\ 0 \in 0..u - 1 /\ q * u \in Nat
    BY <1>2, <1>4
  <2>3. PICK v : v = q * u
    OBVIOUS
  <2>4. v \div u = q
    BY <1>2, <1>4, <2>2, <2>3, DivUnique
  <2> QED
    BY <1>1, <2>1, <2>3, <2>4 DEF PagesOf
<1>6. ASSUME NEW d \in Nat PROVE d * u < w <=> d < q
  <2>1. q < d + 1 <=> z < (d + 1) * u
    BY <1>2, <1>3, <1>4, DivLess
  <2>2. (d + 1) * u = d * u + u /\ d * u \in Nat
    BY <1>2
  <2>3. PICK v : v = d * u
    OBVIOUS
  <2> QED
    BY <1>2, <1>3, <1>4, <2>1, <2>2, <2>3
<1>7. q # 0
  <2>1. 0 * u < w
    BY <1>2
  <2> QED
    BY <1>6, <2>1
<1>8. w <= q * u
  <2>1. q * u \in Nat
    BY <1>2, <1>4
  <2> QED
    BY <1>4, <1>6, <2>1
<1> QED
  BY <1>1, <1>4, <1>5, <1>6, <1>7, <1>8

(* Whole pages.                                                            *)
LEMMA WholePages ==
  ASSUME NEW n \in Nat \ {0}
  PROVE  PagesOf(n * PageWords) = n
<1>1. PICK w : w = n * PageWords
  OBVIOUS
<1>2. w \in Nat \ {0}
  BY <1>1, Constants, MulOrder
<1>3. PagesOf(w) \in Nat /\ \A d \in Nat : d * PageWords < w <=> d < PagesOf(w)
  BY <1>2, PagesFacts
<1>4. ~ (n < PagesOf(w))
  BY <1>1, <1>2, <1>3
<1>5. n - 1 < PagesOf(w)
  <2>1. n - 1 \in Nat /\ (n - 1) * PageWords < w
    BY <1>1, Constants, MulOrder
  <2> QED
    BY <1>3, <2>1
<1> QED
  BY <1>1, <1>3, <1>4, <1>5

(* What is aligned for n pages.                                            *)
LEMMA AlignFacts ==
  ASSUME NEW n \in Nat \ {0}
  PROVE  /\ Align(n) \in Nat \ {0} /\ n <= Align(n)
         /\ \A k \in Nat : n = Pow2[k] => Align(n) = n
<1> DEFINE T == {k \in Nat : n <= Pow2[k]}
<1>1. n \in T
  BY PowerOrder, PowerFacts
<1>2. PICK k \in T : \A j \in T : k <= j
  <2>1. T \subseteq Nat /\ T # {}
    BY <1>1
  <2> QED
    BY <2>1, LeastNatural
<1>3. k \in 0..n /\ k \in Nat /\ n <= Pow2[k] /\ Pow2[k] \in Nat \ {0}
  BY <1>1, <1>2, PowerFacts
<1>4. Pow2[k] < 2 * n
  <2>1. CASE k = 0
    BY <2>1, PowerFacts
  <2>2. CASE k # 0
    <3>1. k - 1 \in Nat /\ (k - 1) + 1 = k /\ ~ (k <= k - 1)
      BY <1>3, <2>2
    <3>2. k - 1 \notin T
      BY <1>2, <3>1
    <3>3. Pow2[k - 1] < n /\ Pow2[k] = 2 * Pow2[k - 1] /\ Pow2[k - 1] \in Nat
      BY <3>1, <3>2, PowerFacts
    <3> QED
      BY <3>3
  <2> QED
    BY <2>1, <2>2
<1>5. \E a \in {Pow2[i] : i \in 0..n} : n <= a /\ a < 2 * n
  BY <1>3, <1>4
<1>6. PICK i \in 0..n : Align(n) = Pow2[i] /\ n <= Align(n) /\ Align(n) < 2 * n
  <2>1. Align(n) \in {Pow2[j] : j \in 0..n} /\ n <= Align(n) /\ Align(n) < 2 * n
    BY <1>5 DEF Align
  <2> QED
    BY <2>1
<1>7. ASSUME NEW j \in Nat, n = Pow2[j] PROVE Align(n) = n
  <2>1. i \in Nat /\ Pow2[i] \in Nat \ {0} /\ Pow2[j] \in Nat \ {0}
    BY PowerFacts
  <2>2. ~ (j < i)
    BY <1>6, <1>7, <2>1, PowerOrder
  <2>3. Pow2[i] <= Pow2[j]
    BY <2>1, <2>2, PowerOrder
  <2> QED
    BY <1>6, <1>7, <2>1, <2>3
<1> QED
  BY <1>6, <1>7, PowerFacts

(* A place is page 0, or n free pages of memory.                           *)
LEMMA PlaceFacts ==
  ASSUME NEW m, NEW n \in Nat \ {0}, NEW high, NEW p, p = Place(m, n, high), p # 0
  PROVE  /\ p \in 1..NrPages - 1 /\ p + n <= NrPages /\ p % Align(n) = 0
         /\ \A b \in m.blocks : b.page + b.pages <= p \/ p + n <= b.page
<1>1. Align(n) \in Nat \ {0} /\ n <= Align(n)
  BY AlignFacts
<1> DEFINE ps == Places(m, n)
<1>2. ps \subseteq 1..NrPages - Align(n)
  BY DEF Places
<1>3. ps # {} /\ (p = Max(ps) \/ p = Min(ps))
  BY DEF Place
<1>4. p \in ps
  <2>1. ps \subseteq Nat /\ \A x \in ps : x <= NrPages
    BY <1>1, <1>2, Constants
  <2> HIDE DEF ps
  <2>2. Max(ps) \in ps
    BY <1>3, <2>1, MaxFacts, Constants
  <2>3. Min(ps) \in ps
    BY <1>3, <2>1, MinFacts
  <2> QED
    BY <1>3, <2>2, <2>3
<1>5. /\ p % Align(n) = 0
      /\ \A b \in m.blocks : b.page + b.pages <= p \/ p + n <= b.page
  BY <1>4 DEF Places
<1>6. p \in 1..NrPages - Align(n)
  BY <1>2, <1>4
<1> HIDE DEF ps
<1>7. p \in 1..NrPages - 1 /\ p + n <= NrPages
  BY <1>1, <1>6, Constants
<1> QED
  BY <1>5, <1>7

-----------------------------------------------------------------------------
(* Linked lists in memory.                                                 *)

\* l goes through the n members of S along the words of memory, from head to Null
Lists(l, n, mem, head, S) ==
  /\ l \in [0..n -> Int] /\ l[0] = head /\ l[n] = Null
  /\ \A i \in 0..n - 1 : l[i] # Null /\ mem[l[i]] = l[i + 1]
  /\ S = {l[i] : i \in 0..n - 1}
  /\ \A i, j \in 0..n - 1 : l[i] = l[j] => i = j
IsList(mem, head, S) == \E n \in Nat : \E l : Lists(l, n, mem, head, S)

(* Memory outside of a list does not matter.                               *)
LEMMA ListFrame ==
  ASSUME NEW f, NEW g, NEW head, NEW S, IsList(f, head, S), \A a \in S : g[a] = f[a]
  PROVE  IsList(g, head, S)
<1>0. PICK n \in Nat : \E l : Lists(l, n, f, head, S)
  BY DEF IsList
<1>1. PICK l : Lists(l, n, f, head, S)
  BY <1>0
<1>2. \A i \in 0..n - 1 : l[i] \in S
  BY <1>1 DEF Lists
<1>3. Lists(l, n, g, head, S)
  BY <1>1, <1>2 DEF Lists
<1> QED
  BY <1>3 DEF IsList

(* The empty list.                                                         *)
LEMMA ListEmpty ==
  ASSUME NEW f
  PROVE  /\ IsList(f, Null, {})
         /\ \A S : IsList(f, Null, S) => S = {}
         /\ \A head : IsList(f, head, {}) => head = Null
<1>1. Lists([i \in 0..0 |-> Null], 0, f, Null, {})
  BY DEF Lists, Null
<1>2. ASSUME NEW S, IsList(f, Null, S) PROVE S = {}
  <2>0. PICK n \in Nat : \E l : Lists(l, n, f, Null, S)
    BY <1>2 DEF IsList
  <2>1. PICK l : Lists(l, n, f, Null, S)
    BY <2>0
  <2>2. n = 0
    <3>1. n # 0 => 0 \in 0..n - 1
      OBVIOUS
    <3>2. 0 \in 0..n - 1 => l[0] # Null
      BY <2>1 DEF Lists
    <3> QED
      BY <2>1, <3>1, <3>2 DEF Lists
  <2> QED
    BY <2>1, <2>2 DEF Lists
<1>3. ASSUME NEW head, IsList(f, head, {}) PROVE head = Null
  <2>0. PICK n \in Nat : \E l : Lists(l, n, f, head, {})
    BY <1>3 DEF IsList
  <2>1. PICK l : Lists(l, n, f, head, {})
    BY <2>0
  <2>2. n = 0
    <3>1. n # 0 => 0 \in 0..n - 1
      OBVIOUS
    <3>2. \A i \in 0..n - 1 : l[i] \in {}
      <4>1. {} = {l[i] : i \in 0..n - 1}
        BY <2>1 DEF Lists
      <4> QED
        BY <4>1
    <3> QED
      BY <3>1, <3>2
  <2> QED
    BY <2>1, <2>2 DEF Lists
<1> QED
  BY <1>1, <1>2, <1>3 DEF IsList

(* What is put in front.                                                   *)
LEMMA ListPush ==
  ASSUME NEW f, NEW g, NEW head, NEW S, IsList(f, head, S), \A a \in S : g[a] = f[a],
         NEW x \in Int \ {Null}, x \notin S, g[x] = head
  PROVE  IsList(g, x, S \cup {x})
<1>0. PICK n \in Nat : \E l : Lists(l, n, g, head, S)
  BY ListFrame DEF IsList
<1>1. PICK l : Lists(l, n, g, head, S)
  BY <1>0
<1> DEFINE k == [i \in 0..n + 1 |-> IF i = 0 THEN x ELSE l[i - 1]]
<1>2. \A i \in 1..n + 1 : i - 1 \in 0..n /\ i # 0 /\ k[i] = l[i - 1]
  OBVIOUS
<1>3. k[0] = x
  OBVIOUS
<1>4. k \in [0..n + 1 -> Int] /\ k[n + 1] = Null
  BY <1>1, <1>2, <1>3 DEF Lists
<1>5. ASSUME NEW i \in 0..n PROVE k[i] # Null /\ g[k[i]] = k[i + 1]
  <2>1. CASE i = 0
    BY <1>1, <1>2, <1>3, <2>1 DEF Lists
  <2>2. CASE i # 0
    <3>1. i \in 1..n + 1 /\ i + 1 \in 1..n + 1 /\ i - 1 \in 0..n - 1 /\ (i - 1) + 1 = (i + 1) - 1
      BY <2>2
    <3> QED
      BY <1>1, <1>2, <3>1 DEF Lists
  <2> QED
    BY <2>1, <2>2
<1>6. S \cup {x} = {k[i] : i \in 0..n}
  <2>1. ASSUME NEW a \in S PROVE \E i \in 0..n : a = k[i]
    <3>1. PICK j \in 0..n - 1 : a = l[j]
      BY <1>1 DEF Lists
    <3>2. j + 1 \in 0..n /\ j + 1 \in 1..n + 1 /\ (j + 1) - 1 = j
      OBVIOUS
    <3> QED
      BY <1>2, <3>1, <3>2
  <2>2. ASSUME NEW i \in 0..n PROVE k[i] \in S \cup {x}
    <3>1. i # 0 => i \in 1..n + 1 /\ i - 1 \in 0..n - 1
      OBVIOUS
    <3> QED
      BY <1>1, <1>2, <1>3, <3>1 DEF Lists
  <2>3. 0 \in 0..n
    OBVIOUS
  <2> HIDE DEF k
  <2> QED
    BY <1>3, <2>1, <2>2, <2>3
<1>7. ASSUME NEW i \in 0..n, NEW j \in 0..n, k[i] = k[j] PROVE i = j
  <2>1. ASSUME NEW a \in 0..n, a # 0 PROVE a \in 1..n + 1 /\ a - 1 \in 0..n - 1 /\ k[a] \in S /\ k[a] = l[a - 1]
    <3>1. a \in 1..n + 1 /\ a - 1 \in 0..n - 1
      BY <2>1
    <3> QED
      BY <1>1, <1>2, <3>1 DEF Lists
  <2> HIDE DEF k
  <2>2. i = 0 <=> j = 0
    BY <1>3, <1>7, <2>1
  <2>3. i # 0 => i - 1 = j - 1
    BY <1>1, <1>7, <2>1, <2>2 DEF Lists
  <2> QED
    BY <2>2, <2>3
<1> HIDE DEF k
<1>8. (n + 1) - 1 = n /\ n + 1 \in Nat
  OBVIOUS
<1>9. Lists(k, n + 1, g, x, S \cup {x})
  BY <1>3, <1>4, <1>5, <1>6, <1>7, <1>8 DEF Lists
<1> QED
  BY <1>8, <1>9 DEF IsList

(* What is taken off the front.                                            *)
LEMMA ListPop ==
  ASSUME NEW f, NEW head, NEW S, IsList(f, head, S), head # Null
  PROVE  head \in S /\ IsList(f, f[head], S \ {head})
<1>0. PICK n \in Nat : \E l : Lists(l, n, f, head, S)
  BY DEF IsList
<1>1. PICK l : Lists(l, n, f, head, S)
  BY <1>0
<1>2. n # 0 /\ 0 \in 0..n - 1 /\ n - 1 \in Nat
  <2>1. n # 0
    BY <1>1 DEF Lists
  <2> QED
    BY <2>1
<1>3. head \in S
  BY <1>1, <1>2 DEF Lists
<1> DEFINE k == [i \in 0..n - 1 |-> l[i + 1]]
<1>4. \A i \in 0..n - 1 : i + 1 \in 0..n /\ k[i] = l[i + 1]
  OBVIOUS
<1>5. k \in [0..n - 1 -> Int] /\ k[0] = f[head] /\ k[n - 1] = Null
  <2>1. n - 1 \in 0..n - 1 /\ (n - 1) + 1 = n
    BY <1>2
  <2> QED
    BY <1>1, <1>2, <1>4, <2>1 DEF Lists
<1>6. ASSUME NEW i \in 0..(n - 1) - 1 PROVE k[i] # Null /\ f[k[i]] = k[i + 1]
  <2>1. i \in 0..n - 1 /\ i + 1 \in 0..n - 1
    OBVIOUS
  <2> QED
    BY <1>1, <1>4, <2>1 DEF Lists
<1>7. S \ {head} = {k[i] : i \in 0..(n - 1) - 1}
  <2>1. ASSUME NEW a \in S, a # head PROVE \E i \in 0..(n - 1) - 1 : a = k[i]
    <3>1. PICK j \in 0..n - 1 : a = l[j]
      BY <1>1 DEF Lists
    <3>2. j # 0
      BY <1>1, <2>1, <3>1 DEF Lists
    <3>3. j - 1 \in 0..(n - 1) - 1 /\ (j - 1) + 1 = j /\ j - 1 \in 0..n - 1
      BY <3>2
    <3> QED
      BY <1>4, <3>1, <3>3
  <2>2. ASSUME NEW i \in 0..(n - 1) - 1 PROVE k[i] \in S \ {head}
    <3>1. i \in 0..n - 1 /\ i + 1 \in 0..n - 1 /\ i + 1 # 0
      OBVIOUS
    <3> QED
      BY <1>1, <1>2, <1>4, <3>1 DEF Lists
  <2> HIDE DEF k
  <2> QED
    BY <2>1, <2>2
<1>8. ASSUME NEW i \in 0..(n - 1) - 1, NEW j \in 0..(n - 1) - 1, k[i] = k[j] PROVE i = j
  <2>1. i \in 0..n - 1 /\ i + 1 \in 0..n - 1 /\ j \in 0..n - 1 /\ j + 1 \in 0..n - 1
    OBVIOUS
  <2>2. i + 1 = j + 1
    BY <1>1, <1>4, <1>8, <2>1 DEF Lists
  <2> QED
    BY <2>2
<1> HIDE DEF k
<1>9. Lists(k, n - 1, f, f[head], S \ {head})
  BY <1>5, <1>6, <1>7, <1>8 DEF Lists
<1> QED
  BY <1>2, <1>3, <1>9 DEF IsList

(* What the loop of the refill makes of new pages.                         *)
LEMMA ListCut ==
  ASSUME NEW f, NEW page \in Nat, NEW c \in Classes, NEW C, C = ChunksOf(page, LogOf(c), Rounded(c)),
         \A a \in C : f[a] = IF a + Rounded(c) \in C THEN a + Rounded(c) ELSE Null
  PROVE  IsList(f, page * PageWords + 1, C)
<1>1. PICK r, t : r = Rounded(c) /\ t = page * PageWords
  OBVIOUS
<1>2. PICK n \in Nat : C = {t + 1 + k * r : k \in 0..n}
  <2>1. PICK n \in Nat : C = {page * PageWords + 1 + k * Rounded(c) : k \in 0..n}
    BY ChunksShape
  <2> QED
    BY <1>1, <2>1
<1>3. r \in Nat \ {0} /\ t \in Nat
  BY <1>1, ClassFacts, Constants
<1> DEFINE l == [k \in 0..n + 1 |-> IF k = n + 1 THEN Null ELSE t + 1 + k * r]
<1>4. \A k \in 0..n : k * r \in Nat /\ l[k] = t + 1 + k * r /\ l[k] \in C /\ l[k] \in Int /\ l[k] # Null
  <2> SUFFICES ASSUME NEW k \in 0..n PROVE k * r \in Nat /\ l[k] = t + 1 + k * r /\ l[k] \in C /\ l[k] \in Int /\ l[k] # Null
    OBVIOUS
  <2>1. l[k] = t + 1 + k * r
    OBVIOUS
  <2>2. k * r \in Nat
    BY <1>3
  <2>3. l[k] \in C
    BY <1>2, <2>1
  <2> HIDE DEF l
  <2> QED
    BY <1>3, <2>1, <2>2, <2>3 DEF Null
<1>5. l[n + 1] = Null /\ n + 1 \in 0..n + 1
  OBVIOUS
<1>6. l \in [0..n + 1 -> Int]
  <2>1. \A k \in 0..n + 1 : k = n + 1 \/ k \in 0..n
    OBVIOUS
  <2>2. \A k \in 0..n + 1 : l[k] \in Int
    <3> HIDE DEF l
    <3> QED
      BY <1>4, <1>5, <2>1 DEF Null
  <2>3. l = [k \in 0..n + 1 |-> l[k]]
    OBVIOUS
  <2> HIDE DEF l
  <2> QED
    BY <2>2, <2>3
<1> HIDE DEF l
<1>7. ASSUME NEW k \in 0..n PROVE f[l[k]] = l[k + 1]
  <2>1. l[k] + r = t + 1 + (k + 1) * r
    <3>1. (k + 1) * r = k * r + r
      BY <1>3
    <3>2. PICK u, v : u = k * r /\ v = (k + 1) * r
      OBVIOUS
    <3> QED
      BY <1>3, <1>4, <3>1, <3>2
  <2>2. CASE k = n
    <3>1. l[k] + r \notin C
      <4> SUFFICES ASSUME l[k] + r \in C PROVE FALSE
        OBVIOUS
      <4>1. PICK j \in 0..n : l[k] + r = t + 1 + j * r
        BY <1>2
      <4>2. j * r <= n * r /\ j * r \in Nat /\ n * r \in Nat
        BY <1>3, MulOrder
      <4>3. PICK u, v : u = j * r /\ v = n * r
        OBVIOUS
      <4>4. l[k] = t + 1 + v
        BY <1>4, <2>2, <4>3
      <4> QED
        BY <1>3, <4>1, <4>2, <4>3, <4>4
    <3> QED
      BY <1>1, <1>4, <1>5, <2>2, <3>1
  <2>3. CASE k # n
    <3>1. k + 1 \in 0..n
      BY <2>3
    <3>2. l[k + 1] = l[k] + r /\ l[k + 1] \in C
      BY <1>4, <2>1, <3>1
    <3> QED
      BY <1>1, <1>4, <3>2
  <2> QED
    BY <2>2, <2>3
<1>8. (n + 1) - 1 = n /\ n + 1 \in Nat
  OBVIOUS
<1>9. C = {l[k] : k \in 0..n}
  <2>1. ASSUME NEW a \in C PROVE \E k \in 0..n : a = l[k]
    BY <1>2, <1>4
  <2> QED
    BY <1>4, <2>1
<1>10. ASSUME NEW i \in 0..n, NEW j \in 0..n, l[i] = l[j] PROVE i = j
  <2>1. PICK u, v : u = i * r /\ v = j * r
    OBVIOUS
  <2>2. u \in Nat /\ v \in Nat /\ u = v
    BY <1>3, <1>4, <1>10, <2>1
  <2>3. ~ (i < j)
    BY <1>3, <2>1, <2>2, MulOrder
  <2>4. ~ (j < i)
    BY <1>3, <2>1, <2>2, MulOrder
  <2> QED
    BY <2>3, <2>4
<1>11. l[0] = t + 1
  <2>1. 0 \in 0..n /\ 0 * r = 0
    BY <1>3
  <2> QED
    BY <1>3, <1>4, <2>1
<1>12. Lists(l, n + 1, f, t + 1, C)
  BY <1>4, <1>5, <1>6, <1>7, <1>8, <1>9, <1>10, <1>11 DEF Lists
<1> QED
  BY <1>1, <1>8, <1>12 DEF IsList

-----------------------------------------------------------------------------
(* What it takes for an allocator to be in order while the chunks in U are *)
(* in use, and the frames in Fr.                                           *)

Addr == 0..NrPages * PageWords - 1
Data == [kind : {"direct", "class"}, inx : Nat]
Allocator ==
  [mem : [Addr -> Int], blocks : SUBSET [page : Nat, pages : Nat],
   frags : Seq([page : Nat, size : Nat]),
   per : [Classes -> [free : Int, pages : Int, chunkSize : Nat]],
   user : [0..NrPages - 1 -> Data], panics : SUBSET {"no pages"}]

\* n pages from p on, and k from q on, have none in common
Apart(p, n, q, k) == p + n <= q \/ q + k <= p

Live(m)       == {i \in 1..Len(m.frags) : m.frags[i].page # 0}
PageAt(m, i)  == m.frags[i].page
NrOf(m, i)    == PagesOf(m.frags[i].size)
Block(m, i)   == [page |-> PageAt(m, i), pages |-> NrOf(m, i)]
FrameBlock(f) == [page |-> f, pages |-> FramePages]
KindOf(m, i)  == m.user[PageAt(m, i)]
From(m, i)    == PageAt(m, i) * PageWords                    \* its first word
UpTo(m, i)    == (PageAt(m, i) + NrOf(m, i)) * PageWords     \* the first word behind it

PagesInv(m, Fr) ==
  /\ m.blocks = {Block(m, i) : i \in Live(m)} \cup {FrameBlock(f) : f \in Fr}
  /\ 1 \in Live(m)
  /\ \A i \in Live(m) : m.frags[i].size # 0 /\ PageAt(m, i) + NrOf(m, i) <= NrPages
  /\ \A f \in Fr : f \in Nat \ {0} /\ f + FramePages <= NrPages
  /\ \A i, j \in Live(m) : i # j => Apart(PageAt(m, i), NrOf(m, i), PageAt(m, j), NrOf(m, j))
  /\ \A i \in Live(m), f \in Fr : Apart(PageAt(m, i), NrOf(m, i), f, FramePages)
  /\ \A f, g \in Fr : f # g => Apart(f, FramePages, g, FramePages)

Told(m, i) == /\ \A q \in 0..NrPages - 1 : PageAt(m, i) <= q /\ q < PageAt(m, i) + NrOf(m, i)
                                             => m.user[q] = KindOf(m, i)
              /\ \/ KindOf(m, i) = Direct(i)
                 \/ \E c \in Classes : /\ KindOf(m, i) = InClass(c)
                                       /\ m.frags[i].size = Pow2[LogOf(c)] * PageWords
UserInv(m) == \A i \in Live(m) \ {1} : Told(m, i)

\* The fragments of a class, their first words and their chunks, and the direct chunks
Cuts(m, c)    == {i \in Live(m) \ {1} : KindOf(m, i) = InClass(c)}
Firsts(m, c)  == {From(m, i) : i \in Cuts(m, c)}
CutOf(m, c, i) == ChunksOf(PageAt(m, i), LogOf(c), Rounded(c))
Chunks(m, c)  == UNION {CutOf(m, c, i) : i \in Cuts(m, c)}
Directs(m)    == {From(m, i) : i \in {j \in Live(m) \ {1} : KindOf(m, j) = Direct(j)}}
Given(m)      == Directs(m) \cup UNION {Chunks(m, c) : c \in Classes}

ClassInv(m, c, U) ==
  /\ Cuts(m, c) # {} => m.per[c].chunkSize = Rounded(c)
  /\ IsList(m.mem, m.per[c].pages, Firsts(m, c))
  /\ IsList(m.mem, m.per[c].free, Chunks(m, c) \ U)

Good(m, U, Fr) ==
  /\ m \in Allocator /\ m.panics = {}
  /\ PagesInv(m, Fr) /\ UserInv(m)
  /\ \A c \in Classes : ClassInv(m, c, U)
  /\ Directs(m) \subseteq U /\ U \subseteq Given(m)

-----------------------------------------------------------------------------
(* Where chunks are.                                                       *)

(* The numbers of a fragment.                                              *)
LEMMA FragFacts ==
  ASSUME NEW m \in Allocator, NEW Fr, PagesInv(m, Fr), NEW i \in Live(m)
  PROVE  /\ i \in Nat /\ i # 0 /\ i <= Len(m.frags) /\ PageAt(m, i) \in Nat \ {0} /\ m.frags[i].size \in Nat \ {0}
         /\ NrOf(m, i) \in Nat \ {0} /\ PageAt(m, i) + NrOf(m, i) <= NrPages
         /\ PageAt(m, i) \in 0..NrPages - 1
         /\ From(m, i) \in Nat /\ UpTo(m, i) \in Nat /\ From(m, i) < UpTo(m, i)
         /\ UpTo(m, i) <= NrPages * PageWords /\ PageWords <= From(m, i)
         /\ UpTo(m, i) = From(m, i) + NrOf(m, i) * PageWords
         /\ m.frags[i].size <= NrOf(m, i) * PageWords
<1>1. m.frags \in Seq([page : Nat, size : Nat])
  BY DEF Allocator
<1>2. i \in 1..Len(m.frags) /\ Len(m.frags) \in Nat
  BY <1>1 DEF Live
<1>3. m.frags[i] \in [page : Nat, size : Nat] /\ m.frags[i].page # 0 /\ m.frags[i].size # 0
      /\ PageAt(m, i) + NrOf(m, i) <= NrPages
  <2>1. m.frags[i] \in [page : Nat, size : Nat]
    BY <1>1, <1>2, ElementOfSeq
  <2>2. m.frags[i].size # 0 /\ PageAt(m, i) + NrOf(m, i) <= NrPages
    BY DEF PagesInv
  <2> QED
    BY <2>1, <2>2 DEF Live
<1>4. PageAt(m, i) \in Nat \ {0} /\ m.frags[i].size \in Nat \ {0}
  BY <1>3 DEF PageAt
<1>5. NrOf(m, i) \in Nat \ {0} /\ m.frags[i].size <= NrOf(m, i) * PageWords
  BY <1>4, PagesFacts DEF NrOf
<1>6. PICK p, n, u : p = PageAt(m, i) /\ n = NrOf(m, i) /\ u = PageWords
  OBVIOUS
<1>7. p * u \in Nat /\ (p + n) * u \in Nat /\ p * u + u <= (p + n) * u /\ u <= p * u /\ (p + n) * u <= NrPages * u
  BY <1>3, <1>4, <1>5, <1>6, Constants, MulOrder
<1>8. (p + n) * u = p * u + n * u
  BY <1>4, <1>5, <1>6, Constants
<1>9. u \in Nat \ {0} /\ NrPages \in Nat
  BY <1>6, Constants
<1>10. From(m, i) = p * u /\ UpTo(m, i) = (p + n) * u
  BY <1>6 DEF From, UpTo
<1>11. p * u < (p + n) * u
  <2>1. PICK x, y : x = p * u /\ y = (p + n) * u
    OBVIOUS
  <2> QED
    BY <1>7, <1>9, <2>1
<1>12. p \in 0..NrPages - 1
  BY <1>3, <1>4, <1>5, <1>6, <1>9
<1> QED
  BY <1>2, <1>3, <1>4, <1>5, <1>6, <1>7, <1>8, <1>10, <1>11, <1>12

(* Fragments lie apart, word by word.                                      *)
LEMMA FragsApart ==
  ASSUME NEW m \in Allocator, NEW Fr, PagesInv(m, Fr), NEW i \in Live(m), NEW j \in Live(m), i # j
  PROVE  UpTo(m, i) <= From(m, j) \/ UpTo(m, j) <= From(m, i)
<1>1. Apart(PageAt(m, i), NrOf(m, i), PageAt(m, j), NrOf(m, j))
  BY DEF PagesInv
<1>2. PICK p, n, q, k : p = PageAt(m, i) /\ n = NrOf(m, i) /\ q = PageAt(m, j) /\ k = NrOf(m, j)
  OBVIOUS
<1>3. p \in Nat /\ n \in Nat /\ q \in Nat /\ k \in Nat /\ (p + n <= q \/ q + k <= p)
  BY <1>1, <1>2, FragFacts DEF Apart
<1>4. (p + n) * PageWords <= q * PageWords \/ (q + k) * PageWords <= p * PageWords
  BY <1>3, MulOrder, Constants
<1> QED
  BY <1>2, <1>4 DEF From, UpTo

(* The words of a fragment tell the same.                                  *)
LEMMA FragWord ==
  ASSUME NEW m \in Allocator, NEW Fr, PagesInv(m, Fr), NEW i \in Live(m), Told(m, i),
         NEW a \in Nat, From(m, i) <= a, a < UpTo(m, i)
  PROVE  /\ a \in Addr /\ PageOfAddr(a) \in 0..NrPages - 1
         /\ PageAt(m, i) <= PageOfAddr(a) /\ PageOfAddr(a) < PageAt(m, i) + NrOf(m, i)
         /\ m.user[PageOfAddr(a)] = KindOf(m, i)
<1>1. PICK p, n : p = PageAt(m, i) /\ n = NrOf(m, i)
  OBVIOUS
<1>2. p \in Nat /\ n \in Nat /\ p + n <= NrPages /\ UpTo(m, i) <= NrPages * PageWords /\ UpTo(m, i) \in Nat
  BY <1>1, FragFacts
<1>3. PageOfAddr(a) \in Nat /\ p <= PageOfAddr(a) /\ ~ (p + n <= PageOfAddr(a))
  <2>1. p * PageWords <= a /\ ~ ((p + n) * PageWords <= a)
    <3>1. (p + n) * PageWords = UpTo(m, i)
      BY <1>1 DEF UpTo
    <3> QED
      BY <1>1, <1>2, <3>1 DEF From
  <2> QED
    BY <1>2, <2>1, PageOf
<1>4. PageOfAddr(a) \in 0..NrPages - 1
  BY <1>2, <1>3, Constants
<1>5. a \in Addr
  <2>1. NrPages * PageWords \in Nat
    BY Constants
  <2>2. PICK z : z = NrPages * PageWords
    OBVIOUS
  <2>3. a \in 0..z - 1
    BY <1>2, <2>1, <2>2
  <2> QED
    BY <2>2, <2>3 DEF Addr
<1> QED
  BY <1>1, <1>2, <1>3, <1>4, <1>5 DEF Told

\* The chunk a lies in fragment i, with all its words
LiesIn(m, a, i) ==
  /\ i \in Live(m) \ {1}
  /\ a \in Nat /\ GetSizeAtPtr(m, a) \in Nat \ {0}
  /\ From(m, i) <= a /\ a + GetSizeAtPtr(m, a) <= UpTo(m, i)

(* A chunk of a class.                                                     *)
LEMMA ChunkHome ==
  ASSUME NEW m \in Allocator, NEW Fr, PagesInv(m, Fr), UserInv(m), NEW c \in Classes,
         Cuts(m, c) # {} => m.per[c].chunkSize = Rounded(c),
         NEW i \in Cuts(m, c), NEW a \in CutOf(m, c, i)
  PROVE  /\ LiesIn(m, a, i) /\ From(m, i) < a
         /\ m.user[PageOfAddr(a)] = InClass(c) /\ GetSizeAtPtr(m, a) = Rounded(c)
         /\ NrOf(m, i) = Pow2[LogOf(c)] /\ a \in Addr \ {Null}
<1>1. i \in Live(m) /\ i # 1 /\ KindOf(m, i) = InClass(c) /\ Told(m, i)
  BY DEF Cuts, UserInv
<1>2. m.frags[i].size = Pow2[LogOf(c)] * PageWords
  <2>1. KindOf(m, i) # Direct(i)
    BY <1>1 DEF InClass, Direct
  <2>2. PICK d \in Classes : KindOf(m, i) = InClass(d) /\ m.frags[i].size = Pow2[LogOf(d)] * PageWords
    BY <1>1, <2>1 DEF Told
  <2>3. d = c
    BY <1>1, <2>2 DEF InClass
  <2> QED
    BY <2>2, <2>3
<1>3. NrOf(m, i) = Pow2[LogOf(c)]
  BY <1>2, ClassFacts, WholePages DEF NrOf
<1>4. PageAt(m, i) \in Nat /\ From(m, i) \in Nat /\ UpTo(m, i) = From(m, i) + NrOf(m, i) * PageWords /\ UpTo(m, i) \in Nat
  BY <1>1, FragFacts
<1>5. a \in Nat /\ From(m, i) < a /\ a + Rounded(c) <= UpTo(m, i)
  BY <1>3, <1>4, ChunksFacts DEF CutOf, From
<1>6. Rounded(c) \in Nat \ {0}
  BY ClassFacts
<1>7. a < UpTo(m, i)
  BY <1>4, <1>5, <1>6
<1>8. m.user[PageOfAddr(a)] = InClass(c) /\ a \in Addr
  BY <1>1, <1>4, <1>5, <1>7, FragWord
<1>9. GetSizeAtPtr(m, a) = Rounded(c)
  <2>1. InClass(c).kind # "direct" /\ InClass(c).inx = c
    BY DEF InClass
  <2>2. m.per[c].chunkSize = Rounded(c)
    OBVIOUS
  <2> QED
    BY <1>8, <2>1, <2>2 DEF GetSizeAtPtr
<1>10. a # Null
  BY <1>4, <1>5 DEF Null
<1> QED
  BY <1>1, <1>3, <1>4, <1>5, <1>6, <1>8, <1>9, <1>10 DEF LiesIn

(* A direct chunk.                                                         *)
LEMMA DirectHome ==
  ASSUME NEW m \in Allocator, NEW Fr, PagesInv(m, Fr), UserInv(m),
         NEW i \in Live(m) \ {1}, KindOf(m, i) = Direct(i), NEW a, a = From(m, i)
  PROVE  /\ LiesIn(m, a, i)
         /\ m.user[PageOfAddr(a)] = Direct(i) /\ GetSizeAtPtr(m, a) = m.frags[i].size
         /\ a \in Addr \ {Null}
<1>1. i \in Live(m) /\ Told(m, i)
  BY DEF UserInv
<1>2. /\ a \in Nat /\ UpTo(m, i) \in Nat /\ a < UpTo(m, i) /\ PageWords <= a
      /\ m.frags[i].size \in Nat \ {0}
      /\ UpTo(m, i) = From(m, i) + NrOf(m, i) * PageWords /\ m.frags[i].size <= NrOf(m, i) * PageWords
  BY <1>1, FragFacts
<1>3. m.user[PageOfAddr(a)] = Direct(i) /\ a \in Addr
  BY <1>1, <1>2, FragWord
<1>4. GetSizeAtPtr(m, a) = m.frags[i].size
  BY <1>3 DEF GetSizeAtPtr, Direct
<1>5. a + m.frags[i].size <= UpTo(m, i)
  <2>1. PICK x, s : x = NrOf(m, i) * PageWords /\ s = m.frags[i].size
    OBVIOUS
  <2>2. UpTo(m, i) = a + x /\ s <= x /\ x \in Nat
    <3>1. NrOf(m, i) \in Nat
      BY <1>1, FragFacts
    <3>2. NrOf(m, i) * PageWords \in Nat
      BY <3>1, Constants
    <3> QED
      BY <1>2, <2>1, <3>2
  <2> QED
    BY <1>2, <2>1, <2>2
<1>6. a # Null
  BY <1>2, Constants DEF Null
<1> QED
  BY <1>1, <1>2, <1>3, <1>4, <1>5, <1>6 DEF LiesIn

(* Every chunk has a fragment that it lies in.                             *)
LEMMA Home ==
  ASSUME NEW m, NEW U, NEW Fr, Good(m, U, Fr), NEW a \in Given(m)
  PROVE  \E i \in Live(m) \ {1} :
           /\ LiesIn(m, a, i) /\ a \in Addr \ {Null}
           /\ \/ KindOf(m, i) = Direct(i) /\ a = From(m, i) /\ m.user[PageOfAddr(a)] = Direct(i)
              \/ \E c \in Classes : /\ i \in Cuts(m, c) /\ a \in CutOf(m, c, i) /\ From(m, i) < a
                                    /\ m.user[PageOfAddr(a)] = InClass(c)
                                    /\ GetSizeAtPtr(m, a) = Rounded(c)
<1>1. m \in Allocator /\ PagesInv(m, Fr) /\ UserInv(m)
      /\ \A c \in Classes : Cuts(m, c) # {} => m.per[c].chunkSize = Rounded(c)
  BY DEF Good, ClassInv
<1>2. CASE a \in Directs(m)
  <2>1. PICK i \in Live(m) \ {1} : KindOf(m, i) = Direct(i) /\ a = From(m, i)
    BY <1>2 DEF Directs
  <2>2. LiesIn(m, a, i) /\ a \in Addr \ {Null} /\ m.user[PageOfAddr(a)] = Direct(i)
    BY <1>1, <2>1, DirectHome
  <2> QED
    BY <2>1, <2>2
<1>3. CASE a \notin Directs(m)
  <2>1. PICK c \in Classes : a \in Chunks(m, c)
    BY <1>3 DEF Given
  <2>2. PICK i \in Cuts(m, c) : a \in CutOf(m, c, i)
    BY <2>1 DEF Chunks
  <2>3. /\ LiesIn(m, a, i) /\ From(m, i) < a /\ m.user[PageOfAddr(a)] = InClass(c)
        /\ GetSizeAtPtr(m, a) = Rounded(c) /\ a \in Addr \ {Null}
    BY <1>1, <2>2, ChunkHome
  <2>4. i \in Live(m) \ {1}
    BY <2>2 DEF Cuts
  <2> QED
    BY <2>2, <2>3, <2>4
<1> QED
  BY <1>2, <1>3

\* The words of a chunk
Room(m, a) == {x \in Addr : a <= x /\ x < a + GetSizeAtPtr(m, a)}

(* The rooms of two chunks are apart, and no room has the first word of    *)
(* the pages of a class.                                                   *)
LEMMA RoomsApart ==
  ASSUME NEW m, NEW U, NEW Fr, Good(m, U, Fr), NEW a \in Given(m)
  PROVE  /\ a \in Addr \ {Null} /\ GetSizeAtPtr(m, a) \in Nat \ {0} /\ a + GetSizeAtPtr(m, a) <= NrPages * PageWords
         /\ \A b \in Given(m) : a < b => a + GetSizeAtPtr(m, a) <= b
         /\ \A c \in Classes : \A x \in Firsts(m, c) : x \in Nat /\ (x < a \/ a + GetSizeAtPtr(m, a) <= x)
<1>1. m \in Allocator /\ PagesInv(m, Fr) /\ UserInv(m)
  BY DEF Good
<1>2. PICK i \in Live(m) \ {1} :
           /\ LiesIn(m, a, i) /\ a \in Addr \ {Null}
           /\ \/ KindOf(m, i) = Direct(i) /\ a = From(m, i)
              \/ \E c \in Classes : /\ i \in Cuts(m, c) /\ a \in CutOf(m, c, i) /\ From(m, i) < a
                                    /\ GetSizeAtPtr(m, a) = Rounded(c)
  BY Home
<1>3. PICK sz : sz = GetSizeAtPtr(m, a)
  OBVIOUS
<1>4. sz \in Nat \ {0} /\ a \in Nat /\ From(m, i) <= a /\ a + sz <= UpTo(m, i)
  BY <1>2, <1>3 DEF LiesIn
<1>5. From(m, i) \in Nat /\ UpTo(m, i) \in Nat /\ UpTo(m, i) <= NrPages * PageWords /\ NrPages * PageWords \in Nat
  BY <1>1, <1>2, FragFacts, Constants
<1>6. a + sz <= NrPages * PageWords
  <2>1. PICK x, y : x = UpTo(m, i) /\ y = NrPages * PageWords
    OBVIOUS
  <2> QED
    BY <1>4, <1>5, <2>1
<1>7. ASSUME NEW b \in Given(m), a < b
      PROVE  a + sz <= b
  <2>1. PICK j \in Live(m) \ {1} :
           /\ LiesIn(m, b, j)
           /\ \/ KindOf(m, j) = Direct(j) /\ b = From(m, j)
              \/ \E c \in Classes : j \in Cuts(m, c) /\ b \in CutOf(m, c, j)
    BY Home
  <2>2. b \in Nat /\ From(m, j) <= b /\ b < UpTo(m, j) /\ From(m, j) \in Nat /\ UpTo(m, j) \in Nat
    <3>1. b \in Nat /\ From(m, j) <= b /\ GetSizeAtPtr(m, b) \in Nat \ {0} /\ b + GetSizeAtPtr(m, b) <= UpTo(m, j)
      BY <2>1 DEF LiesIn
    <3>2. From(m, j) \in Nat /\ UpTo(m, j) \in Nat
      BY <1>1, <2>1, FragFacts
    <3> QED
      BY <3>1, <3>2
  <2>3. CASE i # j
    <3>1. UpTo(m, i) <= From(m, j) \/ UpTo(m, j) <= From(m, i)
      BY <1>1, <2>1, <1>2, <2>3, FragsApart
    <3> QED
      BY <1>4, <1>5, <1>7, <2>2, <3>1
  <2>4. CASE i = j /\ KindOf(m, i) = Direct(i)
    <3>1. \A c \in Classes : i \notin Cuts(m, c)
      BY <2>4 DEF Cuts, Direct, InClass
    <3> QED
      BY <1>2, <1>7, <2>1, <2>4, <3>1, <1>5
  <2>5. CASE i = j /\ KindOf(m, i) # Direct(i)
    <3>1. PICK c \in Classes : i \in Cuts(m, c) /\ a \in CutOf(m, c, i) /\ sz = Rounded(c)
      BY <1>2, <1>3, <2>5
    <3>2. PICK d \in Classes : i \in Cuts(m, d) /\ b \in CutOf(m, d, i)
      BY <2>1, <2>5
    <3>3. c = d
      BY <3>1, <3>2 DEF Cuts, InClass
    <3>4. PageAt(m, i) \in Nat
      BY <1>1, <1>2, FragFacts
    <3> QED
      BY <1>7, <3>1, <3>2, <3>3, <3>4, ChunksFacts DEF CutOf
  <2> QED
    BY <2>3, <2>4, <2>5
<1>8. ASSUME NEW c \in Classes, NEW x \in Firsts(m, c)
      PROVE  x \in Nat /\ (x < a \/ a + sz <= x)
  <2>1. PICK j \in Cuts(m, c) : x = From(m, j)
    BY <1>8 DEF Firsts
  <2>2. j \in Live(m) /\ KindOf(m, j) = InClass(c)
    BY <2>1 DEF Cuts
  <2>3. From(m, j) \in Nat /\ UpTo(m, j) \in Nat /\ From(m, j) < UpTo(m, j)
    BY <1>1, <2>2, FragFacts
  <2>4. CASE i # j
    <3>1. UpTo(m, i) <= From(m, j) \/ UpTo(m, j) <= From(m, i)
      BY <1>1, <2>2, <1>2, <2>4, FragsApart
    <3> QED
      BY <1>4, <1>5, <2>1, <2>3, <3>1
  <2>5. CASE i = j
    <3>1. KindOf(m, i) # Direct(i)
      BY <2>2, <2>5 DEF Direct, InClass
    <3>2. From(m, i) < a
      BY <1>2, <3>1
    <3> QED
      BY <2>1, <2>3, <2>5, <3>2
  <2> QED
    BY <2>4, <2>5
<1> QED
  BY <1>2, <1>3, <1>4, <1>6, <1>7, <1>8

(* What is not in the room of a chunk.                                     *)
LEMMA OtherRooms ==
  ASSUME NEW m, NEW U, NEW Fr, Good(m, U, Fr), NEW a \in Given(m)
  PROVE  /\ a \in Room(m, a)
         /\ \A b \in Given(m) \ {a} : Room(m, a) \cap Room(m, b) = {} /\ b \notin Room(m, a)
         /\ \A c \in Classes : Firsts(m, c) \cap Room(m, a) = {}
<1>1. a \in Room(m, a)
  <2>1. a \in Addr /\ a \in Nat /\ GetSizeAtPtr(m, a) \in Nat \ {0}
    BY RoomsApart DEF Addr
  <2> QED
    BY <2>1 DEF Room
<1>2. ASSUME NEW b \in Given(m) \ {a}
      PROVE  Room(m, a) \cap Room(m, b) = {} /\ b \notin Room(m, a)
  <2>1. PICK x, y : x = GetSizeAtPtr(m, a) /\ y = GetSizeAtPtr(m, b)
    OBVIOUS
  <2>2. a \in Addr /\ b \in Addr /\ a \in Nat /\ b \in Nat /\ a # b /\ x \in Nat \ {0} /\ y \in Nat \ {0}
    BY <2>1, RoomsApart DEF Addr
  <2>3. (a < b => a + x <= b) /\ (b < a => b + y <= a)
    BY <2>1, RoomsApart
  <2>4. Addr \subseteq Nat
    BY DEF Addr
  <2>5. Room(m, a) = {z \in Addr : a <= z /\ z < a + x} /\ Room(m, b) = {z \in Addr : b <= z /\ z < b + y}
    BY <2>1 DEF Room
  <2>6. b \notin Room(m, a)
    BY <2>2, <2>3, <2>5
  <2>7. ASSUME NEW z \in Room(m, a), z \in Room(m, b)
        PROVE  FALSE
    <3>1. z \in Nat /\ a <= z /\ z < a + x /\ b <= z /\ z < b + y
      BY <2>4, <2>5, <2>7
    <3> QED
      BY <2>2, <2>3, <3>1
  <2> QED
    BY <2>6, <2>7
<1>3. ASSUME NEW c \in Classes
      PROVE  Firsts(m, c) \cap Room(m, a) = {}
  <2>1. PICK x : x = GetSizeAtPtr(m, a)
    OBVIOUS
  <2>2. \A z \in Firsts(m, c) : z \in Nat /\ (z < a \/ a + x <= z)
    BY <2>1, RoomsApart
  <2>3. a \in Nat /\ x \in Nat
    BY <2>1, RoomsApart DEF Addr
  <2> QED
    BY <2>1, <2>2, <2>3 DEF Room
<1> QED
  BY <1>1, <1>2, <1>3

\* r differs from m in the words of memory and the lists only
Alike(m, r) == r.frags = m.frags /\ r.blocks = m.blocks /\ r.user = m.user

(* What does not depend on the words of memory and the lists.              *)
LEMMA SamePages ==
  ASSUME NEW m, NEW r, Alike(m, r)
  PROVE  /\ Live(r) = Live(m) /\ Directs(r) = Directs(m) /\ Given(r) = Given(m)
         /\ \A i : /\ PageAt(r, i) = PageAt(m, i) /\ NrOf(r, i) = NrOf(m, i) /\ KindOf(r, i) = KindOf(m, i)
                   /\ From(r, i) = From(m, i) /\ UpTo(r, i) = UpTo(m, i)
         /\ \A Fr : PagesInv(m, Fr) => PagesInv(r, Fr)
         /\ UserInv(m) => UserInv(r)
         /\ \A c : /\ Cuts(r, c) = Cuts(m, c) /\ Firsts(r, c) = Firsts(m, c) /\ Chunks(r, c) = Chunks(m, c)
                   /\ \A i : CutOf(r, c, i) = CutOf(m, c, i)
<1>1. Live(r) = Live(m) /\ \A i : /\ PageAt(r, i) = PageAt(m, i) /\ NrOf(r, i) = NrOf(m, i)
                                  /\ Block(r, i) = Block(m, i) /\ KindOf(r, i) = KindOf(m, i)
                                  /\ From(r, i) = From(m, i) /\ UpTo(r, i) = UpTo(m, i)
  BY DEF Alike, Live, PageAt, NrOf, Block, KindOf, From, UpTo
<1>2. ASSUME NEW Fr, PagesInv(m, Fr)
      PROVE  PagesInv(r, Fr)
  <2>1. r.blocks = {Block(r, i) : i \in Live(r)} \cup {FrameBlock(f) : f \in Fr}
    BY <1>1, <1>2 DEF PagesInv, Alike
  <2>2. 1 \in Live(r) /\ \A i \in Live(r) : r.frags[i].size # 0 /\ PageAt(r, i) + NrOf(r, i) <= NrPages
    BY <1>1, <1>2 DEF PagesInv, Alike
  <2>3. \A i, j \in Live(r) : i # j => Apart(PageAt(r, i), NrOf(r, i), PageAt(r, j), NrOf(r, j))
    BY <1>1, <1>2 DEF PagesInv, Alike
  <2>4. \A i \in Live(r), f \in Fr : Apart(PageAt(r, i), NrOf(r, i), f, FramePages)
    BY <1>1, <1>2 DEF PagesInv, Alike
  <2>5. /\ \A f \in Fr : f \in Nat \ {0} /\ f + FramePages <= NrPages
        /\ \A f, g \in Fr : f # g => Apart(f, FramePages, g, FramePages)
    BY <1>2 DEF PagesInv
  <2> QED
    BY <2>1, <2>2, <2>3, <2>4, <2>5 DEF PagesInv
<1>3. UserInv(m) => UserInv(r)
  BY <1>1 DEF UserInv, Told, Alike
<1>4. \A c : Cuts(r, c) = Cuts(m, c) /\ \A i : CutOf(r, c, i) = CutOf(m, c, i)
  BY <1>1 DEF Cuts, CutOf
<1>5. \A c : Firsts(r, c) = Firsts(m, c) /\ Chunks(r, c) = Chunks(m, c)
  BY <1>1, <1>4 DEF Firsts, Chunks
<1>6. Directs(r) = Directs(m)
  BY <1>1 DEF Directs
<1>7. Given(r) = Given(m)
  BY <1>5, <1>6 DEF Given
<1> QED
  BY <1>1, <1>2, <1>3, <1>4, <1>5, <1>6, <1>7

-----------------------------------------------------------------------------
(* Writing in a chunk.                                                     *)

\* The chunks in U have the same room in r as in m, with the same words
Keeps(m, r, U) ==
  \A a \in U : /\ GetSizeAtPtr(r, a) = GetSizeAtPtr(m, a)
               /\ \A x \in Room(m, a) : r.mem[x] = m.mem[x]

\* r has the words of f, which differ from those of m in the chunk a only
Writes(m, a, f, r) ==
  /\ f \in [Addr -> Int] /\ \A x \in Addr \ Room(m, a) : f[x] = m.mem[x]
  /\ r = [m EXCEPT !.mem = f]

(* The words of a chunk are those of whoever has it.                       *)
LEMMA WriteGood ==
  ASSUME NEW m, NEW U, NEW Fr, Good(m, U, Fr), NEW a \in U, NEW f, NEW r, Writes(m, a, f, r)
  PROVE  Good(r, U, Fr) /\ Keeps(m, r, U \ {a}) /\ \A b : GetSizeAtPtr(r, b) = GetSizeAtPtr(m, b)
<1>0. /\ f \in [Addr -> Int] /\ \A x \in Addr \ Room(m, a) : f[x] = m.mem[x]
      /\ r = [m EXCEPT !.mem = f]
  BY DEF Writes
<1>1. /\ m \in Allocator /\ m.panics = {} /\ PagesInv(m, Fr) /\ UserInv(m)
      /\ \A c \in Classes : ClassInv(m, c, U)
      /\ Directs(m) \subseteq U /\ U \subseteq Given(m)
  BY DEF Good
<1>2. /\ r \in Allocator /\ r.mem = f /\ r.panics = m.panics /\ r.frags = m.frags /\ r.user = m.user
      /\ r.per = m.per /\ r.blocks = m.blocks
  BY <1>1, <1>0 DEF Allocator
<1>3. /\ PagesInv(r, Fr) /\ UserInv(r) /\ Directs(r) = Directs(m) /\ Given(r) = Given(m)
      /\ \A c : /\ Cuts(r, c) = Cuts(m, c) /\ Firsts(r, c) = Firsts(m, c) /\ Chunks(r, c) = Chunks(m, c)
  <2>1. Alike(m, r)
    BY <1>2 DEF Alike
  <2> QED
    BY <1>1, <2>1, SamePages
<1>4. \A b : GetSizeAtPtr(r, b) = GetSizeAtPtr(m, b)
  BY <1>2 DEF GetSizeAtPtr
<1>5. a \in Given(m)
  BY <1>1
<1>6. ASSUME NEW c \in Classes
       PROVE  ClassInv(r, c, U)
  <2>1. ClassInv(m, c, U)
    BY <1>1
  <2>2. Firsts(m, c) \subseteq Addr \ Room(m, a)
    <3>1. Firsts(m, c) \subseteq Addr
      <4>1. ASSUME NEW x \in Firsts(m, c)
            PROVE  x \in Addr
        <5>1. PICK i \in Cuts(m, c) : x = From(m, i)
          BY DEF Firsts
        <5>2. i \in Live(m) /\ Told(m, i)
          BY <1>1, <5>1 DEF Cuts, UserInv
        <5>3. x \in Nat /\ From(m, i) <= x /\ x < UpTo(m, i)
          BY <1>1, <5>1, <5>2, FragFacts
        <5> QED
          BY <1>1, <5>2, <5>3, FragWord
      <4> QED
        BY <4>1
    <3> QED
      BY <1>5, <3>1, OtherRooms
  <2>3. Chunks(m, c) \ U \subseteq Addr \ Room(m, a)
    <3>1. Chunks(m, c) \subseteq Given(m)
      BY DEF Given
    <3>2. \A b \in Given(m) : b \in Addr
      BY RoomsApart
    <3> QED
      BY <1>5, <3>1, <3>2, OtherRooms
  <2>4. IsList(f, m.per[c].pages, Firsts(m, c))
    BY <1>0, <2>1, <2>2, ListFrame DEF ClassInv
  <2>5. IsList(f, m.per[c].free, Chunks(m, c) \ U)
    BY <1>0, <2>1, <2>3, ListFrame DEF ClassInv
  <2> QED
    BY <1>2, <1>3, <2>1, <2>4, <2>5 DEF ClassInv
<1>7. Good(r, U, Fr)
  BY <1>1, <1>2, <1>3, <1>6 DEF Good
<1>8. Keeps(m, r, U \ {a})
  <2>1. ASSUME NEW b \in U \ {a}, NEW x \in Room(m, b)
        PROVE  f[x] = m.mem[x]
    <3>1. x \in Addr \ Room(m, a)
      BY <1>1, <1>5, <2>1, OtherRooms DEF Room
    <3> QED
      BY <1>0, <3>1
  <2> QED
    BY <1>2, <1>4, <2>1 DEF Keeps
<1> QED
  BY <1>4, <1>7, <1>8

-----------------------------------------------------------------------------
(* New pages.                                                              *)

(* The member of a set of one.                                             *)
LEMMA TheOne ==
  ASSUME NEW S, NEW e, S = {e}
  PROVE  The(S) = e
  BY DEF The

(* A place that is not page 0 is apart from all that is in use.            *)
LEMMA FreePlace ==
  ASSUME NEW m \in Allocator, NEW Fr, PagesInv(m, Fr), NEW n \in Nat \ {0}, NEW high,
         NEW p, p = Place(m, n, high), p # 0
  PROVE  /\ p \in Nat \ {0} /\ p + n <= NrPages /\ p % Align(n) = 0
         /\ \A i \in Live(m) : Apart(PageAt(m, i), NrOf(m, i), p, n)
         /\ \A f \in Fr : Apart(f, FramePages, p, n)
<1>1. /\ p \in 1..NrPages - 1 /\ p + n <= NrPages /\ p % Align(n) = 0
      /\ \A b \in m.blocks : b.page + b.pages <= p \/ p + n <= b.page
  BY PlaceFacts
<1>2. \A i \in Live(m) : Apart(PageAt(m, i), NrOf(m, i), p, n)
  <2>1. \A i \in Live(m) : Block(m, i) \in m.blocks
    BY DEF PagesInv
  <2> QED
    BY <1>1, <2>1 DEF Block, Apart
<1>3. \A f \in Fr : Apart(f, FramePages, p, n)
  <2>1. \A f \in Fr : FrameBlock(f) \in m.blocks
    BY DEF PagesInv
  <2> QED
    BY <1>1, <2>1 DEF FrameBlock, Apart
<1> QED
  BY <1>1, <1>2, <1>3

(* What AllocPages does: it panics on page 0.                              *)
LEMMA AllocPagesFacts ==
  ASSUME NEW m \in Allocator, NEW n \in Nat, NEW p \in Nat, NEW r, r = AllocPages(m, n, p)
  PROVE  /\ r \in Allocator /\ m.panics \subseteq r.panics
         /\ r.mem = m.mem /\ r.per = m.per /\ r.user = m.user /\ r.frags = m.frags
         /\ r.blocks = m.blocks \cup {[page |-> p, pages |-> n]}
         /\ r.panics = {} => p # 0
<1>1. m.panics \in SUBSET {"no pages"} /\ m.blocks \in SUBSET [page : Nat, pages : Nat]
  BY DEF Allocator
<1>2. PICK b, q : b = [page |-> p, pages |-> n] /\ q = (IF p = 0 THEN {"no pages"} ELSE {})
  OBVIOUS
<1>3. b \in [page : Nat, pages : Nat] /\ m.blocks \cup {b} \in SUBSET [page : Nat, pages : Nat]
  <2>1. [page |-> p, pages |-> n] \in [page : Nat, pages : Nat]
    OBVIOUS
  <2>2. b \in [page : Nat, pages : Nat]
    BY <1>2, <2>1, Zenon
  <2> QED
    BY <1>1, <2>2, Zenon
<1>4. m.panics \cup q \in SUBSET {"no pages"} /\ (m.panics \cup q = {} => p # 0)
  <2>1. "no pages" \in {"no pages"}
    OBVIOUS
  <2>2. q \subseteq {"no pages"} /\ (q = {} => p # 0)
    BY <1>2, <2>1, Zenon
  <2> QED
    BY <1>1, <2>2
<1>5. r = [m EXCEPT !.blocks = m.blocks \cup {b}, !.panics = m.panics \cup q]
  BY <1>2 DEF AllocPages
<1>6. PICK B, P : B = m.blocks \cup {b} /\ P = m.panics \cup q
  OBVIOUS
<1>7. r = [m EXCEPT !.blocks = B, !.panics = P] /\ B \in SUBSET [page : Nat, pages : Nat] /\ P \in SUBSET {"no pages"}
  BY <1>3, <1>4, <1>5, <1>6
<1>8. /\ r \in Allocator /\ r.blocks = B /\ r.panics = P
      /\ r.mem = m.mem /\ r.per = m.per /\ r.user = m.user /\ r.frags = m.frags
  BY <1>7 DEF Allocator
<1> QED
  BY <1>2, <1>4, <1>6, <1>8

(* A place is a page number in any case.                                   *)
LEMMA PlaceNat ==
  ASSUME NEW m, NEW n \in Nat \ {0}, NEW high
  PROVE  Place(m, n, high) \in Nat
  BY PlaceFacts

(* The numbers of frames.                                                  *)
LEMMA FrameFacts == FramePages \in Nat \ {0} /\ Align(FramePages) = FramePages
<1>1. PICK k \in 0..FramePages : FramePages = Pow2[k]
  BY SpacesAssumption
<1>2. k \in Nat
  OBVIOUS
<1> QED
  BY <1>1, <1>2, PowerFacts, AlignFacts

(* A frame for a copy space.                                               *)
LEMMA FrameGood ==
  ASSUME NEW m, NEW U, NEW Fr, Good(m, U, Fr), NEW high, NEW p, p = Place(m, FramePages, high),
         NEW r, r = AllocPages(m, FramePages, p), r.panics = {}
  PROVE  /\ Good(r, U, Fr \cup {p}) /\ Keeps(m, r, U) /\ r.mem = m.mem
         /\ \A b : GetSizeAtPtr(r, b) = GetSizeAtPtr(m, b)
         /\ p \in Nat \ {0} /\ p \notin Fr /\ p % FramePages = 0 /\ p + FramePages <= NrPages
<1>1. /\ m \in Allocator /\ m.panics = {} /\ PagesInv(m, Fr) /\ UserInv(m)
      /\ \A c \in Classes : ClassInv(m, c, U)
      /\ Directs(m) \subseteq U /\ U \subseteq Given(m)
  BY DEF Good
<1>2. FramePages \in Nat \ {0} /\ Align(FramePages) = FramePages
  BY FrameFacts
<1>3. /\ r \in Allocator /\ r.mem = m.mem /\ r.per = m.per /\ r.user = m.user /\ r.frags = m.frags
      /\ r.blocks = m.blocks \cup {FrameBlock(p)} /\ p # 0
  BY <1>1, <1>2, AllocPagesFacts, PlaceNat DEF FrameBlock
<1>4. /\ p \in Nat \ {0} /\ p + FramePages <= NrPages /\ p % FramePages = 0
      /\ \A i \in Live(m) : Apart(PageAt(m, i), NrOf(m, i), p, FramePages)
      /\ \A f \in Fr : Apart(f, FramePages, p, FramePages)
  BY <1>1, <1>2, <1>3, FreePlace
<1>5. p \notin Fr
  BY <1>2, <1>4 DEF Apart
<1>6. Live(r) = Live(m) /\ \A i : /\ PageAt(r, i) = PageAt(m, i) /\ NrOf(r, i) = NrOf(m, i)
                                  /\ Block(r, i) = Block(m, i) /\ KindOf(r, i) = KindOf(m, i)
                                  /\ From(r, i) = From(m, i)
  BY <1>3 DEF Live, PageAt, NrOf, Block, KindOf, From
<1>7. PagesInv(r, Fr \cup {p})
  <2>1. r.blocks = {Block(r, i) : i \in Live(r)} \cup {FrameBlock(f) : f \in Fr \cup {p}}
    BY <1>1, <1>3, <1>6 DEF PagesInv
  <2>2. 1 \in Live(r) /\ \A i \in Live(r) : r.frags[i].size # 0 /\ PageAt(r, i) + NrOf(r, i) <= NrPages
    BY <1>1, <1>3, <1>6 DEF PagesInv
  <2>3. \A f \in Fr \cup {p} : f \in Nat \ {0} /\ f + FramePages <= NrPages
    BY <1>1, <1>4 DEF PagesInv
  <2>4. \A i, j \in Live(r) : i # j => Apart(PageAt(r, i), NrOf(r, i), PageAt(r, j), NrOf(r, j))
    BY <1>1, <1>6 DEF PagesInv
  <2>5. \A i \in Live(r), f \in Fr \cup {p} : Apart(PageAt(r, i), NrOf(r, i), f, FramePages)
    BY <1>1, <1>4, <1>6 DEF PagesInv
  <2>6. \A f, g \in Fr \cup {p} : f # g => Apart(f, FramePages, g, FramePages)
    BY <1>1, <1>4 DEF PagesInv, Apart
  <2> QED
    BY <2>1, <2>2, <2>3, <2>4, <2>5, <2>6 DEF PagesInv
<1>8. UserInv(r)
  BY <1>1, <1>3, <1>6 DEF UserInv, Told
<1>9. \A c : /\ Cuts(r, c) = Cuts(m, c) /\ Firsts(r, c) = Firsts(m, c) /\ Chunks(r, c) = Chunks(m, c)
  <2>1. \A c : Cuts(r, c) = Cuts(m, c)
    BY <1>6 DEF Cuts
  <2> QED
    BY <2>1, <1>6 DEF Firsts, Chunks, CutOf
<1>10. Directs(r) = Directs(m) /\ Given(r) = Given(m)
  <2>1. Directs(r) = Directs(m)
    BY <1>6 DEF Directs
  <2> QED
    BY <2>1, <1>9 DEF Given
<1>11. \A c \in Classes : ClassInv(r, c, U)
  BY <1>1, <1>3, <1>9 DEF ClassInv
<1>12. Good(r, U, Fr \cup {p})
  BY <1>1, <1>3, <1>7, <1>8, <1>10, <1>11 DEF Good
<1>13. Keeps(m, r, U) /\ \A b : GetSizeAtPtr(r, b) = GetSizeAtPtr(m, b)
  BY <1>3 DEF Keeps, GetSizeAtPtr
<1> QED
  BY <1>3, <1>4, <1>5, <1>12, <1>13

(* A new fragment.                                                         *)
LEMMA GrowFacts ==
  ASSUME NEW m \in Allocator, NEW Fr, PagesInv(m, Fr), NEW w \in Nat \ {0}, NEW high,
         NEW g, g = GrowSpace(m, w, high), g.panics = {}, NEW n, n = Len(m.frags) + 1
  PROVE  /\ g \in Allocator /\ m.panics = {} /\ PagesInv(g, Fr)
         /\ g.mem = m.mem /\ g.per = m.per /\ g.user = m.user
         /\ n \in Nat /\ Len(g.frags) = n /\ n \notin Live(m) /\ Live(g) = Live(m) \cup {n}
         /\ \A i \in Live(m) : g.frags[i] = m.frags[i]
         /\ g.frags[n].size = w
<1>1. PICK k : k = PagesOf(w)
  OBVIOUS
<1>2. k \in Nat \ {0}
  BY <1>1, PagesFacts
<1>3. PICK p : p = Place(m, k, high)
  OBVIOUS
<1>4. p \in Nat
  BY <1>2, <1>3, PlaceNat
<1>5. PICK b : b = AllocPages(m, k, p)
  OBVIOUS
<1>6. /\ b \in Allocator /\ m.panics \subseteq b.panics
      /\ b.mem = m.mem /\ b.per = m.per /\ b.user = m.user /\ b.frags = m.frags
      /\ b.blocks = m.blocks \cup {[page |-> p, pages |-> k]}
      /\ b.panics = {} => p # 0
  BY <1>2, <1>4, <1>5, AllocPagesFacts
<1>7. g = [b EXCEPT !.frags = Append(b.frags, [page |-> p, size |-> w])]
  <2>1. g = The({[AllocPages(m, k, q) EXCEPT !.frags = Append(@, [page |-> q, size |-> w])] : q \in {p}})
    BY <1>1, <1>3 DEF GrowSpace
  <2>2. g = [AllocPages(m, k, p) EXCEPT !.frags = Append(@, [page |-> p, size |-> w])]
    <3>1. {[AllocPages(m, k, q) EXCEPT !.frags = Append(@, [page |-> q, size |-> w])] : q \in {p}}
            = {[AllocPages(m, k, p) EXCEPT !.frags = Append(@, [page |-> p, size |-> w])]}
      OBVIOUS
    <3>2. PICK S, e : S = {[AllocPages(m, k, q) EXCEPT !.frags = Append(@, [page |-> q, size |-> w])] : q \in {p}}
                      /\ e = [AllocPages(m, k, p) EXCEPT !.frags = Append(@, [page |-> p, size |-> w])]
      OBVIOUS
    <3>3. S = {e}
      BY <3>1, <3>2
    <3>4. g = The(S)
      BY <2>1, <3>2
    <3>5. The(S) = e
      BY <3>3, TheOne
    <3> QED
      BY <3>2, <3>4, <3>5
  <2> QED
    BY <1>5, <2>2
<1>8. m.frags \in Seq([page : Nat, size : Nat])
  BY DEF Allocator
<1>9. /\ g.frags = Append(m.frags, [page |-> p, size |-> w]) /\ g.panics = b.panics
      /\ g.mem = m.mem /\ g.per = m.per /\ g.user = m.user /\ g.blocks = b.blocks
  BY <1>6, <1>7 DEF Allocator
<1>10. p # 0 /\ m.panics = {}
  BY <1>6, <1>9
<1>11. [page |-> p, size |-> w] \in [page : Nat, size : Nat]
  BY <1>4
<1>12. /\ g.frags \in Seq([page : Nat, size : Nat]) /\ n \in Nat /\ Len(g.frags) = n /\ Len(m.frags) \in Nat
       /\ \A i \in 1..Len(m.frags) : g.frags[i] = m.frags[i]
       /\ g.frags[n] = [page |-> p, size |-> w]
  BY <1>8, <1>9, <1>11, AppendProperties
<1>13. g \in Allocator
  BY <1>6, <1>7, <1>9, <1>12 DEF Allocator
<1>14. n \notin Live(m) /\ Live(g) = Live(m) \cup {n} /\ \A i \in Live(m) : g.frags[i] = m.frags[i]
  <2>1. n \notin Live(m) /\ \A i \in Live(m) : g.frags[i] = m.frags[i]
    BY <1>12 DEF Live
  <2>2. g.frags[n].page # 0
    BY <1>10, <1>12
  <2>3. 1..n = (1..Len(m.frags)) \cup {n}
    BY <1>12, SMTT(30)
  <2> QED
    BY <1>12, <2>1, <2>2, <2>3 DEF Live
<1>15. PageAt(g, n) = p /\ NrOf(g, n) = k /\ g.frags[n].size = w
  BY <1>1, <1>12 DEF PageAt, NrOf
<1>16. \A i \in Live(m) : PageAt(g, i) = PageAt(m, i) /\ NrOf(g, i) = NrOf(m, i) /\ Block(g, i) = Block(m, i)
  BY <1>14 DEF PageAt, NrOf, Block
<1>17. /\ p \in Nat \ {0} /\ p + k <= NrPages
       /\ \A i \in Live(m) : Apart(PageAt(m, i), NrOf(m, i), p, k)
       /\ \A f \in Fr : Apart(f, FramePages, p, k)
  BY <1>2, <1>3, <1>10, FreePlace
<1>18. PagesInv(g, Fr)
  <2>1. g.blocks = {Block(g, i) : i \in Live(g)} \cup {FrameBlock(f) : f \in Fr}
    <3>1. Block(g, n) = [page |-> p, pages |-> k]
      BY <1>15 DEF Block
    <3>2. m.blocks = {Block(m, i) : i \in Live(m)} \cup {FrameBlock(f) : f \in Fr}
      BY DEF PagesInv
    <3>3. {Block(g, i) : i \in Live(g)} = {Block(m, i) : i \in Live(m)} \cup {Block(g, n)}
      BY <1>14, <1>16
    <3> QED
      BY <1>6, <1>9, <3>1, <3>2, <3>3
  <2>2. 1 \in Live(g)
    BY <1>14 DEF PagesInv
  <2>3. \A i \in Live(g) : g.frags[i].size # 0 /\ PageAt(g, i) + NrOf(g, i) <= NrPages
    <3>1. \A i \in Live(m) : m.frags[i].size # 0 /\ PageAt(m, i) + NrOf(m, i) <= NrPages
      BY DEF PagesInv
    <3> QED
      BY <1>14, <1>15, <1>16, <1>17, <3>1
  <2>4. \A i, j \in Live(g) : i # j => Apart(PageAt(g, i), NrOf(g, i), PageAt(g, j), NrOf(g, j))
    <3>1. \A i, j \in Live(m) : i # j => Apart(PageAt(m, i), NrOf(m, i), PageAt(m, j), NrOf(m, j))
      BY DEF PagesInv
    <3> QED
      BY <1>14, <1>15, <1>16, <1>17, <3>1 DEF Apart
  <2>5. \A i \in Live(g), f \in Fr : Apart(PageAt(g, i), NrOf(g, i), f, FramePages)
    <3>1. \A i \in Live(m), f \in Fr : Apart(PageAt(m, i), NrOf(m, i), f, FramePages)
      BY DEF PagesInv
    <3> QED
      BY <1>14, <1>15, <1>16, <1>17, <3>1 DEF Apart
  <2>6. /\ \A f \in Fr : f \in Nat \ {0} /\ f + FramePages <= NrPages
        /\ \A f, h \in Fr : f # h => Apart(f, FramePages, h, FramePages)
    BY DEF PagesInv
  <2> QED
    BY <2>1, <2>2, <2>3, <2>4, <2>5, <2>6 DEF PagesInv
<1> QED
  BY <1>9, <1>10, <1>12, <1>13, <1>14, <1>15, <1>18

\* What the pages of fragment n of w words may tell
Tells(d, n, w) == \/ d = Direct(n)
                  \/ \E c \in Classes : d = InClass(c) /\ w = Pow2[LogOf(c)] * PageWords

\* r has the fragments of m and fragment n of w words, whose pages tell d
Adds(m, r, Fr, n, w, d) ==
  /\ r \in Allocator /\ PagesInv(r, Fr)
  /\ n \in Nat /\ n \notin Live(m) /\ Live(r) = Live(m) \cup {n}
  /\ \A i \in Live(m) : r.frags[i] = m.frags[i]
  /\ r.frags[n].size = w
  /\ \A q \in 0..NrPages - 1 :
       r.user[q] = IF PageAt(r, n) <= q /\ q < PageAt(r, n) + NrOf(r, n) THEN d ELSE m.user[q]
  /\ Tells(d, n, w)

(* Where the old and the new fragments of the kinds are.                   *)
LEMMA AddsFacts ==
  ASSUME NEW m, NEW U, NEW Fr, Good(m, U, Fr), NEW r, NEW n, NEW w, NEW d, Adds(m, r, Fr, n, w, d)
  PROVE  /\ UserInv(r) /\ KindOf(r, n) = d /\ n \in Live(r) \ {1}
         /\ \A i \in Live(m) : From(r, i) = From(m, i) /\ UpTo(r, i) = UpTo(m, i) /\ KindOf(r, i) = KindOf(m, i)
         /\ \A c \in Classes : /\ Cuts(r, c) = Cuts(m, c) \cup {i \in {n} : d = InClass(c)}
                               /\ Firsts(r, c) = Firsts(m, c) \cup {From(r, i) : i \in {j \in {n} : d = InClass(c)}}
                               /\ Chunks(r, c) = Chunks(m, c) \cup UNION {CutOf(r, c, i) : i \in {j \in {n} : d = InClass(c)}}
         /\ Directs(r) = Directs(m) \cup {From(r, i) : i \in {j \in {n} : d = Direct(n)}}
<1>1. /\ m \in Allocator /\ PagesInv(m, Fr) /\ UserInv(m)
  BY DEF Good
<1>2. 1 \in Live(m) /\ n # 1 /\ n \in Live(r)
  BY <1>1 DEF PagesInv, Adds
<1>3. \A i \in Live(m) : /\ PageAt(r, i) = PageAt(m, i) /\ NrOf(r, i) = NrOf(m, i) /\ r.frags[i] = m.frags[i]
                         /\ From(r, i) = From(m, i) /\ UpTo(r, i) = UpTo(m, i)
  BY DEF Adds, PageAt, NrOf, From, UpTo
<1>4. /\ PageAt(r, n) \in Nat \ {0} /\ NrOf(r, n) \in Nat \ {0} /\ PageAt(r, n) \in 0..NrPages - 1
  BY <1>2, FragFacts DEF Adds
<1>5. KindOf(r, n) = d
  BY <1>4 DEF KindOf, Adds
<1>6. ASSUME NEW i \in Live(m), NEW q \in 0..NrPages - 1, PageAt(m, i) <= q, q < PageAt(m, i) + NrOf(m, i)
      PROVE  r.user[q] = m.user[q]
  <2>1. i # n /\ i \in Live(r)
    BY DEF Adds
  <2>2. Apart(PageAt(r, i), NrOf(r, i), PageAt(r, n), NrOf(r, n))
    BY <1>2, <2>1 DEF PagesInv, Adds
  <2>3. PageAt(m, i) \in Nat /\ NrOf(m, i) \in Nat
    BY <1>1, FragFacts
  <2>4. ~ (PageAt(r, n) <= q /\ q < PageAt(r, n) + NrOf(r, n))
    BY <1>3, <1>4, <1>6, <2>2, <2>3 DEF Apart
  <2> QED
    BY <2>4 DEF Adds
<1>7. \A i \in Live(m) : KindOf(r, i) = KindOf(m, i)
  <2>1. ASSUME NEW i \in Live(m)
        PROVE  KindOf(r, i) = KindOf(m, i)
    <3>1. PageAt(m, i) \in 0..NrPages - 1 /\ PageAt(m, i) \in Nat /\ NrOf(m, i) \in Nat \ {0}
      BY <1>1, FragFacts
    <3>2. PageAt(m, i) <= PageAt(m, i) /\ PageAt(m, i) < PageAt(m, i) + NrOf(m, i)
      BY <3>1
    <3> QED
      BY <1>3, <1>6, <3>1, <3>2 DEF KindOf
  <2> QED
    BY <2>1
<1>8. UserInv(r)
  <2>1. ASSUME NEW i \in Live(m) \ {1}
        PROVE  Told(r, i)
    <3>1. Told(m, i)
      BY <1>1 DEF UserInv
    <3> QED
      BY <1>3, <1>6, <1>7, <3>1 DEF Told
  <2>2. Told(r, n)
    <3>1. /\ \A q \in 0..NrPages - 1 : PageAt(r, n) <= q /\ q < PageAt(r, n) + NrOf(r, n) => r.user[q] = d
          /\ \/ d = Direct(n)
             \/ \E c \in Classes : d = InClass(c) /\ r.frags[n].size = Pow2[LogOf(c)] * PageWords
      BY DEF Adds, Tells
    <3> QED
      BY <1>5, <3>1 DEF Told
  <2>3. Live(r) = Live(m) \cup {n}
    BY DEF Adds
  <2> QED
    BY <2>1, <2>2, <2>3 DEF UserInv
<1>9. Live(r) = Live(m) \cup {n}
  BY DEF Adds
<1>10. \A c \in Classes : Cuts(r, c) = Cuts(m, c) \cup {i \in {n} : d = InClass(c)}
  BY <1>2, <1>5, <1>7, <1>9 DEF Cuts
<1>11. ASSUME NEW c \in Classes
       PROVE  /\ Firsts(r, c) = Firsts(m, c) \cup {From(r, i) : i \in {j \in {n} : d = InClass(c)}}
              /\ Chunks(r, c) = Chunks(m, c) \cup UNION {CutOf(r, c, i) : i \in {j \in {n} : d = InClass(c)}}
  <2>1. PICK S : S = {j \in {n} : d = InClass(c)}
    OBVIOUS
  <2>2. Cuts(r, c) = Cuts(m, c) \cup S
    BY <1>10, <2>1
  <2>3. Cuts(m, c) \subseteq Live(m)
    BY DEF Cuts
  <2>4. \A i \in Cuts(m, c) : From(r, i) = From(m, i) /\ CutOf(r, c, i) = CutOf(m, c, i)
    BY <1>3, <2>3 DEF CutOf
  <2>5. Firsts(r, c) = Firsts(m, c) \cup {From(r, i) : i \in S}
    BY <2>2, <2>4 DEF Firsts
  <2>6. Chunks(r, c) = Chunks(m, c) \cup UNION {CutOf(r, c, i) : i \in S}
    BY <2>2, <2>4 DEF Chunks
  <2> QED
    BY <2>1, <2>5, <2>6
<1>12. Directs(r) = Directs(m) \cup {From(r, i) : i \in {j \in {n} : d = Direct(n)}}
  <2>1. PICK S, A, B : /\ S = {j \in {n} : d = Direct(n)} /\ A = {j \in Live(m) \ {1} : KindOf(m, j) = Direct(j)}
                       /\ B = {j \in Live(r) \ {1} : KindOf(r, j) = Direct(j)}
    OBVIOUS
  <2>2. B = A \cup S
    BY <1>2, <1>5, <1>7, <1>9, <2>1
  <2>3. \A i \in A : From(r, i) = From(m, i)
    BY <1>3, <2>1
  <2>4. Directs(r) = {From(r, i) : i \in B} /\ Directs(m) = {From(m, i) : i \in A}
    BY <2>1 DEF Directs
  <2> QED
    BY <2>1, <2>2, <2>3, <2>4
<1> QED
  BY <1>2, <1>3, <1>5, <1>7, <1>8, <1>10, <1>11, <1>12

(* The words of the new fragment are none of the old chunks and lists, and *)
(* the old chunks keep their sizes.                                        *)
LEMMA AddsApart ==
  ASSUME NEW m, NEW U, NEW Fr, Good(m, U, Fr), NEW r, NEW n, NEW w, NEW d, Adds(m, r, Fr, n, w, d),
         \A c \in Classes : Cuts(m, c) # {} => r.per[c].chunkSize = Rounded(c)
  PROVE  /\ \A a \in Given(m) : /\ a \notin From(r, n)..UpTo(r, n) - 1
                                /\ Room(m, a) \cap (From(r, n)..UpTo(r, n) - 1) = {}
                                /\ GetSizeAtPtr(r, a) = GetSizeAtPtr(m, a)
         /\ \A c \in Classes : Firsts(m, c) \cap (From(r, n)..UpTo(r, n) - 1) = {}
<1>1. /\ m \in Allocator /\ PagesInv(m, Fr) /\ UserInv(m) /\ r \in Allocator /\ PagesInv(r, Fr)
  BY DEF Good, Adds
<1>2. /\ n \in Live(r)
      /\ \A i \in Live(m) : From(r, i) = From(m, i) /\ UpTo(r, i) = UpTo(m, i) /\ KindOf(r, i) = KindOf(m, i)
      /\ UserInv(r) /\ Live(r) = Live(m) \cup {n} /\ n \notin Live(m)
      /\ \A i \in Live(m) : r.frags[i] = m.frags[i]
  <2>1. /\ UserInv(r)
        /\ \A i \in Live(m) : From(r, i) = From(m, i) /\ UpTo(r, i) = UpTo(m, i) /\ KindOf(r, i) = KindOf(m, i)
    BY AddsFacts
  <2>2. /\ Live(r) = Live(m) \cup {n} /\ n \notin Live(m)
        /\ \A i \in Live(m) : r.frags[i] = m.frags[i]
    BY DEF Adds
  <2> QED
    BY <2>1, <2>2
<1>3. PICK lo, hi : lo = From(r, n) /\ hi = UpTo(r, n)
  OBVIOUS
<1>4. lo \in Nat /\ hi \in Nat /\ lo < hi
  BY <1>1, <1>2, <1>3, FragFacts
<1>5. \A i \in Live(m) : /\ From(m, i) \in Nat /\ UpTo(m, i) \in Nat /\ From(m, i) < UpTo(m, i)
                         /\ (UpTo(m, i) <= lo \/ hi <= From(m, i))
  <2>1. ASSUME NEW i \in Live(m)
        PROVE  UpTo(m, i) <= lo \/ hi <= From(m, i)
    <3>1. i \in Live(r) /\ i # n
      BY <1>2
    <3> QED
      BY <1>1, <1>2, <1>3, <3>1, FragsApart
  <2> QED
    BY <1>1, <2>1, FragFacts
<1>6. ASSUME NEW a \in Given(m)
      PROVE  /\ a \notin lo..hi - 1 /\ Room(m, a) \cap (lo..hi - 1) = {}
             /\ GetSizeAtPtr(r, a) = GetSizeAtPtr(m, a)
  <2>1. PICK i \in Live(m) \ {1} :
           /\ LiesIn(m, a, i) /\ a \in Addr \ {Null}
           /\ \/ KindOf(m, i) = Direct(i) /\ a = From(m, i) /\ m.user[PageOfAddr(a)] = Direct(i)
              \/ \E c \in Classes : /\ i \in Cuts(m, c) /\ a \in CutOf(m, c, i) /\ From(m, i) < a
                                    /\ m.user[PageOfAddr(a)] = InClass(c)
                                    /\ GetSizeAtPtr(m, a) = Rounded(c)
    BY Home
  <2>2. PICK s : s = GetSizeAtPtr(m, a)
    OBVIOUS
  <2>3. a \in Nat /\ s \in Nat \ {0} /\ From(m, i) <= a /\ a + s <= UpTo(m, i)
    BY <2>1, <2>2 DEF LiesIn
  <2>4. a \notin lo..hi - 1
    BY <1>4, <1>5, <2>3
  <2>5. Room(m, a) \cap (lo..hi - 1) = {}
    <3>1. \A x \in Room(m, a) : x \in Nat /\ a <= x /\ x < a + s
      BY <2>2 DEF Room, Addr
    <3> QED
      BY <1>4, <1>5, <2>3, <3>1
  <2>6. GetSizeAtPtr(r, a) = GetSizeAtPtr(m, a)
    <3>1. r.user[PageOfAddr(a)] = m.user[PageOfAddr(a)] /\ m.user[PageOfAddr(a)] = KindOf(m, i)
      <4>1. Told(m, i) /\ Told(r, i) /\ i \in Live(r)
        BY <1>1, <1>2, <2>1 DEF UserInv
      <4>2. a < UpTo(m, i)
        BY <1>5, <2>1, <2>3
      <4> QED
        BY <1>1, <1>2, <2>1, <2>3, <4>1, <4>2, FragWord
    <3>2. CASE KindOf(m, i) = Direct(i)
      <4>1. GetSizeAtPtr(r, a) = r.frags[i].size /\ GetSizeAtPtr(m, a) = m.frags[i].size
        BY <3>1, <3>2 DEF GetSizeAtPtr, Direct
      <4> QED
        BY <1>2, <2>1, <4>1
    <3>3. CASE KindOf(m, i) # Direct(i)
      <4>1. PICK c \in Classes : i \in Cuts(m, c) /\ m.user[PageOfAddr(a)] = InClass(c) /\ GetSizeAtPtr(m, a) = Rounded(c)
        BY <2>1, <3>3
      <4>2. r.per[c].chunkSize = Rounded(c)
        BY <4>1
      <4>3. GetSizeAtPtr(r, a) = r.per[c].chunkSize
        BY <3>1, <4>1 DEF GetSizeAtPtr, InClass
      <4> QED
        BY <4>1, <4>2, <4>3
    <3> QED
      BY <3>2, <3>3
  <2> QED
    BY <2>4, <2>5, <2>6
<1>7. ASSUME NEW c \in Classes, NEW x \in Firsts(m, c)
      PROVE  x \notin lo..hi - 1
  <2>1. PICK i \in Cuts(m, c) : x = From(m, i)
    BY <1>7 DEF Firsts
  <2>2. i \in Live(m)
    BY <2>1 DEF Cuts
  <2> QED
    BY <1>4, <1>5, <2>1, <2>2
<1> QED
  BY <1>3, <1>6, <1>7

\* g has one fragment more than m, the n-th, of w words; it tells d in r
Grown(m, Fr, w, high, g, n) ==
  /\ m \in Allocator /\ PagesInv(m, Fr) /\ w \in Nat \ {0}
  /\ g = GrowSpace(m, w, high) /\ g.panics = {} /\ n = Len(g.frags)
Marked(g, n, w, d, r) == d \in Data /\ Tells(d, n, w) /\ r = SetUserData(g, g.frags[n].page, w, d)

(* A fragment with what its pages tell.                                    *)
LEMMA TellFacts ==
  ASSUME NEW m, NEW Fr, NEW w, NEW high, NEW g, NEW n, Grown(m, Fr, w, high, g, n),
         NEW d, NEW r, Marked(g, n, w, d, r)
  PROVE  /\ Adds(m, r, Fr, n, w, d) /\ m.panics = {} /\ r.panics = {}
         /\ r.mem = m.mem /\ r.per = m.per /\ r.frags = g.frags
         /\ From(r, n) = g.frags[n].page * PageWords
<1>0. /\ m \in Allocator /\ PagesInv(m, Fr) /\ w \in Nat \ {0}
      /\ g = GrowSpace(m, w, high) /\ g.panics = {} /\ n = Len(g.frags)
      /\ d \in Data /\ Tells(d, n, w) /\ r = SetUserData(g, g.frags[n].page, w, d)
  BY DEF Grown, Marked
<1>1. PICK k : k = Len(m.frags) + 1
  OBVIOUS
<1>2. /\ g \in Allocator /\ m.panics = {} /\ PagesInv(g, Fr)
      /\ g.mem = m.mem /\ g.per = m.per /\ g.user = m.user
      /\ k \in Nat /\ Len(g.frags) = k /\ k \notin Live(m) /\ Live(g) = Live(m) \cup {k}
      /\ \A i \in Live(m) : g.frags[i] = m.frags[i]
      /\ g.frags[k].size = w
  BY <1>0, <1>1, GrowFacts
<1>3. n = k
  BY <1>0, <1>2
<1>4. PICK p : p = PageAt(g, n)
  OBVIOUS
<1>5. p \in Nat /\ NrOf(g, n) = PagesOf(w) /\ NrOf(g, n) \in Nat
  BY <1>0, <1>2, <1>3, <1>4, FragFacts DEF NrOf
<1>6. g.user \in [0..NrPages - 1 -> Data]
  BY <1>2 DEF Allocator
<1>7. PICK u : u = [q \in 0..NrPages - 1 |-> IF p <= q /\ (q - p) * PageWords < w THEN d ELSE g.user[q]]
  OBVIOUS
<1>8. u \in [0..NrPages - 1 -> Data]
  BY <1>0, <1>6, <1>7
<1>9. r = [g EXCEPT !.user = u]
  <2>1. r = [g EXCEPT !.user = [q \in DOMAIN g.user |-> IF p <= q /\ (q - p) * PageWords < w THEN d ELSE g.user[q]]]
    BY <1>0, <1>4 DEF SetUserData, PageAt
  <2>2. DOMAIN g.user = 0..NrPages - 1
    BY <1>6
  <2> QED
    BY <1>7, <2>1, <2>2
<1>10. /\ r \in Allocator /\ r.mem = m.mem /\ r.per = m.per /\ r.frags = g.frags /\ r.user = u
       /\ r.blocks = g.blocks /\ r.panics = {}
  BY <1>0, <1>2, <1>8, <1>9 DEF Allocator
<1>11. Live(r) = Live(g) /\ \A i : /\ PageAt(r, i) = PageAt(g, i) /\ NrOf(r, i) = NrOf(g, i)
                                   /\ Block(r, i) = Block(g, i)
  BY <1>10 DEF Live, PageAt, NrOf, Block
<1>12. PagesInv(r, Fr)
  BY <1>2, <1>10, <1>11 DEF PagesInv
<1>13. ASSUME NEW q \in 0..NrPages - 1
       PROVE  r.user[q] = IF PageAt(r, n) <= q /\ q < PageAt(r, n) + NrOf(r, n) THEN d ELSE m.user[q]
  <2>1. r.user[q] = IF p <= q /\ (q - p) * PageWords < w THEN d ELSE m.user[q]
    <3>1. u[q] = IF p <= q /\ (q - p) * PageWords < w THEN d ELSE g.user[q]
      BY <1>7
    <3> QED
      BY <1>2, <1>10, <3>1
  <2>2. p <= q => ((q - p) * PageWords < w <=> q < p + NrOf(g, n))
    <3>1. CASE p <= q
      <4>1. q - p \in Nat
        BY <1>5, <3>1
      <4>2. (q - p) * PageWords < w <=> q - p < NrOf(g, n)
        BY <1>0, <1>5, <4>1, PagesFacts
      <4> QED
        BY <1>5, <4>2
    <3> QED
      BY <3>1
  <2>3. PageAt(r, n) = p /\ NrOf(r, n) = NrOf(g, n)
    BY <1>4, <1>11
  <2> QED
    BY <2>1, <2>2, <2>3
<1>14. Adds(m, r, Fr, n, w, d)
  BY <1>0, <1>2, <1>3, <1>10, <1>11, <1>12, <1>13 DEF Adds
<1>15. From(r, n) = g.frags[n].page * PageWords
  BY <1>11 DEF From, PageAt
<1> QED
  BY <1>2, <1>10, <1>14, <1>15

(* A chunk that is a fragment of its own.                                  *)
LEMMA DirectGood ==
  ASSUME NEW m, NEW U, NEW Fr, Good(m, U, Fr), NEW w \in Nat \ {0}, NEW high,
         NEW r, r = AllocDirect(m, w, high), r.m.panics = {}
  PROVE  /\ Good(r.m, U \cup {r.at}, Fr) /\ Keeps(m, r.m, U)
         /\ r.at \notin U /\ GetSizeAtPtr(r.m, r.at) = w
<1>1. /\ m \in Allocator /\ m.panics = {} /\ PagesInv(m, Fr) /\ UserInv(m)
      /\ \A c \in Classes : ClassInv(m, c, U)
      /\ Directs(m) \subseteq U /\ U \subseteq Given(m)
  BY DEF Good
<1>2. PICK g, n : g = GrowSpace(m, w, high) /\ n = Len(g.frags)
  OBVIOUS
<1>3. PICK s : s = SetUserData(g, g.frags[n].page, w, Direct(n))
  OBVIOUS
<1>4. r = [m |-> s, at |-> g.frags[n].page * PageWords]
  <2>1. PICK S : S = { [m |-> SetUserData(x, x.frags[Len(x.frags)].page, w, Direct(Len(x.frags))),
                        at |-> x.frags[Len(x.frags)].page * PageWords] : x \in {g} }
    OBVIOUS
  <2>2. S = {[m |-> s, at |-> g.frags[n].page * PageWords]}
    BY <1>2, <1>3, <2>1
  <2>3. r = The(S)
    BY <1>2, <2>1 DEF AllocDirect
  <2> QED
    BY <2>2, <2>3, TheOne
<1>5. g.panics = {} /\ n \in Nat
  <2>1. s.panics = {}
    BY <1>4
  <2>2. s.panics = g.panics
    BY <1>3 DEF SetUserData
  <2>3. g.panics = {}
    BY <2>1, <2>2
  <2>4. PICK k : k = Len(m.frags) + 1
    OBVIOUS
  <2> QED
    BY <1>1, <1>2, <2>3, <2>4, GrowFacts
<1>6. Direct(n) \in Data /\ Tells(Direct(n), n, w)
  BY <1>5 DEF Data, Direct, Tells
<1>7. /\ Adds(m, s, Fr, n, w, Direct(n)) /\ s.panics = {}
      /\ s.mem = m.mem /\ s.per = m.per /\ r.at = From(s, n)
  <2>1. Grown(m, Fr, w, high, g, n) /\ Marked(g, n, w, Direct(n), s)
    BY <1>1, <1>2, <1>3, <1>5, <1>6 DEF Grown, Marked
  <2> QED
    BY <1>4, <2>1, TellFacts
<1>8. /\ UserInv(s) /\ KindOf(s, n) = Direct(n) /\ n \in Live(s) \ {1}
      /\ \A c \in Classes : /\ Cuts(s, c) = Cuts(m, c) /\ Firsts(s, c) = Firsts(m, c) /\ Chunks(s, c) = Chunks(m, c)
      /\ Directs(s) = Directs(m) \cup {r.at}
  <2>1. \A c \in Classes : Direct(n) # InClass(c)
    BY DEF Direct, InClass
  <2>2. \A c \in Classes : {i \in {n} : Direct(n) = InClass(c)} = {}
    BY <2>1
  <2>3. {j \in {n} : Direct(n) = Direct(n)} = {n}
    OBVIOUS
  <2>4. /\ UserInv(s) /\ KindOf(s, n) = Direct(n) /\ n \in Live(s) \ {1}
        /\ \A c \in Classes : /\ Cuts(s, c) = Cuts(m, c) \cup {i \in {n} : Direct(n) = InClass(c)}
                              /\ Firsts(s, c) = Firsts(m, c) \cup {From(s, i) : i \in {j \in {n} : Direct(n) = InClass(c)}}
                              /\ Chunks(s, c) = Chunks(m, c) \cup UNION {CutOf(s, c, i) : i \in {j \in {n} : Direct(n) = InClass(c)}}
        /\ Directs(s) = Directs(m) \cup {From(s, i) : i \in {j \in {n} : Direct(n) = Direct(n)}}
    BY <1>7, AddsFacts
  <2>5. ASSUME NEW c \in Classes
        PROVE  Cuts(s, c) = Cuts(m, c) /\ Firsts(s, c) = Firsts(m, c) /\ Chunks(s, c) = Chunks(m, c)
    <3>1. PICK S : S = {j \in {n} : Direct(n) = InClass(c)}
      OBVIOUS
    <3>2. S = {}
      BY <2>2, <3>1
    <3>3. /\ Cuts(s, c) = Cuts(m, c) \cup S
          /\ Firsts(s, c) = Firsts(m, c) \cup {From(s, i) : i \in S}
          /\ Chunks(s, c) = Chunks(m, c) \cup UNION {CutOf(s, c, i) : i \in S}
      BY <2>4, <3>1
    <3> QED
      BY <3>2, <3>3
  <2>6. Directs(s) = Directs(m) \cup {r.at}
    BY <1>7, <2>3, <2>4
  <2> QED
    BY <2>4, <2>5, <2>6
<1>9. /\ s \in Allocator /\ PagesInv(s, Fr) /\ s.frags[n].size = w
  BY <1>7 DEF Adds
<1>10. Given(s) = Given(m) \cup {r.at}
  BY <1>8 DEF Given
<1>11. r.at \in From(s, n)..UpTo(s, n) - 1
  <2>1. From(s, n) \in Nat /\ UpTo(s, n) \in Nat /\ From(s, n) < UpTo(s, n)
    BY <1>8, <1>9, FragFacts
  <2> QED
    BY <1>7, <2>1
<1>12. /\ \A a \in Given(m) : /\ a \notin From(s, n)..UpTo(s, n) - 1
                              /\ GetSizeAtPtr(s, a) = GetSizeAtPtr(m, a)
  <2>1. \A c \in Classes : Cuts(m, c) # {} => s.per[c].chunkSize = Rounded(c)
    BY <1>1, <1>7 DEF ClassInv
  <2> QED
    BY <1>7, <2>1, AddsApart
<1>13. r.at \notin Given(m)
  BY <1>11, <1>12
<1>14. \A c \in Classes : ClassInv(s, c, U \cup {r.at})
  <2>1. \A c \in Classes : Chunks(m, c) \ (U \cup {r.at}) = Chunks(m, c) \ U
    BY <1>13 DEF Given
  <2> QED
    BY <1>1, <1>7, <1>8, <2>1 DEF ClassInv
<1>15. Good(s, U \cup {r.at}, Fr)
  BY <1>1, <1>7, <1>8, <1>9, <1>10, <1>14 DEF Good
<1>16. Keeps(m, s, U)
  BY <1>1, <1>7, <1>12 DEF Keeps
<1>17. GetSizeAtPtr(s, r.at) = w
  BY <1>7, <1>8, <1>9, DirectHome
<1> QED
  BY <1>1, <1>4, <1>13, <1>15, <1>16, <1>17

(* Taking the first of the free chunks of a class.                         *)
LEMMA PopGood ==
  ASSUME NEW m, NEW U, NEW Fr, Good(m, U, Fr), NEW c \in Classes, m.per[c].free # Null,
         NEW at, at = m.per[c].free, NEW r, r = [m EXCEPT !.per[c].free = m.mem[at]]
  PROVE  /\ Good(r, U \cup {at}, Fr) /\ Keeps(m, r, U)
         /\ at \notin U /\ GetSizeAtPtr(r, at) = Rounded(c)
<1>1. /\ m \in Allocator /\ m.panics = {} /\ PagesInv(m, Fr) /\ UserInv(m)
      /\ \A d \in Classes : ClassInv(m, d, U)
      /\ Directs(m) \subseteq U /\ U \subseteq Given(m)
  BY DEF Good
<1>2. \A d \in Classes : Cuts(m, d) # {} => m.per[d].chunkSize = Rounded(d)
  BY <1>1 DEF ClassInv
<1>3. at \in Chunks(m, c) \ U /\ IsList(m.mem, m.mem[at], (Chunks(m, c) \ U) \ {at})
  BY <1>1, ListPop DEF ClassInv
<1>4. at \in Given(m)
  BY <1>3 DEF Given
<1>5. at \in Addr
  BY <1>4, RoomsApart
<1>6. PICK h : h = m.mem[at]
  OBVIOUS
<1>7. h \in Int
  BY <1>1, <1>5, <1>6 DEF Allocator
<1>8. m.per \in [Classes -> [free : Int, pages : Int, chunkSize : Nat]]
  BY <1>1 DEF Allocator
<1>9. PICK P : P = [m.per EXCEPT ![c] = [m.per[c] EXCEPT !.free = h]]
  OBVIOUS
<1>10. /\ P \in [Classes -> [free : Int, pages : Int, chunkSize : Nat]]
       /\ \A d \in Classes : P[d].pages = m.per[d].pages /\ P[d].chunkSize = m.per[d].chunkSize
       /\ \A d \in Classes : d # c => P[d].free = m.per[d].free
       /\ P[c].free = h
  BY <1>7, <1>8, <1>9
<1>11. r = [m EXCEPT !.per = P]
  BY <1>6, <1>9
<1>12. /\ r \in Allocator /\ r.mem = m.mem /\ r.panics = m.panics /\ r.frags = m.frags /\ r.user = m.user
       /\ r.per = P /\ r.blocks = m.blocks
  BY <1>1, <1>10, <1>11 DEF Allocator
<1>13. /\ PagesInv(r, Fr) /\ UserInv(r) /\ Directs(r) = Directs(m) /\ Given(r) = Given(m)
       /\ \A d : /\ Cuts(r, d) = Cuts(m, d) /\ Firsts(r, d) = Firsts(m, d) /\ Chunks(r, d) = Chunks(m, d)
  <2>1. Alike(m, r)
    BY <1>12 DEF Alike
  <2> QED
    BY <1>1, <2>1, SamePages
<1>14. ASSUME NEW d \in Classes
       PROVE  ClassInv(r, d, U \cup {at})
  <2>1. ClassInv(m, d, U)
    BY <1>1
  <2>2. CASE d = c
    <3>1. Chunks(m, c) \ (U \cup {at}) = (Chunks(m, c) \ U) \ {at}
      OBVIOUS
    <3>2. r.per[c].free = m.mem[at] /\ r.per[c].pages = m.per[c].pages /\ r.per[c].chunkSize = m.per[c].chunkSize
      BY <1>6, <1>10, <1>12
    <3>3. Cuts(r, c) # {} => r.per[c].chunkSize = Rounded(c)
      BY <1>2, <1>13, <3>2
    <3>4. IsList(r.mem, r.per[c].pages, Firsts(r, c))
      BY <1>12, <1>13, <2>1, <2>2, <3>2 DEF ClassInv
    <3>5. IsList(r.mem, r.per[c].free, Chunks(r, c) \ (U \cup {at}))
      BY <1>3, <1>12, <1>13, <3>1, <3>2
    <3> QED
      BY <2>2, <3>3, <3>4, <3>5 DEF ClassInv
  <2>3. CASE d # c
    <3>1. at \notin Chunks(m, d)
      <4>1. PICK i \in Cuts(m, c) : at \in CutOf(m, c, i)
        BY <1>3 DEF Chunks
      <4>2. m.user[PageOfAddr(at)] = InClass(c)
        BY <1>2, <1>1, <4>1, ChunkHome
      <4>3. ASSUME at \in Chunks(m, d)
            PROVE  FALSE
        <5>1. PICK j \in Cuts(m, d) : at \in CutOf(m, d, j)
          BY <4>3 DEF Chunks
        <5>2. m.user[PageOfAddr(at)] = InClass(d)
          BY <1>2, <1>1, <5>1, ChunkHome
        <5> QED
          BY <2>3, <4>2, <5>2 DEF InClass
      <4> QED
        BY <4>3
    <3>2. Chunks(m, d) \ (U \cup {at}) = Chunks(m, d) \ U
      BY <3>1
    <3> QED
      BY <1>10, <1>12, <1>13, <2>1, <2>3, <3>2 DEF ClassInv
  <2> QED
    BY <2>2, <2>3
<1>15. Good(r, U \cup {at}, Fr)
  BY <1>1, <1>4, <1>12, <1>13, <1>14 DEF Good
<1>16. \A a \in Given(m) : GetSizeAtPtr(r, a) = GetSizeAtPtr(m, a)
  <2>1. ASSUME NEW a \in Given(m)
        PROVE  GetSizeAtPtr(r, a) = GetSizeAtPtr(m, a)
    <3>1. m.user[PageOfAddr(a)].kind = "direct" \/ m.user[PageOfAddr(a)].inx \in Classes
      <4>1. \/ \E i : m.user[PageOfAddr(a)] = Direct(i)
            \/ \E d \in Classes : m.user[PageOfAddr(a)] = InClass(d)
        BY Home
      <4>2. ASSUME NEW i, m.user[PageOfAddr(a)] = Direct(i)
            PROVE  m.user[PageOfAddr(a)].kind = "direct"
        BY <4>2 DEF Direct
      <4>3. ASSUME NEW d \in Classes, m.user[PageOfAddr(a)] = InClass(d)
            PROVE  m.user[PageOfAddr(a)].inx \in Classes
        BY <4>3 DEF InClass
      <4> QED
        BY <4>1, <4>2, <4>3
    <3> QED
      BY <1>10, <1>12, <3>1 DEF GetSizeAtPtr
  <2> QED
    BY <2>1
<1>17. Keeps(m, r, U)
  BY <1>1, <1>12, <1>16 DEF Keeps
<1>18. GetSizeAtPtr(m, at) = Rounded(c)
  <2>1. PICK i \in Cuts(m, c) : at \in CutOf(m, c, i)
    BY <1>3 DEF Chunks
  <2> QED
    BY <1>2, <1>1, <2>1, ChunkHome
<1> QED
  BY <1>3, <1>4, <1>15, <1>16, <1>17, <1>18

\* What the code has found out of the class c for a size
ClassRec(k, c) == k.inx = c /\ k.log = LogOf(c) /\ k.rounded = Rounded(c)

(* New pages for a class without free chunks.                              *)
LEMMA RefillGood ==
  ASSUME NEW m, NEW U, NEW Fr, Good(m, U, Fr), NEW c \in Classes, m.per[c].free = Null,
         NEW k, ClassRec(k, c), NEW high, NEW r, r = Refill(m, k, high), r.panics = {}
  PROVE  Good(r, U, Fr) /\ Keeps(m, r, U) /\ r.per[c].free # Null
<1>1. /\ m \in Allocator /\ m.panics = {} /\ PagesInv(m, Fr) /\ UserInv(m)
      /\ \A d \in Classes : ClassInv(m, d, U)
      /\ Directs(m) \subseteq U /\ U \subseteq Given(m)
  BY DEF Good
<1>2. PICK w : w = Pow2[LogOf(c)] * PageWords
  OBVIOUS
<1>3. w \in Nat \ {0}
  BY <1>2, ClassFacts, Constants
<1>4. PICK g, n, p : g = GrowSpace(m, w, high) /\ n = Len(g.frags) /\ p = g.frags[n].page
  OBVIOUS
<1>5. PICK x, s : x = CutChunks(g, k) /\ s = SetUserData(g, p, w, InClass(c))
  OBVIOUS
<1>6. r = SetUserData(x, p, w, InClass(c))
  <2>1. PICK S : S = { SetUserData(CutChunks(y, k), y.frags[Len(y.frags)].page, Pow2[k.log] * PageWords, InClass(k.inx))
                         : y \in {GrowSpace(m, Pow2[k.log] * PageWords, high)} }
    OBVIOUS
  <2>2. k.inx = c /\ GrowSpace(m, Pow2[k.log] * PageWords, high) = g /\ Pow2[k.log] * PageWords = w
    BY <1>2, <1>4 DEF ClassRec
  <2>3. S = {SetUserData(x, p, w, InClass(c))}
    BY <1>4, <1>5, <2>1, <2>2
  <2>4. r = The(S)
    BY <2>1 DEF Refill
  <2> QED
    BY <2>3, <2>4, TheOne
<1>7. PICK first, C : first = p * PageWords /\ C = ChunksOf(PageOfAddr(first), LogOf(c), Rounded(c))
  OBVIOUS
<1>8. PICK P, M : /\ P = [g.per EXCEPT ![c] = [free |-> first + 1, pages |-> first, chunkSize |-> Rounded(c)]]
                  /\ M = [a \in DOMAIN g.mem |->
                            IF a = first THEN g.per[c].pages
                            ELSE IF a \in C THEN IF a + Rounded(c) \in C THEN a + Rounded(c) ELSE Null
                            ELSE g.mem[a]]
  OBVIOUS
<1>9. x = [g EXCEPT !.per = P, !.mem = M]
  <2>1. k.inx = c /\ k.log = LogOf(c) /\ k.rounded = Rounded(c)
    BY DEF ClassRec
  <2>2. x = [g EXCEPT !.per[c] = [free |-> first + 1, pages |-> first, chunkSize |-> Rounded(c)],
                      !.mem = M]
    <3>1. x = LET f == g.frags[Len(g.frags)].page * PageWords
                  chunks == ChunksOf(PageOfAddr(f), k.log, k.rounded)
              IN  [g EXCEPT !.per[k.inx] = [free |-> f + 1, pages |-> f, chunkSize |-> k.rounded],
                            !.mem = [a \in DOMAIN @ |->
                               IF a = f THEN g.per[k.inx].pages
                               ELSE IF a \in chunks
                                    THEN IF a + k.rounded \in chunks THEN a + k.rounded ELSE Null
                                    ELSE @[a]]]
      BY <1>5 DEF CutChunks
    <3> QED
      BY <1>4, <1>7, <1>8, <2>1, <3>1
  <2> QED
    BY <1>8, <2>2
<1>10. r = [s EXCEPT !.per = P, !.mem = M]
  <2>1. PICK u : u = [q \in DOMAIN g.user |-> IF p <= q /\ (q - p) * PageWords < w THEN InClass(c) ELSE g.user[q]]
    OBVIOUS
  <2>2. x.user = g.user
    BY <1>9
  <2>3. s = [g EXCEPT !.user = u]
    BY <1>5, <2>1 DEF SetUserData
  <2>4. r = [x EXCEPT !.user = u]
    BY <1>6, <2>1, <2>2 DEF SetUserData
  <2> QED
    BY <1>9, <2>3, <2>4
<1>11. g.panics = {}
  <2>1. s.panics = {}
    BY <1>10
  <2>2. s.panics = g.panics
    BY <1>5 DEF SetUserData
  <2> QED
    BY <2>1, <2>2
<1>12. /\ Adds(m, s, Fr, n, w, InClass(c)) /\ s.panics = {}
       /\ s.mem = m.mem /\ s.per = m.per /\ s.frags = g.frags /\ From(s, n) = first
  <2>1. Grown(m, Fr, w, high, g, n)
    BY <1>1, <1>3, <1>4, <1>11 DEF Grown
  <2>2. InClass(c) \in Data /\ Tells(InClass(c), n, w)
    BY <1>2 DEF Data, InClass, Classes, Tells
  <2>3. Marked(g, n, w, InClass(c), s)
    BY <1>4, <1>5, <2>2 DEF Marked
  <2> QED
    BY <1>4, <1>7, <2>1, <2>3, TellFacts
<1>13. g.mem = m.mem /\ g.per = m.per /\ m.mem \in [Addr -> Int]
       /\ m.per \in [Classes -> [free : Int, pages : Int, chunkSize : Nat]]
  <2>1. PICK j : j = Len(m.frags) + 1
    OBVIOUS
  <2>2. g.mem = m.mem /\ g.per = m.per
    BY <1>1, <1>3, <1>4, <1>11, <2>1, GrowFacts
  <2> QED
    BY <1>1, <2>2 DEF Allocator
<1>14. s \in Allocator /\ PagesInv(s, Fr) /\ n \in Live(s) \ {1} /\ NrOf(s, n) = Pow2[LogOf(c)] /\ PageAt(s, n) = p
  <2>1. s \in Allocator /\ PagesInv(s, Fr) /\ s.frags[n].size = w
    BY <1>12 DEF Adds
  <2>2. n \in Live(s) \ {1}
    BY <1>12, AddsFacts
  <2>3. NrOf(s, n) = Pow2[LogOf(c)]
    BY <1>2, <2>1, ClassFacts, WholePages DEF NrOf
  <2> QED
    BY <1>4, <1>12, <2>1, <2>2, <2>3 DEF PageAt
<1>15. p \in Nat \ {0} /\ first \in Nat \ {0} /\ UpTo(s, n) = first + w /\ first + w <= NrPages * PageWords
  BY <1>2, <1>12, <1>14, FragFacts, Constants
<1>16. PageOfAddr(first) = p
  <2>1. PageOfAddr(first) \in Nat /\ \A q \in Nat : q <= PageOfAddr(first) <=> q * PageWords <= first
    BY <1>15, PageOf
  <2>2. p <= PageOfAddr(first)
    BY <1>7, <1>15, <2>1
  <2>3. ~ (p + 1 <= PageOfAddr(first))
    <3>1. (p + 1) * PageWords = first + PageWords
      BY <1>7, <1>15, Constants
    <3>2. ~ ((p + 1) * PageWords <= first)
      BY <1>15, <3>1, Constants
    <3> QED
      BY <1>15, <2>1, <3>2
  <2> QED
    BY <1>15, <2>1, <2>2, <2>3
<1>17. C = ChunksOf(p, LogOf(c), Rounded(c))
  BY <1>7, <1>16
<1>18. /\ first + 1 \in C
       /\ \A a \in C : a \in Nat /\ first < a /\ a + Rounded(c) <= first + w
  BY <1>2, <1>7, <1>15, <1>17, ChunksFacts
<1>19. Rounded(c) \in Nat \ {0}
  BY ClassFacts
<1>20. C \subseteq first..first + w - 1 /\ first \in first..first + w - 1 /\ first \notin C
  <2>1. \A a \in C : a \in first..first + w - 1 /\ a # first
    BY <1>3, <1>15, <1>18, <1>19
  <2> QED
    BY <1>3, <1>15, <2>1
<1>21. first..first + w - 1 \subseteq Addr
  <2>1. PICK z : z = NrPages * PageWords
    OBVIOUS
  <2>2. z \in Nat /\ first + w <= z
    BY <1>15, <2>1, Constants
  <2> QED
    BY <1>3, <1>15, <2>1, <2>2 DEF Addr
<1>22. /\ M \in [Addr -> Int] /\ M[first] = m.per[c].pages
       /\ \A a \in C : M[a] = IF a + Rounded(c) \in C THEN a + Rounded(c) ELSE Null
       /\ \A a \in Addr \ (first..first + w - 1) : M[a] = m.mem[a]
  <2>1. M = [a \in Addr |-> IF a = first THEN m.per[c].pages
                            ELSE IF a \in C THEN IF a + Rounded(c) \in C THEN a + Rounded(c) ELSE Null
                            ELSE m.mem[a]]
    BY <1>8, <1>13
  <2>2. m.per[c].pages \in Int /\ Null \in Int /\ \A a \in C : a + Rounded(c) \in Int
    BY <1>13, <1>18, <1>19 DEF Null
  <2>3. M \in [Addr -> Int]
    BY <1>13, <2>1, <2>2
  <2>4. first \in Addr /\ C \subseteq Addr
    BY <1>20, <1>21
  <2> QED
    BY <1>20, <2>1, <2>3, <2>4
<1>23. /\ P \in [Classes -> [free : Int, pages : Int, chunkSize : Nat]]
       /\ \A d \in Classes : d # c => P[d] = m.per[d]
       /\ P[c].free = first + 1 /\ P[c].pages = first /\ P[c].chunkSize = Rounded(c)
  <2>1. PICK e : e = [free |-> first + 1, pages |-> first, chunkSize |-> Rounded(c)]
    OBVIOUS
  <2>2. e \in [free : Int, pages : Int, chunkSize : Nat] /\ e.free = first + 1 /\ e.pages = first /\ e.chunkSize = Rounded(c)
    BY <1>15, <1>19, <2>1
  <2> QED
    BY <1>8, <1>13, <2>1, <2>2
<1>24. /\ r \in Allocator /\ r.mem = M /\ r.per = P /\ r.panics = {}
       /\ r.frags = s.frags /\ r.user = s.user /\ r.blocks = s.blocks
  BY <1>10, <1>12, <1>14, <1>22, <1>23 DEF Allocator
<1>25. /\ Live(r) = Live(s) /\ PagesInv(r, Fr)
       /\ \A i : PageAt(r, i) = PageAt(s, i) /\ NrOf(r, i) = NrOf(s, i) /\ From(r, i) = From(s, i) /\ UpTo(r, i) = UpTo(s, i)
  <2>1. Alike(s, r)
    BY <1>24 DEF Alike
  <2> QED
    BY <1>14, <2>1, SamePages
<1>26. Adds(m, r, Fr, n, w, InClass(c))
  BY <1>12, <1>24, <1>25 DEF Adds
<1>27. CutOf(r, c, n) = C /\ From(r, n) = first /\ UpTo(r, n) = first + w
  BY <1>12, <1>14, <1>15, <1>17, <1>25 DEF CutOf
<1>28. /\ UserInv(r) /\ Directs(r) = Directs(m)
       /\ \A d \in Classes : d # c => /\ Cuts(r, d) = Cuts(m, d) /\ Firsts(r, d) = Firsts(m, d)
                                      /\ Chunks(r, d) = Chunks(m, d)
       /\ Firsts(r, c) = Firsts(m, c) \cup {first} /\ Chunks(r, c) = Chunks(m, c) \cup C
  <2>1. /\ UserInv(r)
        /\ \A d \in Classes : /\ Cuts(r, d) = Cuts(m, d) \cup {i \in {n} : InClass(c) = InClass(d)}
                              /\ Firsts(r, d) = Firsts(m, d) \cup {From(r, i) : i \in {j \in {n} : InClass(c) = InClass(d)}}
                              /\ Chunks(r, d) = Chunks(m, d) \cup UNION {CutOf(r, d, i) : i \in {j \in {n} : InClass(c) = InClass(d)}}
        /\ Directs(r) = Directs(m) \cup {From(r, i) : i \in {j \in {n} : InClass(c) = Direct(n)}}
    BY <1>26, AddsFacts
  <2>2. Directs(r) = Directs(m)
    <3>1. InClass(c) # Direct(n)
      BY DEF InClass, Direct
    <3> QED
      BY <2>1, <3>1
  <2>3. ASSUME NEW d \in Classes, d # c
        PROVE  Cuts(r, d) = Cuts(m, d) /\ Firsts(r, d) = Firsts(m, d) /\ Chunks(r, d) = Chunks(m, d)
    <3>1. PICK S : S = {j \in {n} : InClass(c) = InClass(d)}
      OBVIOUS
    <3>2. InClass(c) # InClass(d)
      BY <2>3 DEF InClass
    <3>3. S = {}
      BY <3>1, <3>2
    <3>4. /\ Cuts(r, d) = Cuts(m, d) \cup S
          /\ Firsts(r, d) = Firsts(m, d) \cup {From(r, i) : i \in S}
          /\ Chunks(r, d) = Chunks(m, d) \cup UNION {CutOf(r, d, i) : i \in S}
      BY <2>1, <3>1
    <3> QED
      BY <3>3, <3>4
  <2>4. Firsts(r, c) = Firsts(m, c) \cup {first} /\ Chunks(r, c) = Chunks(m, c) \cup C
    <3>1. PICK S : S = {j \in {n} : InClass(c) = InClass(c)}
      OBVIOUS
    <3>2. S = {n}
      BY <3>1
    <3>3. /\ Firsts(r, c) = Firsts(m, c) \cup {From(r, i) : i \in S}
          /\ Chunks(r, c) = Chunks(m, c) \cup UNION {CutOf(r, c, i) : i \in S}
      BY <2>1, <3>1
    <3> QED
      BY <1>27, <3>2, <3>3
  <2> QED
    BY <2>1, <2>2, <2>3, <2>4
<1>29. /\ \A a \in Given(m) : /\ a \notin first..first + w - 1
                              /\ Room(m, a) \cap (first..first + w - 1) = {}
                              /\ GetSizeAtPtr(r, a) = GetSizeAtPtr(m, a)
       /\ \A d \in Classes : Firsts(m, d) \cap (first..first + w - 1) = {}
  <2>1. \A d \in Classes : Cuts(m, d) # {} => r.per[d].chunkSize = Rounded(d)
    BY <1>1, <1>23, <1>24 DEF ClassInv
  <2>2. /\ \A a \in Given(m) : /\ a \notin From(r, n)..UpTo(r, n) - 1
                                /\ Room(m, a) \cap (From(r, n)..UpTo(r, n) - 1) = {}
                                /\ GetSizeAtPtr(r, a) = GetSizeAtPtr(m, a)
        /\ \A d \in Classes : Firsts(m, d) \cap (From(r, n)..UpTo(r, n) - 1) = {}
    BY <1>26, <2>1, AddsApart
  <2>3. PICK I : I = From(r, n)..UpTo(r, n) - 1
    OBVIOUS
  <2>4. I = first..first + w - 1
    BY <1>3, <1>15, <1>27, <2>3
  <2>5. /\ \A a \in Given(m) : a \notin I /\ Room(m, a) \cap I = {} /\ GetSizeAtPtr(r, a) = GetSizeAtPtr(m, a)
        /\ \A d \in Classes : Firsts(m, d) \cap I = {}
    BY <2>2, <2>3, Zenon
  <2> QED
    BY <2>4, <2>5, Zenon
<1>30. ASSUME NEW d \in Classes
       PROVE  /\ Firsts(m, d) \subseteq Addr
              /\ \A a \in Firsts(m, d) \cup Chunks(m, d) : M[a] = m.mem[a]
  <2>1. Chunks(m, d) \subseteq Given(m)
    BY DEF Given
  <2>2. Chunks(m, d) \subseteq Addr
    BY <2>1, RoomsApart
  <2>3. Firsts(m, d) \subseteq Addr
    <3>1. ASSUME NEW y \in Firsts(m, d)
          PROVE  y \in Addr
      <4>1. PICK i \in Cuts(m, d) : y = From(m, i)
        BY DEF Firsts
      <4>2. i \in Live(m) /\ Told(m, i)
        BY <1>1, <4>1 DEF Cuts, UserInv
      <4>3. y \in Nat /\ From(m, i) <= y /\ y < UpTo(m, i)
        BY <1>1, <4>1, <4>2, FragFacts
      <4> QED
        BY <1>1, <4>2, <4>3, FragWord
    <3> QED
      BY <3>1
  <2> QED
    BY <1>22, <1>29, <2>1, <2>2, <2>3
<1>31. ASSUME NEW d \in Classes, d # c
       PROVE  ClassInv(r, d, U)
  <2>1. ClassInv(m, d, U)
    BY <1>1
  <2>2. IsList(M, m.per[d].pages, Firsts(m, d))
    BY <1>30, <2>1, ListFrame DEF ClassInv
  <2>3. IsList(M, m.per[d].free, Chunks(m, d) \ U)
    BY <1>30, <2>1, ListFrame DEF ClassInv
  <2> QED
    BY <1>23, <1>24, <1>28, <1>31, <2>1, <2>2, <2>3 DEF ClassInv
<1>32. ClassInv(r, c, U)
  <2>1. ClassInv(m, c, U)
    BY <1>1
  <2>2. IsList(M, first, Firsts(m, c) \cup {first})
    <3>1. first \notin Firsts(m, c)
      BY <1>20, <1>29
    <3>2. first \in Int \ {Null}
      BY <1>15 DEF Null
    <3>3. IsList(m.mem, m.per[c].pages, Firsts(m, c))
      BY <2>1 DEF ClassInv
    <3> QED
      BY <1>22, <1>30, <3>1, <3>2, <3>3, ListPush
  <2>3. Chunks(m, c) \ U = {}
    BY <2>1, ListEmpty DEF ClassInv
  <2>4. C \cap U = {}
    BY <1>1, <1>20, <1>29
  <2>5. Chunks(r, c) \ U = C
    BY <1>28, <2>3, <2>4
  <2>6. IsList(M, first + 1, C)
    BY <1>7, <1>15, <1>17, <1>22, ListCut
  <2> QED
    BY <1>23, <1>24, <1>28, <2>2, <2>5, <2>6 DEF ClassInv
<1>33. U \subseteq Given(r)
  BY <1>1, <1>28 DEF Given
<1>34. Good(r, U, Fr)
  BY <1>1, <1>24, <1>25, <1>28, <1>31, <1>32, <1>33 DEF Good
<1>35. Keeps(m, r, U)
  <2>1. ASSUME NEW a \in U, NEW y \in Room(m, a)
        PROVE  M[y] = m.mem[y]
    <3>1. y \in Addr \ (first..first + w - 1)
      BY <1>1, <1>29 DEF Room
    <3> QED
      BY <1>22, <3>1
  <2> QED
    BY <1>1, <1>24, <1>29, <2>1 DEF Keeps
<1>36. r.per[c].free # Null
  BY <1>15, <1>23, <1>24 DEF Null
<1> QED
  BY <1>34, <1>35, <1>36

(* What is kept by two steps.                                              *)
LEMMA KeepsTrans ==
  ASSUME NEW m, NEW r, NEW s, NEW U, NEW V, NEW W, Keeps(m, r, U), Keeps(r, s, V), W \subseteq U \cap V
  PROVE  Keeps(m, s, W)
<1>1. ASSUME NEW a \in W
      PROVE  /\ GetSizeAtPtr(s, a) = GetSizeAtPtr(m, a)
             /\ \A x \in Room(m, a) : s.mem[x] = m.mem[x]
  <2>1. a \in U /\ a \in V
    OBVIOUS
  <2>2. GetSizeAtPtr(r, a) = GetSizeAtPtr(m, a) /\ \A x \in Room(m, a) : r.mem[x] = m.mem[x]
    BY <2>1 DEF Keeps
  <2>3. GetSizeAtPtr(s, a) = GetSizeAtPtr(r, a) /\ \A x \in Room(r, a) : s.mem[x] = r.mem[x]
    BY <2>1 DEF Keeps
  <2>4. Room(r, a) = Room(m, a)
    BY <2>2 DEF Room
  <2> QED
    BY <2>2, <2>3, <2>4
<1> QED
  BY <1>1 DEF Keeps

(* Allocation: a new chunk, large enough.                                  *)
LEMMA AllocGood ==
  ASSUME NEW m, NEW U, NEW Fr, Good(m, U, Fr), NEW w \in Nat \ {0}, NEW high,
         NEW r, r = Alloc(m, w, high), r.m.panics = {}
  PROVE  /\ Good(r.m, U \cup {r.at}, Fr) /\ Keeps(m, r.m, U)
         /\ r.at \notin U /\ w <= GetSizeAtPtr(r.m, r.at)
<1>1. CASE w <= MaxRounded
  <2>1. PICK k, c : k = SizeClass(w) /\ c = k.inx
    OBVIOUS
  <2>2. c \in Classes /\ ClassRec(k, c) /\ w <= Rounded(c)
    BY <1>1, <2>1, SizeClassFacts DEF ClassRec
  <2>3. r = AllocChunk(m, k, high)
    <3>1. PICK S : S = {AllocChunk(m, d, high) : d \in {SizeClass(w)}}
      OBVIOUS
    <3>2. S = {AllocChunk(m, k, high)}
      BY <2>1, <3>1
    <3> QED
      BY <1>1, <3>1, <3>2, TheOne DEF Alloc
  <2>4. PICK s : s = IF m.per[c].free = Null THEN Refill(m, k, high) ELSE m
    OBVIOUS
  <2>5. r = [m |-> [s EXCEPT !.per[c].free = s.mem[s.per[c].free]], at |-> s.per[c].free]
    <3>1. k.inx = c
      BY <2>1
    <3>2. PICK S : S = { [m |-> [x EXCEPT !.per[k.inx].free = x.mem[x.per[k.inx].free]], at |-> x.per[k.inx].free]
                          : x \in {IF m.per[k.inx].free = Null THEN Refill(m, k, high) ELSE m} }
      OBVIOUS
    <3>3. S = {[m |-> [s EXCEPT !.per[c].free = s.mem[s.per[c].free]], at |-> s.per[c].free]}
      BY <2>4, <3>1, <3>2
    <3>4. r = The(S)
      BY <2>3, <3>2 DEF AllocChunk
    <3> QED
      BY <3>3, <3>4, TheOne
  <2>6. r.m = [s EXCEPT !.per[c].free = s.mem[r.at]] /\ r.at = s.per[c].free
    BY <2>5
  <2>7. s.panics = {}
    BY <2>6
  <2>8. Good(s, U, Fr) /\ Keeps(m, s, U) /\ s.per[c].free # Null
    <3>1. CASE m.per[c].free = Null
      BY <2>2, <2>4, <2>7, <3>1, RefillGood
    <3>2. CASE m.per[c].free # Null
      BY <2>4, <3>2 DEF Keeps
    <3> QED
      BY <3>1, <3>2
  <2>9. /\ Good(r.m, U \cup {r.at}, Fr) /\ Keeps(s, r.m, U)
        /\ r.at \notin U /\ GetSizeAtPtr(r.m, r.at) = Rounded(c)
    <3>1. PICK t, at : t = r.m /\ at = r.at
      OBVIOUS
    <3>2. t = [s EXCEPT !.per[c].free = s.mem[at]] /\ at = s.per[c].free
      BY <2>6, <3>1
    <3>3. Good(s, U, Fr) /\ s.per[c].free # Null /\ c \in Classes
      BY <2>2, <2>8
    <3>4. Good(t, U \cup {at}, Fr) /\ Keeps(s, t, U) /\ at \notin U /\ GetSizeAtPtr(t, at) = Rounded(c)
      BY <3>2, <3>3, PopGood
    <3> QED
      BY <3>1, <3>4
  <2>10. Keeps(m, r.m, U)
    BY <2>8, <2>9, KeepsTrans
  <2> QED
    BY <2>2, <2>9, <2>10
<1>2. CASE ~ (w <= MaxRounded)
  <2>1. r = AllocDirect(m, w, high)
    BY <1>2 DEF Alloc
  <2> QED
    BY <2>1, DirectGood
<1> QED
  BY <1>1, <1>2

-----------------------------------------------------------------------------
(* Giving back.                                                            *)

(* The words of a direct chunk's fragment are of no other chunk.           *)
LEMMA DirectAlone ==
  ASSUME NEW m, NEW U, NEW Fr, Good(m, U, Fr), NEW i \in Live(m) \ {1}, KindOf(m, i) = Direct(i)
  PROVE  /\ \A b \in Given(m) : b # From(m, i) => \A x \in Room(m, b) : ~ (From(m, i) <= x /\ x < UpTo(m, i))
         /\ \A c \in Classes : \A x \in Firsts(m, c) : ~ (From(m, i) <= x /\ x < UpTo(m, i))
<1>1. m \in Allocator /\ PagesInv(m, Fr) /\ UserInv(m)
  BY DEF Good
<1>2. From(m, i) \in Nat /\ UpTo(m, i) \in Nat /\ From(m, i) < UpTo(m, i)
  BY <1>1, FragFacts
<1>3. ASSUME NEW b \in Given(m), b # From(m, i), NEW x \in Room(m, b)
      PROVE  ~ (From(m, i) <= x /\ x < UpTo(m, i))
  <2>1. PICK j \in Live(m) \ {1} :
           /\ LiesIn(m, b, j)
           /\ \/ KindOf(m, j) = Direct(j) /\ b = From(m, j)
              \/ \E c \in Classes : j \in Cuts(m, c)
    BY Home
  <2>2. j # i
    <3>1. ASSUME j = i
          PROVE  FALSE
      <4>1. PICK c \in Classes : j \in Cuts(m, c)
        BY <1>3, <2>1, <3>1
      <4> QED
        BY <3>1, <4>1 DEF Cuts, Direct, InClass
    <3> QED
      BY <3>1
  <2>3. UpTo(m, i) <= From(m, j) \/ UpTo(m, j) <= From(m, i)
    BY <1>1, <2>1, <2>2, FragsApart
  <2>4. From(m, j) \in Nat /\ UpTo(m, j) \in Nat
    BY <1>1, <2>1, FragFacts
  <2>5. PICK s : s = GetSizeAtPtr(m, b)
    OBVIOUS
  <2>6. x \in Nat /\ From(m, j) <= x /\ x < UpTo(m, j)
    <3>1. b \in Nat /\ s \in Nat /\ From(m, j) <= b /\ b + s <= UpTo(m, j)
      BY <2>1, <2>5 DEF LiesIn
    <3>2. x \in Nat /\ b <= x /\ x < b + s
      BY <1>3, <2>5 DEF Room, Addr
    <3> QED
      BY <2>4, <3>1, <3>2
  <2> QED
    BY <1>2, <2>3, <2>4, <2>6
<1>4. ASSUME NEW c \in Classes, NEW x \in Firsts(m, c)
      PROVE  ~ (From(m, i) <= x /\ x < UpTo(m, i))
  <2>1. PICK j \in Cuts(m, c) : x = From(m, j)
    BY <1>4 DEF Firsts
  <2>2. j \in Live(m) /\ KindOf(m, j) = InClass(c)
    BY <2>1 DEF Cuts
  <2>3. j # i
    BY <2>2 DEF InClass, Direct
  <2>4. UpTo(m, i) <= From(m, j) \/ UpTo(m, j) <= From(m, i)
    BY <1>1, <2>2, <2>3, FragsApart
  <2>5. From(m, j) \in Nat /\ UpTo(m, j) \in Nat /\ From(m, j) < UpTo(m, j)
    BY <1>1, <2>2, FragFacts
  <2> QED
    BY <1>2, <2>1, <2>4, <2>5
<1> QED
  BY <1>3, <1>4

(* A chunk that is a fragment of its own is given back to the pages.       *)
LEMMA DeallocDirect ==
  ASSUME NEW m, NEW U, NEW Fr, Good(m, U, Fr), NEW i \in Live(m) \ {1}, KindOf(m, i) = Direct(i),
         NEW a, a = From(m, i), NEW r, r = DeallocFragment(m, i)
  PROVE  Good(r, U \ {a}, Fr) /\ Keeps(m, r, U \ {a})
<1>1. /\ m \in Allocator /\ m.panics = {} /\ PagesInv(m, Fr) /\ UserInv(m)
      /\ \A d \in Classes : ClassInv(m, d, U)
      /\ Directs(m) \subseteq U /\ U \subseteq Given(m)
  BY DEF Good
<1>2. PICK p, n : p = PageAt(m, i) /\ n = NrOf(m, i)
  OBVIOUS
<1>3. /\ i \in Nat /\ i <= Len(m.frags) /\ p \in Nat \ {0} /\ n \in Nat \ {0} /\ m.frags[i].size \in Nat \ {0}
      /\ i # 0 /\ From(m, i) \in Nat /\ UpTo(m, i) \in Nat
  BY <1>1, <1>2, FragFacts
<1>4. PICK b : b = CHOOSE x \in m.blocks : x.page = p
  OBVIOUS
<1>5. b = Block(m, i) /\ \A x \in m.blocks : x.page = p => x = b
  <2>1. Block(m, i) \in m.blocks /\ Block(m, i).page = p
    BY <1>1, <1>2 DEF PagesInv, Block
  <2>2. ASSUME NEW x \in m.blocks, x.page = p
        PROVE  x = Block(m, i)
    <3>1. CASE \E j \in Live(m) : x = Block(m, j)
      <4>1. PICK j \in Live(m) : x = Block(m, j)
        BY <3>1
      <4>2. j # i => Apart(PageAt(m, i), NrOf(m, i), PageAt(m, j), NrOf(m, j))
        BY <1>1 DEF PagesInv
      <4>3. PageAt(m, j) = p
        BY <2>2, <4>1 DEF Block
      <4>4. NrOf(m, j) \in Nat \ {0}
        BY <1>1, FragFacts
      <4>5. ~ Apart(PageAt(m, i), NrOf(m, i), PageAt(m, j), NrOf(m, j))
        BY <1>2, <1>3, <4>3, <4>4 DEF Apart
      <4> QED
        BY <4>1, <4>2, <4>5
    <3>2. CASE \E f \in Fr : x = FrameBlock(f)
      <4>1. PICK f \in Fr : x = FrameBlock(f)
        BY <3>2
      <4>2. f = p
        BY <2>2, <4>1 DEF FrameBlock
      <4>3. Apart(PageAt(m, i), NrOf(m, i), f, FramePages)
        BY <1>1 DEF PagesInv
      <4>4. FALSE
        BY <1>2, <1>3, <4>2, <4>3, FrameFacts DEF Apart
      <4> QED
        BY <4>4
    <3>3. m.blocks = {Block(m, j) : j \in Live(m)} \cup {FrameBlock(f) : f \in Fr}
      BY <1>1 DEF PagesInv
    <3> QED
      BY <3>1, <3>2, <3>3
  <2> QED
    BY <1>4, <2>1, <2>2
<1>6. PICK M, F, B : /\ M = [x \in DOMAIN m.mem |-> IF PageOfAddr(x) \in p..p + n - 1 THEN Junk ELSE m.mem[x]]
                     /\ F = [m.frags EXCEPT ![i] = [page |-> 0, size |-> 0]]
                     /\ B = m.blocks \ {b}
  OBVIOUS
<1>7. r = [m EXCEPT !.blocks = B, !.mem = M, !.frags = F]
  <2>1. b.pages = n
    BY <1>2, <1>5 DEF Block
  <2>2. DeallocPages(m, p) = [m EXCEPT !.blocks = B, !.mem = M]
    BY <1>4, <1>6, <2>1 DEF DeallocPages
  <2>3. m.frags[i].size > 0 /\ m.frags[i].page = p
    BY <1>2, <1>3 DEF PageAt
  <2>4. r = [DeallocPages(m, p) EXCEPT !.frags[i] = [page |-> 0, size |-> 0]]
    BY <2>3 DEF DeallocFragment
  <2> QED
    BY <1>6, <2>2, <2>4
<1>8. /\ F \in Seq([page : Nat, size : Nat]) /\ Len(F) = Len(m.frags) /\ F[i].page = 0
      /\ \A j \in 1..Len(m.frags) : j # i => F[j] = m.frags[j]
      /\ Len(m.frags) \in Nat
  <2>1. m.frags \in Seq([page : Nat, size : Nat])
    BY <1>1 DEF Allocator
  <2>2. PICK e : e = [page |-> 0, size |-> 0]
    OBVIOUS
  <2>3. e \in [page : Nat, size : Nat] /\ e.page = 0
    BY <2>2
  <2>4. i \in 1..Len(m.frags) /\ Len(m.frags) \in Nat
    BY <1>3, <2>1
  <2>5. F = [m.frags EXCEPT ![i] = e]
    BY <1>6, <2>2
  <2> QED
    BY <2>1, <2>3, <2>4, <2>5, ExceptSeq
<1>9. /\ M \in [Addr -> Int]
      /\ \A x \in Addr : ~ (From(m, i) <= x /\ x < UpTo(m, i)) => M[x] = m.mem[x]
  <2>1. m.mem \in [Addr -> Int] /\ Junk \in Int
    <3>1. m.mem \in [Addr -> Int]
      BY <1>1 DEF Allocator
    <3>2. Junk \in Int
      BY DEF Junk
    <3> QED
      BY <3>1, <3>2
  <2>2. M \in [Addr -> Int] /\ \A x \in Addr : PageOfAddr(x) \notin p..p + n - 1 => M[x] = m.mem[x]
    BY <1>6, <2>1
  <2>3. ASSUME NEW x \in Addr, ~ (From(m, i) <= x /\ x < UpTo(m, i))
        PROVE  PageOfAddr(x) \notin p..p + n - 1
    <3>1. x \in Nat
      BY DEF Addr
    <3>2. PageOfAddr(x) \in Nat /\ \A q \in Nat : q <= PageOfAddr(x) <=> q * PageWords <= x
      BY <3>1, PageOf
    <3>3. p * PageWords = From(m, i) /\ (p + n) * PageWords = UpTo(m, i)
      BY <1>2 DEF From, UpTo
    <3>4. p <= PageOfAddr(x) <=> From(m, i) <= x
      BY <1>3, <3>2, <3>3
    <3>5. p + n <= PageOfAddr(x) <=> UpTo(m, i) <= x
      <4>1. p + n \in Nat
        BY <1>3
      <4> QED
        BY <3>2, <3>3, <4>1
    <3> QED
      BY <1>3, <2>3, <3>1, <3>2, <3>4, <3>5
  <2> QED
    BY <2>2, <2>3
<1>10. /\ r \in Allocator /\ r.mem = M /\ r.frags = F /\ r.blocks = B
       /\ r.per = m.per /\ r.user = m.user /\ r.panics = {}
  <2>1. B \in SUBSET [page : Nat, pages : Nat]
    BY <1>1, <1>6 DEF Allocator
  <2> QED
    BY <1>1, <1>7, <1>8, <1>9, <2>1 DEF Allocator
<1>11. Live(r) = Live(m) \ {i}
  BY <1>8, <1>10 DEF Live
<1>12. \A j \in Live(r) : /\ PageAt(r, j) = PageAt(m, j) /\ NrOf(r, j) = NrOf(m, j) /\ Block(r, j) = Block(m, j)
                          /\ KindOf(r, j) = KindOf(m, j) /\ From(r, j) = From(m, j) /\ r.frags[j] = m.frags[j]
  <2>1. \A j \in Live(r) : r.frags[j] = m.frags[j]
    BY <1>8, <1>10, <1>11 DEF Live
  <2> QED
    BY <1>10, <2>1 DEF PageAt, NrOf, Block, KindOf, From
<1>13. PagesInv(r, Fr)
  <2>1. r.blocks = {Block(r, j) : j \in Live(r)} \cup {FrameBlock(f) : f \in Fr}
    <3>1. m.blocks = {Block(m, j) : j \in Live(m)} \cup {FrameBlock(f) : f \in Fr}
      BY <1>1 DEF PagesInv
    <3>2. \A j \in Live(m) \ {i} : Block(m, j) # b
      <4>1. ASSUME NEW j \in Live(m) \ {i}, Block(m, j) = b
            PROVE  FALSE
        <5>1. Apart(PageAt(m, i), NrOf(m, i), PageAt(m, j), NrOf(m, j))
          BY <1>1 DEF PagesInv
        <5>2. PageAt(m, j) = p /\ NrOf(m, j) = n
          BY <1>2, <1>5, <4>1 DEF Block
        <5> QED
          BY <1>2, <1>3, <5>1, <5>2 DEF Apart
      <4> QED
        BY <4>1
    <3>3. \A f \in Fr : FrameBlock(f) # b
      <4>1. ASSUME NEW f \in Fr, FrameBlock(f) = b
            PROVE  FALSE
        <5>1. Apart(PageAt(m, i), NrOf(m, i), f, FramePages)
          BY <1>1 DEF PagesInv
        <5>2. f = p
          BY <1>2, <1>5, <4>1 DEF Block, FrameBlock
        <5> QED
          BY <1>2, <1>3, <5>1, <5>2, FrameFacts DEF Apart
      <4> QED
        BY <4>1
    <3>4. {Block(r, j) : j \in Live(r)} = {Block(m, j) : j \in Live(m) \ {i}}
      BY <1>11, <1>12
    <3> QED
      BY <1>5, <1>6, <1>10, <3>1, <3>2, <3>3, <3>4
  <2>2. 1 \in Live(r) /\ \A j \in Live(r) : r.frags[j].size # 0 /\ PageAt(r, j) + NrOf(r, j) <= NrPages
    BY <1>1, <1>11, <1>12 DEF PagesInv
  <2>3. \A j, k \in Live(r) : j # k => Apart(PageAt(r, j), NrOf(r, j), PageAt(r, k), NrOf(r, k))
    BY <1>1, <1>11, <1>12 DEF PagesInv
  <2>4. \A j \in Live(r), f \in Fr : Apart(PageAt(r, j), NrOf(r, j), f, FramePages)
    BY <1>1, <1>11, <1>12 DEF PagesInv
  <2>5. /\ \A f \in Fr : f \in Nat \ {0} /\ f + FramePages <= NrPages
        /\ \A f, g \in Fr : f # g => Apart(f, FramePages, g, FramePages)
    BY <1>1 DEF PagesInv
  <2> QED
    BY <2>1, <2>2, <2>3, <2>4, <2>5 DEF PagesInv
<1>14. UserInv(r)
  BY <1>1, <1>10, <1>11, <1>12 DEF UserInv, Told
<1>15. \A c \in Classes : i \notin Cuts(m, c)
  BY DEF Cuts, Direct, InClass
<1>16. ASSUME NEW c \in Classes
       PROVE  Cuts(r, c) = Cuts(m, c) /\ Firsts(r, c) = Firsts(m, c) /\ Chunks(r, c) = Chunks(m, c)
  <2>1. Cuts(r, c) = Cuts(m, c)
    BY <1>11, <1>12, <1>15 DEF Cuts
  <2>2. \A j \in Cuts(m, c) : j \in Live(r)
    BY <2>1 DEF Cuts
  <2> QED
    BY <1>12, <2>1, <2>2 DEF Firsts, Chunks, CutOf
<1>17. Directs(r) = Directs(m) \ {a}
  <2>1. \A j \in Live(r) : From(m, j) # a
    <3>1. ASSUME NEW j \in Live(m), j # i
          PROVE  From(m, j) # a
      <4>1. UpTo(m, i) <= From(m, j) \/ UpTo(m, j) <= From(m, i)
        BY <1>1, <3>1, FragsApart
      <4>2. /\ From(m, i) \in Nat /\ UpTo(m, i) \in Nat /\ From(m, i) < UpTo(m, i)
            /\ From(m, j) \in Nat /\ UpTo(m, j) \in Nat /\ From(m, j) < UpTo(m, j)
        BY <1>1, FragFacts
      <4> QED
        BY <4>1, <4>2
    <3> QED
      BY <1>11, <3>1
  <2>2. PICK A : A = {j \in Live(m) \ {1} : KindOf(m, j) = Direct(j)}
    OBVIOUS
  <2>3. {j \in Live(r) \ {1} : KindOf(r, j) = Direct(j)} = A \ {i} /\ i \in A
    BY <1>11, <1>12, <2>2
  <2>4. \A j \in A \ {i} : j \in Live(r) /\ From(r, j) = From(m, j) /\ From(m, j) # a
    BY <1>11, <1>12, <2>1, <2>2
  <2>5. Directs(m) = {From(m, j) : j \in A} /\ Directs(r) = {From(r, j) : j \in A \ {i}}
    BY <2>2, <2>3 DEF Directs
  <2> QED
    BY <2>3, <2>4, <2>5
<1>18. \A c \in Classes : a \notin Chunks(m, c)
  <2>1. ASSUME NEW c \in Classes, a \in Chunks(m, c)
        PROVE  FALSE
    <3>1. \A d \in Classes : Cuts(m, d) # {} => m.per[d].chunkSize = Rounded(d)
      BY <1>1 DEF ClassInv
    <3>2. PICK j \in Cuts(m, c) : a \in CutOf(m, c, j)
      BY <2>1 DEF Chunks
    <3>3. m.user[PageOfAddr(a)] = InClass(c)
      BY <1>1, <3>1, <3>2, ChunkHome
    <3>4. m.user[PageOfAddr(a)] = Direct(i)
      BY <1>1, DirectHome
    <3> QED
      BY <3>3, <3>4 DEF InClass, Direct
  <2> QED
    BY <2>1
<1>19. ASSUME NEW c \in Classes
       PROVE  ClassInv(r, c, U \ {a})
  <2>1. ClassInv(m, c, U)
    BY <1>1
  <2>2. Chunks(m, c) \ (U \ {a}) = Chunks(m, c) \ U
    BY <1>18
  <2>3. \A x \in Firsts(m, c) : x \in Addr /\ M[x] = m.mem[x]
    <3>1. ASSUME NEW x \in Firsts(m, c)
          PROVE  x \in Addr
      <4>1. PICK j \in Cuts(m, c) : x = From(m, j)
        BY DEF Firsts
      <4>2. j \in Live(m) /\ Told(m, j)
        BY <1>1, <4>1 DEF Cuts, UserInv
      <4>3. x \in Nat /\ From(m, j) <= x /\ x < UpTo(m, j)
        BY <1>1, <4>1, <4>2, FragFacts
      <4> QED
        BY <1>1, <4>2, <4>3, FragWord
    <3> QED
      BY <1>9, <3>1, DirectAlone
  <2>4. \A x \in Chunks(m, c) : M[x] = m.mem[x]
    <3>1. ASSUME NEW x \in Chunks(m, c)
          PROVE  M[x] = m.mem[x]
      <4>1. x \in Given(m) /\ x # a
        BY <1>18 DEF Given
      <4>2. x \in Room(m, x)
        BY <4>1, OtherRooms
      <4>3. x \in Addr
        BY <4>2 DEF Room
      <4> QED
        BY <1>9, <4>1, <4>2, <4>3, DirectAlone
    <3> QED
      BY <3>1
  <2>5. IsList(M, m.per[c].pages, Firsts(m, c))
    BY <2>1, <2>3, ListFrame DEF ClassInv
  <2>6. IsList(M, m.per[c].free, Chunks(m, c) \ U)
    BY <2>1, <2>4, ListFrame DEF ClassInv
  <2> QED
    BY <1>10, <1>16, <2>1, <2>2, <2>5, <2>6 DEF ClassInv
<1>20. U \ {a} \subseteq Given(r)
  BY <1>1, <1>16, <1>17 DEF Given
<1>21. Good(r, U \ {a}, Fr)
  BY <1>1, <1>10, <1>13, <1>14, <1>17, <1>19, <1>20 DEF Good
<1>22. ASSUME NEW x \in U \ {a}
       PROVE  /\ GetSizeAtPtr(r, x) = GetSizeAtPtr(m, x)
              /\ \A y \in Room(m, x) : r.mem[y] = m.mem[y]
  <2>1. x \in Given(m)
    BY <1>1
  <2>2. PICK j \in Live(m) \ {1} :
           \/ x = From(m, j) /\ m.user[PageOfAddr(x)] = Direct(j)
           \/ \E c \in Classes : m.user[PageOfAddr(x)] = InClass(c)
    BY <2>1, Home
  <2>3. GetSizeAtPtr(r, x) = GetSizeAtPtr(m, x)
    <3>1. CASE x = From(m, j) /\ m.user[PageOfAddr(x)] = Direct(j)
      <4>1. j \in Live(r)
        BY <1>11, <1>22, <3>1
      <4>2. r.frags[j] = m.frags[j] /\ r.user = m.user
        BY <1>10, <1>12, <4>1
      <4> QED
        BY <3>1, <4>2 DEF GetSizeAtPtr, Direct
    <3>2. CASE \E c \in Classes : m.user[PageOfAddr(x)] = InClass(c)
      BY <1>10, <3>2 DEF GetSizeAtPtr, InClass
    <3> QED
      BY <2>2, <3>1, <3>2
  <2>4. \A y \in Room(m, x) : y \in Addr
    BY DEF Room
  <2> QED
    BY <1>9, <1>10, <1>22, <2>1, <2>3, <2>4, DirectAlone
<1> QED
  BY <1>21, <1>22 DEF Keeps

(* A chunk of a class goes to the front of the free list.                  *)
LEMMA DeallocClass ==
  ASSUME NEW m, NEW U, NEW Fr, Good(m, U, Fr), NEW c \in Classes, NEW a \in U \cap Chunks(m, c),
         NEW r, r = [m EXCEPT !.per[c].free = a,
                              !.mem = [x \in DOMAIN m.mem |->
                                         IF x = a THEN m.per[c].free
                                         ELSE IF x \in a..a + m.per[c].chunkSize - 1 THEN Junk ELSE m.mem[x]]]
  PROVE  Good(r, U \ {a}, Fr) /\ Keeps(m, r, U \ {a})
<1>1. /\ m \in Allocator /\ m.panics = {} /\ PagesInv(m, Fr) /\ UserInv(m)
      /\ \A d \in Classes : ClassInv(m, d, U)
      /\ Directs(m) \subseteq U /\ U \subseteq Given(m)
  BY DEF Good
<1>2. \A d \in Classes : Cuts(m, d) # {} => m.per[d].chunkSize = Rounded(d)
  BY <1>1 DEF ClassInv
<1>3. PICK i \in Cuts(m, c) : a \in CutOf(m, c, i)
  BY DEF Chunks
<1>4. /\ m.user[PageOfAddr(a)] = InClass(c) /\ GetSizeAtPtr(m, a) = Rounded(c) /\ m.per[c].chunkSize = Rounded(c)
      /\ a \in Addr \ {Null} /\ Rounded(c) \in Nat \ {0} /\ a \in Nat /\ a \in Given(m)
  BY <1>1, <1>2, <1>3, ChunkHome, ClassFacts DEF Addr
<1>5. m.per \in [Classes -> [free : Int, pages : Int, chunkSize : Nat]] /\ m.mem \in [Addr -> Int]
  BY <1>1 DEF Allocator
<1>6. PICK M, P : /\ M = [x \in DOMAIN m.mem |->
                            IF x = a THEN m.per[c].free
                            ELSE IF x \in a..a + m.per[c].chunkSize - 1 THEN Junk ELSE m.mem[x]]
                  /\ P = [m.per EXCEPT ![c] = [m.per[c] EXCEPT !.free = a]]
  OBVIOUS
<1>7. r = [m EXCEPT !.per = P, !.mem = M]
  BY <1>6
<1>8. /\ P \in [Classes -> [free : Int, pages : Int, chunkSize : Nat]]
      /\ \A d \in Classes : P[d].pages = m.per[d].pages /\ P[d].chunkSize = m.per[d].chunkSize
      /\ \A d \in Classes : d # c => P[d].free = m.per[d].free
      /\ P[c].free = a
  BY <1>4, <1>5, <1>6
<1>9. /\ M \in [Addr -> Int] /\ M[a] = m.per[c].free
      /\ \A x \in Addr \ Room(m, a) : M[x] = m.mem[x]
  <2>1. Junk \in Int
    BY DEF Junk
  <2>2. M = [x \in Addr |-> IF x = a THEN m.per[c].free
                            ELSE IF x \in a..a + Rounded(c) - 1 THEN Junk ELSE m.mem[x]]
    BY <1>4, <1>5, <1>6
  <2>3. m.per[c].free \in Int
    BY <1>5
  <2>4. M \in [Addr -> Int] /\ M[a] = m.per[c].free
    BY <1>4, <1>5, <2>1, <2>2, <2>3
  <2>5. ASSUME NEW x \in Addr \ Room(m, a)
        PROVE  M[x] = m.mem[x]
    <3>1. PICK z : z = Rounded(c)
      OBVIOUS
    <3>2. x \in Nat /\ ~ (a <= x /\ x < a + z)
      BY <1>4, <2>5, <3>1 DEF Room, Addr
    <3>3. x # a /\ x \notin a..a + z - 1
      BY <1>4, <3>1, <3>2
    <3> QED
      BY <2>2, <3>1, <3>3
  <2> QED
    BY <2>4, <2>5
<1>10. /\ r \in Allocator /\ r.mem = M /\ r.per = P /\ r.panics = m.panics
       /\ r.frags = m.frags /\ r.user = m.user /\ r.blocks = m.blocks
  BY <1>1, <1>7, <1>8, <1>9 DEF Allocator
<1>11. /\ PagesInv(r, Fr) /\ UserInv(r) /\ Directs(r) = Directs(m) /\ Given(r) = Given(m)
       /\ \A d : Cuts(r, d) = Cuts(m, d) /\ Firsts(r, d) = Firsts(m, d) /\ Chunks(r, d) = Chunks(m, d)
  <2>1. Alike(m, r)
    BY <1>10 DEF Alike
  <2>2. PagesInv(m, Fr) /\ UserInv(m)
    BY <1>1
  <2>3. PagesInv(r, Fr)
    BY <2>1, <2>2, SamePages
  <2>4. UserInv(r)
    BY <2>1, <2>2, SamePages
  <2>5. Directs(r) = Directs(m) /\ Given(r) = Given(m)
    BY <2>1, SamePages
  <2>6. \A d : Cuts(r, d) = Cuts(m, d) /\ Firsts(r, d) = Firsts(m, d) /\ Chunks(r, d) = Chunks(m, d)
    BY <2>1, SamePages
  <2> QED
    BY <2>3, <2>4, <2>5, <2>6
<1>12. ASSUME NEW d \in Classes
       PROVE  \A x \in Firsts(m, d) \cup (Chunks(m, d) \ {a}) : M[x] = m.mem[x]
  <2>1. ASSUME NEW x \in Firsts(m, d)
        PROVE  M[x] = m.mem[x]
    <3>1. x \in Addr
      <4>1. PICK j \in Cuts(m, d) : x = From(m, j)
        BY DEF Firsts
      <4>2. j \in Live(m) /\ Told(m, j)
        BY <1>1, <4>1 DEF Cuts, UserInv
      <4>3. x \in Nat /\ From(m, j) <= x /\ x < UpTo(m, j)
        BY <1>1, <4>1, <4>2, FragFacts
      <4> QED
        BY <1>1, <4>2, <4>3, FragWord
    <3>2. x \notin Room(m, a)
      BY <1>4, OtherRooms
    <3> QED
      BY <1>9, <3>1, <3>2
  <2>2. ASSUME NEW x \in Chunks(m, d) \ {a}
        PROVE  M[x] = m.mem[x]
    <3>1. x \in Given(m) \ {a}
      BY DEF Given
    <3>2. x \in Addr /\ x \notin Room(m, a)
      BY <1>4, <3>1, OtherRooms, RoomsApart
    <3> QED
      BY <1>9, <3>2
  <2> QED
    BY <2>1, <2>2
<1>13. ASSUME NEW d \in Classes
       PROVE  ClassInv(r, d, U \ {a})
  <2>1. ClassInv(m, d, U)
    BY <1>1
  <2>2. \A x \in Chunks(m, d) \ U : M[x] = m.mem[x]
    BY <1>12
  <2>3. IsList(M, P[d].pages, Firsts(m, d))
    BY <1>8, <1>12, <2>1, ListFrame DEF ClassInv
  <2>4. IsList(M, m.per[d].free, Chunks(m, d) \ U)
    BY <2>1, <2>2, ListFrame DEF ClassInv
  <2>5. IsList(M, P[d].free, Chunks(m, d) \ (U \ {a}))
    <3>1. CASE d = c
      <4>1. IsList(m.mem, m.per[c].free, Chunks(m, c) \ U)
        BY <2>1, <3>1 DEF ClassInv
      <4>2. a \in Int \ {Null} /\ a \notin Chunks(m, c) \ U
        BY <1>4
      <4>3. \A x \in Chunks(m, c) \ U : M[x] = m.mem[x]
        BY <2>2, <3>1
      <4>4. IsList(M, a, (Chunks(m, c) \ U) \cup {a})
        BY <1>9, <4>1, <4>2, <4>3, ListPush
      <4>5. (Chunks(m, c) \ U) \cup {a} = Chunks(m, c) \ (U \ {a})
        OBVIOUS
      <4> QED
        BY <1>8, <3>1, <4>4, <4>5
    <3>2. CASE d # c
      <4>1. a \notin Chunks(m, d)
        <5>1. ASSUME a \in Chunks(m, d)
              PROVE  FALSE
          <6>1. PICK j \in Cuts(m, d) : a \in CutOf(m, d, j)
            BY <5>1 DEF Chunks
          <6>2. m.user[PageOfAddr(a)] = InClass(d)
            BY <1>1, <1>2, <6>1, ChunkHome
          <6> QED
            BY <1>4, <3>2, <6>2 DEF InClass
        <5> QED
          BY <5>1
      <4>2. Chunks(m, d) \ (U \ {a}) = Chunks(m, d) \ U
        BY <4>1
      <4> QED
        BY <1>8, <2>4, <3>2, <4>2
    <3> QED
      BY <3>1, <3>2
  <2>6. Cuts(r, d) # {} => r.per[d].chunkSize = Rounded(d)
    BY <1>2, <1>8, <1>10, <1>11
  <2> QED
    BY <1>10, <1>11, <2>3, <2>5, <2>6 DEF ClassInv
<1>14. a \notin Directs(m)
  <2>1. ASSUME a \in Directs(m)
        PROVE  FALSE
    <3>1. PICK j \in Live(m) \ {1} : KindOf(m, j) = Direct(j) /\ a = From(m, j)
      BY <2>1 DEF Directs
    <3>2. m.user[PageOfAddr(a)] = Direct(j)
      BY <1>1, <3>1, DirectHome
    <3> QED
      BY <1>4, <3>2 DEF InClass, Direct
  <2> QED
    BY <2>1
<1>15. Good(r, U \ {a}, Fr)
  BY <1>1, <1>10, <1>11, <1>13, <1>14 DEF Good
<1>16. ASSUME NEW x \in U \ {a}
       PROVE  /\ GetSizeAtPtr(r, x) = GetSizeAtPtr(m, x)
              /\ \A y \in Room(m, x) : r.mem[y] = m.mem[y]
  <2>1. x \in Given(m) \ {a}
    BY <1>1
  <2>2. Room(m, a) \cap Room(m, x) = {}
    BY <1>4, <2>1, OtherRooms
  <2>3. \A y \in Room(m, x) : y \in Addr
    BY DEF Room
  <2>4. \/ \E j : m.user[PageOfAddr(x)] = Direct(j)
        \/ \E d \in Classes : m.user[PageOfAddr(x)] = InClass(d)
    BY <2>1, Home
  <2>5. GetSizeAtPtr(r, x) = GetSizeAtPtr(m, x)
    <3>1. CASE \E j : m.user[PageOfAddr(x)] = Direct(j)
      BY <1>10, <3>1 DEF GetSizeAtPtr, Direct
    <3>2. CASE \E d \in Classes : m.user[PageOfAddr(x)] = InClass(d)
      BY <1>8, <1>10, <3>2 DEF GetSizeAtPtr, InClass
    <3> QED
      BY <2>4, <3>1, <3>2
  <2> QED
    BY <1>9, <1>10, <2>2, <2>3, <2>5
<1> QED
  BY <1>15, <1>16 DEF Keeps

(* Giving back keeps the other chunks.                                     *)
LEMMA DeallocGood ==
  ASSUME NEW m, NEW U, NEW Fr, Good(m, U, Fr), NEW a \in U, NEW r, r = Dealloc(m, a)
  PROVE  Good(r, U \ {a}, Fr) /\ Keeps(m, r, U \ {a})
<1>1. a \in Given(m)
  BY DEF Good
<1>2. PICK i \in Live(m) \ {1} :
        \/ KindOf(m, i) = Direct(i) /\ a = From(m, i) /\ m.user[PageOfAddr(a)] = Direct(i)
        \/ \E c \in Classes : i \in Cuts(m, c) /\ a \in CutOf(m, c, i) /\ m.user[PageOfAddr(a)] = InClass(c)
  BY <1>1, Home
<1>3. CASE KindOf(m, i) = Direct(i) /\ a = From(m, i) /\ m.user[PageOfAddr(a)] = Direct(i)
  <2>1. r = DeallocFragment(m, i)
    BY <1>3 DEF Dealloc, Direct
  <2> QED
    BY <1>3, <2>1, DeallocDirect
<1>4. CASE \E c \in Classes : i \in Cuts(m, c) /\ a \in CutOf(m, c, i) /\ m.user[PageOfAddr(a)] = InClass(c)
  <2>1. PICK c \in Classes : i \in Cuts(m, c) /\ a \in CutOf(m, c, i) /\ m.user[PageOfAddr(a)] = InClass(c)
    BY <1>4
  <2>2. a \in Chunks(m, c)
    BY <2>1 DEF Chunks
  <2>3. InClass(c).kind # "direct" /\ InClass(c).inx = c
    BY DEF InClass
  <2>4. r = [m EXCEPT !.per[c].free = a,
                      !.mem = [x \in DOMAIN m.mem |->
                                 IF x = a THEN m.per[c].free
                                 ELSE IF x \in a..a + m.per[c].chunkSize - 1 THEN Junk ELSE m.mem[x]]]
    BY <2>1, <2>3 DEF Dealloc
  <2> QED
    BY <2>2, <2>4, DeallocClass
<1> QED
  BY <1>2, <1>3, <1>4

-----------------------------------------------------------------------------
(* Writing words, and making a chunk larger.                               *)

\* r is m with n words ws in the chunk a, from its off-th word on
Stored(m, a, off, n, ws, r) ==
  /\ off \in Nat /\ n \in Nat /\ off + n <= GetSizeAtPtr(m, a)
  /\ ws \in [1..n -> Int] /\ r = Store(m, a + off, ws)

\* What is in r then
HasWords(m, a, off, n, ws, r) ==
  /\ \A b : GetSizeAtPtr(r, b) = GetSizeAtPtr(m, b)
  /\ \A k \in 0..n - 1 : r.mem[a + off + k] = ws[k + 1]
  /\ \A x \in Addr : (x < a + off \/ a + off + n <= x) => r.mem[x] = m.mem[x]

(* What is written in a chunk.                                             *)
LEMMA StoreGood ==
  ASSUME NEW m, NEW U, NEW Fr, Good(m, U, Fr), NEW a \in U,
         NEW off, NEW n, NEW ws, NEW r, Stored(m, a, off, n, ws, r)
  PROVE  Good(r, U, Fr) /\ Keeps(m, r, U \ {a}) /\ HasWords(m, a, off, n, ws, r)
<1>0. /\ off \in Nat /\ n \in Nat /\ off + n <= GetSizeAtPtr(m, a)
      /\ ws \in [1..n -> Int] /\ r = Store(m, a + off, ws)
  BY DEF Stored
<1>1. m \in Allocator /\ a \in Given(m)
  BY DEF Good
<1>2. PICK s : s = GetSizeAtPtr(m, a)
  OBVIOUS
<1>3. a \in Nat /\ s \in Nat \ {0} /\ a + s <= NrPages * PageWords
  BY <1>1, <1>2, RoomsApart DEF Addr
<1>4. PICK f : f = [x \in Addr |-> IF x - (a + off) + 1 \in 1..n THEN ws[x - (a + off) + 1] ELSE m.mem[x]]
  OBVIOUS
<1>5. m.mem \in [Addr -> Int] /\ Addr \subseteq Nat
  <2>1. m.mem \in [Addr -> Int]
    BY <1>1 DEF Allocator
  <2>2. Addr \subseteq Nat
    BY DEF Addr
  <2> QED
    BY <2>1, <2>2
<1>6. r = [m EXCEPT !.mem = f]
  <2>1. DOMAIN m.mem = Addr /\ DOMAIN ws = 1..n
    BY <1>0, <1>5
  <2> QED
    BY <1>0, <1>4, <2>1 DEF Store
<1>7. f \in [Addr -> Int]
  BY <1>0, <1>4, <1>5
<1>8. \A x \in Addr : (x < a + off \/ a + off + n <= x) => f[x] = m.mem[x]
  <2>1. ASSUME NEW x \in Addr, x < a + off \/ a + off + n <= x
        PROVE  f[x] = m.mem[x]
    <3>1. x \in Nat
      BY <1>5
    <3>2. x - (a + off) + 1 \notin 1..n
      BY <1>0, <1>3, <2>1, <3>1
    <3> QED
      BY <1>4, <3>2
  <2> QED
    BY <2>1
<1>9. \A k \in 0..n - 1 : f[a + off + k] = ws[k + 1]
  <2>1. ASSUME NEW k \in 0..n - 1
        PROVE  f[a + off + k] = ws[k + 1]
    <3>1. PICK z : z = NrPages * PageWords
      OBVIOUS
    <3>2. z \in Nat
      BY <3>1, Constants
    <3>3. a + off + k \in 0..z - 1
      BY <1>0, <1>2, <1>3, <2>1, <3>1, <3>2
    <3>4. a + off + k \in Addr
      BY <3>1, <3>3 DEF Addr
    <3>5. (a + off + k) - (a + off) + 1 = k + 1 /\ k + 1 \in 1..n
      BY <1>0, <1>3, <2>1
    <3> QED
      BY <1>4, <3>4, <3>5
  <2> QED
    BY <2>1
<1>10. \A x \in Addr \ Room(m, a) : f[x] = m.mem[x]
  <2>1. ASSUME NEW x \in Addr \ Room(m, a)
        PROVE  x < a + off \/ a + off + n <= x
    <3>1. x \in Nat /\ ~ (a <= x /\ x < a + s)
      BY <1>2, <1>5, <2>1 DEF Room
    <3> QED
      BY <1>0, <1>2, <1>3, <3>1
  <2> QED
    BY <1>8, <2>1
<1>11. Good(r, U, Fr) /\ Keeps(m, r, U \ {a}) /\ \A b : GetSizeAtPtr(r, b) = GetSizeAtPtr(m, b)
  <2>1. Writes(m, a, f, r)
    BY <1>6, <1>7, <1>10 DEF Writes
  <2> QED
    BY <2>1, WriteGood
<1>12. r.mem = f
  BY <1>1, <1>6 DEF Allocator
<1>13. HasWords(m, a, off, n, ws, r)
  BY <1>8, <1>9, <1>11, <1>12 DEF HasWords
<1> QED
  BY <1>11, <1>13

\* The words of the chunk a of m are at b in r
SameWords(m, a, r, b) == \A k \in 0..GetSizeAtPtr(m, a) - 1 : r.mem[b + k] = m.mem[a + k]

(* Making a chunk larger: its words are at the new place, if it moves.     *)
LEMMA ReallocGood ==
  ASSUME NEW m, NEW U, NEW Fr, Good(m, U, Fr), NEW a \in U, NEW w \in Nat \ {0}, NEW high,
         NEW r, r = Realloc(m, a, w, high), r.m.panics = {}
  PROVE  /\ Good(r.m, (U \ {a}) \cup {r.at}, Fr) /\ Keeps(m, r.m, U \ {a}) /\ r.at \notin U \ {a}
         /\ w <= GetSizeAtPtr(r.m, r.at) /\ GetSizeAtPtr(m, a) <= GetSizeAtPtr(r.m, r.at)
         /\ SameWords(m, a, r.m, r.at)
<1>1. m \in Allocator /\ a \in Given(m) /\ U \subseteq Given(m)
  BY DEF Good
<1>2. PICK s : s = GetSizeAtPtr(m, a)
  OBVIOUS
<1>3. a \in Nat /\ s \in Nat \ {0} /\ a + s <= NrPages * PageWords /\ a \in Addr
  BY <1>1, <1>2, RoomsApart DEF Addr
<1>4. CASE s < w
  <2>1. PICK n, t : n = Alloc(m, w, high) /\ t = Store(n.m, n.at, Words(m, a, s))
    OBVIOUS
  <2>2. r = [m |-> Dealloc(t, a), at |-> n.at]
    <3>1. PICK S : S = { [m |-> Dealloc(Store(x.m, x.at, Words(m, a, GetSizeAtPtr(m, a))), a),
                          at |-> x.at] : x \in {Alloc(m, w, high)} }
      OBVIOUS
    <3>2. S = {[m |-> Dealloc(t, a), at |-> n.at]}
      BY <1>2, <2>1, <3>1
    <3>3. r = The(S)
      BY <1>2, <1>4, <3>1 DEF Realloc
    <3> QED
      BY <3>2, <3>3, TheOne
  <2>3. r.m = Dealloc(t, a) /\ r.at = n.at
    BY <2>2
  <2>4. n.m.panics = {}
    <3>1. Dealloc(t, a).panics = t.panics
      BY DEF Dealloc, DeallocFragment, DeallocPages
    <3>2. t.panics = n.m.panics
      BY <2>1 DEF Store
    <3> QED
      BY <2>3, <3>1, <3>2
  <2>5. /\ Good(n.m, U \cup {n.at}, Fr) /\ Keeps(m, n.m, U)
        /\ n.at \notin U /\ w <= GetSizeAtPtr(n.m, n.at)
    BY <2>1, <2>4, AllocGood
  <2>6. Words(m, a, s) \in [1..s -> Int] /\ \A k \in 0..s - 1 : Words(m, a, s)[k + 1] = m.mem[a + k]
    <3>1. m.mem \in [Addr -> Int]
      BY <1>1 DEF Allocator
    <3>2. \A i \in 1..s : a + i - 1 \in Addr
      <4>1. PICK z : z = NrPages * PageWords
        OBVIOUS
      <4>2. z \in Nat /\ a + s <= z
        BY <1>3, <4>1, Constants
      <4>3. \A i \in 1..s : a + i - 1 \in 0..z - 1
        BY <1>3, <4>2
      <4> QED
        BY <4>1, <4>3 DEF Addr
    <3>3. Words(m, a, s) = [i \in 1..s |-> m.mem[a + i - 1]]
      BY DEF Words
    <3>4. Words(m, a, s) \in [1..s -> Int]
      BY <3>1, <3>2, <3>3
    <3>5. ASSUME NEW k \in 0..s - 1
          PROVE  Words(m, a, s)[k + 1] = m.mem[a + k]
      <4>1. k + 1 \in 1..s /\ a + (k + 1) - 1 = a + k
        BY <1>3
      <4> QED
        BY <3>3, <4>1
    <3> QED
      BY <3>4, <3>5
  <2>7. n.at \in Addr /\ n.at + 0 = n.at /\ GetSizeAtPtr(n.m, n.at) \in Nat /\ n.at \in Nat
    <3>1. n.at \in Given(n.m)
      BY <2>5 DEF Good
    <3> QED
      BY <2>5, <3>1, RoomsApart DEF Addr
  <2>8. /\ Good(t, U \cup {n.at}, Fr) /\ Keeps(n.m, t, (U \cup {n.at}) \ {n.at})
        /\ \A b : GetSizeAtPtr(t, b) = GetSizeAtPtr(n.m, b)
        /\ \A k \in 0..s - 1 : t.mem[n.at + 0 + k] = Words(m, a, s)[k + 1]
    <3>1. 0 + s <= GetSizeAtPtr(n.m, n.at)
      BY <1>3, <1>4, <2>5, <2>7
    <3>2. t = Store(n.m, n.at + 0, Words(m, a, s))
      BY <2>1, <2>7
    <3>3. Stored(n.m, n.at, 0, s, Words(m, a, s), t)
      BY <1>3, <2>6, <3>1, <3>2 DEF Stored
    <3>4. PICK g, at, V, ws : g = n.m /\ at = n.at /\ V = U \cup {n.at} /\ ws = Words(m, a, s)
      OBVIOUS
    <3>5. Good(g, V, Fr) /\ at \in V /\ Stored(g, at, 0, s, ws, t)
      BY <2>5, <3>3, <3>4
    <3>6. /\ Good(t, V, Fr) /\ Keeps(g, t, V \ {at}) /\ \A b : GetSizeAtPtr(t, b) = GetSizeAtPtr(g, b)
          /\ \A k \in 0..s - 1 : t.mem[at + 0 + k] = ws[k + 1]
      <4>1. Good(t, V, Fr)
        BY <3>5, StoreGood
      <4>2. Keeps(g, t, V \ {at})
        BY <3>5, StoreGood
      <4>3. HasWords(g, at, 0, s, ws, t)
        BY <3>5, StoreGood
      <4> QED
        BY <4>1, <4>2, <4>3 DEF HasWords
    <3> QED
      BY <3>4, <3>6
  <2>9. Good(r.m, (U \cup {n.at}) \ {a}, Fr) /\ Keeps(t, r.m, (U \cup {n.at}) \ {a})
    BY <2>3, <2>8, DeallocGood
  <2>10. (U \cup {n.at}) \ {a} = (U \ {a}) \cup {r.at} /\ r.at # a
    BY <2>3, <2>5
  <2>11. Keeps(m, r.m, U \ {a})
    <3>1. Keeps(m, t, U)
      BY <2>5, <2>8, KeepsTrans
    <3> QED
      BY <2>9, <3>1, KeepsTrans
  <2>12. /\ GetSizeAtPtr(r.m, r.at) = GetSizeAtPtr(n.m, n.at)
         /\ \A x \in Room(t, r.at) : r.m.mem[x] = t.mem[x]
    BY <2>3, <2>8, <2>9, <2>10 DEF Keeps
  <2>13. ASSUME NEW k \in 0..s - 1
         PROVE  r.m.mem[r.at + k] = m.mem[a + k]
    <3>1. n.at + k \in Room(t, r.at)
      <4>1. PICK y : y = GetSizeAtPtr(n.m, n.at)
        OBVIOUS
      <4>2. GetSizeAtPtr(t, n.at) = y /\ s <= y /\ y \in Nat
        BY <1>3, <1>4, <2>5, <2>7, <2>8, <4>1
      <4>3. n.at \in Given(t)
        BY <2>8 DEF Good
      <4>4. n.at + y <= NrPages * PageWords
        BY <2>8, <4>2, <4>3, RoomsApart
      <4>5. PICK z : z = NrPages * PageWords
        OBVIOUS
      <4>6. z \in Nat
        BY <4>5, Constants
      <4>7. n.at + k \in 0..z - 1 /\ n.at <= n.at + k /\ n.at + k < n.at + y
        BY <1>3, <2>7, <2>13, <4>2, <4>4, <4>5, <4>6
      <4> QED
        BY <2>3, <4>2, <4>5, <4>7 DEF Room, Addr
    <3>2. n.at + 0 + k = n.at + k
      BY <2>7, <2>13
    <3> QED
      BY <2>3, <2>6, <2>8, <2>12, <3>1, <3>2
  <2>14. w <= GetSizeAtPtr(r.m, r.at) /\ s <= GetSizeAtPtr(r.m, r.at)
    BY <1>3, <1>4, <2>5, <2>7, <2>12
  <2> QED
    BY <1>2, <2>3, <2>5, <2>9, <2>10, <2>11, <2>13, <2>14 DEF SameWords
<1>5. CASE ~ (s < w)
  <2>1. r = [m |-> m, at |-> a]
    BY <1>2, <1>5 DEF Realloc
  <2>2. r.m = m /\ r.at = a
    BY <2>1
  <2>3. (U \ {a}) \cup {a} = U
    OBVIOUS
  <2>4. w <= s /\ s <= s
    BY <1>3, <1>5
  <2>5. SameWords(m, a, m, a)
    BY DEF SameWords
  <2>6. Keeps(m, m, U \ {a})
    BY DEF Keeps
  <2> QED
    BY <1>2, <1>3, <2>2, <2>3, <2>4, <2>5, <2>6
<1> QED
  BY <1>4, <1>5

-----------------------------------------------------------------------------
(* Giving up is for good: what has panicked stays so.                      *)

Sticky(m, r) == "panics" \in DOMAIN m => "panics" \in DOMAIN r /\ m.panics \subseteq r.panics

(* What a step keeps and the next one keeps is kept by both.               *)
LEMMA StickyTrans ==
  ASSUME NEW m, NEW r, NEW s, Sticky(m, r), Sticky(r, s)
  PROVE  Sticky(m, s)
  BY DEF Sticky

(* Pages are asked for: no panic is forgotten.                             *)
LEMMA StickyPages ==
  ASSUME NEW m, NEW n, NEW p
  PROVE  Sticky(m, AllocPages(m, n, p))
<1>1. PICK B, q : B = m.blocks \cup {[page |-> p, pages |-> n]} /\ q = (IF p = 0 THEN {"no pages"} ELSE {})
  OBVIOUS
<1>2. AllocPages(m, n, p) = [m EXCEPT !.blocks = B, !.panics = m.panics \cup q]
  BY <1>1 DEF AllocPages
<1> QED
  BY <1>2 DEF Sticky

(* A new fragment: no panic is forgotten.                                  *)
LEMMA StickyGrow ==
  ASSUME NEW m, NEW w, NEW high
  PROVE  Sticky(m, GrowSpace(m, w, high))
<1>1. PICK p, n : p = Place(m, n, high) /\ n = PagesOf(w)
  OBVIOUS
<1>2. PICK b : b = AllocPages(m, n, p)
  OBVIOUS
<1>3. PICK S : S = {[AllocPages(m, n, q) EXCEPT !.frags = Append(@, [page |-> q, size |-> w])] : q \in {p}}
  OBVIOUS
<1>4. S = {[b EXCEPT !.frags = Append(b.frags, [page |-> p, size |-> w])]}
  BY <1>2, <1>3
<1>5. GrowSpace(m, w, high) = [b EXCEPT !.frags = Append(b.frags, [page |-> p, size |-> w])]
  <2>1. GrowSpace(m, w, high) = The(S)
    BY <1>1, <1>3 DEF GrowSpace
  <2> QED
    BY <1>4, <2>1, TheOne
<1>6. Sticky(b, GrowSpace(m, w, high))
  BY <1>5 DEF Sticky
<1>7. Sticky(m, b)
  BY <1>2, StickyPages
<1> QED
  BY <1>6, <1>7, StickyTrans

(* User data are set: no panic is forgotten.                               *)
LEMMA StickyUser ==
  ASSUME NEW m, NEW p, NEW w, NEW d
  PROVE  Sticky(m, SetUserData(m, p, w, d))
  BY DEF Sticky, SetUserData

(* Words are written: no panic is forgotten.                               *)
LEMMA StickyStore ==
  ASSUME NEW m, NEW a, NEW ws
  PROVE  Sticky(m, Store(m, a, ws))
  BY DEF Sticky, Store

(* A chunk is freed: no panic is forgotten.                                *)
LEMMA StickyDealloc ==
  ASSUME NEW m, NEW a
  PROVE  Sticky(m, Dealloc(m, a))
<1>1. ASSUME NEW p
      PROVE  Sticky(m, DeallocPages(m, p))
  BY DEF Sticky, DeallocPages
<1>2. ASSUME NEW i
      PROVE  Sticky(m, DeallocFragment(m, i))
  <2>1. CASE m.frags[i].size > 0
    <3>1. PICK d : d = DeallocPages(m, m.frags[i].page)
      OBVIOUS
    <3>2. DeallocFragment(m, i) = [d EXCEPT !.frags[i] = [page |-> 0, size |-> 0]]
      BY <2>1, <3>1 DEF DeallocFragment
    <3>3. Sticky(d, DeallocFragment(m, i))
      BY <3>2 DEF Sticky
    <3> QED
      BY <1>1, <3>1, <3>3, StickyTrans
  <2>2. CASE ~ (m.frags[i].size > 0)
    BY <2>2 DEF DeallocFragment, Sticky
  <2> QED
    BY <2>1, <2>2
<1>3. CASE m.user[PageOfAddr(a)].kind = "direct"
  BY <1>2, <1>3 DEF Dealloc
<1>4. CASE m.user[PageOfAddr(a)].kind # "direct"
  BY <1>4 DEF Dealloc, Sticky
<1> QED
  BY <1>3, <1>4

(* A chunk is allocated: no panic is forgotten.                            *)
LEMMA StickyAlloc ==
  ASSUME NEW m, NEW w, NEW high
  PROVE  Sticky(m, Alloc(m, w, high).m)
<1>1. CASE w <= MaxRounded
  <2>1. PICK k : k = SizeClass(w)
    OBVIOUS
  <2>2. PICK f : f = Refill(m, k, high)
    OBVIOUS
  <2>3. Sticky(m, f)
    <3>1. PICK g : g = GrowSpace(m, Pow2[k.log] * PageWords, high)
      OBVIOUS
    <3>2. PICK S : S = { SetUserData(CutChunks(y, k), y.frags[Len(y.frags)].page, Pow2[k.log] * PageWords, InClass(k.inx))
                         : y \in {g} }
      OBVIOUS
    <3>3. S = {SetUserData(CutChunks(g, k), g.frags[Len(g.frags)].page, Pow2[k.log] * PageWords, InClass(k.inx))}
      BY <3>2
    <3>4. f = SetUserData(CutChunks(g, k), g.frags[Len(g.frags)].page, Pow2[k.log] * PageWords, InClass(k.inx))
      <4>1. f = The(S)
        BY <2>2, <3>1, <3>2 DEF Refill
      <4> QED
        BY <3>3, <4>1, TheOne
    <3>5. Sticky(m, g)
      BY <3>1, StickyGrow
    <3>6. Sticky(g, CutChunks(g, k))
      BY DEF Sticky, CutChunks
    <3>7. Sticky(CutChunks(g, k), f)
      BY <3>4, StickyUser
    <3> QED
      BY <3>5, <3>6, <3>7, StickyTrans
  <2>4. PICK s : s = IF m.per[k.inx].free = Null THEN f ELSE m
    OBVIOUS
  <2>5. Sticky(m, s)
    BY <2>3, <2>4 DEF Sticky
  <2>6. Alloc(m, w, high) = AllocChunk(m, k, high)
    <3>1. PICK S : S = {AllocChunk(m, d, high) : d \in {SizeClass(w)}}
      OBVIOUS
    <3>2. S = {AllocChunk(m, k, high)}
      BY <2>1, <3>1
    <3> QED
      BY <1>1, <3>1, <3>2, TheOne DEF Alloc
  <2>7. AllocChunk(m, k, high) = [m |-> [s EXCEPT !.per[k.inx].free = s.mem[s.per[k.inx].free]], at |-> s.per[k.inx].free]
    <3>1. PICK S : S = { [m |-> [x EXCEPT !.per[k.inx].free = x.mem[x.per[k.inx].free]], at |-> x.per[k.inx].free]
                          : x \in {IF m.per[k.inx].free = Null THEN Refill(m, k, high) ELSE m} }
      OBVIOUS
    <3>2. S = {[m |-> [s EXCEPT !.per[k.inx].free = s.mem[s.per[k.inx].free]], at |-> s.per[k.inx].free]}
      BY <2>2, <2>4, <3>1
    <3>3. AllocChunk(m, k, high) = The(S)
      BY <3>1 DEF AllocChunk
    <3> QED
      BY <3>2, <3>3, TheOne
  <2>8. Alloc(m, w, high).m = [s EXCEPT !.per[k.inx].free = s.mem[s.per[k.inx].free]]
    BY <2>6, <2>7
  <2>9. Sticky(s, Alloc(m, w, high).m)
    BY <2>8 DEF Sticky
  <2> QED
    BY <2>5, <2>9, StickyTrans
<1>2. CASE ~ (w <= MaxRounded)
  <2>1. PICK g : g = GrowSpace(m, w, high)
    OBVIOUS
  <2>2. PICK n : n = Len(g.frags)
    OBVIOUS
  <2>3. PICK S : S = { [m |-> SetUserData(x, x.frags[Len(x.frags)].page, w, Direct(Len(x.frags))),
                        at |-> x.frags[Len(x.frags)].page * PageWords] : x \in {g} }
    OBVIOUS
  <2>4. S = {[m |-> SetUserData(g, g.frags[n].page, w, Direct(n)), at |-> g.frags[n].page * PageWords]}
    BY <2>2, <2>3
  <2>5. Alloc(m, w, high) = The(S)
    BY <1>2, <2>1, <2>3 DEF Alloc, AllocDirect
  <2>6. Alloc(m, w, high) = [m |-> SetUserData(g, g.frags[n].page, w, Direct(n)), at |-> g.frags[n].page * PageWords]
    BY <2>4, <2>5, TheOne
  <2>7. Alloc(m, w, high).m = SetUserData(g, g.frags[n].page, w, Direct(n))
    BY <2>6
  <2> QED
    BY <2>1, <2>7, StickyGrow, StickyUser, StickyTrans
<1> QED
  BY <1>1, <1>2

(* A chunk is resized: no panic is forgotten.                              *)
LEMMA StickyRealloc ==
  ASSUME NEW m, NEW a, NEW w, NEW high
  PROVE  Sticky(m, Realloc(m, a, w, high).m)
<1>1. CASE GetSizeAtPtr(m, a) < w
  <2>1. PICK n : n = Alloc(m, w, high)
    OBVIOUS
  <2>2. PICK t : t = Store(n.m, n.at, Words(m, a, GetSizeAtPtr(m, a)))
    OBVIOUS
  <2>3. PICK S : S = { [m |-> Dealloc(Store(x.m, x.at, Words(m, a, GetSizeAtPtr(m, a))), a),
                        at |-> x.at] : x \in {Alloc(m, w, high)} }
    OBVIOUS
  <2>4. S = {[m |-> Dealloc(t, a), at |-> n.at]}
    BY <2>1, <2>2, <2>3
  <2>5. Realloc(m, a, w, high) = The(S)
    BY <1>1, <2>3 DEF Realloc
  <2>6. Realloc(m, a, w, high) = [m |-> Dealloc(t, a), at |-> n.at]
    BY <2>4, <2>5, TheOne
  <2>7. Realloc(m, a, w, high).m = Dealloc(t, a)
    BY <2>6
  <2>8. Sticky(m, n.m) /\ Sticky(n.m, t) /\ Sticky(t, Dealloc(t, a))
    BY <2>1, <2>2, StickyAlloc, StickyStore, StickyDealloc
  <2> QED
    BY <2>7, <2>8, StickyTrans
<1>2. CASE ~ (GetSizeAtPtr(m, a) < w)
  <2>1. Realloc(m, a, w, high).m = m
    BY <1>2 DEF Realloc
  <2> QED
    BY <2>1 DEF Sticky
<1> QED
  BY <1>1, <1>2

-----------------------------------------------------------------------------
(* The beginning: one fragment, with the data of the allocator itself.     *)
LEMMA InitGood == Good(LofInit, {}, {})
<1>1. PICK z : z = [mem |-> [a \in 0..NrPages * PageWords - 1 |-> Junk],
                    blocks |-> {}, frags |-> <<>>,
                    per |-> [c \in 0..NrClasses - 1 |-> [free |-> Null, pages |-> Null, chunkSize |-> 0]],
                    user |-> [p \in 0..NrPages - 1 |-> InClass(0)],
                    panics |-> {}]
  OBVIOUS
<1>2. PICK p : p = Place(z, 1, FALSE)
  OBVIOUS
<1>3. PagesOf(PageWords) = 1
  <2>1. 1 * PageWords = PageWords
    BY Constants
  <2> QED
    BY <2>1, WholePages
<1>4. p \in Nat \ {0} /\ p + 1 <= NrPages
  <2>1. Align(1) = 1
    <3>1. Pow2[0] = 1
      BY PowerFacts
    <3> QED
      BY <3>1, AlignFacts
  <2>2. z.blocks = {}
    BY <1>1
  <2>3. PICK S : S = Places(z, 1)
    OBVIOUS
  <2>4. S = {q \in 1..NrPages - 1 : q % 1 = 0}
    BY <2>1, <2>2, <2>3 DEF Places
  <2>5. 1 \in S
    BY <2>4, Constants
  <2>6. S \subseteq Nat /\ S # {}
    BY <2>4, <2>5
  <2>7. Min(S) \in S
    BY <2>6, MinFacts
  <2>8. p = Min(S)
    BY <1>2, <2>3, <2>6 DEF Place
  <2> QED
    BY <2>4, <2>7, <2>8, Constants
<1>5. LofInit = [AllocPages(z, 1, p) EXCEPT !.frags = Append(@, [page |-> p, size |-> PageWords])]
  <2>1. PICK S : S = { [AllocPages(z, 1, x) EXCEPT !.frags = Append(@, [page |-> x, size |-> PageWords])]
                         : x \in {Place(z, 1, FALSE)} }
    OBVIOUS
  <2>2. S = {[AllocPages(z, 1, p) EXCEPT !.frags = Append(@, [page |-> p, size |-> PageWords])]}
    BY <1>2, <2>1
  <2>3. LofInit = The(S)
    BY <1>1, <1>3, <2>1 DEF LofInit, GrowSpace
  <2> QED
    BY <2>2, <2>3, TheOne
<1>6. PICK m : m = LofInit
  OBVIOUS
<1>7. /\ m.mem = [a \in Addr |-> Junk] /\ m.blocks = {[page |-> p, pages |-> 1]}
      /\ m.frags = <<[page |-> p, size |-> PageWords]>>
      /\ m.per = [c \in Classes |-> [free |-> Null, pages |-> Null, chunkSize |-> 0]]
      /\ m.user = [q \in 0..NrPages - 1 |-> InClass(0)] /\ m.panics = {}
      /\ m = [mem |-> m.mem, blocks |-> m.blocks, frags |-> m.frags, per |-> m.per,
              user |-> m.user, panics |-> m.panics]
  <2>1. PICK f : f = <<[page |-> p, size |-> PageWords]>>
    OBVIOUS
  <2>2. Append(<<>>, [page |-> p, size |-> PageWords]) = f
    BY <2>1
  <2>3. m = [mem |-> z.mem, blocks |-> {[page |-> p, pages |-> 1]}, frags |-> f,
             per |-> z.per, user |-> z.user, panics |-> {}]
    BY <1>1, <1>4, <1>5, <1>6, <2>2 DEF AllocPages
  <2>4. /\ z.mem = [a \in Addr |-> Junk]
        /\ z.per = [c \in Classes |-> [free |-> Null, pages |-> Null, chunkSize |-> 0]]
        /\ z.user = [q \in 0..NrPages - 1 |-> InClass(0)]
    BY <1>1 DEF Addr, Classes
  <2> QED
    BY <2>1, <2>3, <2>4
<1>8. m \in Allocator
  <2>1. m.mem \in [Addr -> Int]
    BY <1>7 DEF Junk
  <2>2. m.blocks \in SUBSET [page : Nat, pages : Nat]
    BY <1>4, <1>7
  <2>3. m.frags \in Seq([page : Nat, size : Nat])
    BY <1>4, <1>7, Constants
  <2>4. m.per \in [Classes -> [free : Int, pages : Int, chunkSize : Nat]]
    BY <1>7 DEF Null
  <2>5. m.user \in [0..NrPages - 1 -> Data]
    BY <1>7 DEF Data, InClass
  <2>6. m.panics \in SUBSET {"no pages"}
    BY <1>7
  <2> QED
    BY <1>7, <2>1, <2>2, <2>3, <2>4, <2>5, <2>6 DEF Allocator
<1>9. Live(m) = {1} /\ m.frags[1] = [page |-> p, size |-> PageWords]
  <2>1. Len(m.frags) = 1 /\ m.frags[1] = [page |-> p, size |-> PageWords]
    BY <1>7
  <2> QED
    BY <1>4, <2>1 DEF Live
<1>10. PagesInv(m, {})
  <2>1. PageAt(m, 1) = p /\ NrOf(m, 1) = 1 /\ m.frags[1].size # 0
    BY <1>3, <1>9, Constants DEF PageAt, NrOf
  <2>2. {Block(m, i) : i \in Live(m)} = m.blocks
    BY <1>7, <1>9, <2>1 DEF Block
  <2> QED
    BY <1>4, <1>9, <2>1, <2>2 DEF PagesInv
<1>11. UserInv(m)
  BY <1>9 DEF UserInv
<1>12. \A c \in Classes : Cuts(m, c) = {} /\ Firsts(m, c) = {} /\ Chunks(m, c) = {}
  BY <1>9 DEF Cuts, Firsts, Chunks
<1>13. ASSUME NEW c \in Classes
       PROVE  ClassInv(m, c, {})
  <2>1. m.per[c].pages = Null /\ m.per[c].free = Null
    BY <1>7
  <2>2. Chunks(m, c) \ {} = {}
    BY <1>12
  <2>3. IsList(m.mem, Null, {})
    BY ListEmpty
  <2> QED
    BY <1>12, <2>1, <2>2, <2>3 DEF ClassInv
<1>14. Directs(m) = {}
  BY <1>9 DEF Directs
<1> QED
  BY <1>6, <1>7, <1>8, <1>10, <1>11, <1>13, <1>14 DEF Good

-----------------------------------------------------------------------------
(* Flexible arrays.                                                        *)

(* The words of the chunks that are kept, counted from their addresses.    *)
LEMMA KeptWords ==
  ASSUME NEW m, NEW U, NEW Fr, Good(m, U, Fr), NEW r, NEW V, V \subseteq U, Keeps(m, r, V),
         NEW a \in V, NEW k \in Nat, k < GetSizeAtPtr(m, a)
  PROVE  a + k \in Addr /\ r.mem[a + k] = m.mem[a + k] /\ GetSizeAtPtr(r, a) = GetSizeAtPtr(m, a)
<1>1. a \in Given(m)
  BY DEF Good
<1>2. PICK s : s = GetSizeAtPtr(m, a)
  OBVIOUS
<1>3. a \in Nat /\ s \in Nat /\ a + s <= NrPages * PageWords
  BY <1>1, <1>2, RoomsApart DEF Addr
<1>4. PICK z : z = NrPages * PageWords
  OBVIOUS
<1>5. z \in Nat
  BY <1>4, Constants
<1>6. a + k \in 0..z - 1 /\ a <= a + k /\ a + k < a + s
  BY <1>2, <1>3, <1>4, <1>5
<1>7. a + k \in Room(m, a)
  BY <1>2, <1>4, <1>6 DEF Room, Addr
<1> QED
  BY <1>7 DEF Keeps, Room

\* An array of whole words, in its chunk
Array == [ptr : Int, free : Nat, size : Nat]
ArrayIn(m, a) == a \in Array /\ a.free <= a.size /\ a.size <= GetSizeAtPtr(m, a.ptr)

\* r.m has the array r.arr, with the entries of a, where m has a
Longer(m, U, Fr, a, r) ==
  /\ Good(r.m, (U \ {a.ptr}) \cup {r.arr.ptr}, Fr) /\ Keeps(m, r.m, U \ {a.ptr}) /\ r.arr.ptr \notin U \ {a.ptr}
  /\ ArrayIn(r.m, r.arr) /\ a.free <= r.arr.free
  /\ \A k \in 0..a.free - 1 : r.m.mem[r.arr.ptr + k] = m.mem[a.ptr + k]

(* A new array.                                                            *)
LEMMA NewArrayGood ==
  ASSUME NEW m, NEW U, NEW Fr, Good(m, U, Fr), NEW r, r = NewArray(m), r.m.panics = {}
  PROVE  /\ Good(r.m, U \cup {r.arr.ptr}, Fr) /\ Keeps(m, r.m, U) /\ r.arr.ptr \notin U
         /\ ArrayIn(r.m, r.arr) /\ r.arr.free = 0
<1>1. PICK n, w, ws : n = Alloc(m, w, FALSE) /\ w = InitSlots + 1 /\ ws = [i \in 1..w |-> 0]
  OBVIOUS
<1>2. w \in Nat \ {0}
  BY <1>1, SpacesAssumption
<1>3. /\ r = [m |-> Store(n.m, n.at, ws), arr |-> [ptr |-> n.at, free |-> 0, size |-> w]]
  BY <1>1 DEF NewArray
<1>4. n.m.panics = {}
  <2>1. r.m = Store(n.m, n.at, ws)
    BY <1>3
  <2>2. Store(n.m, n.at, ws).panics = n.m.panics
    BY DEF Store
  <2> QED
    BY <2>1, <2>2
<1>5. /\ Good(n.m, U \cup {n.at}, Fr) /\ Keeps(m, n.m, U)
      /\ n.at \notin U /\ w <= GetSizeAtPtr(n.m, n.at)
  BY <1>1, <1>2, <1>4, AllocGood
<1>6. n.at \in Nat
  <2>1. n.at \in Given(n.m)
    BY <1>5 DEF Good
  <2> QED
    BY <1>5, <2>1, RoomsApart DEF Addr
<1>7. PICK g, at, V : g = n.m /\ at = n.at /\ V = U \cup {n.at}
  OBVIOUS
<1>8. Good(g, V, Fr) /\ at \in V
  BY <1>5, <1>7
<1>9. Stored(g, at, 0, w, ws, r.m)
  <2>1. ws \in [1..w -> Int]
    BY <1>1
  <2>2. at + 0 = at /\ r.m = Store(g, at, ws)
    BY <1>3, <1>6, <1>7
  <2>3. 0 + w <= GetSizeAtPtr(g, at)
    BY <1>2, <1>5, <1>7
  <2> QED
    BY <1>2, <2>1, <2>2, <2>3 DEF Stored
<1>10. Good(r.m, V, Fr) /\ Keeps(g, r.m, V \ {at})
  BY <1>8, <1>9, StoreGood
<1>11. GetSizeAtPtr(r.m, at) = GetSizeAtPtr(g, at)
  <2>1. HasWords(g, at, 0, w, ws, r.m)
    BY <1>8, <1>9, StoreGood
  <2> QED
    BY <2>1 DEF HasWords
<1>12. Keeps(m, r.m, U)
  <2>1. U \subseteq U \cap (V \ {at})
    BY <1>5, <1>7
  <2> QED
    BY <1>5, <1>7, <1>10, <2>1, KeepsTrans
<1>13. r.arr = [ptr |-> at, free |-> 0, size |-> w]
  BY <1>3, <1>7
<1>14. ArrayIn(r.m, r.arr)
  BY <1>2, <1>5, <1>6, <1>7, <1>11, <1>13 DEF ArrayIn, Array
<1> QED
  BY <1>5, <1>7, <1>10, <1>12, <1>13, <1>14

(* An array with another chunk.                                            *)
Moved(a, p, n) == [a EXCEPT !.ptr = p, !.size = n]
(* The array in its new chunk.                                             *)
LEMMA ArrayMoved ==
  ASSUME NEW a \in Array, NEW p \in Int, NEW n \in Nat
  PROVE  Moved(a, p, n) \in Array /\ Moved(a, p, n).ptr = p /\ Moved(a, p, n).free = a.free /\ Moved(a, p, n).size = n
<1>1. PICK b : b = [a EXCEPT !.ptr = p, !.size = n]
  OBVIOUS
<1>2. b \in Array /\ b.ptr = p /\ b.free = a.free /\ b.size = n
  BY <1>1 DEF Array
<1> QED
  BY <1>1, <1>2 DEF Moved

(* An array that is made larger when it is full.                           *)
LEMMA RoomGood ==
  ASSUME NEW m, NEW U, NEW Fr, Good(m, U, Fr), NEW a, ArrayIn(m, a), a.ptr \in U, NEW high,
         NEW e, e = IF 1 > a.size - a.free
                    THEN ExtendArray(m, a, 3 * ((a.free + 1) \div 2 + 1), high)
                    ELSE [m |-> m, arr |-> a],
         e.m.panics = {}
  PROVE  Longer(m, U, Fr, a, e) /\ e.arr.free = a.free /\ a.free + 1 <= e.arr.size
<1>1. a.ptr \in Int /\ a.free \in Nat /\ a.size \in Nat /\ a.free <= a.size /\ a.size <= GetSizeAtPtr(m, a.ptr)
      /\ a = [ptr |-> a.ptr, free |-> a.free, size |-> a.size]
  BY DEF ArrayIn, Array
<1>2. CASE ~ (1 > a.size - a.free)
  <2>1. e = [m |-> m, arr |-> a]
    BY <1>2
  <2>2. e.m = m /\ e.arr = a
    BY <2>1
  <2>3. (U \ {a.ptr}) \cup {a.ptr} = U
    OBVIOUS
  <2>4. Longer(m, U, Fr, a, e)
    <3>1. Keeps(m, m, U \ {a.ptr})
      BY DEF Keeps
    <3>2. a.free <= a.free
      BY <1>1
    <3> QED
      BY <2>2, <2>3, <3>1, <3>2 DEF Longer
  <2> QED
    BY <1>1, <1>2, <2>2, <2>4
<1>3. CASE 1 > a.size - a.free
  <2>1. PICK w : w = 3 * ((a.free + 1) \div 2 + 1)
    OBVIOUS
  <2>2. w \in Nat \ {0} /\ a.free + 1 <= w
    BY <1>1, <2>1
  <2>3. PICK r : r = Realloc(m, a.ptr, w, high)
    OBVIOUS
  <2>4. e = [m |-> r.m, arr |-> [a EXCEPT !.ptr = r.at, !.size = w]]
    <3>1. PICK S : S = { [m |-> x.m, arr |-> [a EXCEPT !.ptr = x.at, !.size = w]] : x \in {Realloc(m, a.ptr, w, high)} }
      OBVIOUS
    <3>2. S = {[m |-> r.m, arr |-> [a EXCEPT !.ptr = r.at, !.size = w]]}
      BY <2>3, <3>1
    <3>3. e = The(S)
      BY <1>3, <2>1, <3>1 DEF ExtendArray
    <3> QED
      BY <3>2, <3>3, TheOne
  <2>5. e.m = r.m /\ e.arr = [a EXCEPT !.ptr = r.at, !.size = w]
    BY <2>4
  <2>6. PICK b : b = a.ptr
    OBVIOUS
  <2>7. /\ Good(r.m, (U \ {b}) \cup {r.at}, Fr) /\ Keeps(m, r.m, U \ {b}) /\ r.at \notin U \ {b}
        /\ w <= GetSizeAtPtr(r.m, r.at)
        /\ \A k \in 0..GetSizeAtPtr(m, b) - 1 : r.m.mem[r.at + k] = m.mem[b + k]
    <3>1. r.m.panics = {} /\ b \in U /\ r = Realloc(m, b, w, high)
      BY <2>3, <2>5, <2>6
    <3>2. Good(r.m, (U \ {b}) \cup {r.at}, Fr)
      BY <2>2, <3>1, ReallocGood
    <3>3. Keeps(m, r.m, U \ {b}) /\ r.at \notin U \ {b}
      BY <2>2, <3>1, ReallocGood
    <3>4. w <= GetSizeAtPtr(r.m, r.at)
      BY <2>2, <3>1, ReallocGood
    <3>5. SameWords(m, b, r.m, r.at)
      BY <2>2, <3>1, ReallocGood
    <3> QED
      BY <3>2, <3>3, <3>4, <3>5 DEF SameWords
  <2>8. r.at \in Nat
    <3>1. r.at \in Given(r.m)
      BY <2>7 DEF Good
    <3> QED
      BY <2>7, <3>1, RoomsApart DEF Addr
  <2>11. e.arr \in Array /\ e.arr.ptr = r.at /\ e.arr.free = a.free /\ e.arr.size = w
    <3>1. a \in Array
      BY DEF ArrayIn
    <3>2. r.at \in Int /\ w \in Nat
      BY <2>2, <2>8
    <3>3. e.arr = Moved(a, r.at, w)
      BY <2>5 DEF Moved
    <3> QED
      BY <3>1, <3>2, <3>3, ArrayMoved
  <2>9. ArrayIn(e.m, e.arr)
    BY <1>1, <2>2, <2>5, <2>7, <2>11 DEF ArrayIn
  <2>10. \A k \in 0..a.free - 1 : r.m.mem[r.at + k] = m.mem[b + k]
    <3>1. GetSizeAtPtr(m, b) \in Nat
      <4>1. b \in Given(m)
        BY <2>6 DEF Good
      <4> QED
        BY <4>1, RoomsApart
    <3>2. \A k \in 0..a.free - 1 : k \in 0..GetSizeAtPtr(m, b) - 1
      BY <1>1, <2>6, <3>1
    <3> QED
      BY <2>7, <3>2
  <2>12. Longer(m, U, Fr, a, e)
    <3>1. a.free <= e.arr.free
      BY <1>1, <2>11
    <3>2. Good(e.m, (U \ {b}) \cup {e.arr.ptr}, Fr) /\ Keeps(m, e.m, U \ {b}) /\ e.arr.ptr \notin U \ {b}
      BY <2>5, <2>7, <2>11
    <3>3. \A k \in 0..a.free - 1 : e.m.mem[e.arr.ptr + k] = m.mem[b + k]
      BY <2>5, <2>10, <2>11
    <3> QED
      BY <2>6, <2>9, <3>1, <3>2, <3>3 DEF Longer
  <2> QED
    BY <2>2, <2>11, <2>12
<1> QED
  BY <1>2, <1>3

\* r.arr has one slot more
Slotted(m, U, Fr, a, r) == Longer(m, U, Fr, a, r) /\ r.arr.free = a.free + 1

(* One slot more.                                                          *)
LEMMA SlotGood ==
  ASSUME NEW m, NEW U, NEW Fr, Good(m, U, Fr), NEW a, ArrayIn(m, a), a.ptr \in U, NEW high,
         NEW r, r = AllocSlot(m, a, high), r.m.panics = {}
  PROVE  Slotted(m, U, Fr, a, r)
<1>1. PICK e : e = IF 1 > a.size - a.free
                   THEN ExtendArray(m, a, 3 * ((a.free + 1) \div 2 + 1), high)
                   ELSE [m |-> m, arr |-> a]
  OBVIOUS
<1>2. r = [m |-> Store(e.m, e.arr.ptr + a.free, <<0>>), arr |-> [e.arr EXCEPT !.free = @ + 1]]
  <2>1. PICK S : S = { [m |-> Store(x.m, x.arr.ptr + a.free, <<0>>), arr |-> [x.arr EXCEPT !.free = @ + 1]]
                         : x \in {e} }
    OBVIOUS
  <2>2. S = {[m |-> Store(e.m, e.arr.ptr + a.free, <<0>>), arr |-> [e.arr EXCEPT !.free = @ + 1]]}
    BY <2>1
  <2>3. r = The(S)
    BY <1>1, <2>1 DEF AllocSlot
  <2> QED
    BY <2>2, <2>3, TheOne
<1>3. e.m.panics = {}
  <2>1. r.m = Store(e.m, e.arr.ptr + a.free, <<0>>)
    BY <1>2
  <2>2. Store(e.m, e.arr.ptr + a.free, <<0>>).panics = e.m.panics
    BY DEF Store
  <2> QED
    BY <2>1, <2>2
<1>4. Longer(m, U, Fr, a, e) /\ e.arr.free = a.free /\ a.free + 1 <= e.arr.size
  BY <1>1, <1>3, RoomGood
<1>5. PICK g, b, V, z : g = e.m /\ b = e.arr.ptr /\ V = (U \ {a.ptr}) \cup {b} /\ z = e.arr.size
  OBVIOUS
<1>6. /\ Good(g, V, Fr) /\ Keeps(m, g, U \ {a.ptr}) /\ b \notin U \ {a.ptr} /\ b \in V
      /\ ArrayIn(g, e.arr) /\ \A k \in 0..a.free - 1 : g.mem[b + k] = m.mem[a.ptr + k]
  BY <1>4, <1>5 DEF Longer
<1>7. /\ e.arr = [ptr |-> b, free |-> a.free, size |-> z] /\ a.free \in Nat /\ z \in Nat /\ b \in Int
      /\ a.free + 1 <= z /\ z <= GetSizeAtPtr(g, b)
  BY <1>4, <1>5, <1>6 DEF ArrayIn, Array
<1>8. b \in Nat /\ GetSizeAtPtr(g, b) \in Nat
  <2>1. b \in Given(g)
    BY <1>6 DEF Good
  <2> QED
    BY <1>6, <2>1, RoomsApart DEF Addr
<1>9. r.m = Store(g, b + a.free, <<0>>) /\ r.arr = [ptr |-> b, free |-> a.free + 1, size |-> z]
  BY <1>2, <1>5, <1>7
<1>10. Stored(g, b, a.free, 1, <<0>>, r.m)
  <2>1. <<0>> \in [1..1 -> Int]
    OBVIOUS
  <2>2. a.free + 1 <= GetSizeAtPtr(g, b)
    BY <1>7, <1>8
  <2> QED
    BY <1>7, <1>9, <2>1, <2>2 DEF Stored
<1>11. Good(r.m, V, Fr) /\ Keeps(g, r.m, V \ {b}) /\ HasWords(g, b, a.free, 1, <<0>>, r.m)
  BY <1>6, <1>10, StoreGood
<1>12. GetSizeAtPtr(r.m, b) = GetSizeAtPtr(g, b)
  BY <1>11 DEF HasWords
<1>13. Keeps(m, r.m, U \ {a.ptr})
  <2>1. U \ {a.ptr} \subseteq (U \ {a.ptr}) \cap (V \ {b})
    BY <1>5, <1>6
  <2> QED
    BY <1>6, <1>11, <2>1, KeepsTrans
<1>14. ASSUME NEW k \in 0..a.free - 1
       PROVE  r.m.mem[b + k] = m.mem[a.ptr + k]
  <2>1. b + k \in Addr
    <3>1. Keeps(m, m, U) /\ k \in Nat /\ k < GetSizeAtPtr(g, b) /\ Keeps(g, g, V)
      BY <1>7, <1>8, <1>14 DEF Keeps
    <3> QED
      BY <1>6, <3>1, KeptWords
  <2>2. b + k < b + a.free
    BY <1>7, <1>8, <1>14
  <2>3. r.m.mem[b + k] = g.mem[b + k]
    BY <1>11, <2>1, <2>2 DEF HasWords
  <2> QED
    BY <1>6, <2>3
<1>15. ArrayIn(r.m, r.arr)
  BY <1>7, <1>8, <1>9, <1>12 DEF ArrayIn, Array
<1>16. r.arr.ptr = b /\ r.arr.free = a.free + 1 /\ a.free <= r.arr.free
  BY <1>7, <1>9
<1>17. Longer(m, U, Fr, a, r)
  <2>1. (U \ {a.ptr}) \cup {r.arr.ptr} = V /\ r.arr.ptr \notin U \ {a.ptr}
    BY <1>5, <1>6, <1>16
  <2> QED
    BY <1>11, <1>13, <1>14, <1>15, <1>16, <2>1 DEF Longer
<1> QED
  BY <1>16, <1>17 DEF Slotted

-----------------------------------------------------------------------------
(* The range map.                                                          *)
MapRec == [ptr : Int, first : Nat, size : Nat]
In(t, x) == t.first <= x /\ x < t.first + t.size
Entry(m, t, x) == m.mem[t.ptr + x - t.first]

\* The map t has its chunk in m
MapIn(m, t) ==
  /\ t \in MapRec /\ t.first + t.size <= NrPages
  /\ t.ptr = Null => t.first = 0 /\ t.size = 0
  /\ t.ptr # Null => t.first # 0 /\ t.size # 0 /\ t.size <= GetSizeAtPtr(m, t.ptr)

\* The entries that t has in m, or none
Copied(m, t, x) == IF x \in t.first..t.first + t.size - 1 THEN Entry(m, t, x) ELSE Null

(* An entry is a word of memory.                                           *)
LEMMA EntryWord ==
  ASSUME NEW m, NEW U, NEW Fr, Good(m, U, Fr), NEW a \in U, NEW n \in Nat, n <= GetSizeAtPtr(m, a),
         NEW first \in Nat, NEW x \in Nat, first <= x, x < first + n
  PROVE  /\ a + x - first \in Addr /\ a + x - first = a + (x - first)
         /\ x - first \in Nat /\ x - first < GetSizeAtPtr(m, a) /\ m.mem[a + x - first] \in Int
<1>1. a \in Given(m) /\ m \in Allocator
  BY DEF Good
<1>2. a \in Nat /\ GetSizeAtPtr(m, a) \in Nat
  BY <1>1, RoomsApart DEF Addr
<1>3. x - first \in Nat /\ x - first < GetSizeAtPtr(m, a) /\ a + x - first = a + (x - first)
  BY <1>2
<1>4. Keeps(m, m, U)
  BY DEF Keeps
<1>5. a + (x - first) \in Addr
  BY <1>3, <1>4, KeptWords
<1> QED
  BY <1>1, <1>3, <1>5 DEF Allocator

\* The entries of t in m, from first on, are in g at at
Moves(m, t, g, at, first, n) == \A x \in first..first + n - 1 : g.mem[at + x - first] = Copied(m, t, x)

\* Chunks have the same sizes
SameSizes(m, r) == \A b : GetSizeAtPtr(r, b) = GetSizeAtPtr(m, b)

(* The entries are moved to another chunk.                                 *)
LEMMA MoveGood ==
  ASSUME NEW m, NEW U, NEW Fr, Good(m, U, Fr), NEW at \in U, NEW n \in Nat, n <= GetSizeAtPtr(m, at),
         NEW t \in MapRec, t.size = 0 \/ (t.ptr \in U /\ t.size <= GetSizeAtPtr(m, t.ptr)),
         NEW first \in Nat, NEW g, g = Move(m, t, at, first, n)
  PROVE  /\ Good(g, U, Fr) /\ Keeps(m, g, U \ {at}) /\ SameSizes(m, g)
         /\ Moves(m, t, g, at, first, n)
<1>1. PICK ws : ws = [k \in 1..n |-> Copied(m, t, first + k - 1)]
  OBVIOUS
<1>2. t.first \in Nat /\ t.size \in Nat
  BY DEF MapRec
<1>3. at \in Nat
  <2>1. at \in Given(m)
    BY DEF Good
  <2> QED
    BY <2>1, RoomsApart DEF Addr
<1>4. g = Store(m, at, ws)
  BY <1>1 DEF Move, Copied, Entry
<1>5. ASSUME NEW x \in Nat
      PROVE  Copied(m, t, x) \in Int
  <2>1. CASE x \in t.first..t.first + t.size - 1
    <3>1. PICK a : a = t.ptr
      OBVIOUS
    <3>2. a \in U /\ t.size <= GetSizeAtPtr(m, a) /\ t.first <= x /\ x < t.first + t.size
      BY <1>2, <2>1, <3>1
    <3>3. m.mem[a + x - t.first] \in Int
      BY <1>2, <3>2, EntryWord
    <3> QED
      BY <2>1, <3>1, <3>3 DEF Copied, Entry
  <2>2. CASE x \notin t.first..t.first + t.size - 1
    BY <2>2 DEF Copied, Null
  <2> QED
    BY <2>1, <2>2
<1>6. ws \in [1..n -> Int]
  <2>1. \A k \in 1..n : first + k - 1 \in Nat
    OBVIOUS
  <2> QED
    BY <1>1, <1>5, <2>1
<1>7. Stored(m, at, 0, n, ws, g)
  <2>1. at + 0 = at /\ 0 + n = n
    BY <1>3
  <2> QED
    BY <1>4, <1>6, <2>1 DEF Stored
<1>8. Good(g, U, Fr) /\ Keeps(m, g, U \ {at}) /\ HasWords(m, at, 0, n, ws, g)
  BY <1>7, StoreGood
<1>9. ASSUME NEW x \in first..first + n - 1
      PROVE  g.mem[at + x - first] = Copied(m, t, x)
  <2>1. PICK k : k = x - first
    OBVIOUS
  <2>2. k \in 0..n - 1 /\ at + 0 + k = at + x - first /\ k + 1 \in 1..n /\ first + (k + 1) - 1 = x
    BY <1>3, <2>1
  <2>3. g.mem[at + 0 + k] = ws[k + 1]
    BY <1>8, <2>2 DEF HasWords
  <2> QED
    BY <1>1, <2>2, <2>3
<1> QED
  BY <1>8, <1>9 DEF HasWords, Moves, SameSizes

\* r.m has the map r.map, with the entries of t, and one for inx
Wider(m, U, Fr, t, inx, r) ==
  /\ Good(r.m, (U \ {t.ptr}) \cup {r.map.ptr}, Fr) /\ Keeps(m, r.m, U \ {t.ptr}) /\ r.map.ptr \notin U \ {t.ptr}
  /\ MapIn(r.m, r.map) /\ r.map.ptr # Null /\ In(r.map, inx)
  /\ \A x \in Nat : In(t, x) => In(r.map, x) /\ Entry(r.m, r.map, x) = Entry(m, t, x)
  /\ \A x \in Nat : In(r.map, x) /\ ~ In(t, x) => Entry(r.m, r.map, x) = Null

\* What the arguments of the resize are
Asked(t, inx, old, first, n) ==
  /\ old = (IF t.first = 0 THEN inx ELSE t.first) /\ first = Smaller(old, inx)
  /\ n = Larger(inx + 1, old + t.size) - first

(* The new range of indices: it has the old one and the index asked for.   *)
LEMMA AskedFacts ==
  ASSUME NEW m, NEW t, MapIn(m, t), NEW inx \in Nat \ {0}, inx < NrPages,
         NEW old, NEW first, NEW n, Asked(t, inx, old, first, n)
  PROVE  /\ old \in Nat /\ first \in Nat \ {0} /\ n \in Nat \ {0} /\ first + n <= NrPages
         /\ first <= inx /\ inx < first + n /\ first <= old /\ old + t.size <= first + n
         /\ t.first # 0 => old = t.first
         /\ t.first = 0 => t.size = 0 /\ t.ptr = Null
         /\ n <= t.size => t.first # 0 /\ first = t.first /\ n = t.size /\ t.ptr # Null
<1>1. /\ t.first \in Nat /\ t.size \in Nat /\ t.first + t.size <= NrPages
      /\ t.ptr = Null => t.first = 0 /\ t.size = 0
      /\ t.ptr # Null => t.first # 0 /\ t.size # 0
  BY DEF MapIn, MapRec
<1>2. PICK f, s : f = t.first /\ s = t.size
  OBVIOUS
<1>3. /\ old = (IF f = 0 THEN inx ELSE f) /\ first = (IF old > inx THEN inx ELSE old)
      /\ n = (IF inx + 1 > old + s THEN inx + 1 ELSE old + s) - first
  BY <1>2 DEF Asked, Smaller, Larger
<1>4. NrPages \in Nat
  BY Constants
<1>5. CASE f = 0
  <2>1. s = 0 /\ t.ptr = Null
    BY <1>1, <1>2, <1>5
  <2>2. old = inx /\ first = inx /\ n = 1
    BY <1>3, <1>5, <2>1
  <2> QED
    BY <1>2, <1>4, <1>5, <2>1, <2>2
<1>6. CASE f # 0
  <2>1. f \in Nat /\ s \in Nat /\ f + s <= NrPages /\ t.ptr # Null /\ s # 0 /\ old = f
    BY <1>1, <1>2, <1>3, <1>6
  <2>2. /\ first = (IF f > inx THEN inx ELSE f)
        /\ n = (IF inx + 1 > f + s THEN inx + 1 ELSE f + s) - first
    BY <1>3, <2>1
  <2>3. /\ first \in Nat \ {0} /\ n \in Nat \ {0} /\ first + n <= NrPages
        /\ first <= inx /\ inx < first + n /\ first <= f /\ f + s <= first + n
        /\ n <= s => first = f /\ n = s
    BY <1>4, <1>6, <2>1, <2>2
  <2> QED
    BY <1>2, <1>6, <2>1, <2>3
<1> QED
  BY <1>5, <1>6

(* The fields of what a function with two results returns.                 *)
LEMMA TwoFields ==
  ASSUME NEW a, NEW b
  PROVE  [m |-> a, map |-> b].m = a /\ [m |-> a, map |-> b].map = b
OBVIOUS

\* The map t with another first index
From1(t, first) == [t EXCEPT !.first = first]

(* Nothing but the first index differs.                                    *)
LEMMA MapMoved ==
  ASSUME NEW t \in MapRec, NEW first \in Nat
  PROVE  /\ From1(t, first) \in MapRec /\ From1(t, first).ptr = t.ptr
         /\ From1(t, first).first = first /\ From1(t, first).size = t.size
         /\ first = t.first => From1(t, first) = t
<1>1. PICK b : b = [t EXCEPT !.first = first]
  OBVIOUS
<1>2. b \in MapRec /\ b.ptr = t.ptr /\ b.first = first /\ b.size = t.size
  BY <1>1 DEF MapRec
<1>3. first = t.first => b = t
  BY <1>2 DEF MapRec
<1> QED
  BY <1>1, <1>2, <1>3 DEF From1

(* The range map does not change when it has the index.                    *)
LEMMA SameMap ==
  ASSUME NEW m, NEW U, NEW Fr, Good(m, U, Fr), NEW t, MapIn(m, t), t.ptr # Null, t.ptr \in U,
         NEW inx, In(t, inx), NEW r, r.m = m, r.map = t
  PROVE  Wider(m, U, Fr, t, inx, r)
<1>1. (U \ {t.ptr}) \cup {t.ptr} = U
  OBVIOUS
<1>2. Keeps(m, m, U \ {t.ptr})
  BY DEF Keeps
<1> QED
  BY <1>1, <1>2 DEF Wider

\* The map t of m is moved to a new chunk, because of inx
Replaced(m, t, inx, old, first, n, q, g, r) ==
  /\ MapIn(m, t) /\ inx \in Nat \ {0} /\ inx < NrPages
  /\ Asked(t, inx, old, first, n)
  /\ q = Alloc(m, n, FALSE) /\ q.m.panics = {}
  /\ g = Move(q.m, From1(t, old), q.at, first, n)
  /\ r.m = (IF t.ptr = Null THEN g ELSE Dealloc(g, t.ptr))
  /\ r.map = [ptr |-> q.at, first |-> first, size |-> n]

(* The new range map has what the old one had.                             *)
LEMMA NewMap ==
  ASSUME NEW m, NEW U, NEW Fr, Good(m, U, Fr), NEW t, t.ptr # Null => t.ptr \in U,
         NEW inx, NEW old, NEW first, NEW n, NEW q, NEW g, NEW r, Replaced(m, t, inx, old, first, n, q, g, r)
  PROVE  Wider(m, U, Fr, t, inx, r)
<1>0. /\ MapIn(m, t) /\ inx \in Nat \ {0} /\ inx < NrPages
      /\ Asked(t, inx, old, first, n)
      /\ q = Alloc(m, n, FALSE) /\ q.m.panics = {}
      /\ g = Move(q.m, From1(t, old), q.at, first, n)
      /\ r.m = (IF t.ptr = Null THEN g ELSE Dealloc(g, t.ptr))
      /\ r.map = [ptr |-> q.at, first |-> first, size |-> n]
  BY DEF Replaced
<1>1. /\ old \in Nat /\ first \in Nat \ {0} /\ n \in Nat \ {0} /\ first + n <= NrPages
      /\ first <= inx /\ inx < first + n /\ first <= old /\ old + t.size <= first + n
      /\ t.first # 0 => old = t.first
      /\ t.first = 0 => t.size = 0 /\ t.ptr = Null
  BY <1>0, AskedFacts
<1>2. /\ t \in MapRec /\ t.ptr \in Int /\ t.first \in Nat /\ t.size \in Nat
      /\ t.ptr = Null => t.first = 0 /\ t.size = 0
      /\ t.ptr # Null => t.first # 0 /\ t.size # 0 /\ t.size <= GetSizeAtPtr(m, t.ptr)
  BY <1>0 DEF MapIn, MapRec
<1>3. PICK u : u = From1(t, old)
  OBVIOUS
<1>4. u \in MapRec /\ u.ptr = t.ptr /\ u.first = old /\ u.size = t.size
  BY <1>1, <1>2, <1>3, MapMoved
<1>5. PICK k, a : k = q.m /\ a = q.at
  OBVIOUS
<1>6. /\ Good(k, U \cup {a}, Fr) /\ Keeps(m, k, U) /\ a \notin U /\ n <= GetSizeAtPtr(k, a)
  BY <1>0, <1>1, <1>5, AllocGood
<1>7. a \in Nat /\ a # Null /\ GetSizeAtPtr(k, a) \in Nat
  <2>1. a \in Given(k)
    BY <1>6 DEF Good
  <2> QED
    BY <1>6, <2>1, RoomsApart DEF Addr
<1>8. t.ptr # Null => GetSizeAtPtr(k, t.ptr) = GetSizeAtPtr(m, t.ptr)
  BY <1>6 DEF Keeps
<1>9. u.size = 0 \/ (u.ptr \in U \cup {a} /\ u.size <= GetSizeAtPtr(k, u.ptr))
  <2>1. CASE t.ptr = Null
    <3>1. u.size = 0
      BY <1>2, <1>4, <2>1
    <3> QED
      BY <3>1
  <2>2. CASE t.ptr # Null
    <3>1. t.ptr \in U /\ t.size <= GetSizeAtPtr(k, t.ptr)
      BY <1>2, <1>8, <2>2
    <3> QED
      BY <1>4, <3>1
  <2> QED
    BY <2>1, <2>2
<1>10. /\ Good(g, U \cup {a}, Fr) /\ Keeps(k, g, (U \cup {a}) \ {a})
       /\ \A b : GetSizeAtPtr(g, b) = GetSizeAtPtr(k, b)
       /\ Moves(k, u, g, a, first, n)
  <2>0. PICK V : V = U \cup {a}
    OBVIOUS
  <2>1. g = Move(k, u, a, first, n) /\ a \in V /\ first \in Nat /\ n \in Nat
    BY <1>0, <1>1, <1>3, <1>5, <2>0
  <2>2. Good(k, V, Fr) /\ n <= GetSizeAtPtr(k, a) /\ (u.size = 0 \/ (u.ptr \in V /\ u.size <= GetSizeAtPtr(k, u.ptr)))
    BY <1>6, <1>9, <2>0
  <2>3. Good(g, V, Fr)
    BY <1>4, <2>1, <2>2, MoveGood
  <2>6. Keeps(k, g, V \ {a})
    BY <1>4, <2>1, <2>2, MoveGood
  <2>4. SameSizes(k, g)
    BY <1>4, <2>1, <2>2, MoveGood
  <2>5. Moves(k, u, g, a, first, n)
    BY <1>4, <2>1, <2>2, MoveGood
  <2> QED
    BY <2>0, <2>3, <2>4, <2>5, <2>6 DEF SameSizes
<1>11. Keeps(m, g, U)
  <2>1. PICK V : V = (U \cup {a}) \ {a}
    OBVIOUS
  <2>2. U \subseteq U \cap V
    BY <1>6, <2>1
  <2>3. Keeps(k, g, V)
    BY <1>10, <2>1
  <2> QED
    BY <1>6, <2>2, <2>3, KeepsTrans
<1>12. PICK z : z = r.m
  OBVIOUS
<1>13. t.ptr \notin {a}
  BY <1>2, <1>6, <1>7
<1>14. Good(z, (U \ {t.ptr}) \cup {a}, Fr) /\ Keeps(g, z, (U \ {t.ptr}) \cup {a})
  <2>1. CASE t.ptr = Null
    <3>1. z = g
      BY <1>0, <1>12, <2>1
    <3>2. U \ {t.ptr} = U
      <4>1. U \subseteq Given(m)
        BY DEF Good
      <4>2. t.ptr \notin U
        BY <2>1, <4>1, RoomsApart
      <4> QED
        BY <4>2
    <3>3. Keeps(g, g, U \cup {a})
      BY DEF Keeps
    <3> QED
      BY <1>10, <3>1, <3>2, <3>3
  <2>2. CASE t.ptr # Null
    <3>1. z = Dealloc(g, t.ptr) /\ t.ptr \in U \cup {a}
      BY <1>0, <1>12, <2>2
    <3>2. Good(z, (U \cup {a}) \ {t.ptr}, Fr) /\ Keeps(g, z, (U \cup {a}) \ {t.ptr})
      BY <1>10, <3>1, DeallocGood
    <3>3. (U \cup {a}) \ {t.ptr} = (U \ {t.ptr}) \cup {a}
      BY <1>13
    <3> QED
      BY <3>2, <3>3
  <2> QED
    BY <2>1, <2>2
<1>15. Keeps(m, z, U \ {t.ptr})
  <2>1. PICK V, W : V = (U \ {t.ptr}) \cup {a} /\ W = U \ {t.ptr}
    OBVIOUS
  <2>2. W \subseteq U \cap V
    BY <2>1
  <2>3. Keeps(g, z, V)
    BY <1>14, <2>1
  <2>4. Keeps(m, z, W)
    BY <1>11, <2>2, <2>3, KeepsTrans
  <2> QED
    BY <2>1, <2>4
<1>16. GetSizeAtPtr(z, a) = GetSizeAtPtr(k, a)
  BY <1>10, <1>14 DEF Keeps
<1>17. PICK d : d = r.map
  OBVIOUS
<1>18. d = [ptr |-> a, first |-> first, size |-> n]
  BY <1>0, <1>5, <1>17
<1>19. d.ptr = a /\ d.first = first /\ d.size = n /\ d \in MapRec
  BY <1>1, <1>7, <1>18 DEF MapRec
<1>20. MapIn(z, d) /\ In(d, inx)
  BY <1>0, <1>1, <1>6, <1>7, <1>16, <1>19 DEF MapIn, In
<1>21. ASSUME NEW x \in Nat, In(d, x)
       PROVE  Entry(z, d, x) = Copied(k, u, x)
  <2>1. first <= x /\ x < first + n
    BY <1>19, <1>21 DEF In
  <2>2. x \in first..first + n - 1
    BY <1>1, <2>1
  <2>3. Keeps(g, z, (U \ {t.ptr}) \cup {a}) /\ n <= GetSizeAtPtr(g, a) /\ a \in U \cup {a}
    BY <1>6, <1>10, <1>14
  <2>4. a + x - first = a + (x - first) /\ x - first \in Nat /\ x - first < GetSizeAtPtr(g, a)
    BY <1>1, <1>10, <2>1, <2>3, EntryWord
  <2>5. z.mem[a + (x - first)] = g.mem[a + (x - first)]
    <3>1. PICK V, W : V = (U \ {t.ptr}) \cup {a} /\ W = U \cup {a}
      OBVIOUS
    <3>2. V \subseteq W /\ a \in V
      BY <3>1
    <3>3. Good(g, W, Fr) /\ Keeps(g, z, V)
      BY <1>10, <2>3, <3>1
    <3>4. PICK i : i = x - first
      OBVIOUS
    <3>5. i \in Nat /\ i < GetSizeAtPtr(g, a)
      BY <2>4, <3>4
    <3>6. z.mem[a + i] = g.mem[a + i]
      BY <3>2, <3>3, <3>5, KeptWords
    <3> QED
      BY <3>4, <3>6
  <2>6. g.mem[a + x - first] = Copied(k, u, x)
    BY <1>10, <2>2 DEF Moves
  <2> QED
    BY <1>19, <2>4, <2>5, <2>6 DEF Entry
<1>22. ASSUME NEW x \in Nat, In(t, x)
       PROVE  In(d, x) /\ Entry(z, d, x) = Entry(m, t, x)
  <2>1. t.first <= x /\ x < t.first + t.size
    BY <1>22 DEF In
  <2>2. t.first # 0 /\ t.ptr # Null /\ old = t.first
    BY <1>1, <1>2, <2>1
  <2>3. In(d, x)
    BY <1>1, <1>2, <1>19, <2>1, <2>2 DEF In
  <2>4. x \in u.first..u.first + u.size - 1
    BY <1>2, <1>4, <2>1, <2>2
  <2>5. Copied(k, u, x) = k.mem[t.ptr + x - t.first]
    BY <1>4, <2>2, <2>4 DEF Copied, Entry
  <2>6. k.mem[t.ptr + x - t.first] = m.mem[t.ptr + x - t.first]
    <3>1. PICK b : b = t.ptr
      OBVIOUS
    <3>2. b \in U /\ t.size <= GetSizeAtPtr(m, b)
      BY <1>2, <2>2, <3>1
    <3>3. b + x - t.first = b + (x - t.first) /\ x - t.first \in Nat /\ x - t.first < GetSizeAtPtr(m, b)
      BY <1>2, <2>1, <3>2, EntryWord
    <3>4. k.mem[b + (x - t.first)] = m.mem[b + (x - t.first)]
      BY <1>6, <3>2, <3>3, KeptWords
    <3> QED
      BY <3>1, <3>3, <3>4
  <2> QED
    BY <1>21, <2>3, <2>5, <2>6 DEF Entry
<1>23. ASSUME NEW x \in Nat, In(d, x), ~ In(t, x)
       PROVE  Entry(z, d, x) = Null
  <2>1. x \notin u.first..u.first + u.size - 1
    BY <1>1, <1>2, <1>4, <1>23 DEF In
  <2> QED
    BY <1>21, <1>23, <2>1 DEF Copied
<1> QED
  BY <1>6, <1>7, <1>12, <1>14, <1>15, <1>17, <1>19, <1>20, <1>22, <1>23 DEF Wider

\* r is the result of extending the map t of m for inx
Extended(m, U, t, inx, r) ==
  /\ MapIn(m, t) /\ (t.ptr # Null => t.ptr \in U) /\ inx \in Nat \ {0} /\ inx < NrPages
  /\ r = Extend(m, t, inx, FALSE) /\ r.m.panics = {}

(* One index more.                                                         *)
LEMMA ExtendGood ==
  ASSUME NEW m, NEW U, NEW Fr, Good(m, U, Fr), NEW t, NEW inx, NEW r, Extended(m, U, t, inx, r)
  PROVE  Wider(m, U, Fr, t, inx, r)
<1>0. /\ MapIn(m, t) /\ (t.ptr # Null => t.ptr \in U) /\ inx \in Nat \ {0} /\ inx < NrPages
      /\ r = Extend(m, t, inx, FALSE) /\ r.m.panics = {}
  BY DEF Extended
<1>1. PICK old, first, n : Asked(t, inx, old, first, n)
  BY DEF Asked
<1>2. PICK u : u = From1(t, old)
  OBVIOUS
<1>3. r = Resized(m, u, first, n, FALSE)
  BY <1>0, <1>1, <1>2 DEF Extend, Asked, From1
<1>4. t \in MapRec
  BY <1>0 DEF MapIn
<1>5. /\ old \in Nat /\ first <= inx /\ inx < first + n
      /\ n <= t.size => t.first # 0 /\ first = t.first /\ n = t.size /\ t.ptr # Null
      /\ t.first # 0 => old = t.first
  BY <1>0, <1>1, AskedFacts
<1>6. u.ptr = t.ptr /\ u.size = t.size /\ (old = t.first => u = t)
  BY <1>2, <1>4, <1>5, MapMoved
<1>7. CASE n <= t.size
  <2>1. r = [m |-> m, map |-> t] /\ t.ptr # Null
    BY <1>3, <1>5, <1>6, <1>7 DEF Resized
  <2>2. In(t, inx)
    BY <1>5, <1>7 DEF In
  <2>3. r.m = m /\ r.map = t
    BY <2>1, TwoFields
  <2> QED
    BY <1>0, <2>1, <2>2, <2>3, SameMap
<1>8. CASE ~ (n <= t.size)
  <2>1. PICK q, g : q = Alloc(m, n, FALSE) /\ g = Move(q.m, u, q.at, first, n)
    OBVIOUS
  <2>2. PICK e : e = [m |-> IF u.ptr = Null THEN g ELSE Dealloc(g, u.ptr),
                      map |-> [ptr |-> q.at, first |-> first, size |-> n]]
    OBVIOUS
  <2>3. r = e
    <3>1. PICK S : S = { [m |-> IF u.ptr = Null THEN Move(x.m, u, x.at, first, n)
                                ELSE Dealloc(Move(x.m, u, x.at, first, n), u.ptr),
                          map |-> [ptr |-> x.at, first |-> first, size |-> n]] : x \in {Alloc(m, n, FALSE)} }
      OBVIOUS
    <3>2. S = {e}
      BY <2>1, <2>2, <3>1
    <3>3. r = The(S)
      BY <1>3, <1>6, <1>8, <3>1 DEF Resized
    <3> QED
      BY <3>2, <3>3, TheOne
  <2>4. r.m = (IF t.ptr = Null THEN g ELSE Dealloc(g, t.ptr)) /\ r.map = [ptr |-> q.at, first |-> first, size |-> n]
    <3>1. r.m = (IF u.ptr = Null THEN g ELSE Dealloc(g, u.ptr))
      BY <2>2, <2>3, TwoFields
    <3>2. r.map = [ptr |-> q.at, first |-> first, size |-> n]
      BY <2>2, <2>3, TwoFields
    <3> QED
      BY <1>6, <3>1, <3>2
  <2>5. q.m.panics = {}
    <3>1. g.panics = q.m.panics
      BY <2>1 DEF Move, Store
    <3>2. Dealloc(g, t.ptr).panics = g.panics
      BY DEF Dealloc, DeallocFragment, DeallocPages
    <3> QED
      BY <1>0, <2>4, <3>1, <3>2
  <2>6. g = Move(q.m, From1(t, old), q.at, first, n)
    BY <1>2, <2>1
  <2>7. Replaced(m, t, inx, old, first, n, q, g, r)
    BY <1>0, <1>1, <2>1, <2>4, <2>5, <2>6 DEF Replaced
  <2> QED
    BY <1>0, <2>7, NewMap
<1> QED
  BY <1>7, <1>8

-----------------------------------------------------------------------------
(* What it takes for the components to be in order: m is the memory, h the *)
(* chunks that clients hold, tb the arrays of the spaces, rm the range map.*)

Holding == [at : Int, size : Nat]
HeldIn(m, h) ==
  /\ h \in [DOMAIN h -> Holding] /\ DOMAIN h \subseteq Client
  /\ \A k \in DOMAIN h : /\ h[k].size <= GetSizeAtPtr(m, h[k].at)
                         /\ \A i \in 1..h[k].size : m.mem[h[k].at + i - 1] = -(100 * k + i)

TablesIn(m, tb) ==
  /\ tb \in [DOMAIN tb -> Array] /\ DOMAIN tb \subseteq Space
  /\ \A s \in DOMAIN tb : ArrayIn(m, tb[s])

\* The frames of a space and of all
FramesOf(m, tb, s) == {m.mem[tb[s].ptr + i] : i \in 0..tb[s].free - 1}
AllFrames(m, tb)   == UNION {FramesOf(m, tb, s) : s \in DOMAIN tb}

\* The range map leads to the space of every frame, and to nothing else
Leads(m, tb, rm, x) ==
  /\ Entry(m, rm, x) \in DOMAIN tb \cup {Null}
  /\ \A s \in DOMAIN tb : Entry(m, rm, x) = s <=> x * FramePages \in FramesOf(m, tb, s)
Mapped(m, tb, rm) ==
  /\ MapIn(m, rm)
  /\ \A f \in AllFrames(m, tb) : f % FramePages = 0 /\ In(rm, f \div FramePages)
  /\ \A x \in Nat : In(rm, x) => Leads(m, tb, rm, x)

\* No chunk has two owners
Owners(h, tb, rm) ==
  /\ \A j, k \in DOMAIN h : j # k => h[j].at # h[k].at
  /\ \A s, t \in DOMAIN tb : s # t => tb[s].ptr # tb[t].ptr
  /\ \A k \in DOMAIN h, s \in DOMAIN tb : h[k].at # tb[s].ptr
  /\ \A k \in DOMAIN h : h[k].at # rm.ptr
  /\ \A s \in DOMAIN tb : tb[s].ptr # rm.ptr
Ats(h)   == {h[k].at : k \in DOMAIN h}
Ptrs(tb) == {tb[s].ptr : s \in DOMAIN tb}
Used(h, tb, rm) == Ats(h) \cup Ptrs(tb) \cup ({rm.ptr} \ {Null})

Sound(m, h, tb, rm) ==
  /\ Good(m, Used(h, tb, rm), AllFrames(m, tb)) /\ Owners(h, tb, rm)
  /\ HeldIn(m, h) /\ TablesIn(m, tb) /\ Mapped(m, tb, rm)

-----------------------------------------------------------------------------
(* What stays as it is when the chunks in question are kept.               *)
\* The chunks in V, of those in U, are kept from m to r
Kept(m, U, Fr, r, V) == Good(m, U, Fr) /\ V \subseteq U /\ Keeps(m, r, V)

(* Clients still have what they wrote in the chunks that are kept.         *)
LEMMA HeldKept ==
  ASSUME NEW m, NEW U, NEW Fr, NEW r, NEW V, Kept(m, U, Fr, r, V), NEW h, HeldIn(m, h), Ats(h) \subseteq V
  PROVE  HeldIn(r, h)
<1>1. ASSUME NEW k \in DOMAIN h
      PROVE  /\ h[k].size <= GetSizeAtPtr(r, h[k].at)
             /\ \A i \in 1..h[k].size : r.mem[h[k].at + i - 1] = -(100 * k + i)
  <2>1. PICK a, n : a = h[k].at /\ n = h[k].size
    OBVIOUS
  <2>2. h[k] \in Holding /\ n <= GetSizeAtPtr(m, a) /\ \A i \in 1..n : m.mem[a + i - 1] = -(100 * k + i)
    BY <2>1 DEF HeldIn
  <2>3. a \in V /\ a \in U
    BY <2>1 DEF Ats, Kept
  <2>4. a \in Int /\ n \in Nat
    BY <2>1, <2>2 DEF Holding
  <2>5. GetSizeAtPtr(m, a) \in Nat
    <3>1. a \in Given(m) /\ Good(m, U, Fr)
      BY <2>3 DEF Kept, Good
    <3> QED
      BY <3>1, RoomsApart
  <2>6. GetSizeAtPtr(r, a) = GetSizeAtPtr(m, a)
    BY <2>3 DEF Kept, Keeps
  <2>7. ASSUME NEW i \in 1..n
        PROVE  r.mem[a + i - 1] = -(100 * k + i)
    <3>1. PICK j : j = i - 1
      OBVIOUS
    <3>2. j \in Nat /\ j < GetSizeAtPtr(m, a) /\ a + i - 1 = a + j
      BY <2>2, <2>4, <2>5, <3>1
    <3>3. r.mem[a + j] = m.mem[a + j]
      BY <2>3, <3>2, KeptWords DEF Kept
    <3> QED
      BY <2>2, <3>2, <3>3
  <2> QED
    BY <2>1, <2>2, <2>6, <2>7
<1> QED
  BY <1>1 DEF HeldIn

(* An array in a chunk that is kept has the same frames.                   *)
LEMMA TableKept ==
  ASSUME NEW m, NEW U, NEW Fr, NEW r, NEW V, Kept(m, U, Fr, r, V), NEW a, ArrayIn(m, a), a.ptr \in V
  PROVE  ArrayIn(r, a) /\ \A i \in 0..a.free - 1 : r.mem[a.ptr + i] = m.mem[a.ptr + i]
<1>1. PICK p, n : p = a.ptr /\ n = a.free
  OBVIOUS
<1>2. n \in Nat /\ a.size \in Nat /\ n <= a.size /\ a.size <= GetSizeAtPtr(m, p)
  BY <1>1 DEF ArrayIn, Array
<1>3. p \in V /\ p \in U
  BY <1>1 DEF Kept
<1>4. GetSizeAtPtr(m, p) \in Nat
  <2>1. p \in Given(m) /\ Good(m, U, Fr)
    BY <1>3 DEF Kept, Good
  <2> QED
    BY <2>1, RoomsApart
<1>5. GetSizeAtPtr(r, p) = GetSizeAtPtr(m, p)
  BY <1>3 DEF Kept, Keeps
<1>6. ASSUME NEW i \in 0..n - 1
      PROVE  r.mem[p + i] = m.mem[p + i]
  <2>1. i \in Nat /\ i < GetSizeAtPtr(m, p)
    BY <1>2, <1>4
  <2> QED
    BY <1>3, <2>1, KeptWords DEF Kept
<1> QED
  BY <1>1, <1>5, <1>6 DEF ArrayIn

(* The spaces whose arrays are kept have the same frames.                  *)
LEMMA TablesKept ==
  ASSUME NEW m, NEW U, NEW Fr, NEW r, NEW V, Kept(m, U, Fr, r, V), NEW tb, TablesIn(m, tb), Ptrs(tb) \subseteq V
  PROVE  /\ TablesIn(r, tb) /\ AllFrames(r, tb) = AllFrames(m, tb)
         /\ \A s \in DOMAIN tb : FramesOf(r, tb, s) = FramesOf(m, tb, s)
<1>1. ASSUME NEW s \in DOMAIN tb
      PROVE  ArrayIn(r, tb[s]) /\ FramesOf(r, tb, s) = FramesOf(m, tb, s)
  <2>1. ArrayIn(m, tb[s]) /\ tb[s].ptr \in V
    BY DEF TablesIn, Ptrs
  <2>2. ArrayIn(r, tb[s]) /\ \A i \in 0..tb[s].free - 1 : r.mem[tb[s].ptr + i] = m.mem[tb[s].ptr + i]
    BY <2>1, TableKept
  <2> QED
    BY <2>2 DEF FramesOf
<1>2. AllFrames(r, tb) = AllFrames(m, tb)
  BY <1>1 DEF AllFrames
<1> QED
  BY <1>1, <1>2 DEF TablesIn

(* The range map in a chunk that is kept has the same entries.             *)
LEMMA EntryKept ==
  ASSUME NEW m, NEW U, NEW Fr, NEW r, NEW V, Kept(m, U, Fr, r, V), NEW rm, MapIn(m, rm), rm.ptr \in V \cup {Null},
         NEW x \in Nat, In(rm, x)
  PROVE  Entry(r, rm, x) = Entry(m, rm, x)
<1>1. PICK p, f, n : p = rm.ptr /\ f = rm.first /\ n = rm.size
  OBVIOUS
<1>2. f \in Nat /\ n \in Nat /\ (p = Null => n = 0) /\ (p # Null => n <= GetSizeAtPtr(m, p)) /\ f <= x /\ x < f + n
  BY <1>1 DEF MapIn, MapRec, In
<1>3. p # Null /\ n <= GetSizeAtPtr(m, p) /\ p \in V
  BY <1>1, <1>2
<1>4. Good(m, U, Fr) /\ p \in U
  BY <1>3 DEF Kept
<1>5. p + x - f = p + (x - f) /\ x - f \in Nat /\ x - f < GetSizeAtPtr(m, p)
  BY <1>2, <1>3, <1>4, EntryWord
<1>6. PICK j : j = x - f
  OBVIOUS
<1>7. r.mem[p + j] = m.mem[p + j]
  BY <1>3, <1>5, <1>6, KeptWords DEF Kept
<1> QED
  BY <1>1, <1>5, <1>6, <1>7 DEF Entry

(* When every chunk is kept the range map leads to the same spaces.        *)
LEMMA MappedKept ==
  ASSUME NEW m, NEW U, NEW Fr, NEW r, NEW V, Kept(m, U, Fr, r, V), NEW tb, TablesIn(m, tb), Ptrs(tb) \subseteq V,
         NEW rm, Mapped(m, tb, rm), rm.ptr \in V \cup {Null}
  PROVE  Mapped(r, tb, rm)
<1>1. /\ AllFrames(r, tb) = AllFrames(m, tb)
      /\ \A s \in DOMAIN tb : FramesOf(r, tb, s) = FramesOf(m, tb, s)
  BY TablesKept
<1>2. MapIn(m, rm)
  BY DEF Mapped
<1>3. MapIn(r, rm)
  <2>1. rm.ptr # Null => GetSizeAtPtr(r, rm.ptr) = GetSizeAtPtr(m, rm.ptr)
    BY DEF Kept, Keeps
  <2> QED
    BY <1>2, <2>1 DEF MapIn
<1>4. ASSUME NEW x \in Nat, In(rm, x)
      PROVE  Leads(r, tb, rm, x)
  <2>1. Entry(r, rm, x) = Entry(m, rm, x)
    BY <1>2, <1>4, EntryKept
  <2>2. Leads(m, tb, rm, x)
    BY <1>4 DEF Mapped
  <2> QED
    BY <1>1, <2>1, <2>2 DEF Leads
<1> QED
  BY <1>1, <1>3, <1>4 DEF Mapped

-----------------------------------------------------------------------------
(* Owners come and go.                                                     *)
\* The chunks of others than the holder of k, and of others than the space s
OthersThan(h, k, tb, rm)  == {h[x].at : x \in DOMAIN h \ {k}} \cup Ptrs(tb) \cup ({rm.ptr} \ {Null})
OthersThanSpace(h, tb, s, rm) == Ats(h) \cup {tb[t].ptr : t \in DOMAIN tb \ {s}} \cup ({rm.ptr} \ {Null})

(* The chunks of others are those in use but that of the client.           *)
LEMMA HeldOthers ==
  ASSUME NEW h, NEW tb, NEW rm, Owners(h, tb, rm), NEW k
  PROVE  /\ k \in DOMAIN h => OthersThan(h, k, tb, rm) = Used(h, tb, rm) \ {h[k].at} /\ h[k].at \in Used(h, tb, rm)
         /\ k \notin DOMAIN h => OthersThan(h, k, tb, rm) = Used(h, tb, rm)
<1>1. CASE k \in DOMAIN h
  <2>1. Used(h, tb, rm) = OthersThan(h, k, tb, rm) \cup {h[k].at}
    BY <1>1 DEF Used, OthersThan, Ats
  <2>2. h[k].at \notin OthersThan(h, k, tb, rm)
    BY <1>1 DEF Owners, OthersThan, Ptrs
  <2> QED
    BY <1>1, <2>1, <2>2
<1>2. CASE k \notin DOMAIN h
  BY <1>2 DEF Used, OthersThan, Ats
<1> QED
  BY <1>1, <1>2

(* A chunk that no other has is one that the client may hold.              *)
LEMMA HeldOwner ==
  ASSUME NEW h, NEW tb, NEW rm, Owners(h, tb, rm), NEW k, NEW g, DOMAIN g = DOMAIN h \cup {k},
         \A x \in DOMAIN h \ {k} : g[x] = h[x], g[k].at # Null, g[k].at \notin OthersThan(h, k, tb, rm)
  PROVE  Owners(g, tb, rm) /\ Used(g, tb, rm) = OthersThan(h, k, tb, rm) \cup {g[k].at}
<1>1. PICK a : a = g[k].at
  OBVIOUS
<1>2. /\ \A x \in DOMAIN h \ {k} : a # h[x].at
      /\ \A s \in DOMAIN tb : a # tb[s].ptr
      /\ a # rm.ptr
  BY <1>1 DEF OthersThan, Ptrs
<1>3. \A x \in DOMAIN g : x = k \/ (x \in DOMAIN h \ {k} /\ g[x].at = h[x].at)
  OBVIOUS
<1>4. \A i, j \in DOMAIN g : i # j => g[i].at # g[j].at
  BY <1>1, <1>2, <1>3 DEF Owners
<1>5. /\ \A x \in DOMAIN g, s \in DOMAIN tb : g[x].at # tb[s].ptr
      /\ \A x \in DOMAIN g : g[x].at # rm.ptr
  BY <1>1, <1>2, <1>3 DEF Owners
<1>6. Owners(g, tb, rm)
  BY <1>4, <1>5 DEF Owners
<1>7. Ats(g) = {h[x].at : x \in DOMAIN h \ {k}} \cup {a}
  BY <1>1, <1>3 DEF Ats
<1> QED
  BY <1>1, <1>6, <1>7 DEF Used, OthersThan

(* One chunk less has an owner.                                            *)
LEMMA HeldGone ==
  ASSUME NEW h, NEW tb, NEW rm, Owners(h, tb, rm), NEW k, NEW g, g = [x \in DOMAIN h \ {k} |-> h[x]]
  PROVE  Owners(g, tb, rm) /\ Used(g, tb, rm) = OthersThan(h, k, tb, rm)
<1>1. DOMAIN g = DOMAIN h \ {k} /\ \A x \in DOMAIN g : g[x].at = h[x].at
  OBVIOUS
<1>2. Owners(g, tb, rm)
  BY <1>1 DEF Owners
<1>3. Ats(g) = {h[x].at : x \in DOMAIN h \ {k}}
  BY <1>1 DEF Ats
<1> QED
  BY <1>2, <1>3 DEF Used, OthersThan

(* The chunks of others are those in use but the array of the space.       *)
LEMMA SpaceOthers ==
  ASSUME NEW h, NEW tb, NEW rm, Owners(h, tb, rm), NEW s
  PROVE  /\ s \in DOMAIN tb => /\ OthersThanSpace(h, tb, s, rm) = Used(h, tb, rm) \ {tb[s].ptr}
                               /\ tb[s].ptr \in Used(h, tb, rm)
         /\ s \notin DOMAIN tb => OthersThanSpace(h, tb, s, rm) = Used(h, tb, rm)
<1>1. CASE s \in DOMAIN tb
  <2>1. Used(h, tb, rm) = OthersThanSpace(h, tb, s, rm) \cup {tb[s].ptr}
    BY <1>1 DEF Used, OthersThanSpace, Ptrs
  <2>2. tb[s].ptr \notin OthersThanSpace(h, tb, s, rm)
    BY <1>1 DEF Owners, OthersThanSpace, Ats
  <2> QED
    BY <1>1, <2>1, <2>2
<1>2. CASE s \notin DOMAIN tb
  BY <1>2 DEF Used, OthersThanSpace, Ptrs
<1> QED
  BY <1>1, <1>2

\* In g the space s has a chunk that nobody else has
Takes(h, tb, rm, s, g) ==
  /\ DOMAIN g = DOMAIN tb \cup {s} /\ \A t \in DOMAIN tb \ {s} : g[t] = tb[t]
  /\ g[s].ptr # Null /\ g[s].ptr \notin OthersThanSpace(h, tb, s, rm)

(* A chunk that no other has is one for the array of the space.            *)
LEMMA SpaceOwner ==
  ASSUME NEW h, NEW tb, NEW rm, Owners(h, tb, rm), NEW s, NEW g, Takes(h, tb, rm, s, g)
  PROVE  Owners(h, g, rm) /\ Used(h, g, rm) = OthersThanSpace(h, tb, s, rm) \cup {g[s].ptr}
<1>0. /\ DOMAIN g = DOMAIN tb \cup {s} /\ \A t \in DOMAIN tb \ {s} : g[t] = tb[t]
      /\ g[s].ptr # Null /\ g[s].ptr \notin OthersThanSpace(h, tb, s, rm)
  BY DEF Takes
<1>1. PICK a : a = g[s].ptr
  OBVIOUS
<1>2. /\ \A t \in DOMAIN tb \ {s} : a # tb[t].ptr
      /\ \A k \in DOMAIN h : a # h[k].at
      /\ a # rm.ptr
  BY <1>0, <1>1 DEF OthersThanSpace, Ats
<1>3. \A t \in DOMAIN g : t = s \/ (t \in DOMAIN tb \ {s} /\ g[t].ptr = tb[t].ptr)
  BY <1>0
<1>4. \A i, j \in DOMAIN g : i # j => g[i].ptr # g[j].ptr
  BY <1>1, <1>2, <1>3 DEF Owners
<1>5. /\ \A k \in DOMAIN h, t \in DOMAIN g : h[k].at # g[t].ptr
      /\ \A t \in DOMAIN g : g[t].ptr # rm.ptr
  BY <1>1, <1>2, <1>3 DEF Owners
<1>6. Owners(h, g, rm)
  BY <1>4, <1>5 DEF Owners
<1>7. Ptrs(g) = {tb[t].ptr : t \in DOMAIN tb \ {s}} \cup {a}
  BY <1>0, <1>1, <1>3 DEF Ptrs
<1> QED
  BY <1>0, <1>1, <1>6, <1>7 DEF Used, OthersThanSpace

(* A chunk that no other has is one for the range map.                     *)
LEMMA MapOwner ==
  ASSUME NEW h, NEW tb, NEW rm, Owners(h, tb, rm), NEW t, t.ptr # Null, t.ptr \notin Used(h, tb, rm) \ {rm.ptr}
  PROVE  Owners(h, tb, t) /\ Used(h, tb, t) = (Used(h, tb, rm) \ {rm.ptr}) \cup {t.ptr}
<1>1. Used(h, tb, rm) \ {rm.ptr} = Ats(h) \cup Ptrs(tb)
  BY DEF Used, Owners, Ats, Ptrs
<1>2. Owners(h, tb, t)
  BY <1>1 DEF Owners, Ats, Ptrs
<1> QED
  BY <1>1, <1>2 DEF Used

-----------------------------------------------------------------------------
(* The steps of clients.                                                   *)

(* Everything that others have is kept.                                    *)
LEMMA OthersKept ==
  ASSUME NEW m, NEW h, NEW tb, NEW rm, Sound(m, h, tb, rm), NEW k,
         NEW r, Keeps(m, r, OthersThan(h, k, tb, rm))
  PROVE  /\ HeldIn(r, [x \in DOMAIN h \ {k} |-> h[x]]) /\ TablesIn(r, tb) /\ Mapped(r, tb, rm)
         /\ AllFrames(r, tb) = AllFrames(m, tb)
<1>1. PICK U, V, Fr : U = Used(h, tb, rm) /\ V = OthersThan(h, k, tb, rm) /\ Fr = AllFrames(m, tb)
  OBVIOUS
<1>2. Good(m, U, Fr) /\ Owners(h, tb, rm) /\ HeldIn(m, h) /\ TablesIn(m, tb) /\ Mapped(m, tb, rm)
  BY <1>1 DEF Sound
<1>3. V \subseteq U
  BY <1>1, <1>2, HeldOthers
<1>4. Kept(m, U, Fr, r, V)
  BY <1>1, <1>2, <1>3 DEF Kept
<1>5. Ptrs(tb) \subseteq V /\ rm.ptr \in V \cup {Null}
  BY <1>1 DEF OthersThan
<1>6. PICK g : g = [x \in DOMAIN h \ {k} |-> h[x]]
  OBVIOUS
<1>7. HeldIn(m, g)
  BY <1>2, <1>6 DEF HeldIn
<1>8. Ats(g) \subseteq V
  BY <1>1, <1>6 DEF Ats, OthersThan
<1>9. HeldIn(r, g)
  BY <1>4, <1>7, <1>8, HeldKept
<1>10. TablesIn(r, tb) /\ AllFrames(r, tb) = AllFrames(m, tb)
  BY <1>2, <1>4, <1>5, TablesKept
<1>11. Mapped(r, tb, rm)
  BY <1>2, <1>4, <1>5, MappedKept
<1> QED
  BY <1>6, <1>9, <1>10, <1>11

(* A client gives a chunk back.                                            *)
LEMMA FreeSound ==
  ASSUME NEW m, NEW h, NEW tb, NEW rm, Sound(m, h, tb, rm), NEW k \in DOMAIN h,
         NEW r, r = Dealloc(m, h[k].at), NEW g, g = [x \in DOMAIN h \ {k} |-> h[x]]
  PROVE  Sound(r, g, tb, rm)
<1>1. PICK U, V, Fr, a : U = Used(h, tb, rm) /\ V = OthersThan(h, k, tb, rm) /\ Fr = AllFrames(m, tb) /\ a = h[k].at
  OBVIOUS
<1>2. Good(m, U, Fr) /\ Owners(h, tb, rm)
  BY <1>1 DEF Sound
<1>3. V = U \ {a} /\ a \in U
  BY <1>1, <1>2, HeldOthers
<1>4. Good(r, V, Fr) /\ Keeps(m, r, V)
  BY <1>1, <1>2, <1>3, DeallocGood
<1>5. HeldIn(r, g) /\ TablesIn(r, tb) /\ Mapped(r, tb, rm) /\ AllFrames(r, tb) = Fr
  BY <1>1, <1>4, OthersKept
<1>6. Owners(g, tb, rm) /\ Used(g, tb, rm) = V
  BY <1>1, <1>2, HeldGone
<1> QED
  BY <1>4, <1>5, <1>6 DEF Sound

\* Chunk a of r is large enough for w words and has what the holder k wrote
Filled(r, a, k, w) ==
  /\ w \in Nat /\ w <= GetSizeAtPtr(r, a)
  /\ \A i \in 1..w : r.mem[a + i - 1] = -(100 * k + i)

(* A holder with a new chunk, or with a larger one.                        *)
LEMMA HoldSound ==
  ASSUME NEW m, NEW h, NEW tb, NEW rm, Sound(m, h, tb, rm), NEW k \in Client,
         NEW r, NEW a, NEW V, V = OthersThan(h, k, tb, rm),
         Good(r, V \cup {a}, AllFrames(m, tb)), Keeps(m, r, V), a \notin V,
         NEW w, Filled(r, a, k, w), NEW g, DOMAIN g = DOMAIN h \cup {k}, g = [x \in DOMAIN g |-> g[x]],
         \A x \in DOMAIN h \ {k} : g[x] = h[x], g[k] = [at |-> a, size |-> w]
  PROVE  Sound(r, g, tb, rm)
<1>1. Owners(h, tb, rm) /\ HeldIn(m, h)
  BY DEF Sound
<1>2. g[k].at = a /\ g[k].size = w
  OBVIOUS
<1>3. a \in Int /\ a # Null
  <2>1. a \in Given(r)
    BY DEF Good
  <2>2. a \in Addr \ {Null}
    BY <2>1, RoomsApart
  <2> QED
    BY <2>2 DEF Addr
<1>4. Owners(g, tb, rm) /\ Used(g, tb, rm) = V \cup {a}
  BY <1>1, <1>2, <1>3, HeldOwner
<1>5. PICK f : f = [x \in DOMAIN h \ {k} |-> h[x]]
  OBVIOUS
<1>6. HeldIn(r, f) /\ TablesIn(r, tb) /\ Mapped(r, tb, rm) /\ AllFrames(r, tb) = AllFrames(m, tb)
  BY <1>5, OthersKept
<1>7. DOMAIN f = DOMAIN g \ {k} /\ \A x \in DOMAIN f : g[x] = f[x]
  BY <1>5
<1>8. HeldIn(r, g)
  <2>1. ASSUME NEW x \in DOMAIN g
        PROVE  /\ g[x] \in Holding /\ x \in Client /\ g[x].size <= GetSizeAtPtr(r, g[x].at)
               /\ \A i \in 1..g[x].size : r.mem[g[x].at + i - 1] = -(100 * x + i)
    <3>1. CASE x = k
      <4>1. g[k] \in Holding
        BY <1>3 DEF Holding, Filled
      <4>2. g[k].size <= GetSizeAtPtr(r, g[k].at)
        BY <1>2 DEF Filled
      <4>3. \A i \in 1..g[k].size : r.mem[g[k].at + i - 1] = -(100 * k + i)
        BY <1>2 DEF Filled
      <4> QED
        BY <3>1, <4>1, <4>2, <4>3
    <3>2. CASE x # k
      <4>1. x \in DOMAIN f /\ g[x] = f[x]
        BY <1>7, <3>2
      <4> QED
        BY <1>6, <4>1 DEF HeldIn
    <3> QED
      BY <3>1, <3>2
  <2>2. g \in [DOMAIN g -> Holding] /\ DOMAIN g \subseteq Client
    BY <2>1
  <2> QED
    BY <2>1, <2>2 DEF HeldIn
<1> QED
  BY <1>4, <1>6, <1>8 DEF Sound

\* What a client writes
(* What a client writes, word by word.                                     *)
LEMMA ContentFacts ==
  ASSUME NEW k \in Client, NEW i \in Nat \ {0}, NEW w \in Nat
  PROVE  /\ Content(k, i, w) \in [1..w - i + 1 -> Int]
         /\ \A j \in 1..w - i + 1 : Content(k, i, w)[j] = -(100 * k + i + j - 1)
<1>1. k \in Nat
  BY LofAssumption
<1> QED
  BY <1>1 DEF Content

\* A new chunk for k
Mallocs(m, h, k, w, r, z, g) ==
  /\ k \in Client /\ k \notin DOMAIN h /\ w \in Nat \ {0}
  /\ r = Alloc(m, w, FALSE) /\ r.m.panics = {} /\ z = Store(r.m, r.at, Content(k, 1, w))
  /\ g = [x \in DOMAIN h \cup {k} |-> IF x = k THEN [at |-> r.at, size |-> w] ELSE h[x]]

(* A client gets a chunk and writes in it.                                 *)
LEMMA MallocSound ==
  ASSUME NEW m, NEW h, NEW tb, NEW rm, Sound(m, h, tb, rm), NEW k, NEW w, NEW r, NEW z, NEW g,
         Mallocs(m, h, k, w, r, z, g)
  PROVE  Sound(z, g, tb, rm)
<1>0. /\ k \in Client /\ k \notin DOMAIN h /\ w \in Nat \ {0}
      /\ r = Alloc(m, w, FALSE) /\ r.m.panics = {} /\ z = Store(r.m, r.at, Content(k, 1, w))
      /\ g = [x \in DOMAIN h \cup {k} |-> IF x = k THEN [at |-> r.at, size |-> w] ELSE h[x]]
  BY DEF Mallocs
<1>1. PICK U, V, Fr, q, a : U = Used(h, tb, rm) /\ V = OthersThan(h, k, tb, rm) /\ Fr = AllFrames(m, tb)
                            /\ q = r.m /\ a = r.at
  OBVIOUS
<1>2. Good(m, U, Fr) /\ Owners(h, tb, rm)
  BY <1>1 DEF Sound
<1>3. V = U
  BY <1>0, <1>1, <1>2, HeldOthers
<1>4. /\ Good(q, V \cup {a}, Fr) /\ Keeps(m, q, V)
      /\ a \notin V /\ w <= GetSizeAtPtr(q, a)
  BY <1>0, <1>1, <1>2, <1>3, AllocGood
<1>5. a \in Nat
  <2>1. a \in Given(q)
    BY <1>4 DEF Good
  <2> QED
    BY <1>4, <2>1, RoomsApart DEF Addr
<1>6. PICK ws : ws = Content(k, 1, w)
  OBVIOUS
<1>7. ws \in [1..w -> Int] /\ \A j \in 1..w : ws[j] = -(100 * k + j)
  <2>1. w - 1 + 1 = w /\ k \in Nat /\ 1 \in Nat \ {0} /\ w \in Nat
    BY <1>0, LofAssumption
  <2>2. /\ ws \in [1..w - 1 + 1 -> Int]
        /\ \A j \in 1..w - 1 + 1 : ws[j] = -(100 * k + 1 + j - 1)
    <3>1. PICK i : i = 1
      OBVIOUS
    <3>2. i \in Nat \ {0} /\ ws = Content(k, i, w)
      BY <1>6, <3>1
    <3>3. /\ ws \in [1..w - i + 1 -> Int]
          /\ \A j \in 1..w - i + 1 : ws[j] = -(100 * k + i + j - 1)
      <4>1. k \in Client /\ w \in Nat
        BY <1>0
      <4>2. Content(k, i, w) \in [1..w - i + 1 -> Int]
        BY <3>2, <4>1, ContentFacts
      <4>3. \A j \in 1..w - i + 1 : Content(k, i, w)[j] = -(100 * k + i + j - 1)
        BY <3>2, <4>1, ContentFacts, ZenonT(60)
      <4> QED
        BY <3>2, <4>2, <4>3
    <3> QED
      BY <3>1, <3>3
  <2>3. \A j \in 1..w : 100 * k + 1 + j - 1 = 100 * k + j
    BY <2>1
  <2> QED
    BY <2>1, <2>2, <2>3
<1>8. Stored(q, a, 0, w, ws, z)
  <2>1. a + 0 = a /\ 0 + w = w
    BY <1>0, <1>5
  <2> QED
    BY <1>0, <1>1, <1>4, <1>6, <1>7, <2>1 DEF Stored
<1>9. PICK W, X : W = V \cup {a} /\ X = W \ {a}
  OBVIOUS
<1>10. Good(z, W, Fr) /\ Keeps(q, z, X) /\ HasWords(q, a, 0, w, ws, z)
  BY <1>4, <1>8, <1>9, StoreGood
<1>11. Keeps(m, z, V)
  <2>1. V \subseteq V \cap X
    BY <1>4, <1>9
  <2> QED
    BY <1>4, <1>10, <2>1, KeepsTrans
<1>12. Filled(z, a, k, w)
  <2>1. GetSizeAtPtr(z, a) = GetSizeAtPtr(q, a)
    BY <1>10 DEF HasWords
  <2>2. ASSUME NEW i \in 1..w
        PROVE  z.mem[a + i - 1] = -(100 * k + i)
    <3>1. PICK j : j = i - 1
      OBVIOUS
    <3>2. j \in 0..w - 1 /\ a + 0 + j = a + i - 1 /\ j + 1 = i
      BY <1>0, <1>5, <3>1
    <3>3. z.mem[a + 0 + j] = ws[j + 1]
      BY <1>10, <3>2 DEF HasWords
    <3> QED
      BY <1>7, <3>2, <3>3
  <2> QED
    BY <1>0, <1>4, <2>1, <2>2 DEF Filled
<1>13. /\ DOMAIN g = DOMAIN h \cup {k} /\ g = [x \in DOMAIN g |-> g[x]]
       /\ \A x \in DOMAIN h \ {k} : g[x] = h[x]
       /\ g[k] = [at |-> a, size |-> w]
  BY <1>0, <1>1
<1>14. Good(z, V \cup {a}, AllFrames(m, tb))
  BY <1>1, <1>9, <1>10
<1> QED
  BY <1>0, <1>1, <1>4, <1>11, <1>12, <1>13, <1>14, HoldSound, ZenonT(60)

\* A chunk of another size for k
Resizes(m, h, k, w, r, z, g) ==
  /\ k \in Client /\ k \in DOMAIN h /\ w \in Nat \ {0}
  /\ r = Realloc(m, h[k].at, w, FALSE) /\ r.m.panics = {}
  /\ z = Store(r.m, r.at + h[k].size, Content(k, h[k].size + 1, w))
  /\ g = [h EXCEPT ![k] = [at |-> r.at, size |-> w]]

(* A client gets more room, perhaps elsewhere, and writes on.              *)
LEMMA ResizeSound ==
  ASSUME NEW m, NEW h, NEW tb, NEW rm, Sound(m, h, tb, rm), NEW k, NEW w, NEW r, NEW z, NEW g,
         Resizes(m, h, k, w, r, z, g)
  PROVE  Sound(z, g, tb, rm)
<1>0. /\ k \in Client /\ k \in DOMAIN h /\ w \in Nat \ {0}
      /\ r = Realloc(m, h[k].at, w, FALSE) /\ r.m.panics = {}
      /\ z = Store(r.m, r.at + h[k].size, Content(k, h[k].size + 1, w))
      /\ g = [h EXCEPT ![k] = [at |-> r.at, size |-> w]]
  BY DEF Resizes
<1>1. PICK U, V, Fr, q, a, b, n :
        U = Used(h, tb, rm) /\ V = OthersThan(h, k, tb, rm) /\ Fr = AllFrames(m, tb)
        /\ q = r.m /\ a = r.at /\ b = h[k].at /\ n = h[k].size
  OBVIOUS
<1>2. Good(m, U, Fr) /\ Owners(h, tb, rm) /\ HeldIn(m, h)
  BY <1>1 DEF Sound
<1>3. V = U \ {b} /\ b \in U
  BY <1>0, <1>1, <1>2, HeldOthers
<1>4. n \in Nat /\ n <= GetSizeAtPtr(m, b) /\ \A i \in 1..n : m.mem[b + i - 1] = -(100 * k + i)
  <2>1. h[k] \in Holding
    BY <1>0, <1>2 DEF HeldIn
  <2>2. n \in Nat
    BY <1>1, <2>1 DEF Holding
  <2> QED
    BY <1>0, <1>1, <1>2, <2>2 DEF HeldIn
<1>5. /\ Good(q, V \cup {a}, Fr) /\ Keeps(m, q, V) /\ a \notin V
      /\ w <= GetSizeAtPtr(q, a) /\ GetSizeAtPtr(m, b) <= GetSizeAtPtr(q, a)
      /\ SameWords(m, b, q, a)
  <2>1. r = Realloc(m, b, w, FALSE) /\ r.m.panics = {} /\ w \in Nat \ {0}
    BY <1>0, <1>1
  <2>2. Good(r.m, (U \ {b}) \cup {r.at}, Fr)
    BY <1>2, <1>3, <2>1, ReallocGood
  <2>6. Keeps(m, r.m, U \ {b}) /\ r.at \notin U \ {b}
    BY <1>2, <1>3, <2>1, ReallocGood
  <2>3. w <= GetSizeAtPtr(r.m, r.at)
    BY <1>2, <1>3, <2>1, ReallocGood
  <2>4. GetSizeAtPtr(m, b) <= GetSizeAtPtr(r.m, r.at)
    BY <1>2, <1>3, <2>1, ReallocGood
  <2>5. SameWords(m, b, r.m, r.at)
    BY <1>2, <1>3, <2>1, ReallocGood
  <2> QED
    BY <1>1, <1>3, <2>2, <2>3, <2>4, <2>5, <2>6
<1>6. a \in Nat /\ b \in Nat /\ GetSizeAtPtr(q, a) \in Nat /\ GetSizeAtPtr(m, b) \in Nat
  <2>1. a \in Given(q) /\ b \in Given(m)
    BY <1>2, <1>3, <1>5 DEF Good
  <2>2. a \in Nat /\ GetSizeAtPtr(q, a) \in Nat
    BY <1>5, <2>1, RoomsApart DEF Addr
  <2>3. b \in Nat /\ GetSizeAtPtr(m, b) \in Nat
    BY <1>2, <2>1, RoomsApart DEF Addr
  <2> QED
    BY <2>2, <2>3
<1>7. PICK d, ws : d = (IF n < w THEN w - n ELSE 0) /\ ws = Content(k, n + 1, w)
  OBVIOUS
<1>8. d \in Nat /\ (n < w => n + d = w) /\ (~ (n < w) => d = 0) /\ n + d <= GetSizeAtPtr(q, a)
  BY <1>0, <1>4, <1>5, <1>6, <1>7
<1>9. ws \in [1..d -> Int] /\ \A j \in 1..d : ws[j] = -(100 * k + (n + j))
  <2>1. n + 1 \in Nat \ {0} /\ w \in Nat /\ k \in Nat
    BY <1>0, <1>4, LofAssumption
  <2>2. /\ ws \in [1..w - (n + 1) + 1 -> Int]
        /\ \A j \in 1..w - (n + 1) + 1 : ws[j] = -(100 * k + (n + 1) + j - 1)
    <3>1. PICK i : i = n + 1
      OBVIOUS
    <3>2. k \in Client /\ i \in Nat \ {0} /\ w \in Nat
      BY <1>0, <2>1, <3>1
    <3>3. /\ Content(k, i, w) \in [1..w - i + 1 -> Int]
          /\ \A j \in 1..w - i + 1 : Content(k, i, w)[j] = -(100 * k + i + j - 1)
      BY <3>2, ContentFacts
    <3>4. ws = Content(k, i, w)
      BY <1>7, <3>1
    <3>5. /\ ws \in [1..w - i + 1 -> Int]
          /\ \A j \in 1..w - i + 1 : ws[j] = -(100 * k + i + j - 1)
      BY <3>3, <3>4
    <3> QED
      BY <3>1, <3>5
  <2>3. 1..w - (n + 1) + 1 = 1..d
    <3>1. CASE n < w
      <4>1. w - (n + 1) + 1 = d
        BY <1>4, <1>7, <2>1, <3>1
      <4> QED
        BY <4>1
    <3>2. CASE ~ (n < w)
      <4>1. d = 0 /\ w - (n + 1) + 1 <= 0 /\ w - (n + 1) + 1 \in Int
        BY <1>4, <1>7, <2>1, <3>2
      <4> QED
        BY <4>1
    <3> QED
      BY <3>1, <3>2
  <2>4. \A j \in 1..d : 100 * k + (n + 1) + j - 1 = 100 * k + (n + j)
    BY <1>4, <1>8, <2>1
  <2> QED
    BY <2>2, <2>3, <2>4, ZenonT(60)
<1>10. Stored(q, a, n, d, ws, z)
  BY <1>0, <1>1, <1>4, <1>7, <1>8, <1>9 DEF Stored
<1>11. PICK W, X : W = V \cup {a} /\ X = W \ {a}
  OBVIOUS
<1>12. Good(z, W, Fr) /\ Keeps(q, z, X) /\ HasWords(q, a, n, d, ws, z)
  BY <1>5, <1>10, <1>11, StoreGood
<1>13. Keeps(m, z, V)
  <2>1. V \subseteq V \cap X
    BY <1>5, <1>11
  <2> QED
    BY <1>5, <1>12, <2>1, KeepsTrans
<1>14. ASSUME NEW i \in 1..w
       PROVE  z.mem[a + i - 1] = -(100 * k + i)
  <2>1. CASE i <= n
    <3>1. PICK j : j = i - 1
      OBVIOUS
    <3>2. j \in 0..GetSizeAtPtr(m, b) - 1 /\ a + i - 1 = a + j /\ b + i - 1 = b + j /\ a + j < a + n /\ i \in 1..n
      BY <1>0, <1>4, <1>6, <2>1, <3>1
    <3>3. q.mem[a + j] = m.mem[b + j]
      BY <1>5, <3>2 DEF SameWords
    <3>4. a + j \in Addr
      <4>1. Keeps(q, q, W) /\ Good(q, W, Fr) /\ a \in W /\ j \in Nat /\ j < GetSizeAtPtr(q, a)
        BY <1>5, <1>6, <1>11, <3>2 DEF Keeps
      <4> QED
        BY <4>1, KeptWords
    <3>5. z.mem[a + j] = q.mem[a + j]
      BY <1>12, <3>2, <3>4 DEF HasWords
    <3> QED
      BY <1>4, <3>2, <3>3, <3>5
  <2>2. CASE ~ (i <= n)
    <3>1. PICK j : j = i - n - 1
      OBVIOUS
    <3>2. j \in 0..d - 1 /\ a + n + j = a + i - 1 /\ j + 1 \in 1..d /\ n + (j + 1) = i
      BY <1>0, <1>4, <1>6, <1>7, <2>2, <3>1
    <3>3. z.mem[a + n + j] = ws[j + 1]
      BY <1>12, <3>2 DEF HasWords
    <3> QED
      BY <1>9, <3>2, <3>3
  <2> QED
    BY <2>1, <2>2
<1>15. Filled(z, a, k, w)
  <2>1. GetSizeAtPtr(z, a) = GetSizeAtPtr(q, a)
    BY <1>12 DEF HasWords
  <2> QED
    BY <1>0, <1>5, <1>14, <2>1 DEF Filled
<1>16. /\ DOMAIN g = DOMAIN h \cup {k} /\ g = [x \in DOMAIN g |-> g[x]]
       /\ \A x \in DOMAIN h \ {k} : g[x] = h[x]
       /\ g[k] = [at |-> a, size |-> w]
  <2>1. h \in [DOMAIN h -> Holding]
    BY <1>2 DEF HeldIn
  <2> QED
    BY <1>0, <1>1, <2>1
<1>17. Good(z, V \cup {a}, AllFrames(m, tb))
  BY <1>1, <1>11, <1>12
<1>18. k \in Client /\ V = OthersThan(h, k, tb, rm) /\ a \notin V
  BY <1>0, <1>1, <1>5
<1> QED
  BY <1>13, <1>15, <1>16, <1>17, <1>18, HoldSound

-----------------------------------------------------------------------------
(* Spaces.                                                                 *)

(* Everything that others than the space s have is kept.                   *)
SpaceKept(m, h, tb, s, rm, r) ==
  /\ HeldIn(r, h)
  /\ \A t \in DOMAIN tb \ {s} : ArrayIn(r, tb[t]) /\ FramesOf(r, tb, t) = FramesOf(m, tb, t)
  /\ MapIn(r, rm)
  /\ \A x \in Nat : In(rm, x) => Entry(r, rm, x) = Entry(m, rm, x)

(* The chunks of others being kept, all they have is kept.                 *)
LEMMA OtherSpaces ==
  ASSUME NEW m, NEW h, NEW tb, NEW rm, Sound(m, h, tb, rm), NEW s,
         NEW r, Keeps(m, r, OthersThanSpace(h, tb, s, rm))
  PROVE  SpaceKept(m, h, tb, s, rm, r)
<1>1. PICK U, V, Fr : U = Used(h, tb, rm) /\ V = OthersThanSpace(h, tb, s, rm) /\ Fr = AllFrames(m, tb)
  OBVIOUS
<1>2. Good(m, U, Fr) /\ Owners(h, tb, rm) /\ HeldIn(m, h) /\ TablesIn(m, tb) /\ MapIn(m, rm)
  BY <1>1 DEF Sound, Mapped
<1>3. V \subseteq U
  BY <1>1, <1>2, SpaceOthers
<1>4. Kept(m, U, Fr, r, V)
  BY <1>1, <1>2, <1>3 DEF Kept
<1>5. Ats(h) \subseteq V /\ rm.ptr \in V \cup {Null}
  BY <1>1 DEF OthersThanSpace
<1>6. HeldIn(r, h)
  BY <1>2, <1>4, <1>5, HeldKept
<1>7. ASSUME NEW t \in DOMAIN tb \ {s}
      PROVE  ArrayIn(r, tb[t]) /\ FramesOf(r, tb, t) = FramesOf(m, tb, t)
  <2>1. ArrayIn(m, tb[t]) /\ tb[t].ptr \in V
    BY <1>1, <1>2 DEF TablesIn, OthersThanSpace
  <2>2. ArrayIn(r, tb[t]) /\ \A i \in 0..tb[t].free - 1 : r.mem[tb[t].ptr + i] = m.mem[tb[t].ptr + i]
    BY <1>4, <2>1, TableKept
  <2> QED
    BY <2>2 DEF FramesOf
<1>8. MapIn(r, rm)
  <2>1. rm.ptr # Null => GetSizeAtPtr(r, rm.ptr) = GetSizeAtPtr(m, rm.ptr)
    BY <1>4, <1>5 DEF Kept, Keeps
  <2> QED
    BY <1>2, <2>1 DEF MapIn
<1>9. ASSUME NEW x \in Nat, In(rm, x)
      PROVE  Entry(r, rm, x) = Entry(m, rm, x)
  BY <1>2, <1>4, <1>5, <1>9, EntryKept
<1> QED
  BY <1>6, <1>7, <1>8, <1>9 DEF SpaceKept

(* A new space has no frames.                                              *)
LEMMA SpaceInitSound ==
  ASSUME NEW m, NEW h, NEW tb, NEW rm, Sound(m, h, tb, rm), NEW s \in Space, s \notin DOMAIN tb,
         NEW r, r = NewArray(m), r.m.panics = {}, NEW g, DOMAIN g = DOMAIN tb \cup {s}, g = [t \in DOMAIN g |-> g[t]],
         \A t \in DOMAIN tb : g[t] = tb[t], g[s] = r.arr
  PROVE  Sound(r.m, h, g, rm)
<1>1. PICK U, Fr, q, b : U = Used(h, tb, rm) /\ Fr = AllFrames(m, tb) /\ q = r.m /\ b = r.arr.ptr
  OBVIOUS
<1>2. Good(m, U, Fr) /\ Owners(h, tb, rm) /\ TablesIn(m, tb) /\ Mapped(m, tb, rm)
  BY <1>1 DEF Sound
<1>3. OthersThanSpace(h, tb, s, rm) = U
  BY <1>1, <1>2, SpaceOthers
<1>4. /\ Good(q, U \cup {b}, Fr) /\ Keeps(m, q, U) /\ b \notin U
      /\ ArrayIn(q, r.arr) /\ r.arr.free = 0
  BY <1>1, <1>2, NewArrayGood
<1>5. b # Null
  <2>1. b \in Given(q)
    BY <1>4 DEF Good
  <2> QED
    BY <1>4, <2>1, RoomsApart
<1>6. SpaceKept(m, h, tb, s, rm, q)
  BY <1>3, <1>4, OtherSpaces
<1>7. Owners(h, g, rm) /\ Used(h, g, rm) = U \cup {b}
  <2>1. g[s].ptr = b /\ \A t \in DOMAIN tb \ {s} : g[t] = tb[t]
    BY <1>1
  <2>2. Takes(h, tb, rm, s, g)
    BY <1>3, <1>4, <1>5, <2>1 DEF Takes
  <2>3. Owners(h, g, rm)
    BY <1>2, <2>2, SpaceOwner
  <2>4. Used(h, g, rm) = OthersThanSpace(h, tb, s, rm) \cup {g[s].ptr}
    BY <1>2, <2>2, SpaceOwner
  <2> QED
    BY <1>3, <2>1, <2>3, <2>4
<1>8. /\ \A t \in DOMAIN tb : FramesOf(q, g, t) = FramesOf(m, tb, t)
      /\ FramesOf(q, g, s) = {}
  <2>1. ASSUME NEW t \in DOMAIN tb
        PROVE  FramesOf(q, g, t) = FramesOf(m, tb, t)
    <3>1. FramesOf(q, tb, t) = FramesOf(m, tb, t)
      BY <1>6 DEF SpaceKept
    <3> QED
      BY <3>1, ZenonT(60) DEF FramesOf
  <2>2. FramesOf(q, g, s) = {}
    <3>1. 0..g[s].free - 1 = {}
      BY <1>4
    <3> QED
      BY <3>1 DEF FramesOf
  <2> QED
    BY <2>1, <2>2
<1>9. AllFrames(q, g) = Fr
  BY <1>1, <1>8 DEF AllFrames
<1>10. TablesIn(q, g)
  <2>1. \A t \in DOMAIN g : ArrayIn(q, g[t])
    BY <1>4, <1>6 DEF SpaceKept
  <2>2. g \in [DOMAIN g -> Array]
    BY <2>1 DEF ArrayIn
  <2> QED
    BY <1>2, <2>1, <2>2 DEF TablesIn
<1>11. Mapped(q, g, rm)
  <2>1. ASSUME NEW x \in Nat, In(rm, x)
        PROVE  Leads(q, g, rm, x)
    <3>1. Leads(m, tb, rm, x)
      BY <1>2, <2>1 DEF Mapped
    <3>2. Entry(q, rm, x) = Entry(m, rm, x)
      BY <1>6, <2>1 DEF SpaceKept
    <3>3. Entry(q, rm, x) # s
      <4>1. s # Null
        BY SpacesAssumption DEF Null
      <4> QED
        BY <3>1, <3>2, <4>1 DEF Leads
    <3> QED
      BY <1>8, <3>1, <3>2, <3>3 DEF Leads
  <2> QED
    BY <1>1, <1>2, <1>6, <1>9, <2>1 DEF Mapped, SpaceKept
<1>12. HeldIn(q, h)
  BY <1>6 DEF SpaceKept
<1> QED
  BY <1>1, <1>4, <1>7, <1>9, <1>10, <1>11, <1>12 DEF Sound

(* A slot is added to an array: no panic is forgotten.                     *)
LEMMA StickySlot ==
  ASSUME NEW m, NEW a, NEW high
  PROVE  Sticky(m, AllocSlot(m, a, high).m)
<1>1. PICK w : w = 3 * ((a.free + 1) \div 2 + 1)
  OBVIOUS
<1>2. PICK e : e = IF 1 > a.size - a.free THEN ExtendArray(m, a, w, high) ELSE [m |-> m, arr |-> a]
  OBVIOUS
<1>3. Sticky(m, e.m)
  <2>1. CASE 1 > a.size - a.free
    <3>1. PICK r, b : r = Realloc(m, a.ptr, w, high) /\ b = [a EXCEPT !.ptr = r.at, !.size = w]
      OBVIOUS
    <3>2. PICK S : S = { [m |-> x.m, arr |-> [a EXCEPT !.ptr = x.at, !.size = w]] : x \in {r} }
      OBVIOUS
    <3>3. S = {[m |-> r.m, arr |-> b]}
      BY <3>1, <3>2
    <3>4. ExtendArray(m, a, w, high) = The(S)
      BY <3>1, <3>2 DEF ExtendArray
    <3>5. ExtendArray(m, a, w, high) = [m |-> r.m, arr |-> b]
      BY <3>3, <3>4, TheOne
    <3>6. e = [m |-> r.m, arr |-> b]
      BY <1>2, <2>1, <3>5
    <3>7. e.m = r.m
      BY <3>6
    <3> QED
      BY <3>1, <3>7, StickyRealloc
  <2>2. CASE ~ (1 > a.size - a.free)
    <3>1. e = [m |-> m, arr |-> a]
      BY <1>2, <2>2
    <3>2. e.m = m
      BY <3>1
    <3> QED
      BY <3>2 DEF Sticky
  <2> QED
    BY <2>1, <2>2
<1>4. AllocSlot(m, a, high).m = Store(e.m, e.arr.ptr + a.free, <<0>>)
  <2>1. PICK d : d = [m |-> Store(e.m, e.arr.ptr + a.free, <<0>>), arr |-> [e.arr EXCEPT !.free = @ + 1]]
    OBVIOUS
  <2>2. PICK S : S = { [m |-> Store(x.m, x.arr.ptr + a.free, <<0>>), arr |-> [x.arr EXCEPT !.free = @ + 1]]
                         : x \in {e} }
    OBVIOUS
  <2>3. S = {d}
    BY <2>1, <2>2
  <2>4. AllocSlot(m, a, high) = The(S)
    BY <1>1, <1>2, <2>2 DEF AllocSlot
  <2>5. AllocSlot(m, a, high) = d
    BY <2>3, <2>4, TheOne
  <2>6. d.m = Store(e.m, e.arr.ptr + a.free, <<0>>)
    BY <2>1
  <2> QED
    BY <2>5, <2>6
<1> QED
  BY <1>3, <1>4, StickyStore, StickyTrans

\* A frame p for the space s, in a slot that leads to z
Slots(m, tb, s, high, slot, p, z, g) ==
  /\ s \in DOMAIN tb /\ slot = AllocSlot(m, tb[s], FALSE)
  /\ p = Place(slot.m, FramePages, high)
  /\ z = Store(AllocPages(slot.m, FramePages, p), slot.arr.ptr + slot.arr.free - 1, <<p>>)
  /\ z.panics = {} /\ g = [tb EXCEPT ![s] = slot.arr]

\* Space s has the frame p too, in z, where its array is that of g
HasFrame(m, h, tb, rm, s, p, g, z) ==
  /\ Good(z, Used(h, g, rm), AllFrames(z, g)) /\ Owners(h, g, rm)
  /\ HeldIn(z, h) /\ TablesIn(z, g) /\ DOMAIN g = DOMAIN tb
  /\ \A t \in DOMAIN tb \ {s} : FramesOf(z, g, t) = FramesOf(m, tb, t)
  /\ FramesOf(z, g, s) = FramesOf(m, tb, s) \cup {p}
  /\ MapIn(z, rm)
  /\ \A x \in Nat : In(rm, x) => Entry(z, rm, x) = Entry(m, rm, x)
  /\ p \in Nat \ {0} /\ p \notin AllFrames(m, tb) /\ p % FramePages = 0 /\ p + FramePages <= NrPages

(* The space has a slot with the new frame; the range map is as before.    *)
LEMMA SlotSound ==
  ASSUME NEW m, NEW h, NEW tb, NEW rm, Sound(m, h, tb, rm), NEW s, NEW high, NEW slot, NEW p, NEW z,
         NEW g, Slots(m, tb, s, high, slot, p, z, g)
  PROVE  HasFrame(m, h, tb, rm, s, p, g, z)
<1>0. /\ s \in DOMAIN tb /\ slot = AllocSlot(m, tb[s], FALSE)
      /\ p = Place(slot.m, FramePages, high)
      /\ z = Store(AllocPages(slot.m, FramePages, p), slot.arr.ptr + slot.arr.free - 1, <<p>>)
      /\ z.panics = {} /\ g = [tb EXCEPT ![s] = slot.arr]
  BY DEF Slots
<1>1. PICK U, V, Fr, a, n : U = Used(h, tb, rm) /\ V = OthersThanSpace(h, tb, s, rm) /\ Fr = AllFrames(m, tb)
                            /\ a = tb[s] /\ n = tb[s].free
  OBVIOUS
<1>2. Good(m, U, Fr) /\ Owners(h, tb, rm) /\ TablesIn(m, tb)
  BY <1>1 DEF Sound
<1>3. V = U \ {a.ptr} /\ a.ptr \in U /\ ArrayIn(m, a) /\ n = a.free /\ n \in Nat
  <2>1. ArrayIn(m, a)
    BY <1>0, <1>1, <1>2 DEF TablesIn
  <2>2. n \in Nat /\ n = a.free
    BY <1>1, <2>1 DEF ArrayIn, Array
  <2> QED
    BY <1>0, <1>1, <1>2, <2>1, <2>2, SpaceOthers
<1>4. PICK q, b, r : q = slot.m /\ b = slot.arr.ptr /\ r = AllocPages(q, FramePages, p)
  OBVIOUS
<1>5. q.panics = {} /\ r.panics = {}
  <2>1. Sticky(m, q)
    BY <1>0, <1>4, StickySlot
  <2>2. Sticky(q, r)
    BY <1>4, StickyPages
  <2>3. r.panics = z.panics
    <3>1. PICK c : c = slot.arr.ptr + slot.arr.free - 1
      OBVIOUS
    <3>2. z = Store(r, c, <<p>>)
      BY <1>0, <1>4, <3>1
    <3> QED
      BY <3>2 DEF Store
  <2>4. "panics" \in DOMAIN m
    <3>1. m \in Allocator
      BY <1>2 DEF Good
    <3> QED
      BY <3>1 DEF Allocator
  <2> QED
    BY <1>0, <2>1, <2>2, <2>3, <2>4 DEF Sticky
<1>6. Longer(m, U, Fr, a, slot) /\ slot.arr.free = n + 1
  <2>1. slot = AllocSlot(m, a, FALSE) /\ slot.m.panics = {}
    BY <1>0, <1>1, <1>4, <1>5
  <2>2. Good(m, U, Fr) /\ ArrayIn(m, a) /\ a.ptr \in U
    BY <1>2, <1>3
  <2>3. Slotted(m, U, Fr, a, slot)
    BY <2>1, <2>2, SlotGood
  <2> QED
    BY <1>3, <2>3 DEF Slotted
<1>7. PICK W : W = V \cup {b}
  OBVIOUS
<1>8. /\ Good(q, W, Fr) /\ Keeps(m, q, V) /\ b \notin V /\ b \in W /\ ArrayIn(q, slot.arr)
      /\ \A k \in 0..n - 1 : q.mem[b + k] = m.mem[a.ptr + k]
  BY <1>3, <1>4, <1>6, <1>7 DEF Longer
<1>9. /\ Good(r, W, Fr \cup {p}) /\ Keeps(q, r, W) /\ r.mem = q.mem
      /\ \A c : GetSizeAtPtr(r, c) = GetSizeAtPtr(q, c)
      /\ p \in Nat \ {0} /\ p \notin Fr /\ p % FramePages = 0 /\ p + FramePages <= NrPages
  <2>1. p = Place(q, FramePages, high)
    BY <1>0, <1>4
  <2>2. Good(q, W, Fr) /\ r = AllocPages(q, FramePages, p) /\ r.panics = {}
    BY <1>4, <1>5, <1>8
  <2>3. Good(r, W, Fr \cup {p}) /\ Keeps(q, r, W)
    BY <2>1, <2>2, FrameGood
  <2>4. r.mem = q.mem
    BY <2>1, <2>2, FrameGood
  <2>5. \A c : GetSizeAtPtr(r, c) = GetSizeAtPtr(q, c)
    <3>1. q \in Allocator /\ FramePages \in Nat /\ p \in Nat
      BY <2>1, <2>2, FrameFacts, PlaceNat DEF Good
    <3>2. r.frags = q.frags /\ r.user = q.user /\ r.per = q.per
      BY <2>2, <3>1, AllocPagesFacts
    <3> QED
      BY <3>2 DEF GetSizeAtPtr
  <2>6. p \in Nat \ {0} /\ p \notin Fr /\ p % FramePages = 0 /\ p + FramePages <= NrPages
    BY <2>1, <2>2, FrameGood
  <2> QED
    BY <2>3, <2>4, <2>5, <2>6
<1>10. b \in Nat /\ b # Null /\ GetSizeAtPtr(q, b) \in Nat /\ n + 1 <= GetSizeAtPtr(q, b)
  <2>1. b \in Given(q)
    BY <1>8 DEF Good
  <2>2. b \in Nat /\ b # Null /\ GetSizeAtPtr(q, b) \in Nat
    BY <1>8, <2>1, RoomsApart DEF Addr
  <2>3. slot.arr.free <= slot.arr.size /\ slot.arr.size <= GetSizeAtPtr(q, b) /\ slot.arr.size \in Nat
    BY <1>4, <1>8 DEF ArrayIn, Array
  <2> QED
    BY <1>3, <1>6, <2>2, <2>3
<1>11. Stored(r, b, n, 1, <<p>>, z)
  <2>1. z = Store(r, b + n, <<p>>)
    <3>1. slot.arr.ptr + slot.arr.free - 1 = b + n
      BY <1>3, <1>4, <1>6, <1>10
    <3> QED
      BY <1>0, <1>4, <3>1
  <2>2. <<p>> \in [1..1 -> Int]
    BY <1>9
  <2>3. n + 1 <= GetSizeAtPtr(r, b)
    BY <1>9, <1>10
  <2> QED
    BY <1>3, <2>1, <2>2, <2>3 DEF Stored
<1>12. PICK Fs, X : Fs = Fr \cup {p} /\ X = W \ {b}
  OBVIOUS
<1>13. Good(z, W, Fs) /\ Keeps(r, z, X) /\ HasWords(r, b, n, 1, <<p>>, z)
  BY <1>8, <1>9, <1>11, <1>12, StoreGood
<1>14. Keeps(m, z, V)
  <2>1. V \subseteq V \cap W /\ V \subseteq V \cap X
    BY <1>7, <1>8, <1>12
  <2>2. Keeps(m, r, V)
    BY <1>8, <1>9, <2>1, KeepsTrans
  <2> QED
    BY <1>13, <2>1, <2>2, KeepsTrans
<1>15. SpaceKept(m, h, tb, s, rm, z)
  BY <1>1, <1>14, OtherSpaces
<1>16. /\ DOMAIN g = DOMAIN tb /\ g[s] = slot.arr /\ \A t \in DOMAIN tb \ {s} : g[t] = tb[t]
  <2>1. tb \in [DOMAIN tb -> Array]
    BY <1>2 DEF TablesIn
  <2> QED
    BY <1>0, <2>1
<1>17. Owners(h, g, rm) /\ Used(h, g, rm) = W
  <2>1. g[s].ptr = b /\ DOMAIN g = DOMAIN tb \cup {s}
    BY <1>0, <1>4, <1>16
  <2>2. Takes(h, tb, rm, s, g)
    BY <1>1, <1>8, <1>10, <1>16, <2>1 DEF Takes
  <2>3. Owners(h, tb, rm)
    BY <1>2
  <2>4. Owners(h, g, rm)
    BY <2>2, <2>3, SpaceOwner
  <2>5. Used(h, g, rm) = OthersThanSpace(h, tb, s, rm) \cup {g[s].ptr}
    BY <2>2, <2>3, SpaceOwner
  <2> QED
    BY <1>1, <1>7, <2>1, <2>4, <2>5
<1>18. ArrayIn(z, slot.arr)
  <2>1. GetSizeAtPtr(z, b) = GetSizeAtPtr(q, b)
    BY <1>9, <1>13 DEF HasWords
  <2> QED
    BY <1>4, <1>8, <2>1 DEF ArrayIn
<1>19. TablesIn(z, g)
  <2>1. \A t \in DOMAIN g : ArrayIn(z, g[t])
    BY <1>15, <1>16, <1>18 DEF SpaceKept
  <2>2. g \in [DOMAIN g -> Array]
    BY <1>0, <1>2, <1>16, <2>1 DEF ArrayIn, TablesIn
  <2> QED
    BY <1>2, <1>16, <2>1, <2>2 DEF TablesIn
<1>20. \A t \in DOMAIN tb \ {s} : FramesOf(z, g, t) = FramesOf(m, tb, t)
  <2>1. \A t \in DOMAIN tb \ {s} : FramesOf(z, g, t) = FramesOf(z, tb, t)
    BY <1>16 DEF FramesOf
  <2>2. \A t \in DOMAIN tb \ {s} : FramesOf(z, tb, t) = FramesOf(m, tb, t)
    BY <1>15 DEF SpaceKept
  <2> QED
    BY <2>1, <2>2
<1>21. /\ \A k \in 0..n - 1 : z.mem[b + k] = m.mem[a.ptr + k]
       /\ z.mem[b + n] = p
  <2>1. ASSUME NEW k \in 0..n - 1
        PROVE  z.mem[b + k] = m.mem[a.ptr + k]
    <3>1. b + k \in Addr
      <4>1. Keeps(q, q, W) /\ k \in Nat /\ k < GetSizeAtPtr(q, b)
        BY <1>3, <1>10 DEF Keeps
      <4> QED
        BY <1>8, <4>1, KeptWords
    <3>2. b + k < b + n
      BY <1>3, <1>10
    <3>3. z.mem[b + k] = r.mem[b + k]
      BY <1>13, <3>1, <3>2 DEF HasWords
    <3> QED
      BY <1>8, <1>9, <3>3
  <2>2. z.mem[b + n] = p
    <3>1. 0 \in 0..1 - 1 /\ b + n + 0 = b + n /\ <<p>>[0 + 1] = p
      BY <1>3, <1>10
    <3>2. z.mem[b + n + 0] = <<p>>[0 + 1]
      BY <1>13, <3>1 DEF HasWords
    <3> QED
      BY <3>1, <3>2
  <2> QED
    BY <2>1, <2>2
<1>22. FramesOf(z, g, s) = FramesOf(m, tb, s) \cup {p}
  <2>1. FramesOf(z, g, s) = {z.mem[b + i] : i \in 0..n}
    <3>1. (n + 1) - 1 = n /\ g[s].free = n + 1 /\ g[s].ptr = b
      BY <1>3, <1>4, <1>6, <1>16
    <3> QED
      BY <3>1 DEF FramesOf
  <2>2. FramesOf(m, tb, s) = {m.mem[a.ptr + i] : i \in 0..n - 1}
    BY <1>1 DEF FramesOf
  <2>3. \A i : i \in 0..n <=> i \in 0..n - 1 \/ i = n
    BY <1>3
  <2> QED
    BY <1>21, <2>1, <2>2, <2>3
<1>23. AllFrames(z, g) = Fs
  <2>1. \A f : f \in AllFrames(z, g) <=> \E t \in DOMAIN tb : f \in FramesOf(z, g, t)
    BY <1>16 DEF AllFrames
  <2>2. \A f : f \in Fr <=> \E t \in DOMAIN tb : f \in FramesOf(m, tb, t)
    BY <1>1 DEF AllFrames
  <2>3. \A t \in DOMAIN tb : \A f : f \in FramesOf(z, g, t) <=> f \in FramesOf(m, tb, t) \/ (t = s /\ f = p)
    BY <1>20, <1>22
  <2> QED
    BY <1>0, <1>12, <2>1, <2>2, <2>3, ZenonT(60)
<1>24. /\ HeldIn(z, h) /\ MapIn(z, rm)
       /\ \A x \in Nat : In(rm, x) => Entry(z, rm, x) = Entry(m, rm, x)
  BY <1>15 DEF SpaceKept
<1> QED
  BY <1>1, <1>9, <1>13, <1>16, <1>17, <1>19, <1>20, <1>22, <1>23, <1>24 DEF HasFrame

(* The index of a frame in the range map.                                  *)
LEMMA FrameInxFacts ==
  ASSUME NEW p \in Nat \ {0}, p % FramePages = 0, p + FramePages <= NrPages
  PROVE  /\ FrameInx(p) = p \div FramePages /\ FrameInx(p) \in Nat \ {0} /\ FrameInx(p) < NrPages
         /\ FrameInx(p) * FramePages = p
<1>1. PICK x, r, n : x = p \div FramePages /\ r = p % FramePages /\ n = FramePages
  OBVIOUS
<1>2. n \in Nat \ {0}
  BY <1>1, FrameFacts
<1>3. x \in Nat /\ p = x * n
  <2>1. p = x * n + r /\ x \in Nat
    BY <1>1, <1>2, DivMod
  <2>2. r = 0
    BY <1>1
  <2>3. x * n + 0 = x * n
    BY <1>2, <2>1
  <2> QED
    BY <2>1, <2>2, <2>3
<1>4. x # 0
  <2>1. 0 * n = 0
    BY <1>2
  <2> QED
    BY <1>3, <2>1
<1>5. x <= p
  BY <1>2, <1>3
<1>6. x < NrPages /\ x < InxMod /\ InxMod \in Nat
  <2>1. NrPages \in Nat /\ NrPages < InxMod /\ InxMod \in Nat /\ n \in Nat \ {0} /\ p + n <= NrPages
    BY <1>1, <1>2, Constants, SpacesAssumption
  <2> QED
    BY <1>3, <1>5, <2>1
<1>7. x % InxMod = x
  BY <1>3, <1>6
<1> QED
  BY <1>1, <1>3, <1>4, <1>6, <1>7 DEF FrameInx

\* The frame p of s is registered in y, after the range map has been extended
Registers(z, W, rm, s, p, map, y) ==
  /\ Extended(z, W, rm, FrameInx(p), map)
  /\ y = RegisterSpaceFrame(map.m, map.map, s, p)

\* s is the entry for x that y has in t, where q had another
Enters(q, t, y, x, s) ==
  /\ MapIn(y, t) /\ Entry(y, t, x) = s
  /\ \A i \in Nat : In(t, i) /\ i # x => Entry(y, t, i) = Entry(q, t, i)

\* All is well in y, and the frames are those of z
Registered(z, h, g, Fr, map, y) ==
  /\ Good(y, Used(h, g, map.map), Fr) /\ Owners(h, g, map.map)
  /\ HeldIn(y, h) /\ TablesIn(y, g)
  /\ \A t \in DOMAIN g : FramesOf(y, g, t) = FramesOf(z, g, t)

(* Everything after the registration but what the map leads to.            *)
LEMMA RegisterGood ==
  ASSUME NEW z, NEW Fr, NEW h, NEW g, NEW rm, NEW W, W = Used(h, g, rm), Good(z, W, Fr), Owners(h, g, rm),
         HeldIn(z, h), TablesIn(z, g), NEW s, s \in Int, NEW p, NEW map, NEW y, Registers(z, W, rm, s, p, map, y)
  PROVE  /\ Registered(z, h, g, Fr, map, y)
         /\ Wider(z, W, Fr, rm, FrameInx(p), map)
         /\ Enters(map.m, map.map, y, FrameInx(p), s)
<1>0. /\ Extended(z, W, rm, FrameInx(p), map)
      /\ y = RegisterSpaceFrame(map.m, map.map, s, p)
  BY DEF Registers
<1>1. Wider(z, W, Fr, rm, FrameInx(p), map)
  BY <1>0, ExtendGood
<1>2. PICK q, t, c, x : q = map.m /\ t = map.map /\ c = map.map.ptr /\ x = FrameInx(p)
  OBVIOUS
<1>3. PICK V, X : V = W \ {rm.ptr} /\ X = (W \ {rm.ptr}) \cup {c}
  OBVIOUS
<1>4. /\ Good(q, X, Fr) /\ Keeps(z, q, V) /\ c \notin V /\ MapIn(q, t) /\ c # Null /\ In(t, x)
  BY <1>1, <1>2, <1>3 DEF Wider
<1>5. Owners(h, g, t) /\ Used(h, g, t) = X
  <2>1. t.ptr # Null /\ t.ptr \notin Used(h, g, rm) \ {rm.ptr}
    BY <1>2, <1>3, <1>4
  <2>2. Owners(h, g, t)
    BY <2>1, MapOwner
  <2>3. Used(h, g, t) = (Used(h, g, rm) \ {rm.ptr}) \cup {t.ptr}
    BY <2>1, MapOwner
  <2> QED
    BY <1>2, <1>3, <2>2, <2>3
<1>6. Ats(h) \subseteq V /\ Ptrs(g) \subseteq V
  BY <1>3 DEF Used, Owners, Ats, Ptrs
<1>7. /\ HeldIn(q, h) /\ TablesIn(q, g)
      /\ \A u \in DOMAIN g : FramesOf(q, g, u) = FramesOf(z, g, u)
  <2>1. Kept(z, W, Fr, q, V)
    BY <1>3, <1>4 DEF Kept
  <2>2. HeldIn(q, h)
    BY <1>6, <2>1, HeldKept
  <2>3. TablesIn(q, g)
    BY <1>6, <2>1, TablesKept
  <2>4. \A u \in DOMAIN g : FramesOf(q, g, u) = FramesOf(z, g, u)
    BY <1>6, <2>1, TablesKept
  <2> QED
    BY <2>2, <2>3, <2>4
<1>8. PICK f, n, k : f = t.first /\ n = t.size /\ k = x - f
  OBVIOUS
<1>9. /\ f \in Nat /\ n \in Nat /\ n <= GetSizeAtPtr(q, c) /\ f <= x /\ x < f + n /\ x \in Nat
  <2>1. x \in Nat
    BY <1>0, <1>2 DEF Extended
  <2> QED
    BY <1>2, <1>4, <1>8, <2>1 DEF MapIn, MapRec, In
<1>10. c \in Nat /\ GetSizeAtPtr(q, c) \in Nat
  <2>1. c \in Given(q)
    BY <1>3, <1>4 DEF Good
  <2> QED
    BY <1>4, <2>1, RoomsApart DEF Addr
<1>11. Stored(q, c, k, 1, <<s>>, y)
  <2>1. k \in Nat /\ k + 1 <= GetSizeAtPtr(q, c) /\ c + x - f = c + k
    BY <1>8, <1>9, <1>10
  <2>2. y = Store(q, c + k, <<s>>)
    BY <1>0, <1>2, <1>8, <2>1 DEF RegisterSpaceFrame
  <2>3. <<s>> \in [1..1 -> Int]
    OBVIOUS
  <2> QED
    BY <2>1, <2>2, <2>3 DEF Stored
<1>12. PICK Y : Y = X \ {c}
  OBVIOUS
<1>13. Good(y, X, Fr) /\ Keeps(q, y, Y) /\ HasWords(q, c, k, 1, <<s>>, y)
  BY <1>3, <1>4, <1>11, <1>12, StoreGood
<1>14. /\ HeldIn(y, h) /\ TablesIn(y, g)
       /\ \A u \in DOMAIN g : FramesOf(y, g, u) = FramesOf(q, g, u)
  <2>1. Kept(q, X, Fr, y, Y) /\ Ats(h) \subseteq Y /\ Ptrs(g) \subseteq Y
    BY <1>3, <1>4, <1>6, <1>12, <1>13 DEF Kept
  <2>2. HeldIn(y, h)
    BY <1>7, <2>1, HeldKept
  <2>3. TablesIn(y, g)
    BY <1>7, <2>1, TablesKept
  <2>4. \A u \in DOMAIN g : FramesOf(y, g, u) = FramesOf(q, g, u)
    BY <1>7, <2>1, TablesKept
  <2> QED
    BY <2>2, <2>3, <2>4
<1>15. MapIn(y, t)
  <2>1. GetSizeAtPtr(y, c) = GetSizeAtPtr(q, c)
    BY <1>13 DEF HasWords
  <2> QED
    BY <1>2, <1>4, <2>1 DEF MapIn
<1>16. Entry(y, t, x) = s
  <2>1. 0 \in 0..1 - 1 /\ c + k + 0 = c + x - f /\ <<s>>[0 + 1] = s
    BY <1>8, <1>9, <1>10
  <2>2. y.mem[c + k + 0] = <<s>>[0 + 1]
    BY <1>13, <2>1 DEF HasWords
  <2> QED
    BY <1>2, <1>8, <2>1, <2>2 DEF Entry
<1>17. ASSUME NEW i \in Nat, In(t, i), i # x
       PROVE  Entry(y, t, i) = Entry(q, t, i)
  <2>1. f <= i /\ i < f + n
    BY <1>8, <1>17 DEF In
  <2>2. c + i - f \in Addr /\ c \in X
    <3>1. c \in X
      BY <1>3
    <3> QED
      BY <1>4, <1>9, <2>1, <3>1, EntryWord
  <2>3. c + i - f < c + k \/ c + k + 1 <= c + i - f
    BY <1>8, <1>9, <1>10, <1>17, <2>1
  <2>4. y.mem[c + i - f] = q.mem[c + i - f]
    BY <1>13, <2>2, <2>3 DEF HasWords
  <2> QED
    BY <1>2, <1>8, <2>4 DEF Entry
<1>18. Enters(q, t, y, x, s)
  BY <1>15, <1>16, <1>17 DEF Enters
<1>19. Registered(z, h, g, Fr, map, y)
  <2>1. \A u \in DOMAIN g : FramesOf(y, g, u) = FramesOf(z, g, u)
    BY <1>7, <1>14
  <2> QED
    BY <1>2, <1>5, <1>13, <1>14, <2>1 DEF Registered
<1> QED
  BY <1>1, <1>2, <1>18, <1>19

(* What the extended and registered map leads to.                          *)
LEMMA LeadsOn ==
  ASSUME NEW m, NEW h, NEW tb, NEW rm, Mapped(m, tb, rm), NEW s \in DOMAIN tb, NEW p, NEW g, NEW z,
         HasFrame(m, h, tb, rm, s, p, g, z), NEW W, NEW Fr, NEW map, Wider(z, W, Fr, rm, FrameInx(p), map),
         NEW y, Enters(map.m, map.map, y, FrameInx(p), s),
         Registered(z, h, g, Fr, map, y)
  PROVE  Mapped(y, g, map.map)
<1>1. PICK t, x : t = map.map /\ x = FrameInx(p)
  OBVIOUS
<1>2. /\ DOMAIN g = DOMAIN tb
      /\ \A i \in Nat : In(rm, i) => Entry(z, rm, i) = Entry(m, rm, i)
      /\ p \in Nat \ {0} /\ p \notin AllFrames(m, tb) /\ p % FramePages = 0 /\ p + FramePages <= NrPages
  BY DEF HasFrame
<1>3. /\ \A u \in DOMAIN tb \ {s} : FramesOf(y, g, u) = FramesOf(m, tb, u)
      /\ FramesOf(y, g, s) = FramesOf(m, tb, s) \cup {p}
  <2>1. \A u \in DOMAIN g : FramesOf(y, g, u) = FramesOf(z, g, u)
    BY DEF Registered
  <2> QED
    BY <1>2, <2>1 DEF HasFrame
<1>4. x \in Nat /\ x * FramePages = p /\ x = p \div FramePages
  BY <1>1, <1>2, FrameInxFacts
<1>5. /\ In(t, x) /\ MapIn(y, t) /\ Entry(y, t, x) = s
      /\ \A i \in Nat : In(rm, i) => In(t, i) /\ Entry(map.m, t, i) = Entry(z, rm, i)
      /\ \A i \in Nat : In(t, i) /\ ~ In(rm, i) => Entry(map.m, t, i) = Null
      /\ \A i \in Nat : In(t, i) /\ i # x => Entry(y, t, i) = Entry(map.m, t, i)
  BY <1>1 DEF Wider, Enters
<1>6. \A u \in DOMAIN tb : FramesOf(m, tb, u) \subseteq AllFrames(m, tb)
  BY DEF AllFrames
<1>7. /\ \A f \in AllFrames(m, tb) : f % FramePages = 0 /\ In(rm, f \div FramePages)
      /\ \A i \in Nat : In(rm, i) => Leads(m, tb, rm, i)
  BY DEF Mapped
<1>8. FramePages \in Nat \ {0}
  BY FrameFacts
<1>9. ASSUME NEW i \in Nat, In(t, i)
      PROVE  Leads(y, g, t, i)
  <2>1. CASE i = x
    <3>1. i * FramePages = p /\ Entry(y, t, i) = s
      BY <1>4, <1>5, <2>1
    <3>2. ASSUME NEW u \in DOMAIN g
          PROVE  Entry(y, t, i) = u <=> i * FramePages \in FramesOf(y, g, u)
      <4>1. CASE u = s
        BY <1>3, <3>1, <4>1
      <4>2. CASE u # s
        <5>1. p \notin FramesOf(y, g, u)
          BY <1>2, <1>3, <1>6, <4>2
        <5> QED
          BY <3>1, <4>2, <5>1
      <4> QED
        BY <4>1, <4>2
    <3> QED
      BY <1>2, <3>1, <3>2 DEF Leads
  <2>2. CASE i # x
    <3>1. PICK f : f = i * FramePages
      OBVIOUS
    <3>2. f \in Nat /\ f \div FramePages = i
      <4>1. 0 \in 0..FramePages - 1 /\ f = i * FramePages + 0 /\ f \in Nat
        BY <1>8, <3>1
      <4> QED
        BY <1>8, <4>1, DivUnique
    <3>3. f # p
      BY <1>4, <2>2, <3>2
    <3>4. \A u \in DOMAIN tb : f \in FramesOf(y, g, u) <=> f \in FramesOf(m, tb, u)
      BY <1>3, <3>3
    <3>5. Entry(y, t, i) = Entry(map.m, t, i)
      BY <1>5, <1>9, <2>2
    <3>6. CASE In(rm, i)
      <4>1. Entry(y, t, i) = Entry(m, rm, i)
        BY <1>2, <1>5, <3>5, <3>6
      <4>2. Leads(m, tb, rm, i)
        BY <1>7, <3>6
      <4> QED
        BY <1>2, <3>1, <3>4, <4>1, <4>2 DEF Leads
    <3>7. CASE ~ In(rm, i)
      <4>1. Entry(y, t, i) = Null
        BY <1>5, <1>9, <3>5, <3>7
      <4>2. ASSUME NEW u \in DOMAIN g
            PROVE  Entry(y, t, i) = u <=> f \in FramesOf(y, g, u)
        <5>1. f \notin FramesOf(m, tb, u)
          BY <1>2, <1>6, <1>7, <3>2, <3>7
        <5>2. u # Null
          <6>1. TablesIn(z, g)
            BY DEF HasFrame
          <6>2. DOMAIN g \subseteq Space
            BY <6>1 DEF TablesIn
          <6> QED
            BY <6>2, SpacesAssumption DEF Null
        <5> QED
          BY <1>2, <3>4, <4>1, <5>1, <5>2
      <4> QED
        BY <3>1, <4>1, <4>2 DEF Leads
    <3> QED
      BY <3>6, <3>7
  <2> QED
    BY <2>1, <2>2
<1>10. ASSUME NEW f \in AllFrames(y, g)
       PROVE  f % FramePages = 0 /\ In(t, f \div FramePages)
  <2>1. PICK u \in DOMAIN g : f \in FramesOf(y, g, u)
    BY DEF AllFrames
  <2>2. CASE f = p
    BY <1>2, <1>4, <1>5, <2>2
  <2>3. CASE f # p
    <3>1. f \in FramesOf(m, tb, u)
      BY <1>2, <1>3, <2>1, <2>3
    <3>2. f \in AllFrames(m, tb)
      BY <1>2, <1>6, <3>1
    <3>3. f % FramePages = 0 /\ In(rm, f \div FramePages)
      BY <1>7, <3>2
    <3>4. f \div FramePages \in Nat
      <4>1. f \in AllFrames(z, g)
        <5>1. f \in FramesOf(z, g, u)
          BY <2>1 DEF Registered
        <5> QED
          BY <2>1, <5>1 DEF AllFrames
      <4>2. f \in Nat
        BY <4>1 DEF HasFrame, Good, PagesInv
      <4> QED
        BY <1>8, <4>2, DivMod
    <3> QED
      BY <1>5, <3>3, <3>4
  <2> QED
    BY <2>2, <2>3
<1> QED
  BY <1>1, <1>5, <1>9, <1>10 DEF Mapped

(* A copy space grows by a frame.                                          *)
LEMMA GrowSound ==
  ASSUME NEW m, NEW h, NEW tb, NEW rm, Sound(m, h, tb, rm), NEW s, NEW high, NEW slot, NEW p, NEW z, NEW g,
         Slots(m, tb, s, high, slot, p, z, g), NEW map, NEW y, map = Extend(z, rm, FrameInx(p), FALSE),
         map.m.panics = {}, y = RegisterSpaceFrame(map.m, map.map, s, p)
  PROVE  Sound(y, h, g, map.map)
<1>1. s \in DOMAIN tb
  BY DEF Slots
<1>2. HasFrame(m, h, tb, rm, s, p, g, z)
  BY SlotSound
<1>3. PICK W, Fr : W = Used(h, g, rm) /\ Fr = AllFrames(z, g)
  OBVIOUS
<1>4. /\ Good(z, W, Fr) /\ Owners(h, g, rm) /\ HeldIn(z, h) /\ TablesIn(z, g) /\ MapIn(z, rm)
      /\ p \in Nat \ {0} /\ p % FramePages = 0 /\ p + FramePages <= NrPages
  BY <1>2, <1>3 DEF HasFrame
<1>5. Registers(z, W, rm, s, p, map, y)
  <2>1. rm.ptr # Null => rm.ptr \in W
    BY <1>3 DEF Used
  <2>2. FrameInx(p) \in Nat \ {0} /\ FrameInx(p) < NrPages
    BY <1>4, FrameInxFacts
  <2> QED
    BY <1>4, <2>1, <2>2 DEF Registers, Extended
<1>6. s \in Int
  <2>1. TablesIn(m, tb)
    BY DEF Sound
  <2> QED
    BY <1>1, <2>1, SpacesAssumption DEF TablesIn
<1>7. Registered(z, h, g, Fr, map, y)
  BY <1>3, <1>4, <1>5, <1>6, RegisterGood
<1>8. Wider(z, W, Fr, rm, FrameInx(p), map)
  BY <1>3, <1>4, <1>5, <1>6, RegisterGood
<1>9. Enters(map.m, map.map, y, FrameInx(p), s)
  BY <1>3, <1>4, <1>5, <1>6, RegisterGood
<1>10. Mapped(y, g, map.map)
  <2>1. Mapped(m, tb, rm)
    BY DEF Sound
  <2> QED
    BY <1>1, <1>2, <1>7, <1>8, <1>9, <2>1, LeadsOn
<1>11. AllFrames(y, g) = Fr
  BY <1>3, <1>7 DEF AllFrames, Registered
<1> QED
  BY <1>7, <1>10, <1>11 DEF Sound, Registered

(* What the run-time system has given up for is not forgotten when the     *)
(* range map is extended.                                                  *)
LEMMA StickyExtend ==
  ASSUME NEW m, NEW t, NEW inx, NEW high
  PROVE  Sticky(m, Extend(m, t, inx, high).m)
<1>1. PICK u, first, n : Extend(m, t, inx, high) = Resized(m, u, first, n, high)
  BY DEF Extend
<1>2. CASE n <= u.size
  <2>1. Extend(m, t, inx, high).m = m
    BY <1>1, <1>2, TwoFields DEF Resized
  <2> QED
    BY <2>1 DEF Sticky
<1>3. CASE ~ (n <= u.size)
  <2>1. PICK q, g : q = Alloc(m, n, high) /\ g = Move(q.m, u, q.at, first, n)
    OBVIOUS
  <2>2. PICK d : d = IF u.ptr = Null THEN g ELSE Dealloc(g, u.ptr)
    OBVIOUS
  <2>3. PICK S : S = { [m |-> IF u.ptr = Null THEN Move(x.m, u, x.at, first, n)
                              ELSE Dealloc(Move(x.m, u, x.at, first, n), u.ptr),
                        map |-> [ptr |-> x.at, first |-> first, size |-> n]] : x \in {q} }
    OBVIOUS
  <2>4. S = {[m |-> d, map |-> [ptr |-> q.at, first |-> first, size |-> n]]}
    BY <2>1, <2>2, <2>3
  <2>5. Extend(m, t, inx, high) = The(S)
    BY <1>1, <1>3, <2>1, <2>3 DEF Resized
  <2>6. Extend(m, t, inx, high).m = d
    <3>1. PICK e : e = [ptr |-> q.at, first |-> first, size |-> n]
      OBVIOUS
    <3>2. Extend(m, t, inx, high) = [m |-> d, map |-> e]
      BY <2>4, <2>5, <3>1, TheOne
    <3> QED
      BY <3>2, TwoFields
  <2>7. Sticky(m, q.m) /\ Sticky(q.m, g)
    BY <2>1, StickyAlloc, StickyStore DEF Move
  <2>8. Sticky(g, d)
    <3>1. Sticky(g, g)
      BY DEF Sticky
    <3> QED
      BY <2>2, <3>1, StickyDealloc
  <2> QED
    BY <2>6, <2>7, <2>8, StickyTrans
<1> QED
  BY <1>2, <1>3

-----------------------------------------------------------------------------
(* The inductive invariant: the components are in order in every state.    *)
IInv == Sound(lof, held, table, rangeMap)

(* The invariant holds when the run-time system starts.                    *)
LEMMA InitSound == Init => IInv
<1> SUFFICES ASSUME Init
             PROVE  IInv
  OBVIOUS
<1>1. PICK m, h, tb, rm : m = lof /\ h = held /\ tb = table /\ rm = rangeMap
  OBVIOUS
<1>2. m = LofInit /\ h = <<>> /\ tb = <<>> /\ rm = [ptr |-> Null, first |-> 0, size |-> 0]
  BY <1>1 DEF Init
<1>3. DOMAIN h = {} /\ DOMAIN tb = {} /\ h = [k \in {} |-> h[k]] /\ tb = [k \in {} |-> tb[k]]
  BY <1>2
<1>4. rm.ptr = Null /\ rm.first = 0 /\ rm.size = 0 /\ rm \in MapRec
  BY <1>2 DEF MapRec, Null
<1>5. Used(h, tb, rm) = {}
  BY <1>3, <1>4 DEF Used, Ats, Ptrs
<1>6. AllFrames(m, tb) = {}
  BY <1>3 DEF AllFrames
<1>7. Good(m, Used(h, tb, rm), AllFrames(m, tb))
  BY <1>2, <1>5, <1>6, InitGood
<1>8. Owners(h, tb, rm)
  BY <1>3 DEF Owners
<1>9. HeldIn(m, h)
  BY <1>3 DEF HeldIn
<1>10. TablesIn(m, tb)
  BY <1>3 DEF TablesIn
<1>11. Mapped(m, tb, rm)
  <2>1. NrPages \in Nat
    BY Constants
  <2>2. MapIn(m, rm)
    BY <1>4, <2>1 DEF MapIn
  <2>3. \A x \in Nat : ~ In(rm, x)
    BY <1>4 DEF In
  <2> QED
    BY <1>6, <2>2, <2>3 DEF Mapped
<1> QED
  BY <1>1, <1>7, <1>8, <1>9, <1>10, <1>11 DEF IInv, Sound

(* A space is set up.                                                      *)
LEMMA SpaceInitStep ==
  ASSUME IInv, NEW s \in Space, SpaceInit(s)
  PROVE  IInv'
<1>1. PICK m, h, tb, rm : m = lof /\ h = held /\ tb = table /\ rm = rangeMap
  OBVIOUS
<1>2. PICK r : r = NewArray(m)
  OBVIOUS
<1>3. s \notin DOMAIN tb /\ r.m.panics = {} /\ lof' = r.m
      /\ table' = [t \in DOMAIN tb \cup {s} |-> IF t = s THEN r.arr ELSE tb[t]]
  <2>1. \E x \in {r} : Bounded(x.m) /\ lof' = x.m
                   /\ table' = [t \in DOMAIN tb \cup {s} |-> IF t = s THEN x.arr ELSE tb[t]]
    BY <1>1, <1>2 DEF SpaceInit
  <2> QED
    BY <1>1, <2>1 DEF SpaceInit, Bounded
<1>4. held' = h /\ rangeMap' = rm
  BY <1>1 DEF SpaceInit
<1>5. PICK g : g = table'
  OBVIOUS
<1>6. g = [t \in DOMAIN tb \cup {s} |-> IF t = s THEN r.arr ELSE tb[t]]
  BY <1>3, <1>5
<1>7. /\ DOMAIN g = DOMAIN tb \cup {s} /\ g = [t \in DOMAIN g |-> g[t]]
      /\ \A t \in DOMAIN tb : g[t] = tb[t]
      /\ g[s] = r.arr
  BY <1>3, <1>6
<1>8. Sound(m, h, tb, rm)
  BY <1>1 DEF IInv
<1>9. Sound(r.m, h, g, rm)
  BY <1>2, <1>3, <1>7, <1>8, SpaceInitSound
<1> QED
  BY <1>3, <1>4, <1>5, <1>9 DEF IInv

(* A client allocates.                                                     *)
LEMMA MallocStep ==
  ASSUME IInv, NEW k \in Client, NEW w \in Sizes, Malloc(k, w), UNCHANGED <<table, rangeMap>>
  PROVE  IInv'
<1>1. PICK m, h, tb, rm : m = lof /\ h = held /\ tb = table /\ rm = rangeMap
  OBVIOUS
<1>2. PICK r, z, g : r = Alloc(m, w, FALSE) /\ z = lof' /\ g = held'
  OBVIOUS
<1>3. \E x \in {r} : /\ Bounded(x.m)
                     /\ lof' = Store(x.m, x.at, Content(k, 1, w))
                     /\ held' = [y \in DOMAIN h \cup {k} |-> IF y = k THEN [at |-> x.at, size |-> w] ELSE h[y]]
  BY <1>1, <1>2 DEF Malloc
<1>4. /\ r.m.panics = {} /\ z = Store(r.m, r.at, Content(k, 1, w))
      /\ g = [y \in DOMAIN h \cup {k} |-> IF y = k THEN [at |-> r.at, size |-> w] ELSE h[y]]
  BY <1>2, <1>3 DEF Bounded
<1>5. k \notin DOMAIN h /\ w \in Nat \ {0}
  BY <1>1, LofAssumption DEF Malloc
<1>6. Mallocs(m, h, k, w, r, z, g)
  BY <1>2, <1>4, <1>5 DEF Mallocs
<1>7. Sound(m, h, tb, rm)
  BY <1>1 DEF IInv
<1>8. Sound(z, g, tb, rm)
  BY <1>6, <1>7, MallocSound
<1> QED
  BY <1>1, <1>2, <1>8 DEF IInv

(* A client resizes.                                                       *)
LEMMA ResizeStep ==
  ASSUME IInv, NEW k \in Client, NEW w \in Sizes, Resize(k, w), UNCHANGED <<table, rangeMap>>
  PROVE  IInv'
<1>1. PICK m, h, tb, rm : m = lof /\ h = held /\ tb = table /\ rm = rangeMap
  OBVIOUS
<1>2. PICK r, z, g : r = Realloc(m, h[k].at, w, FALSE) /\ z = lof' /\ g = held'
  OBVIOUS
<1>3. \E x \in {r} : /\ Bounded(x.m)
                     /\ lof' = Store(x.m, x.at + h[k].size, Content(k, h[k].size + 1, w))
                     /\ held' = [h EXCEPT ![k] = [at |-> x.at, size |-> w]]
  BY <1>1, <1>2 DEF Resize
<1>4. /\ r.m.panics = {} /\ z = Store(r.m, r.at + h[k].size, Content(k, h[k].size + 1, w))
      /\ g = [h EXCEPT ![k] = [at |-> r.at, size |-> w]]
  BY <1>2, <1>3 DEF Bounded
<1>5. k \in DOMAIN h /\ w \in Nat \ {0}
  BY <1>1, LofAssumption DEF Resize
<1>6. Resizes(m, h, k, w, r, z, g)
  BY <1>2, <1>4, <1>5 DEF Resizes
<1>7. Sound(m, h, tb, rm)
  BY <1>1 DEF IInv
<1>8. Sound(z, g, tb, rm)
  BY <1>6, <1>7, ResizeSound
<1> QED
  BY <1>1, <1>2, <1>8 DEF IInv

(* A client frees.                                                         *)
LEMMA FreeStep ==
  ASSUME IInv, NEW k \in Client, Free(k), UNCHANGED <<table, rangeMap>>
  PROVE  IInv'
<1>1. PICK m, h, tb, rm : m = lof /\ h = held /\ tb = table /\ rm = rangeMap
  OBVIOUS
<1>2. PICK r, g : r = lof' /\ g = held'
  OBVIOUS
<1>3. k \in DOMAIN h /\ r = Dealloc(m, h[k].at) /\ g = [x \in DOMAIN h \ {k} |-> h[x]]
  BY <1>1, <1>2 DEF Free
<1>4. Sound(m, h, tb, rm)
  BY <1>1 DEF IInv
<1>5. Sound(r, g, tb, rm)
  BY <1>3, <1>4, FreeSound
<1> QED
  BY <1>1, <1>2, <1>5 DEF IInv

\* What a space does to grow
Grows(m, tb, rm, s, high, slot, p, z, map) ==
  /\ slot = AllocSlot(m, tb[s], FALSE) /\ p = Place(slot.m, FramePages, high)
  /\ z = Store(AllocPages(slot.m, FramePages, p), slot.arr.ptr + slot.arr.free - 1, <<p>>)
  /\ map = Extend(z, rm, FrameInx(p), FALSE)

(* The parts of a growth, by their names.                                  *)
LEMMA GrowParts ==
  ASSUME NEW s, NEW high, GrowSpaceByDefault(s, high), NEW slot, NEW p, NEW z, NEW map,
         Grows(lof, table, rangeMap, s, high, slot, p, z, map)
  PROVE  /\ map.m.panics = {} /\ lof' = RegisterSpaceFrame(map.m, map.map, s, p)
         /\ table' = [table EXCEPT ![s] = slot.arr] /\ rangeMap' = map.map /\ held' = held
<1>1. PICK slot1 \in {AllocSlot(lof, table[s], FALSE)} :
        \E page \in {Place(slot1.m, FramePages, high)} :
         \E m \in {Store(AllocPages(slot1.m, FramePages, page),
                        slot1.arr.ptr + slot1.arr.free - 1, <<page>>)} :
           \E map1 \in {Extend(m, rangeMap, FrameInx(page), FALSE)} :
             /\ Bounded(map1.m)
             /\ lof' = RegisterSpaceFrame(map1.m, map1.map, s, page)
             /\ table' = [table EXCEPT ![s] = slot1.arr]
             /\ rangeMap' = map1.map
  BY DEF GrowSpaceByDefault
<1>2. slot1 = slot
  BY DEF Grows
<1>3. PICK page \in {Place(slot.m, FramePages, high)} :
         \E m \in {Store(AllocPages(slot.m, FramePages, page),
                        slot.arr.ptr + slot.arr.free - 1, <<page>>)} :
           \E map1 \in {Extend(m, rangeMap, FrameInx(page), FALSE)} :
             /\ Bounded(map1.m)
             /\ lof' = RegisterSpaceFrame(map1.m, map1.map, s, page)
             /\ table' = [table EXCEPT ![s] = slot.arr]
             /\ rangeMap' = map1.map
  BY <1>1, <1>2
<1>4. page = p /\ z = Store(AllocPages(slot.m, FramePages, p), slot.arr.ptr + slot.arr.free - 1, <<p>>)
  BY DEF Grows
<1>5. PICK m \in {z} :
           \E map1 \in {Extend(m, rangeMap, FrameInx(p), FALSE)} :
             /\ Bounded(map1.m)
             /\ lof' = RegisterSpaceFrame(map1.m, map1.map, s, p)
             /\ table' = [table EXCEPT ![s] = slot.arr]
             /\ rangeMap' = map1.map
  <2>1. \E m \in {Store(AllocPages(slot.m, FramePages, p),
                        slot.arr.ptr + slot.arr.free - 1, <<p>>)} :
           \E map1 \in {Extend(m, rangeMap, FrameInx(p), FALSE)} :
             /\ Bounded(map1.m)
             /\ lof' = RegisterSpaceFrame(map1.m, map1.map, s, p)
             /\ table' = [table EXCEPT ![s] = slot.arr]
             /\ rangeMap' = map1.map
    BY <1>3, <1>4
  <2> QED
    BY <1>4, <2>1
<1>6. \E map1 \in {map} :
             /\ Bounded(map1.m)
             /\ lof' = RegisterSpaceFrame(map1.m, map1.map, s, p)
             /\ table' = [table EXCEPT ![s] = slot.arr]
             /\ rangeMap' = map1.map
  BY <1>5 DEF Grows
<1>7. held' = held
  BY DEF GrowSpaceByDefault
<1> QED
  BY <1>6, <1>7 DEF Bounded

(* A space grows.                                                          *)
LEMMA GrowStep ==
  ASSUME IInv, Running, NEW s \in Space, NEW high \in BOOLEAN, GrowSpaceByDefault(s, high)
  PROVE  IInv'
<1>1. PICK m, h, tb, rm : m = lof /\ h = held /\ tb = table /\ rm = rangeMap
  OBVIOUS
<1>2. PICK slot, p, z, map : Grows(m, tb, rm, s, high, slot, p, z, map)
  BY DEF Grows
<1>3. PICK y, g : y = lof' /\ g = table'
  OBVIOUS
<1>4. /\ map.m.panics = {} /\ y = RegisterSpaceFrame(map.m, map.map, s, p)
      /\ g = [tb EXCEPT ![s] = slot.arr] /\ rangeMap' = map.map /\ held' = h
  BY <1>1, <1>2, <1>3, GrowParts
<1>5. Sound(m, h, tb, rm)
  BY <1>1 DEF IInv
<1>6. map = Extend(z, rm, FrameInx(p), FALSE)
  BY <1>2 DEF Grows
<1>7. z.panics = {}
  <2>1. Sticky(z, map.m)
    BY <1>6, StickyExtend
  <2>2. "panics" \in DOMAIN z
    <3>1. PICK q : q = AllocPages(slot.m, FramePages, p)
      OBVIOUS
    <3>2. Sticky(m, slot.m)
      <4>1. slot = AllocSlot(m, tb[s], FALSE)
        BY <1>2 DEF Grows
      <4> QED
        BY <4>1, StickySlot
    <3>3. Sticky(slot.m, q)
      BY <3>1, StickyPages
    <3>4. Sticky(q, z)
      BY <1>2, <3>1, StickyStore DEF Grows
    <3>5. "panics" \in DOMAIN m
      <4>1. m \in Allocator
        BY <1>5 DEF Sound, Good
      <4> QED
        BY <4>1 DEF Allocator
    <3> QED
      BY <3>2, <3>3, <3>4, <3>5 DEF Sticky
  <2> QED
    BY <1>4, <2>1, <2>2 DEF Sticky
<1>8. Slots(m, tb, s, high, slot, p, z, g)
  <2>1. s \in DOMAIN tb
    BY <1>1 DEF Running
  <2> QED
    BY <1>2, <1>4, <1>7, <2>1 DEF Slots, Grows
<1>9. Sound(y, h, g, map.map)
  BY <1>4, <1>5, <1>6, <1>8, GrowSound
<1> QED
  BY <1>1, <1>3, <1>4, <1>9 DEF IInv

(* Every step keeps the invariant.                                         *)
LEMMA StepSound == IInv /\ [Next]_vars => IInv'
<1> SUFFICES ASSUME IInv, [Next]_vars
             PROVE  IInv'
  OBVIOUS
<1>1. CASE \E s \in Space : SpaceInit(s)
  BY <1>1, SpaceInitStep
<1>2. CASE Running /\ ClientStep /\ UNCHANGED <<table, rangeMap>>
  <2>1. PICK k \in Client : Free(k) \/ \E w \in Sizes : Malloc(k, w) \/ Resize(k, w)
    BY <1>2 DEF ClientStep
  <2>2. CASE Free(k)
    BY <1>2, <2>2, FreeStep
  <2>3. CASE \E w \in Sizes : Malloc(k, w)
    BY <1>2, <2>3, MallocStep
  <2>4. CASE \E w \in Sizes : Resize(k, w)
    BY <1>2, <2>4, ResizeStep
  <2> QED
    BY <2>1, <2>2, <2>3, <2>4
<1>3. CASE Running /\ \E s \in Space, high \in BOOLEAN : GrowSpaceByDefault(s, high)
  BY <1>3, GrowStep
<1>4. CASE UNCHANGED vars
  BY <1>4 DEF vars, IInv
<1> QED
  BY <1>1, <1>2, <1>3, <1>4 DEF Next

(* The allocator, the arrays of the spaces, the range map and what clients *)
(* hold are in order in every state.                                       *)
THEOREM SpacesInvariant == Spec => []IInv
<1> QED
  BY InitSound, StepSound, PTL DEF Spec

-----------------------------------------------------------------------------
(* What follows from the invariant in every state.                         *)

(* The chunks in use are those that the invariant speaks of.               *)
LEMMA InUseUsed == InUse = Used(held, table, rangeMap)
  BY DEF InUse, Tables, Used, Ats, Ptrs

(* The fragments of a space are its frames.                                *)
LEMMA FragmentsFrames == \A s : Fragments(s) = FramesOf(lof, table, s)
  BY DEF Fragments, FramesOf

(* What a client wrote is in its chunk.                                    *)
LEMMA ContentKept == IInv => KeepsContent
<1> SUFFICES ASSUME IInv, NEW k \in DOMAIN held
             PROVE  Words(lof, held[k].at, held[k].size) = Content(k, 1, held[k].size)
  BY DEF KeepsContent
<1>1. PICK a, n : a = held[k].at /\ n = held[k].size
  OBVIOUS
<1>2. HeldIn(lof, held)
  BY DEF IInv, Sound
<1>3. k \in Client /\ n \in Nat /\ a \in Int /\ \A i \in 1..n : lof.mem[a + i - 1] = -(100 * k + i)
  BY <1>1, <1>2 DEF HeldIn, Holding
<1>4. k \in Nat
  BY <1>3, LofAssumption
<1>5. \A i \in 1..n : 100 * k + 1 + i - 1 = 100 * k + i
  BY <1>3, <1>4
<1>6. Content(k, 1, n) = [i \in 1..n |-> -(100 * k + i)]
  <2>1. n - 1 + 1 = n
    BY <1>3
  <2> QED
    BY <1>5, <2>1 DEF Content
<1>7. Words(lof, a, n) = [i \in 1..n |-> -(100 * k + i)]
  BY <1>3 DEF Words
<1> QED
  BY <1>1, <1>6, <1>7

(* The sizes found back are those of the rooms.                            *)
LEMMA SizesFound == IInv => SizeFoundBack
<1> SUFFICES ASSUME IInv
             PROVE  SizeFoundBack
  OBVIOUS
<1>1. ASSUME NEW k \in DOMAIN held
      PROVE  GetSizeAtPtr(lof, held[k].at) >= held[k].size
  <2>1. PICK n, g : n = held[k].size /\ g = GetSizeAtPtr(lof, held[k].at)
    OBVIOUS
  <2>2. HeldIn(lof, held)
    BY DEF IInv, Sound
  <2>3. n \in Nat /\ n <= g
    BY <2>1, <2>2 DEF HeldIn, Holding
  <2>4. g \in Nat
    <3>1. held[k].at \in Used(held, table, rangeMap)
      BY DEF Used, Ats
    <3>2. Good(lof, Used(held, table, rangeMap), AllFrames(lof, table))
      BY DEF IInv, Sound
    <3>3. held[k].at \in Given(lof)
      BY <3>1, <3>2 DEF Good
    <3> QED
      BY <2>1, <3>2, <3>3, RoomsApart
  <2> QED
    BY <2>1, <2>3, <2>4
<1>2. ASSUME NEW a \in InUse, NEW b \in InUse, a < b
      PROVE  a + GetSizeAtPtr(lof, a) <= b
  <2>1. PICK U, Fr : U = Used(held, table, rangeMap) /\ Fr = AllFrames(lof, table)
    OBVIOUS
  <2>2. Good(lof, U, Fr)
    BY <2>1 DEF IInv, Sound
  <2>3. a \in Given(lof) /\ b \in Given(lof)
    BY <2>1, <2>2, InUseUsed DEF Good
  <2> QED
    BY <1>2, <2>2, <2>3, RoomsApart
<1> QED
  BY <1>1, <1>2 DEF SizeFoundBack

(* The frames of two spaces differ.                                        *)
LEMMA SpacesApart ==
  ASSUME NEW m, NEW tb, NEW rm, Mapped(m, tb, rm), NEW s \in DOMAIN tb, NEW t \in DOMAIN tb, NEW f,
         f \in FramesOf(m, tb, s), f \in FramesOf(m, tb, t), f \in Nat
  PROVE  s = t
<1>1. f \in AllFrames(m, tb)
  BY DEF AllFrames
<1>2. PICK x : x = f \div FramePages
  OBVIOUS
<1>3. f % FramePages = 0 /\ In(rm, x)
  BY <1>1, <1>2 DEF Mapped
<1>4. x \in Nat /\ f = x * FramePages
  <2>1. FramePages \in Nat \ {0}
    BY FrameFacts
  <2>2. PICK r : r = f % FramePages
    OBVIOUS
  <2>3. x \in Nat /\ f = x * FramePages + r
    BY <1>2, <2>1, <2>2, DivMod
  <2>4. x * FramePages \in Nat
    BY <2>1, <2>3
  <2> QED
    BY <1>3, <2>2, <2>3, <2>4
<1>5. Leads(m, tb, rm, x)
  BY <1>3, <1>4 DEF Mapped
<1> QED
  BY <1>4, <1>5 DEF Leads

(* Blocks in order have no pages in common.                                *)
LEMMA BlocksApart ==
  ASSUME NEW m \in Allocator, NEW Fr, PagesInv(m, Fr)
  PROVE  /\ \A i, j \in Live(m) : i # j => Block(m, i) # Block(m, j)
         /\ \A i \in Live(m), f \in Fr : Block(m, i) # FrameBlock(f)
         /\ \A b, c \in m.blocks : b # c => (b.page..b.page + b.pages - 1) \cap (c.page..c.page + c.pages - 1) = {}
<1>1. \A i \in Live(m) : /\ PageAt(m, i) \in Nat \ {0} /\ NrOf(m, i) \in Nat \ {0}
                         /\ Block(m, i) = [page |-> PageAt(m, i), pages |-> NrOf(m, i)]
  BY FragFacts DEF Block
<1>2. \A f \in Fr : f \in Nat \ {0}
  BY DEF PagesInv
<1>3. FramePages \in Nat \ {0}
  BY FrameFacts
<1>4. PICK B : B = {Block(m, i) : i \in Live(m)} \cup {FrameBlock(f) : f \in Fr}
  OBVIOUS
<1>5. /\ \A i, j \in Live(m) : i # j => Apart(PageAt(m, i), NrOf(m, i), PageAt(m, j), NrOf(m, j))
      /\ \A i \in Live(m), f \in Fr : Apart(PageAt(m, i), NrOf(m, i), f, FramePages)
      /\ \A f, g \in Fr : f # g => Apart(f, FramePages, g, FramePages)
      /\ m.blocks = B
  BY <1>4 DEF PagesInv
<1>6. ASSUME NEW p \in Nat, NEW q \in Nat, NEW n \in Nat, NEW k \in Nat, n # 0, k # 0,
             Apart(p, n, q, k), NEW b, NEW c, b = [page |-> p, pages |-> n], c = [page |-> q, pages |-> k]
      PROVE  b # c /\ (b.page..b.page + b.pages - 1) \cap (c.page..c.page + c.pages - 1) = {}
  <2>1. b.page = p /\ b.pages = n /\ c.page = q /\ c.pages = k
    BY <1>6
  <2>2. p # q /\ (p..p + n - 1) \cap (q..q + k - 1) = {}
    BY <1>6 DEF Apart
  <2> QED
    BY <2>1, <2>2
<1>7. ASSUME NEW i \in Live(m), NEW j \in Live(m), i # j, NEW b, NEW c, b = Block(m, i), c = Block(m, j)
      PROVE  b # c /\ (b.page..b.page + b.pages - 1) \cap (c.page..c.page + c.pages - 1) = {}
  BY <1>1, <1>5, <1>6, <1>7
<1>8. ASSUME NEW i \in Live(m), NEW f \in Fr, NEW b, NEW c, b = Block(m, i), c = FrameBlock(f)
      PROVE  b # c /\ (b.page..b.page + b.pages - 1) \cap (c.page..c.page + c.pages - 1) = {}
  BY <1>1, <1>2, <1>3, <1>5, <1>6, <1>8 DEF FrameBlock
<1>9. ASSUME NEW f \in Fr, NEW g \in Fr, f # g, NEW b, NEW c, b = FrameBlock(f), c = FrameBlock(g)
      PROVE  b # c /\ (b.page..b.page + b.pages - 1) \cap (c.page..c.page + c.pages - 1) = {}
  BY <1>2, <1>3, <1>5, <1>6, <1>9 DEF FrameBlock
<1>10. ASSUME NEW b \in B, NEW c \in B, b # c
       PROVE  (b.page..b.page + b.pages - 1) \cap (c.page..c.page + c.pages - 1) = {}
  <2>1. CASE \E i, j \in Live(m) : b = Block(m, i) /\ c = Block(m, j)
    <3>1. PICK i \in Live(m), j \in Live(m) : b = Block(m, i) /\ c = Block(m, j)
      BY <2>1
    <3>2. i # j
      BY <1>10, <3>1
    <3> QED
      BY <1>7, <3>1, <3>2
  <2>2. CASE \E i \in Live(m), f \in Fr : b = Block(m, i) /\ c = FrameBlock(f)
    BY <1>8, <2>2
  <2>3. CASE \E i \in Live(m), f \in Fr : c = Block(m, i) /\ b = FrameBlock(f)
    <3>1. (c.page..c.page + c.pages - 1) \cap (b.page..b.page + b.pages - 1) = {}
      BY <1>8, <2>3
    <3> QED
      BY <3>1
  <2>4. CASE \E f, g \in Fr : b = FrameBlock(f) /\ c = FrameBlock(g)
    <3>1. PICK f \in Fr, g \in Fr : b = FrameBlock(f) /\ c = FrameBlock(g)
      BY <2>4
    <3>2. f # g
      BY <1>10, <3>1
    <3> QED
      BY <1>9, <3>1, <3>2
  <2> QED
    BY <1>4, <1>10, <2>1, <2>2, <2>3, <2>4
<1> QED
  BY <1>5, <1>7, <1>8, <1>10

\* The blocks of the frames of s
FrameBlocks(s) == {FrameBlock(f) : f \in Fragments(s)}

(* The blocks are those of fragments and frames.                           *)
LEMMA AllPagesAccounted == IInv => PagesAccounted
<1> SUFFICES ASSUME IInv
             PROVE  PagesAccounted
  OBVIOUS
<1>1. PICK Fr, L : Fr = AllFrames(lof, table) /\ L = Live(lof)
  OBVIOUS
<1>2. lof \in Allocator /\ PagesInv(lof, Fr) /\ Mapped(lof, table, rangeMap)
  BY <1>1 DEF IInv, Sound, Good
<1>3. L = { i \in DOMAIN lof.frags : lof.frags[i].page # 0 }
  <2>1. PICK fs : fs = lof.frags
    OBVIOUS
  <2>2. fs \in Seq([page : Nat, size : Nat])
    BY <1>2, <2>1 DEF Allocator
  <2>3. DOMAIN fs = 1..Len(fs)
    BY <2>2
  <2> QED
    BY <1>1, <2>1, <2>3 DEF Live
<1>4. UNION {FrameBlocks(s) : s \in DOMAIN table} = {FrameBlock(f) : f \in Fr}
  <2>1. Fr = UNION {Fragments(s) : s \in DOMAIN table}
    BY <1>1, FragmentsFrames DEF AllFrames
  <2>2. ASSUME NEW b
        PROVE  b \in UNION {FrameBlocks(s) : s \in DOMAIN table} <=> b \in {FrameBlock(f) : f \in Fr}
    BY <2>1 DEF FrameBlocks
  <2> QED
    BY <2>2
<1>5. lof.blocks = {Block(lof, i) : i \in L} \cup UNION {FrameBlocks(s) : s \in DOMAIN table}
  BY <1>1, <1>2, <1>4 DEF PagesInv
<1>6. \A i, j \in L : i # j => Block(lof, i) # Block(lof, j)
  BY <1>1, <1>2, BlocksApart
<1>7. ASSUME NEW s \in DOMAIN table, NEW t \in DOMAIN table, s # t
      PROVE  FrameBlocks(s) \cap FrameBlocks(t) = {}
  <2>1. SUFFICES ASSUME NEW f \in Fragments(s), NEW g \in Fragments(t), FrameBlock(f) = FrameBlock(g)
                 PROVE  FALSE
    BY DEF FrameBlocks
  <2>2. f = g
    BY <2>1 DEF FrameBlock
  <2>3. f \in FramesOf(lof, table, s) /\ f \in FramesOf(lof, table, t)
    BY <2>2, FragmentsFrames
  <2>4. f \in Nat
    BY <1>1, <1>2, <2>3 DEF AllFrames, PagesInv
  <2> QED
    BY <1>2, <1>7, <2>3, <2>4, SpacesApart
<1>8. ASSUME NEW i \in L, NEW s \in DOMAIN table
      PROVE  Block(lof, i) \notin FrameBlocks(s)
  <2>1. \A f \in Fragments(s) : f \in Fr
    BY <1>1, FragmentsFrames DEF AllFrames
  <2>2. \A f \in Fr : Block(lof, i) # FrameBlock(f)
    BY <1>1, <1>2, BlocksApart
  <2> QED
    BY <2>1, <2>2 DEF FrameBlocks
<1>9. \A b, c \in lof.blocks : b # c => (b.page..b.page + b.pages - 1) \cap (c.page..c.page + c.pages - 1) = {}
  BY <1>2, BlocksApart
<1>10. \A i : Block(lof, i) = [page |-> lof.frags[i].page, pages |-> PagesOf(lof.frags[i].size)]
  BY DEF Block, PageAt, NrOf
<1>11. \A s : FrameBlocks(s) = {[page |-> f, pages |-> FramePages] : f \in Fragments(s)}
  BY DEF FrameBlocks, FrameBlock
<1> DEFINE pages(b) == b.page..b.page + b.pages - 1
           live == { i \in DOMAIN lof.frags : lof.frags[i].page # 0 }
           frag(i) == [page |-> lof.frags[i].page, pages |-> PagesOf(lof.frags[i].size)]
           frame(f) == [page |-> f, pages |-> FramePages]
           Frames(s) == { frame(f) : f \in Fragments(s) }
<1>12. live = L /\ (\A i : frag(i) = Block(lof, i)) /\ \A s : Frames(s) = FrameBlocks(s)
  BY <1>3, <1>10, <1>11
<1>13. lof.blocks = { frag(i) : i \in live } \cup UNION { Frames(s) : s \in DOMAIN table }
  <2> HIDE DEF live, frag, Frames
  <2> QED
    BY <1>5, <1>12
<1>14. \A i, j \in live : i # j => frag(i) # frag(j)
  <2> HIDE DEF live, frag, Frames
  <2> QED
    BY <1>6, <1>12
<1>15. \A s, t \in DOMAIN table : s # t => Frames(s) \cap Frames(t) = {}
  <2> HIDE DEF live, frag, Frames
  <2> QED
    BY <1>7, <1>12
<1>16. \A i \in live, s \in DOMAIN table : frag(i) \notin Frames(s)
  <2> HIDE DEF live, frag, Frames
  <2> QED
    BY <1>8, <1>12
<1>17. \A b, c \in lof.blocks : b # c => pages(b) \cap pages(c) = {}
  BY <1>9
<1> QED
  BY <1>13, <1>14, <1>15, <1>16, <1>17 DEF PagesAccounted

-----------------------------------------------------------------------------
(* The range map, as it is consulted.                                      *)
LEMMA Consulted ==
  ASSUME NEW rm, MapIn(lof, rm), NEW x \in Nat, x < NrPages
  PROVE  InRange(rm, x) <=> In(rm, x)
<1>1. PICK f, n : f = rm.first /\ n = rm.size
  OBVIOUS
<1>2. f \in Nat /\ n \in Nat /\ f + n <= NrPages /\ NrPages \in Nat /\ InxMod \in Nat /\ NrPages < InxMod
  BY <1>1, Constants, SpacesAssumption DEF MapIn, MapRec
<1>3. CASE f <= x
  <2>1. x - f \in 0..InxMod - 1
    BY <1>2, <1>3
  <2>2. (x - f) % InxMod = x - f
    BY <1>2, <2>1
  <2> QED
    BY <1>1, <1>2, <1>3, <2>2 DEF InRange, In
<1>4. CASE ~ (f <= x)
  <2>1. (x - f) % InxMod = x - f + InxMod
    <3>1. x - f + InxMod \in 0..InxMod - 1
      BY <1>2, <1>4
    <3> QED
      BY <1>2, <3>1
  <2>2. ~ (x - f + InxMod < n)
    BY <1>2, <1>4
  <2> QED
    BY <1>1, <1>2, <1>4, <2>1, <2>2 DEF InRange, In
<1> QED
  BY <1>3, <1>4

\* The spaces with a frame that p is in
OwnersOf(p) == { s \in DOMAIN table : \E f \in Fragments(s) : p \in f..f + FramePages - 1 }

(* The map leads to the space whose frame an address is in.                *)
LEMMA MapLeads == IInv => MapExact
<1> SUFFICES ASSUME IInv, NEW p \in 0..NrPages - 1
             PROVE  IF OwnersOf(p) = {} THEN GetSpaceForAddress(p) = Null ELSE OwnersOf(p) = {GetSpaceForAddress(p)}
  BY DEF MapExact, OwnersOf
<1>1. PICK x, n : x = p \div FramePages /\ n = FramePages
  OBVIOUS
<1>2. n \in Nat \ {0} /\ NrPages \in Nat /\ p \in Nat /\ p < NrPages
  BY <1>1, FrameFacts, Constants
<1>3. PICK r : r = p % n
  OBVIOUS
<1>4. x \in Nat /\ p = x * n + r /\ r \in 0..n - 1
  BY <1>1, <1>2, <1>3, DivMod
<1>5. x < NrPages
  <2>1. x <= x * n
    BY <1>2, <1>4
  <2> QED
    BY <1>2, <1>4, <2>1
<1>6. FrameInx(p) = x
  <2>1. InxMod \in Nat /\ NrPages < InxMod
    BY SpacesAssumption
  <2>2. x % InxMod = x
    BY <1>2, <1>4, <1>5, <2>1
  <2> QED
    BY <1>1, <2>2 DEF FrameInx
<1>7. Mapped(lof, table, rangeMap) /\ TablesIn(lof, table) /\ PagesInv(lof, AllFrames(lof, table))
  BY DEF IInv, Sound, Good
<1>8. GetSpaceForAddress(p) = IF In(rangeMap, x) THEN Entry(lof, rangeMap, x) ELSE Null
  <2>1. MapIn(lof, rangeMap)
    BY <1>7 DEF Mapped
  <2> QED
    BY <1>4, <1>5, <1>6, <2>1, Consulted DEF GetSpaceForAddress, Entry
<1>9. ASSUME NEW f \in AllFrames(lof, table)
      PROVE  /\ f \in Nat /\ In(rangeMap, f \div n) /\ f \div n \in Nat
             /\ p \in f..f + n - 1 <=> f = x * n
             /\ f = x * n => f \div n = x
  <2>1. f \in Nat /\ f % n = 0 /\ In(rangeMap, f \div n)
    BY <1>1, <1>7 DEF Mapped, PagesInv
  <2>2. PICK y : y = f \div n
    OBVIOUS
  <2>3. y \in Nat /\ f = y * n + (f % n)
    BY <1>2, <2>1, <2>2, DivMod
  <2>4. f = y * n
    <3>1. y * n \in Nat
      BY <1>2, <2>3
    <3> QED
      BY <2>1, <2>3, <3>1
  <2>5. ASSUME p \in f..f + n - 1
        PROVE  f = x * n
    <3>1. PICK d : d = p - f
      OBVIOUS
    <3>2. d \in 0..n - 1 /\ p = y * n + d
      BY <1>2, <2>1, <2>4, <2>5, <3>1
    <3>3. p \div n = y
      BY <1>2, <2>3, <3>2, DivUnique
    <3> QED
      BY <1>1, <2>4, <3>3
  <2>6. ASSUME f = x * n
        PROVE  p \in f..f + n - 1
    BY <1>2, <1>4, <2>1, <2>6
  <2>7. ASSUME f = x * n
        PROVE  y = x
    <3>1. f = x * n + 0 /\ 0 \in 0..n - 1
      BY <1>2, <2>1, <2>7
    <3> QED
      BY <1>2, <1>4, <2>1, <2>2, <3>1, DivUnique
  <2> QED
    BY <2>1, <2>2, <2>3, <2>5, <2>6, <2>7
<1>10. \A s \in DOMAIN table : s \in OwnersOf(p) <=> x * n \in FramesOf(lof, table, s)
  <2>1. ASSUME NEW s \in DOMAIN table
        PROVE  s \in OwnersOf(p) <=> \E f \in FramesOf(lof, table, s) : p \in f..f + n - 1
    BY <1>1, FragmentsFrames DEF OwnersOf
  <2>2. \A s \in DOMAIN table : FramesOf(lof, table, s) \subseteq AllFrames(lof, table)
    BY DEF AllFrames
  <2> QED
    BY <1>9, <2>1, <2>2
<1>11. OwnersOf(p) \subseteq DOMAIN table /\ Null \notin DOMAIN table
  BY <1>7, SpacesAssumption DEF OwnersOf, TablesIn, Null
<1>12. CASE In(rangeMap, x)
  <2>1. PICK e : e = Entry(lof, rangeMap, x)
    OBVIOUS
  <2>2. e \in DOMAIN table \cup {Null} /\ \A s \in DOMAIN table : e = s <=> x * n \in FramesOf(lof, table, s)
    BY <1>1, <1>4, <1>7, <1>12, <2>1 DEF Mapped, Leads
  <2>3. \A s : s \in OwnersOf(p) <=> s \in DOMAIN table /\ s = e
    BY <1>10, <1>11, <2>2
  <2>4. GetSpaceForAddress(p) = e
    BY <1>8, <1>12, <2>1
  <2> QED
    BY <1>11, <2>2, <2>3, <2>4
<1>13. CASE ~ In(rangeMap, x)
  <2>1. \A s \in DOMAIN table : x * n \notin FramesOf(lof, table, s)
    BY <1>9, <1>13 DEF AllFrames
  <2> QED
    BY <1>8, <1>10, <1>11, <1>13, <2>1
<1> QED
  BY <1>12, <1>13

-----------------------------------------------------------------------------
(* Lists, as they are followed.                                            *)

\* What follows a, when f gives what follows its successor
Step(f) == [a \in Int |-> IF a \notin DOMAIN lof.mem \ {Null} THEN <<>> ELSE <<a>> \o f[lof.mem[a]]]

(* The recursion, which the definition of a recursive function chooses.    *)
LEMMA ChainFacts ==
  ASSUME lof.mem \in [Addr -> Int]
  PROVE  /\ Chain[0] = [a \in Int |-> <<>>]
         /\ \A n \in Nat : Chain[n + 1] = Step(Chain[n])
<1> DEFINE V == [Int -> Seq(Int)]
           step == [f \in V |-> Step(f)]
           none == [a \in Int |-> <<>>]
           body(g) == [n \in Nat |->
             [a \in Int |-> IF n = 0 \/ a \notin DOMAIN lof.mem \ {Null} THEN <<>>
                            ELSE <<a>> \o g[n - 1][lof.mem[a]]]]
<1>1. none \in V
  OBVIOUS
<1>2. step \in [V -> V]
  <2>1. ASSUME NEW f \in V
        PROVE  Step(f) \in V
    <3>1. ASSUME NEW a \in Int, a \in DOMAIN lof.mem
          PROVE  <<a>> \o f[lof.mem[a]] \in Seq(Int)
      <4>1. lof.mem[a] \in Int
        BY <3>1
      <4>2. f[lof.mem[a]] \in Seq(Int) /\ <<a>> \in Seq(Int)
        BY <4>1
      <4> QED
        BY <4>2
    <3> QED
      BY <3>1 DEF Step
  <2> QED
    BY <2>1
<1>3. PICK g \in [Nat -> V] : g[0] = none /\ \A n \in Nat : g[n + 1] = Step(g[n])
  <2>1. PICK f : Unending(f, V, step, none)
    <3> HIDE DEF step, V, none
    <3> QED
      BY <1>1, <1>2, SequenceExists
  <2>2. f \in [Nat -> V] /\ f[0] = none /\ \A n \in Nat : f[n + 1] = step[f[n]]
    BY <2>1 DEF Unending
  <2>3. \A n \in Nat : step[f[n]] = Step(f[n])
    BY <2>2
  <2> QED
    BY <2>2, <2>3
<1>4. g = body(g)
  <2>1. ASSUME NEW n \in Nat
        PROVE  g[n] = [a \in Int |-> IF n = 0 \/ a \notin DOMAIN lof.mem \ {Null} THEN <<>>
                                     ELSE <<a>> \o g[n - 1][lof.mem[a]]]
    <3>1. CASE n = 0
      BY <1>3, <3>1
    <3>2. CASE n # 0
      <4>1. PICK k : k = n - 1
        OBVIOUS
      <4>2. k \in Nat /\ k + 1 = n
        BY <3>2, <4>1
      <4>3. g[n] = Step(g[k])
        BY <1>3, <4>2
      <4> QED
        BY <3>2, <4>1, <4>3 DEF Step
    <3> QED
      BY <3>1, <3>2
  <2>2. g = [n \in Nat |-> g[n]]
    BY <1>3
  <2> QED
    BY <2>1, <2>2
<1>5. Chain = CHOOSE h : h = body(h)
  BY DEF Chain
<1>6. Chain = body(Chain)
  <2> HIDE DEF body
  <2> QED
    BY <1>4, <1>5
<1>7. Chain[0] = none
  BY <1>6
<1>8. ASSUME NEW n \in Nat
      PROVE  Chain[n + 1] = Step(Chain[n])
  <2>1. PICK k : k = n + 1
    OBVIOUS
  <2>2. k \in Nat /\ k # 0 /\ k - 1 = n
    BY <2>1
  <2>3. Chain[k] = [a \in Int |-> IF k = 0 \/ a \notin DOMAIN lof.mem \ {Null} THEN <<>>
                                  ELSE <<a>> \o Chain[k - 1][lof.mem[a]]]
    BY <1>6, <2>2
  <2> QED
    BY <2>1, <2>2, <2>3 DEF Step
<1> QED
  BY <1>7, <1>8

\* q has the last k of the n members of l
LastOf(q, l, n, k) == q \in Seq(Int) /\ Len(q) = k /\ \A i \in 1..k : q[i] = l[n - k + i - 1]

(* One member more.                                                        *)
LEMMA TailMore ==
  ASSUME NEW l, NEW n \in Nat, l \in [0..n -> Int], NEW k \in Nat, k + 1 <= n, NEW q, LastOf(q, l, n, k),
         NEW a, a = l[n - (k + 1)]
  PROVE  LastOf(<<a>> \o q, l, n, k + 1)
<1>1. a \in Int
  <2>1. n - (k + 1) \in 0..n
    OBVIOUS
  <2> QED
    BY <2>1
<1>2. q \in Seq(Int) /\ Len(q) = k /\ \A i \in 1..k : q[i] = l[n - k + i - 1]
  BY DEF LastOf
<1>3. PICK r : r = <<a>> \o q
  OBVIOUS
<1>4. r \in Seq(Int) /\ Len(r) = k + 1 /\ r[1] = a /\ \A i \in 1..k : r[i + 1] = q[i]
  <2>1. <<a>> \in Seq(Int) /\ Len(<<a>>) = 1 /\ <<a>>[1] = a
    BY <1>1
  <2> QED
    BY <1>2, <1>3, <2>1
<1>5. ASSUME NEW i \in 1..k + 1
      PROVE  r[i] = l[n - (k + 1) + i - 1]
  <2>1. CASE i = 1
    <3>1. n - (k + 1) + i - 1 = n - (k + 1)
      BY <2>1
    <3> QED
      BY <1>4, <2>1, <3>1
  <2>2. CASE i # 1
    <3>1. PICK j : j = i - 1
      OBVIOUS
    <3>2. j \in 1..k /\ j + 1 = i /\ n - (k + 1) + i - 1 = n - k + j - 1
      BY <2>2, <3>1
    <3> QED
      BY <1>2, <1>4, <3>2
  <2> QED
    BY <2>1, <2>2
<1> QED
  BY <1>3, <1>4, <1>5 DEF LastOf

(* A list in memory is what is found, if enough of it is followed.         *)
LEMMA ChainTail ==
  ASSUME lof.mem \in [Addr -> Int], NEW head, NEW S, S \subseteq Addr \ {Null},
         NEW n \in Nat, NEW l, Lists(l, n, lof.mem, head, S)
  PROVE  \A k \in Nat : k <= n => \A z \in Nat : k <= z => LastOf(Chain[z][l[n - k]], l, n, k)
<1>1. /\ l \in [0..n -> Int] /\ l[n] = Null
      /\ \A i \in 0..n - 1 : l[i] # Null /\ lof.mem[l[i]] = l[i + 1] /\ l[i] \in S
  BY DEF Lists
<1>2. Null \in Int
  BY DEF Null
<1> DEFINE T == {k \in Nat : k <= n => \A z \in Nat : k <= z => LastOf(Chain[z][l[n - k]], l, n, k)}
<1>3. 0 \in T
  <2>1. ASSUME NEW z \in Nat
        PROVE  Chain[z][Null] = <<>>
    <3>1. CASE z = 0
      BY <1>2, <3>1, ChainFacts
    <3>2. CASE z # 0
      <4>1. PICK y : y = z - 1
        OBVIOUS
      <4>2. y \in Nat /\ y + 1 = z
        BY <3>2, <4>1
      <4>3. Chain[z] = Step(Chain[y])
        BY <4>2, ChainFacts
      <4> QED
        BY <1>2, <4>3 DEF Step
    <3> QED
      BY <3>1, <3>2
  <2>2. LastOf(<<>>, l, n, 0)
    BY DEF LastOf
  <2>3. n - 0 = n
    OBVIOUS
  <2> QED
    BY <1>1, <2>1, <2>2, <2>3
<1>4. ASSUME NEW k \in T
      PROVE  k + 1 \in T
  <2>1. SUFFICES ASSUME k + 1 <= n, NEW z \in Nat, k + 1 <= z
                 PROVE  LastOf(Chain[z][l[n - (k + 1)]], l, n, k + 1)
    OBVIOUS
  <2>2. PICK y, a, b : y = z - 1 /\ a = l[n - (k + 1)] /\ b = l[n - k]
    OBVIOUS
  <2>3. y \in Nat /\ y + 1 = z /\ k <= y /\ k <= n
    BY <2>1, <2>2
  <2>4. LastOf(Chain[y][b], l, n, k)
    BY <2>2, <2>3
  <2>5. a \in S /\ a # Null /\ lof.mem[a] = b
    <3>1. n - (k + 1) \in 0..n - 1 /\ n - (k + 1) + 1 = n - k
      BY <2>1
    <3> QED
      BY <1>1, <2>2, <3>1
  <2>6. a \in Addr /\ a \in Int
    BY <2>5 DEF Addr
  <2>7. Chain[z] = Step(Chain[y])
    BY <2>3, ChainFacts
  <2>8. Chain[z][a] = <<a>> \o Chain[y][b]
    BY <2>5, <2>6, <2>7 DEF Step
  <2>9. LastOf(<<a>> \o Chain[y][b], l, n, k + 1)
    BY <1>1, <2>1, <2>2, <2>4, TailMore
  <2> QED
    BY <2>2, <2>8, <2>9
<1>5. Nat \subseteq T
  <2>1. T \subseteq Nat
    OBVIOUS
  <2> HIDE DEF T
  <2> QED
    BY <1>3, <1>4, <2>1, SetInduction
<1> QED
  BY <1>5

(* The addresses met are the members of the list, each once.               *)
LEMMA ListChain ==
  ASSUME lof.mem \in [Addr -> Int], NEW head, NEW S, S \subseteq Addr \ {Null}, IsList(lof.mem, head, S),
         NEW z \in Nat, Cardinality(S) <= z
  PROVE  /\ Range(Chain[z][head]) = S /\ Len(Chain[z][head]) = Cardinality(S)
         /\ S = {} => Chain[z][head] = <<>>
         /\ S = {} <=> head = Null
<1>1. PICK n \in Nat : \E l : Lists(l, n, lof.mem, head, S)
  BY DEF IsList
<1>2. PICK l : Lists(l, n, lof.mem, head, S)
  BY <1>1
<1>3. /\ l \in [0..n -> Int] /\ l[0] = head /\ l[n] = Null
      /\ \A i \in 0..n - 1 : l[i] # Null
      /\ S = {l[i] : i \in 0..n - 1}
      /\ \A i, j \in 0..n - 1 : l[i] = l[j] => i = j
  BY <1>2 DEF Lists
<1>4. Cardinality(S) = n
  <2> DEFINE f == [i \in 1..n |-> l[i - 1]]
  <2>1. \A i \in 1..n : i - 1 \in 0..n - 1 /\ f[i] = l[i - 1]
    OBVIOUS
  <2>2. f \in [1..n -> S]
    BY <1>3, <2>1
  <2>3. \A i, j \in 1..n : f[i] = f[j] => i = j
    <3>1. SUFFICES ASSUME NEW i \in 1..n, NEW j \in 1..n, f[i] = f[j]
                   PROVE  i = j
      OBVIOUS
    <3>2. i - 1 = j - 1
      BY <1>3, <2>1, <3>1
    <3> QED
      BY <3>2
  <2>4. \A a \in S : \E i \in 1..n : f[i] = a
    <3>1. ASSUME NEW k \in 0..n - 1
          PROVE  \E i \in 1..n : f[i] = l[k]
      <4>1. k + 1 \in 1..n /\ (k + 1) - 1 = k
        OBVIOUS
      <4> QED
        BY <2>1, <4>1
    <3> QED
      BY <1>3, <3>1
  <2>5. ExistsBijection(1..n, S)
    <3>1. f \in Bijection(1..n, S)
      <4> HIDE DEF f
      <4> QED
        BY <2>2, <2>3, <2>4 DEF Bijection, Injection, Surjection, IsInjective
    <3> QED
      BY <3>1 DEF ExistsBijection
  <2> QED
    BY <2>5, FS_CountingElements
<1>5. PICK q : q = Chain[z][head]
  OBVIOUS
<1>6. q \in Seq(Int) /\ Len(q) = n /\ \A i \in 1..n : q[i] = l[i - 1]
  <2>1. n - n = 0 /\ n <= z
    BY <1>4
  <2>2. LastOf(Chain[z][l[n - n]], l, n, n)
    <3>1. \A k \in Nat : k <= n => \A y \in Nat : k <= y => LastOf(Chain[y][l[n - k]], l, n, k)
      BY <1>2, ChainTail
    <3> QED
      BY <2>1, <3>1
  <2>4. LastOf(q, l, n, n)
    BY <1>3, <1>5, <2>1, <2>2
  <2>3. \A i \in 1..n : n - n + i - 1 = i - 1
    OBVIOUS
  <2> QED
    BY <2>3, <2>4 DEF LastOf
<1>7. Range(q) = S
  <2>1. Range(q) = {q[i] : i \in 1..n}
    <3>1. DOMAIN q = 1..n
      BY <1>6
    <3> QED
      BY <3>1 DEF Range
  <2>2. ASSUME NEW a
        PROVE  (\E i \in 1..n : a = q[i]) <=> \E k \in 0..n - 1 : a = l[k]
    <3>1. ASSUME NEW i \in 1..n, a = q[i]
          PROVE  \E k \in 0..n - 1 : a = l[k]
      <4>1. i - 1 \in 0..n - 1
        OBVIOUS
      <4> QED
        BY <1>6, <3>1, <4>1
    <3>2. ASSUME NEW k \in 0..n - 1, a = l[k]
          PROVE  \E i \in 1..n : a = q[i]
      <4>1. k + 1 \in 1..n /\ (k + 1) - 1 = k
        OBVIOUS
      <4> QED
        BY <1>6, <3>2, <4>1
    <3> QED
      BY <3>1, <3>2
  <2>3. ASSUME NEW a
        PROVE  a \in Range(q) <=> a \in S
    <3>1. a \in Range(q) <=> \E i \in 1..n : a = q[i]
      BY <2>1
    <3>2. a \in S <=> \E k \in 0..n - 1 : a = l[k]
      BY <1>3
    <3> QED
      BY <2>2, <3>1, <3>2
  <2> QED
    BY <2>3
<1>8. S = {} <=> n = 0
  <2>1. n # 0 => l[0] \in S
    <3>1. n # 0 => 0 \in 0..n - 1
      OBVIOUS
    <3> QED
      BY <1>3, <3>1
  <2>2. n = 0 => S = {}
    BY <1>3
  <2> QED
    BY <2>1, <2>2
<1>9. S = {} => q = <<>>
  BY <1>6, <1>8
<1>10. n = 0 <=> head = Null
  <2>1. n # 0 => 0 \in 0..n - 1
    OBVIOUS
  <2> QED
    BY <1>3, <2>1
<1> QED
  BY <1>4, <1>5, <1>6, <1>7, <1>8, <1>9, <1>10

-----------------------------------------------------------------------------
(* The chunks of a class.                                                  *)

(* A chunk in use is one of the class that its page tells of.              *)
LEMMA ToldClass ==
  ASSUME NEW m, NEW U, NEW Fr, Good(m, U, Fr), NEW c \in Classes
  PROVE  {a \in U : m.user[PageOfAddr(a)] = InClass(c)} = U \cap Chunks(m, c)
<1>1. ASSUME NEW a \in U, m.user[PageOfAddr(a)] = InClass(c)
      PROVE  a \in Chunks(m, c)
  <2>1. a \in Given(m)
    BY DEF Good
  <2>2. PICK i \in Live(m) \ {1} :
           \/ m.user[PageOfAddr(a)] = Direct(i)
           \/ \E d \in Classes : i \in Cuts(m, d) /\ a \in CutOf(m, d, i) /\ m.user[PageOfAddr(a)] = InClass(d)
    BY <2>1, Home
  <2>3. m.user[PageOfAddr(a)] # Direct(i)
    BY <1>1 DEF Direct, InClass
  <2>4. PICK d \in Classes : i \in Cuts(m, d) /\ a \in CutOf(m, d, i) /\ m.user[PageOfAddr(a)] = InClass(d)
    BY <2>2, <2>3
  <2>5. d = c
    BY <1>1, <2>4 DEF InClass
  <2> QED
    BY <2>4, <2>5 DEF Chunks
<1>2. ASSUME NEW a \in Chunks(m, c)
      PROVE  m.user[PageOfAddr(a)] = InClass(c)
  <2>1. PICK i \in Cuts(m, c) : a \in CutOf(m, c, i)
    BY DEF Chunks
  <2>2. m \in Allocator /\ PagesInv(m, Fr) /\ UserInv(m) /\ (Cuts(m, c) # {} => m.per[c].chunkSize = Rounded(c))
    BY DEF Good, ClassInv
  <2> QED
    BY <2>1, <2>2, ChunkHome
<1> QED
  BY <1>1, <1>2

(* The pages and the chunks of a class are so few that their lists are     *)
(* followed to the end.                                                    *)
LEMMA ClassLists ==
  ASSUME NEW U, NEW Fr, Good(lof, U, Fr), NEW c \in Classes
  PROVE  /\ Range(PagesOfClass(c)) = Firsts(lof, c)
         /\ lof.per[c].pages = Null <=> Cuts(lof, c) = {}
         /\ Range(Chain[NrPages * PageWords][lof.per[c].free]) = Chunks(lof, c) \ U
         /\ Len(Chain[NrPages * PageWords][lof.per[c].free]) = Cardinality(Chunks(lof, c) \ U)
         /\ Chunks(lof, c) \ U = {} => Chain[NrPages * PageWords][lof.per[c].free] = <<>>
<1>1. /\ lof \in Allocator /\ lof.mem \in [Addr -> Int] /\ PagesInv(lof, Fr) /\ UserInv(lof)
      /\ Cuts(lof, c) # {} => lof.per[c].chunkSize = Rounded(c)
      /\ IsList(lof.mem, lof.per[c].pages, Firsts(lof, c))
      /\ IsList(lof.mem, lof.per[c].free, Chunks(lof, c) \ U)
  BY DEF Good, ClassInv, Allocator
<1>2. NrPages \in Nat \ {0} /\ PageWords \in Nat \ {0} /\ NrPages * PageWords \in Nat
  BY Constants
<1>3. \A i \in Cuts(lof, c) : PageAt(lof, i) \in 1..NrPages - 1 /\ From(lof, i) \in Addr \ {Null}
  <2>1. ASSUME NEW i \in Cuts(lof, c)
        PROVE  PageAt(lof, i) \in 1..NrPages - 1 /\ From(lof, i) \in Addr \ {Null}
    <3>1. i \in Live(lof)
      BY DEF Cuts
    <3>2. /\ PageAt(lof, i) \in Nat \ {0} /\ PageAt(lof, i) \in 0..NrPages - 1
          /\ From(lof, i) \in Nat /\ UpTo(lof, i) \in Nat /\ From(lof, i) < UpTo(lof, i)
          /\ UpTo(lof, i) <= NrPages * PageWords /\ PageWords <= From(lof, i)
      BY <1>1, <3>1, FragFacts
    <3>3. From(lof, i) \in Addr
      BY <1>2, <3>2 DEF Addr
    <3>4. From(lof, i) # Null
      BY <1>2, <3>2 DEF Null
    <3> QED
      BY <1>2, <3>2, <3>3, <3>4
  <2> QED
    BY <2>1
<1>4. Firsts(lof, c) \subseteq Addr \ {Null} /\ Cardinality(Firsts(lof, c)) <= NrPages
  <2>1. PICK P : P = {p \in 1..NrPages - 1 : \E i \in Cuts(lof, c) : p = PageAt(lof, i)}
    OBVIOUS
  <2>2. Firsts(lof, c) = {p * PageWords : p \in P}
    BY <1>3, <2>1 DEF Firsts, From
  <2>3. IsFiniteSet(1..NrPages - 1) /\ Cardinality(1..NrPages - 1) = NrPages - 1
    BY <1>2, FS_Interval
  <2>4. IsFiniteSet(P) /\ Cardinality(P) <= NrPages - 1
    BY <2>1, <2>3, FS_Subset, ZenonT(60)
  <2>5. IsFiniteSet({p * PageWords : p \in P}) /\ Cardinality({p * PageWords : p \in P}) <= Cardinality(P)
    <3> DEFINE f == [p \in P |-> p * PageWords]
    <3>1. f \in Surjection(P, {p * PageWords : p \in P})
      BY DEF Surjection
    <3> QED
      BY <2>4, <3>1, FS_Surjection DEF ExistsSurjection
  <2>6. Cardinality(P) \in Nat /\ Cardinality({p * PageWords : p \in P}) \in Nat
    BY <2>4, <2>5, FS_CardinalityType
  <2>7. Firsts(lof, c) \subseteq Addr \ {Null}
    BY <1>3 DEF Firsts
  <2> QED
    BY <1>2, <2>2, <2>4, <2>5, <2>6, <2>7
<1>5. Chunks(lof, c) \ U \subseteq Addr \ {Null} /\ Cardinality(Chunks(lof, c) \ U) <= NrPages * PageWords
  <2>1. Chunks(lof, c) \subseteq Addr \ {Null}
    BY <1>1, ChunkHome DEF Chunks
  <2>2. PICK X : X = Chunks(lof, c) \ U
    OBVIOUS
  <2>3. IsFiniteSet(Addr) /\ Cardinality(Addr) = NrPages * PageWords
    <3>1. PICK z : z = NrPages * PageWords
      OBVIOUS
    <3>2. z \in Nat /\ 0 \in Int /\ z - 1 \in Int
      BY <1>2, <3>1
    <3>3. IsFiniteSet(0..z - 1) /\ Cardinality(0..z - 1) = z
      BY <3>2, FS_Interval
    <3> QED
      BY <3>1, <3>3 DEF Addr
  <2>4. X \in SUBSET Addr
    BY <2>1, <2>2
  <2>5. Cardinality(X) <= NrPages * PageWords
    BY <2>3, <2>4, FS_Subset
  <2> QED
    BY <2>1, <2>2, <2>5
<1>6. Range(PagesOfClass(c)) = Firsts(lof, c)
  BY <1>1, <1>2, <1>4, ListChain DEF PagesOfClass
<1>7. lof.per[c].pages = Null <=> Cuts(lof, c) = {}
  <2>1. Firsts(lof, c) = {} <=> lof.per[c].pages = Null
    BY <1>1, <1>2, <1>4, ListChain
  <2>2. Firsts(lof, c) = {} <=> Cuts(lof, c) = {}
    BY DEF Firsts
  <2> QED
    BY <2>1, <2>2
<1>8. Range(Chain[NrPages * PageWords][lof.per[c].free]) = Chunks(lof, c) \ U
  BY <1>1, <1>2, <1>5, ListChain
<1>9. Len(Chain[NrPages * PageWords][lof.per[c].free]) = Cardinality(Chunks(lof, c) \ U)
  BY <1>1, <1>2, <1>5, ListChain
<1>10. Chunks(lof, c) \ U = {} => Chain[NrPages * PageWords][lof.per[c].free] = <<>>
  BY <1>1, <1>2, <1>5, ListChain
<1> QED
  BY <1>6, <1>7, <1>8, <1>9, <1>10

(* Free or in use: the chunks of every class.                              *)
LEMMA AllChunksConserved == IInv => ChunksConserved
<1> SUFFICES ASSUME IInv
             PROVE  ChunksConserved
  OBVIOUS
<1>1. PICK U, Fr : U = Used(held, table, rangeMap) /\ Fr = AllFrames(lof, table)
  OBVIOUS
<1>2. Good(lof, U, Fr)
  BY <1>1 DEF IInv, Sound
<1>3. InUse = U
  BY <1>1, InUseUsed
<1>4. DOMAIN lof.per = Classes
  BY <1>2 DEF Good, Allocator
<1>5. ASSUME NEW c \in Classes, NEW free, free = Chain[NrPages * PageWords][lof.per[c].free],
             NEW used, used = {a \in InUse : lof.user[PageOfAddr(a)] = InClass(c)}
      PROVE  /\ Range(free) \cap used = {}
             /\ Len(free) = Cardinality(Range(free))
             /\ lof.per[c].pages # Null => Range(free) \cup used = ChunksOfClass(c)
             /\ lof.per[c].pages = Null => free = <<>> /\ used = {}
  <2>1. PICK X : X = Chunks(lof, c)
    OBVIOUS
  <2>2. used = U \cap X
    BY <1>2, <1>3, <1>5, <2>1, ToldClass
  <2>3. /\ Range(free) = X \ U /\ Len(free) = Cardinality(X \ U)
        /\ X \ U = {} => free = <<>>
    BY <1>2, <1>5, <2>1, ClassLists
  <2>4. lof.per[c].pages = Null <=> Cuts(lof, c) = {}
    BY <1>2, ClassLists
  <2>5. Cuts(lof, c) = {} => X = {}
    BY <2>1 DEF Chunks
  <2>6. ASSUME Cuts(lof, c) # {}
        PROVE  ChunksOfClass(c) = X
    <3>1. lof.per[c].chunkSize = Rounded(c)
      BY <1>2, <2>6 DEF Good, ClassInv
    <3>2. Range(PagesOfClass(c)) = Firsts(lof, c)
      BY <1>2, ClassLists
    <3>3. \A i \in Cuts(lof, c) : PageOfAddr(From(lof, i)) = PageAt(lof, i)
      <4>1. ASSUME NEW i \in Cuts(lof, c)
            PROVE  PageOfAddr(From(lof, i)) = PageAt(lof, i)
        <5>1. i \in Live(lof) /\ lof \in Allocator /\ PagesInv(lof, Fr)
          BY <1>2 DEF Cuts, Good
        <5>2. PICK p : p = PageAt(lof, i)
          OBVIOUS
        <5>3. p \in Nat
          BY <5>1, <5>2, FragFacts
        <5>4. PageWords \in Nat \ {0} /\ p * PageWords \in Nat
          BY <5>3, Constants
        <5>5. p * PageWords = p * PageWords + 0 /\ 0 \in 0..PageWords - 1
          BY <5>4
        <5>6. (p * PageWords) \div PageWords = p
          BY <5>3, <5>4, <5>5, DivUnique
        <5> QED
          BY <5>2, <5>6 DEF PageOfAddr, From
      <4> QED
        BY <4>1
    <3>4. ChunksOfClass(c) = UNION {ChunksOf(PageOfAddr(p), LogOf(c), Rounded(c)) : p \in Firsts(lof, c)}
      BY <3>1, <3>2 DEF ChunksOfClass, LogOf
    <3>5. ASSUME NEW a
          PROVE  a \in ChunksOfClass(c) <=> a \in X
      <4>1. a \in ChunksOfClass(c) <=> \E i \in Cuts(lof, c) : a \in ChunksOf(PageAt(lof, i), LogOf(c), Rounded(c))
        BY <3>3, <3>4 DEF Firsts
      <4> QED
        BY <2>1, <4>1 DEF Chunks, CutOf
    <3> QED
      BY <3>5
  <2>7. used \cup (X \ U) = X /\ (X \ U) \cap used = {}
    BY <2>2
  <2> QED
    BY <2>2, <2>3, <2>4, <2>5, <2>6, <2>7
<1> QED
  BY <1>4, <1>5 DEF ChunksConserved

-----------------------------------------------------------------------------
(* A chunk keeps what its holder wrote in it, whatever others allocate,    *)
(* free, resize or grow, and when it is moved to grow itself.              *)
THEOREM ContentIsKept == Spec => []KeepsContent
<1> QED
  BY SpacesInvariant, ContentKept, PTL

(* The size found back from the address of a chunk is enough for what its  *)
(* holder asked, and room of no other chunk.                               *)
THEOREM SizeIsFoundBack == Spec => []SizeFoundBack
<1> QED
  BY SpacesInvariant, SizesFound, PTL

(* Every chunk of a class is either in its free list or in use.            *)
THEOREM ChunksAreConserved == Spec => []ChunksConserved
<1> QED
  BY SpacesInvariant, AllChunksConserved, PTL

(* No block of pages is lost, and none is used by two.                     *)
THEOREM PagesAreAccounted == Spec => []PagesAccounted
<1> QED
  BY SpacesInvariant, AllPagesAccounted, PTL

(* The range map leads from an address to the space it lies in, and to     *)
(* none when it lies in no space.                                          *)
THEOREM MapIsExact == Spec => []MapExact
<1> QED
  BY SpacesInvariant, MapLeads, PTL
=============================================================================
