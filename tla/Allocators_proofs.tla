-------------------------- MODULE Allocators_proofs ---------------------------
(***************************************************************************)
(* What is proved of the two allocators that stand by themselves: the      *)
(* buddy system, below everything, and the bump allocator, on top of the   *)
(* spaces of the copying collector. They have no state and no step in      *)
(* common. The buddy system comes first, the bump allocator at the end.    *)
(*                                                                         *)
(* The buddy system hands out disjoint, aligned blocks of the size asked   *)
(* for, loses no page, asks for memory only when it must and then for      *)
(* enough, for every number of sizes, size of group, sequence of requests  *)
(* and place that malloc chooses.                                          *)
(*                                                                         *)
(* The invariant, BInv, says that there is a good set of blocks, and how   *)
(* far the search for a free block has come: behind level, recombination   *)
(* has left no two free blocks of one size that are each other's halves.   *)
(* An aligned run of free pages that no free block contains would be made  *)
(* of two halves, each inside a free block or made of two halves itself;   *)
(* so the smallest of them would be such a pair. That is why one pass,     *)
(* smallest first, is enough.                                              *)
(*                                                                         *)
(* The good set is also what relates the allocator to its promise: the     *)
(* blocks of the promise are those of the set that are in use. Each step   *)
(* of the code takes one of them, gives one back, or leaves them all       *)
(* alone.                                                                  *)
(***************************************************************************)
EXTENDS Buddy, Bump, TLAPS, Induction, SequenceTheorems

(***************************************************************************)
(* Part one: what it takes for a set of blocks to be what the descriptions *)
(* of the pages and the free lists of the buddy system stand for, and that *)
(* it stays so when a block is halved, cut off, returned, put together     *)
(* with its other half, or made of new pages.                              *)
(*                                                                         *)
(* The descriptions tell of blocks only in part: the size is with the      *)
(* first page, a page in the middle has a tag and no more, and the end of  *)
(* a block that was cut off shows in the tags behind its middle alone. So  *)
(* the proofs do not read blocks off the descriptions. They speak of a set *)
(* of blocks, Good(D, G, F, B), that the descriptions D show, that are     *)
(* disjoint, that cover the groups G, and the free ones of which are the   *)
(* lists F; each operation has such a set before and says what it is       *)
(* afterwards. Nothing in this part is about the steps themselves, so that *)
(* D, G and F are parameters.                                              *)
(***************************************************************************)

-----------------------------------------------------------------------------
(* Division, multiples and powers of two.                                  *)

(* What is aligned to a power is aligned to the smaller ones.              *)
LEMMA AlignedToSmaller ==
  ASSUME NEW k \in Nat, NEW j \in Nat, k <= j, NEW x \in Nat, x % Pow2[j] = 0
  PROVE  x % Pow2[k] = 0
<1>1. PICK a, b : a = Pow2[k] /\ b = Pow2[j]
  OBVIOUS
<1>2. a \in Nat \ {0} /\ b \in Nat \ {0} /\ b % a = 0 /\ x % b = 0
  BY <1>1, PowerFacts, PowerOrder
<1>3. PICK c \in Nat : b = c * a
  BY <1>2, Multiple
<1>4. PICK d \in Nat : x = d * b
  BY <1>2, Multiple
<1>5. x = (d * c) * a /\ d * c \in Nat
  BY <1>2, <1>3, <1>4
<1>6. x % a = 0
  BY <1>2, <1>5, Multiple
<1> QED
  BY <1>1, <1>6

(* The aligned block of size n around a page.                              *)
LEMMA RoundedDown ==
  ASSUME NEW x \in Nat, NEW n \in Nat \ {0}
  PROVE  /\ x - (x % n) \in 0 .. x /\ x < (x - (x % n)) + n
         /\ (x - (x % n)) % n = 0
<1>1. PICK d, m : d = x \div n /\ m = x % n
  OBVIOUS
<1>2. x = d * n + m /\ m \in 0 .. n - 1 /\ d \in Nat
  BY <1>1, DivMod
<1>3. d * n \in Nat /\ x - m = d * n
  BY <1>2
<1>4. PICK z : z = x - m
  OBVIOUS
<1>5. z \in Nat /\ z = d * n
  BY <1>3, <1>4
<1>6. z % n = 0
  BY <1>2, <1>5, Multiple
<1> QED
  BY <1>1, <1>2, <1>4, <1>5, <1>6

(* Two aligned blocks that overlap are nested, the smaller in the larger.  *)
LEMMA Nested ==
  ASSUME NEW k \in Nat, NEW j \in Nat, k <= j, NEW p \in Nat, NEW q \in Nat,
         p % Pow2[k] = 0, q % Pow2[j] = 0, p < q + Pow2[j], q < p + Pow2[k]
  PROVE  q <= p /\ p + Pow2[k] <= q + Pow2[j]
<1>1. PICK a, b : a = Pow2[k] /\ b = Pow2[j]
  OBVIOUS
<1>2. a \in Nat \ {0} /\ b \in Nat \ {0} /\ b % a = 0 /\ p % a = 0 /\ q % a = 0
  BY <1>1, PowerFacts, PowerOrder, AlignedToSmaller
<1>3. q + b \in Nat /\ (q + b) % a = 0
  <2>1. b \in Nat /\ a \in Nat \ {0}
    BY <1>2
  <2>2. (q + b) % a = 0
    BY <1>2, <2>1, SumMultiple, Zenon
  <2> QED
    BY <2>1, <2>2
<1>4. ~ (p < q)
  BY <1>1, <1>2, NextMultiple
<1>5. p + a <= q + b
  <2>1. PICK z : z = q + b
    OBVIOUS
  <2>2. p < z /\ z \in Nat /\ z % a = 0
    BY <1>1, <1>3, <2>1
  <2> QED
    BY <1>2, <2>1, <2>2, NextMultiple
<1> QED
  BY <1>1, <1>4, <1>5

(* An aligned block is one half of an aligned block of twice the size.     *)
LEMMA HalfOrOther ==
  ASSUME NEW k \in Nat, NEW p \in Nat, p % Pow2[k] = 0
  PROVE  /\ (p \div Pow2[k]) % 2 = 0 <=> p % Pow2[k + 1] = 0
         /\ p % Pow2[k + 1] # 0 => p >= Pow2[k] /\ (p - Pow2[k]) % Pow2[k + 1] = 0
         /\ p % Pow2[k + 1] = 0 => (p + Pow2[k]) % Pow2[k + 1] # 0 /\ (p + Pow2[k]) % Pow2[k] = 0
<1>1. PICK a, b : a = Pow2[k] /\ b = Pow2[k + 1]
  OBVIOUS
<1>2. a \in Nat \ {0} /\ b = 2 * a /\ p % a = 0 /\ b \in Nat \ {0}
  BY <1>1, PowerFacts
<1>3. PICK d \in Nat : p = d * a
  BY <1>2, Multiple
<1>4. p \div a = d
  <2>1. p = d * a + 0 /\ 0 \in 0 .. a - 1
    BY <1>2, <1>3
  <2> QED
    BY <1>2, <2>1, DivUnique
<1>5. PICK h, r : h = d \div 2 /\ r = d % 2
  OBVIOUS
<1>6. d = 2 * h + r /\ h \in Nat /\ r \in {0, 1}
  BY <1>5
<1>7. CASE r = 0
  <2>1. p = h * b /\ p + a = h * b + a /\ a \in 0 .. b - 1 /\ p + a \in Nat
    BY <1>2, <1>3, <1>6, <1>7
  <2>2. p % b = 0
    BY <1>2, <1>6, <2>1, Multiple
  <2>3. (p + a) % b = a
    <3>1. PICK z : z = p + a
      OBVIOUS
    <3>2. z % b = a
      BY <1>2, <1>6, <2>1, <3>1, DivUnique
    <3> QED
      BY <3>1, <3>2
  <2>4. (p + a) % a = 0
    <3>1. a % a = 0
      BY <1>2
    <3> QED
      BY <1>2, <3>1, SumMultiple
  <2> QED
    BY <1>1, <1>2, <1>4, <1>5, <1>7, <2>2, <2>3, <2>4
<1>8. CASE r = 1
  <2>1. p = h * b + a /\ a \in 0 .. b - 1 /\ h * b \in Nat
    BY <1>2, <1>3, <1>6, <1>8
  <2>2. p % b = a
    BY <1>2, <1>6, <2>1, DivUnique
  <2>3. p >= a /\ (p - a) % b = 0
    <3>1. PICK z : z = p - a
      OBVIOUS
    <3>2. z \in Nat /\ z = h * b
      BY <1>2, <2>1, <3>1
    <3>3. z % b = 0
      BY <1>2, <1>6, <3>2, Multiple
    <3> QED
      BY <1>2, <2>1, <3>1, <3>3
  <2> QED
    BY <1>1, <1>2, <1>4, <1>5, <1>8, <2>2, <2>3
<1> QED
  BY <1>6, <1>7, <1>8

-----------------------------------------------------------------------------
(* The blocks of which InitPages makes a run of pages.                     *)

\* The page q is in the block of size 2^k at p.
Within(q, p, k) == p <= q /\ q < p + Pow2[k]

(* What a block of BlocksOf is.                                            *)
LEMMA BlocksFacts ==
  ASSUME NEW from \in Nat, NEW to \in Nat, NEW b \in BlocksOf(from, to)
  PROVE  /\ b.page \in Nat /\ b.log \in Nat /\ b = [page |-> b.page, log |-> b.log]
         /\ Fits(b.page, b.log, from, to) /\ b.page % Pow2[b.log] = 0
         /\ from <= b.page /\ b.page + Pow2[b.log] <= to
BY DEF BlocksOf, Fits

(* The pairs that are in BlocksOf.                                         *)
LEMMA BlocksIntro ==
  ASSUME NEW from \in Nat, NEW to \in Nat, NEW p \in Nat, NEW k \in Nat, Fits(p, k, from, to),
         ~ Fits(p - (p % Pow2[k + 1]), k + 1, from, to)
  PROVE  [page |-> p, log |-> k] \in BlocksOf(from, to)
<1>1. PICK a : a = Pow2[k]
  OBVIOUS
<1>2. a \in Nat \ {0} /\ k < a /\ from <= p /\ p + a <= to
  BY <1>1, PowerFacts, PowerOrder DEF Fits
<1>3. p \in from .. to - 1 /\ k \in 0 .. to
  BY <1>2
<1> QED
  BY <1>3 DEF BlocksOf

(* The aligned block of twice the size around an aligned block.            *)
LEMMA DoubleAround ==
  ASSUME NEW p \in Nat, NEW k \in Nat, p % Pow2[k] = 0
  PROVE  LET d == p - (p % Pow2[k + 1])
         IN  d \in Nat /\ d % Pow2[k + 1] = 0 /\ d <= p /\ p + Pow2[k] <= d + Pow2[k + 1]
<1>1. PICK b : b = Pow2[k + 1]
  OBVIOUS
<1>2. PICK d : d = p - (p % b)
  OBVIOUS
<1>3. b \in Nat \ {0} /\ k <= k + 1 /\ k + 1 \in Nat
  BY <1>1, PowerFacts
<1>4. d \in 0 .. p /\ p < d + b /\ d % b = 0
  BY <1>2, <1>3, RoundedDown
<1>5. d \in Nat /\ d <= p /\ d < p + Pow2[k]
  BY <1>4, PowerFacts
<1>6. p + Pow2[k] <= d + b
  BY <1>1, <1>3, <1>4, <1>5, Nested
<1> QED
  BY <1>1, <1>2, <1>4, <1>5, <1>6

(* An aligned block that fits is inside a block of BlocksOf, which is at   *)
(* least as large.                                                         *)
LEMMA BlocksCover ==
  ASSUME NEW from \in Nat, NEW to \in Nat, NEW p \in Nat, NEW k \in Nat, Fits(p, k, from, to),
         NEW q \in Nat, Within(q, p, k)
  PROVE  \E b \in BlocksOf(from, to) : Within(q, b.page, b.log) /\ k <= b.log
<1> DEFINE S == {l \in Nat : \E s \in Nat : Fits(s, l, from, to) /\ Within(q, s, l)}
           T == {n \in Nat : n <= to /\ to - n \in S /\ k <= to - n}
<1>1. \A l \in S : l < to
  <2>1. ASSUME NEW l \in Nat, NEW s \in Nat, s + Pow2[l] <= to PROVE l < to
    BY <2>1, PowerFacts, PowerOrder
  <2> QED
    BY <2>1 DEF Fits
<1>2. to - k \in T
  <2>1. k \in S
    OBVIOUS
  <2>2. k < to /\ to - k \in Nat /\ to - (to - k) = k
    BY <1>1, <2>1
  <2> QED
    BY <2>1, <2>2
<1>3. PICK n \in T : \A m \in T : n <= m
  <2>1. T \subseteq Nat
    OBVIOUS
  <2> HIDE DEF T
  <2> QED
    BY <1>2, <2>1, LeastNatural
<1>4. PICK l \in Nat : l = to - n
  BY <1>3
<1>5. l \in S /\ k <= l /\ l < to /\ n = to - l
  BY <1>1, <1>3, <1>4
<1>6. PICK s \in Nat : Fits(s, l, from, to) /\ Within(q, s, l)
  BY <1>5
<1>7. ~ Fits(s - (s % Pow2[l + 1]), l + 1, from, to)
  <2> SUFFICES ASSUME Fits(s - (s % Pow2[l + 1]), l + 1, from, to) PROVE FALSE
    OBVIOUS
  <2>1. PICK d \in Nat : /\ d = s - (s % Pow2[l + 1])
                         /\ d <= s /\ s + Pow2[l] <= d + Pow2[l + 1]
    BY <1>6, DoubleAround DEF Fits
  <2>2. Within(q, d, l + 1)
    BY <1>6, <2>1, PowerFacts DEF Within
  <2>3. l + 1 \in S
    BY <2>1, <2>2
  <2>4. l + 1 < to /\ to - (l + 1) \in Nat /\ to - (to - (l + 1)) = l + 1
    BY <1>1, <2>3
  <2>5. to - (l + 1) \in T
    BY <1>5, <2>3, <2>4
  <2> QED
    BY <1>3, <1>5, <2>5
<1>8. [page |-> s, log |-> l] \in BlocksOf(from, to)
  BY <1>6, <1>7, BlocksIntro
<1>9. PICK b : b = [page |-> s, log |-> l]
  OBVIOUS
<1> QED
  BY <1>5, <1>6, <1>8

(* Every page is in one.                                                   *)
LEMMA BlocksCoverPage ==
  ASSUME NEW from \in Nat, NEW to \in Nat, NEW q \in from .. to - 1
  PROVE  \E b \in BlocksOf(from, to) : Within(q, b.page, b.log)
<1>1. Pow2[0] = 1 /\ q \in Nat
  BY PowerFacts
<1>2. Fits(q, 0, from, to) /\ Within(q, q, 0)
  BY <1>1 DEF Fits, Within
<1> QED
  BY <1>1, <1>2, BlocksCover

(* No page is in two of them.                                              *)
LEMMA BlocksDisjoint ==
  ASSUME NEW from \in Nat, NEW to \in Nat, NEW b \in BlocksOf(from, to), NEW c \in BlocksOf(from, to),
         NEW q \in Nat, Within(q, b.page, b.log), Within(q, c.page, c.log)
  PROVE  b = c
<1>1. ASSUME NEW d \in BlocksOf(from, to), NEW e \in BlocksOf(from, to),
             Within(q, d.page, d.log), Within(q, e.page, e.log), d.log < e.log
      PROVE  FALSE
  <2>1. PICK p, k, s, j : p = d.page /\ k = d.log /\ s = e.page /\ j = e.log
    OBVIOUS
  <2>2. /\ p \in Nat /\ k \in Nat /\ s \in Nat /\ j \in Nat
        /\ p % Pow2[k] = 0 /\ s % Pow2[j] = 0 /\ Fits(s, j, from, to)
    BY <2>1, BlocksFacts
  <2>3. ~ Fits(p - (p % Pow2[k + 1]), k + 1, from, to)
    BY <2>1 DEF BlocksOf
  <2>4. PICK h \in Nat : /\ h = p - (p % Pow2[k + 1]) /\ h % Pow2[k + 1] = 0
                         /\ h <= p /\ p + Pow2[k] <= h + Pow2[k + 1]
    BY <2>2, DoubleAround
  <2>5. Within(q, p, k) /\ Within(q, s, j) /\ k < j
    BY <1>1, <2>1
  <2>6. k + 1 \in Nat /\ k + 1 <= j
    BY <2>2, <2>5
  <2>7. PICK a, x, y : a = Pow2[k] /\ x = Pow2[k + 1] /\ y = Pow2[j]
    OBVIOUS
  <2>8. a \in Nat \ {0} /\ x \in Nat \ {0} /\ y \in Nat \ {0}
    BY <2>2, <2>6, <2>7, PowerFacts
  <2>9. p <= q /\ q < p + a /\ s <= q /\ q < s + y /\ h <= p /\ p + a <= h + x
    BY <2>4, <2>5, <2>7 DEF Within
  <2>10. h < s + y /\ s < h + x
    BY <2>2, <2>8, <2>9
  <2>11. s <= h /\ h + x <= s + y
    BY <2>2, <2>4, <2>6, <2>7, <2>10, Nested
  <2>12. Fits(h, k + 1, from, to)
    BY <2>2, <2>4, <2>7, <2>8, <2>11 DEF Fits
  <2> QED
    BY <2>3, <2>4, <2>12
<1>2. PICK p, k, s : p = b.page /\ k = b.log /\ s = c.page
  OBVIOUS
<1>3. k \in Nat /\ c.log \in Nat /\ k = c.log
  <2>1. b.log \in Nat /\ c.log \in Nat
    BY BlocksFacts
  <2> QED
    BY <1>1, <1>2, <2>1
<1>4. /\ p \in Nat /\ s \in Nat /\ p % Pow2[k] = 0 /\ s % Pow2[k] = 0
      /\ b = [page |-> p, log |-> k] /\ c = [page |-> s, log |-> k]
  <2>1. /\ b.page \in Nat /\ b.page % Pow2[b.log] = 0 /\ b = [page |-> b.page, log |-> b.log]
        /\ c.page \in Nat /\ c.page % Pow2[c.log] = 0 /\ c = [page |-> c.page, log |-> c.log]
    BY BlocksFacts
  <2> QED
    BY <1>2, <1>3, <2>1, Zenon
<1>5. p < s + Pow2[k] /\ s < p + Pow2[k]
  BY <1>2, <1>3, <1>4, PowerFacts DEF Within
<1>6. s <= p /\ p <= s
  BY <1>3, <1>4, <1>5, Nested
<1> QED
  BY <1>4, <1>6

(* Their sizes.                                                            *)
LEMMA BlocksSize ==
  ASSUME NEW from \in Nat, NEW to \in Nat, NEW b \in BlocksOf(from, to), NEW k \in Nat,
         to <= from + Pow2[k]
  PROVE  b.log <= k
<1>1. b.log \in Nat /\ from <= b.page /\ b.page + Pow2[b.log] <= to /\ b.page \in Nat
  BY BlocksFacts
<1>2. Pow2[b.log] <= Pow2[k]
  BY <1>1, PowerFacts
<1>3. k < b.log => 2 * Pow2[k] <= Pow2[b.log]
  BY <1>1, PowerOrder
<1> QED
  BY <1>1, <1>2, <1>3, PowerFacts

(* Twice as much memory holds an aligned block, wherever it is.            *)
LEMMA RoomForBlock ==
  ASSUME NEW from \in Nat, NEW to \in Nat, NEW k \in Nat, from + 2 * Pow2[k] <= to + 1
  PROVE  \E p \in Nat : Fits(p, k, from, to)
<1>1. PICK a : a = Pow2[k]
  OBVIOUS
<1>2. a \in Nat \ {0}
  BY <1>1, PowerFacts
<1>3. PICK d : d = from - (from % a)
  OBVIOUS
<1>4. d \in Nat /\ d <= from /\ from < d + a /\ d % a = 0
  <2>1. d \in 0 .. from /\ from < d + a /\ d % a = 0
    BY <1>2, <1>3, RoundedDown, Zenon
  <2> QED
    BY <2>1
<1>5. CASE d = from
  BY <1>1, <1>2, <1>4, <1>5 DEF Fits
<1>6. CASE d # from
  <2>1. PICK e : e = d + a
    OBVIOUS
  <2>2. e \in Nat /\ from <= e /\ e + a <= to
    BY <1>1, <1>2, <1>4, <1>6, <2>1
  <2>3. e % a = 0
    <3>1. a % a = 0 /\ a \in Nat
      BY <1>2
    <3>2. (d + a) % a = 0
      BY <1>2, <1>4, <3>1, SumMultiple, Zenon
    <3> QED
      BY <2>1, <3>2
  <2> QED
    BY <1>1, <2>2, <2>3 DEF Fits
<1> QED
  BY <1>5, <1>6

-----------------------------------------------------------------------------
(* Good sets of blocks, and the invariant.                                 *)

\* A block has a first page, a size that its description tells (2^log), the
\* number of its pages, and the group it lies in.  A free block is as large
\* as its size; one in use may be cut off somewhere behind its middle.
Group == [firstPage : Nat, afterLastPage : 0 .. AfterAll]
Block(G) == [page : Nat, log : Logs, pages : Nat \ {0}, free : BOOLEAN, group : DOMAIN G]

In(q, b) == b.page <= q /\ q < b.page + b.pages

Whole(b) == b.pages = Pow2[b.log]
Part(b)  == ~ b.free /\ b.log > 0 /\ Pow2[b.log - 1] < b.pages /\ b.pages < Pow2[b.log]

\* It is aligned, and inside its group.
WellPlaced(b, G) ==
  /\ b \in Block(G)
  /\ b.page % Pow2[b.log] = 0
  /\ Whole(b) \/ Part(b)
  /\ G[b.group].firstPage <= b.page /\ b.page + b.pages <= G[b.group].afterLastPage

\* What the descriptions D tell of it, page by page
TagAt(b, q) ==
  IF q = b.page THEN (IF b.free THEN "Free" ELSE "Alloced")
  ELSE IF ~ Whole(b) /\ q >= b.page + Pow2[b.log - 1] THEN "PartOfAlloced" ELSE "PartOf"

Shown(D, b) ==
  /\ \A q \in Nat : In(q, b) => q \in DOMAIN D /\ D[q].tag = TagAt(b, q) /\ D[q].groupId = b.group
  /\ D[b.page].sizeLog = b.log
  /\ ~ Whole(b) => D[b.page].sizePages = b.pages

\* Every page of a group is in exactly one block.
Disjoint(B) == \A b, c \in B : \A q \in Nat : In(q, b) /\ In(q, c) => b = c
Covers(B, G) == \A i \in DOMAIN G : \A q \in GroupPages(G[i]) : \E b \in B : In(q, b)

\* The pages between the groups
Gaps(D, G) == \A q \in DOMAIN D : (\A i \in DOMAIN G : q \notin GroupPages(G[i])) => D[q].tag = "Unusable"

\* The free lists are those of the free blocks.
FreeAt(B, k) == {b.page : b \in {c \in B : c.free /\ c.log = k}}
Lists(F, B) == F \in [Logs -> SUBSET Nat] /\ \A k \in Logs : F[k] = FreeAt(B, k)

GroupsInOrder(G) ==
  /\ G \in Seq(Group)
  /\ \A i, j \in DOMAIN G : i # j => Apart(G[i], G[j])
  /\ \A i \in DOMAIN G : ~ TooLarge(G[i])

\* B is what the descriptions D and the lists F stand for in the groups G.
Good(D, G, F, B) ==
  /\ DOMAIN D \subseteq Nat /\ D \in [DOMAIN D -> ExtlData]
  /\ GroupsInOrder(G)
  /\ \A b \in B : WellPlaced(b, G) /\ Shown(D, b)
  /\ Disjoint(B) /\ Covers(B, G)
  /\ Gaps(D, G)
  /\ Lists(F, B)

\* Below size n no two free blocks are each other's halves.
NoPairs(B, n) ==
  \A b, c \in B : b.free /\ c.free /\ b.log = c.log /\ b.log < n /\ b.group = c.group
                    => c.page # OtherHalfOfPage(b.page, b.log)

\* The descriptions by page, rather than by index in their array
Indexed(X) == \E n \in Nat : DOMAIN X = 0 .. n - 1
View(X, base) == [p \in base .. (base + Cardinality(DOMAIN X)) - 1 |-> X[p - base]]
Desc == View(extl, firstPage)

\* The size asked for is the least power of two that holds the pages.
WantInOrder ==
  /\ want \in [log : Logs, pages : Nat]
  /\ want.pages # 0 => /\ want.pages <= Pow2[want.log]
                       /\ want.log > 0 => Pow2[want.log - 1] < want.pages

Types ==
  /\ Indexed(extl)
  /\ firstPage \in Nat
  /\ nextGroupNrPages \in Nat
  /\ pc \in {"idle", "find", "recombine", "retry", "grow", "grown", "too large"}
  /\ level \in Logs

\* What the search has established of the free blocks
Searched(B) ==
  /\ IF pc = "recombine" THEN NoPairs(B, level) ELSE level = 0
  /\ pc \in {"retry", "grow"} => NoPairs(B, MaxLog + 1)
  /\ pc = "grow" => NonEmpty = {}
  /\ pc = "grown" => NonEmpty # {}

\* The invariant
BInv == Types /\ WantInOrder /\ \E B : Good(Desc, groups, freePages, B) /\ Searched(B)

-----------------------------------------------------------------------------
(* What keeps a set of blocks good when some of them are replaced.         *)

(* The constants as the assumption has them.                               *)
LEMMA ConstantFacts ==
  /\ MaxLog \in Nat /\ AfterAll \in Nat /\ InitialPages \in Nat \ {0} /\ PerPage \in Nat \ {0}
  /\ MallocAt \subseteq Nat \ {0}
  /\ Requests \subseteq Nat \ {0} /\ \A n \in Requests : n <= Pow2[MaxLog]
  /\ Logs \subseteq Nat /\ 0 \in Logs /\ MaxLog \in Logs /\ \A k \in Logs : k <= MaxLog
BY BuddyAssumption, PowerFacts DEF Logs

(* What it is to be well placed.                                           *)
LEMMA BlockFacts ==
  ASSUME NEW G, NEW b, WellPlaced(b, G)
  PROVE  /\ b.page \in Nat /\ b.log \in Logs /\ b.log \in Nat /\ b.pages \in Nat \ {0}
         /\ b.free \in BOOLEAN /\ b.group \in DOMAIN G
         /\ In(b.page, b) /\ b.pages <= Pow2[b.log] /\ (b.free => b.pages = Pow2[b.log])
         /\ b.page % Pow2[b.log] = 0
<1>1. /\ b.page \in Nat /\ b.log \in Logs /\ b.pages \in Nat \ {0}
      /\ b.free \in BOOLEAN /\ b.group \in DOMAIN G
  BY DEF WellPlaced, Block
<1>2. b.log \in Nat
  BY <1>1, ConstantFacts
<1>3. In(b.page, b)
  BY <1>1 DEF In
<1>4. b.pages <= Pow2[b.log] /\ (b.free => b.pages = Pow2[b.log])
  <2>1. Whole(b) \/ Part(b)
    BY DEF WellPlaced
  <2> QED
    BY <1>1, <1>2, <2>1, PowerFacts DEF Whole, Part
<1> QED
  BY <1>1, <1>2, <1>3, <1>4 DEF WellPlaced

(* A block is known by any page of it, its first one to begin with.        *)
LEMMA SamePage ==
  ASSUME NEW G, NEW B, \A b \in B : WellPlaced(b, G), Disjoint(B),
         NEW b \in B, NEW c \in B, b.page = c.page
  PROVE  b = c
BY BlockFacts DEF Disjoint

\* The blocks C take the place of the blocks R, and everything else stays.
Replaces(D, G, F, E, H, R, C) ==
  /\ \A c \in C : WellPlaced(c, G) /\ Shown(E, c)
  /\ Disjoint(C)
  /\ \A q \in Nat : (\E r \in R : In(q, r)) <=> (\E c \in C : In(q, c))
  /\ DOMAIN E = DOMAIN D /\ E \in [DOMAIN D -> ExtlData]
  /\ \A q \in DOMAIN D : (\A r \in R : ~ In(q, r)) => E[q] = D[q]
  /\ H \in [Logs -> SUBSET Nat]
  /\ \A k \in Logs : H[k] = (F[k] \ FreeAt(R, k)) \cup FreeAt(C, k)

(* Then the blocks are described as before.                                *)
LEMMA Replaced ==
  ASSUME NEW D, NEW G, NEW F, NEW B, Good(D, G, F, B),
         NEW E, NEW H, NEW R, R \subseteq B, NEW C, Replaces(D, G, F, E, H, R, C)
  PROVE  Good(E, G, H, (B \ R) \cup C)
<1>0. /\ \A c \in C : WellPlaced(c, G) /\ Shown(E, c)
      /\ Disjoint(C)
      /\ \A q \in Nat : (\E r \in R : In(q, r)) <=> (\E c \in C : In(q, c))
      /\ DOMAIN E = DOMAIN D /\ E \in [DOMAIN D -> ExtlData]
      /\ \A q \in DOMAIN D : (\A r \in R : ~ In(q, r)) => E[q] = D[q]
      /\ H \in [Logs -> SUBSET Nat]
      /\ \A k \in Logs : H[k] = (F[k] \ FreeAt(R, k)) \cup FreeAt(C, k)
  BY DEF Replaces
<1> DEFINE A == (B \ R) \cup C
<1>1. \A b \in B : WellPlaced(b, G) /\ Shown(D, b) /\ b.page \in Nat /\ In(b.page, b)
  BY BlockFacts DEF Good
<1>2. Disjoint(B) /\ Covers(B, G) /\ Gaps(D, G) /\ Lists(F, B) /\ GroupsInOrder(G) /\ DOMAIN D \subseteq Nat
  BY DEF Good
<1>3. ASSUME NEW b \in B \ R, NEW q \in Nat, In(q, b)
      PROVE  (\A r \in R : ~ In(q, r)) /\ (\A c \in C : ~ In(q, c))
  <2>1. \A r \in R : ~ In(q, r)
    BY <1>2, <1>3 DEF Disjoint
  <2> QED
    BY <1>0, <2>1
<1>4. ASSUME NEW b \in B \ R PROVE Shown(E, b)
  <2>1. Shown(D, b) /\ b.page \in Nat /\ In(b.page, b)
    BY <1>1
  <2>2. ASSUME NEW q \in Nat, In(q, b) PROVE q \in DOMAIN D /\ E[q] = D[q]
    BY <1>0, <1>3, <2>1, <2>2 DEF Shown
  <2> QED
    BY <1>0, <2>1, <2>2 DEF Shown
<1>5. \A b \in A : WellPlaced(b, G) /\ Shown(E, b)
  BY <1>0, <1>1, <1>4
<1>6. Disjoint(A)
  <2>1. ASSUME NEW b \in A, NEW c \in A, NEW q \in Nat, In(q, b), In(q, c) PROVE b = c
    <3>1. CASE b \in B \ R /\ c \in B \ R
      BY <1>2, <2>1, <3>1 DEF Disjoint
    <3>2. CASE b \in C /\ c \in C
      BY <1>0, <2>1, <3>2 DEF Disjoint
    <3> QED
      BY <1>3, <2>1, <3>1, <3>2
  <2> QED
    BY <2>1 DEF Disjoint
<1>7. Covers(A, G)
  <2>1. ASSUME NEW i \in DOMAIN G, NEW q \in GroupPages(G[i]) PROVE \E b \in A : In(q, b)
    <3>1. PICK b \in B : In(q, b)
      BY <1>2 DEF Covers
    <3>2. q \in Nat
      <4>1. G[i] \in Group
        BY <1>2 DEF GroupsInOrder
      <4> QED
        BY <4>1 DEF GroupPages, Group
    <3> QED
      BY <1>0, <3>1, <3>2
  <2> QED
    BY <2>1 DEF Covers
<1>8. Gaps(E, G)
  <2>1. ASSUME NEW q \in DOMAIN D, \A i \in DOMAIN G : q \notin GroupPages(G[i])
        PROVE  \A r \in R : ~ In(q, r)
    <3> SUFFICES ASSUME NEW r \in R, In(q, r) PROVE FALSE
      OBVIOUS
    <3>1. WellPlaced(r, G)
      BY <1>1
    <3>2. r.group \in DOMAIN G /\ r.page \in Nat /\ r.pages \in Nat /\ q \in Nat
      BY <1>2, <3>1, BlockFacts
    <3>3. G[r.group] \in Group
      BY <1>2, <3>2 DEF GroupsInOrder
    <3>4. q \in GroupPages(G[r.group])
      BY <3>1, <3>2, <3>3 DEF WellPlaced, In, GroupPages, Group
    <3> QED
      BY <2>1, <3>2, <3>4
  <2> QED
    BY <1>0, <1>2, <2>1 DEF Gaps
<1>9. Lists(H, A)
  <2>1. ASSUME NEW k \in Logs PROVE H[k] = FreeAt(A, k)
    <3>1. F[k] = FreeAt(B, k)
      BY <1>2 DEF Lists
    <3>2. ASSUME NEW b \in B \ R, NEW r \in R PROVE b.page # r.page
      <4>1. b \in B /\ r \in B /\ b # r
        OBVIOUS
      <4>2. \A c \in B : WellPlaced(c, G)
        BY <1>1
      <4> QED
        BY <1>2, <4>1, <4>2, SamePage, Zenon
    <3> QED
      BY <1>0, <3>1, <3>2 DEF FreeAt
  <2> QED
    BY <1>0, <2>1 DEF Lists
<1> HIDE DEF A
<1>10. Good(E, G, H, A)
  BY <1>0, <1>2, <1>5, <1>6, <1>7, <1>8, <1>9 DEF Good
<1> QED
  BY <1>10 DEF A

(* The descriptions by page rather than by index.                          *)
LEMMA ViewFacts ==
  ASSUME NEW X, Indexed(X), NEW base \in Nat
  PROVE  /\ DOMAIN View(X, base) = base .. (base + Cardinality(DOMAIN X)) - 1
         /\ \A p \in DOMAIN View(X, base) : /\ p \in Nat /\ p - base \in DOMAIN X
                                            /\ View(X, base)[p] = X[p - base]
         /\ \A i \in DOMAIN X : i + base \in DOMAIN View(X, base) /\ i \in Nat
<1>1. PICK n \in Nat : DOMAIN X = 0 .. n - 1
  BY DEF Indexed
<1>2. Cardinality(DOMAIN X) = n
  <2>1. PICK m : m = n - 1
    OBVIOUS
  <2>2. m \in Int /\ DOMAIN X = 0 .. m /\ m - 0 + 1 = n /\ ~ (0 > m + 1) /\ (0 > m => n = 0)
    BY <1>1, <2>1
  <2>3. Cardinality(0 .. m) = IF 0 > m THEN 0 ELSE m - 0 + 1
    BY <2>2, FS_Interval
  <2> QED
    BY <2>2, <2>3
<1>3. DOMAIN View(X, base) = base .. (base + Cardinality(DOMAIN X)) - 1
  BY DEF View
<1>4. ASSUME NEW p \in DOMAIN View(X, base)
      PROVE  p \in Nat /\ p - base \in DOMAIN X /\ View(X, base)[p] = X[p - base]
  BY <1>1, <1>2 DEF View
<1>5. ASSUME NEW i \in DOMAIN X PROVE i + base \in DOMAIN View(X, base) /\ i \in Nat
  BY <1>1, <1>2, <1>3
<1> QED
  BY <1>3, <1>4, <1>5

(* What the descriptions of the pages now say.                             *)
LEMMA DescFacts ==
  ASSUME Types
  PROVE  /\ DOMAIN Desc = Managed /\ Managed \subseteq Nat
         /\ \A p \in Managed : /\ p - firstPage \in DOMAIN extl /\ Desc[p] = ExtlDataOfPage(p)
                               /\ Tag(p) = Desc[p].tag /\ SizeLog(p) = Desc[p].sizeLog
                               /\ GroupId(p) = Desc[p].groupId
<1>1. Indexed(extl) /\ firstPage \in Nat
  BY DEF Types
<1>3. Managed = firstPage .. (firstPage + Cardinality(DOMAIN extl)) - 1
  BY DEF Managed, afterLastPage
<1>4. /\ DOMAIN View(extl, firstPage) = firstPage .. (firstPage + Cardinality(DOMAIN extl)) - 1
      /\ \A p \in DOMAIN View(extl, firstPage) : /\ p \in Nat /\ p - firstPage \in DOMAIN extl
                                                 /\ View(extl, firstPage)[p] = extl[p - firstPage]
  BY <1>1, ViewFacts, Zenon
<1> QED
  BY <1>3, <1>4, Zenon DEF Desc, ExtlDataOfPage, Tag, SizeLog, GroupId

\* E is what InitPages makes of D.
Written(D, E, g, from, to, one, rest) ==
  /\ DOMAIN E = DOMAIN D
  /\ \A q \in DOMAIN D :
       /\ q \notin from .. to - 1 => E[q] = D[q]
       /\ \A b \in BlocksOf(from, to) : b.page = q =>
            E[q] = [D[q] EXCEPT !.tag = one, !.groupId = g, !.sizeLog = b.log]
       /\ q \in from .. to - 1 /\ (\A b \in BlocksOf(from, to) : b.page # q) =>
            E[q] = [D[q] EXCEPT !.tag = rest, !.groupId = g]

(* InitPages, page by page.                                                *)
LEMMA InitPagesView ==
  ASSUME NEW X, Indexed(X), NEW base \in Nat,
         NEW g, NEW from \in Nat, NEW to \in Nat, NEW one, NEW rest,
         NEW Y, Y = InitPages(X, base, g, from, to, one, rest),
         NEW D, D = View(X, base), NEW E, E = View(Y, base)
  PROVE  DOMAIN Y = DOMAIN X /\ Written(D, E, g, from, to, one, rest)
<1>1. DOMAIN Y = DOMAIN X
  BY DEF InitPages
<1>2. DOMAIN E = DOMAIN D
  BY <1>1 DEF View
<1>3. ASSUME NEW q \in DOMAIN D
      PROVE  q - base \in DOMAIN X /\ E[q] = Y[q - base] /\ D[q] = X[q - base] /\ (q - base) + base = q
  <2>1. q \in DOMAIN View(X, base) /\ q \in DOMAIN View(Y, base) /\ Indexed(Y)
    BY <1>1, <1>2 DEF Indexed
  <2>2. q \in Nat /\ q - base \in DOMAIN X /\ View(X, base)[q] = X[q - base]
    BY <2>1, ViewFacts, Zenon
  <2>3. View(Y, base)[q] = Y[q - base]
    BY <2>1, ViewFacts, Zenon
  <2>4. (q - base) + base = q
    BY <2>2
  <2> QED
    BY <2>2, <2>3, <2>4
<1> DEFINE blocks == BlocksOf(from, to)
<1> DEFINE written(d, q) == IF q \notin from .. to - 1 THEN d
                    ELSE IF \E b \in blocks : b.page = q
                         THEN [d EXCEPT !.tag = one, !.groupId = g,
                                        !.sizeLog = (CHOOSE b \in blocks : b.page = q).log]
                         ELSE [d EXCEPT !.tag = rest, !.groupId = g]
<1>4. ASSUME NEW i \in DOMAIN X PROVE Y[i] = written(X[i], i + base)
  BY DEF InitPages
<1>5. ASSUME NEW q \in DOMAIN D, NEW b \in blocks, b.page = q
      PROVE  q \in from .. to - 1 /\ (CHOOSE c \in blocks : c.page = q).log = b.log
  <2>1. PICK c : c = (CHOOSE d \in blocks : d.page = q)
    OBVIOUS
  <2>2. c \in blocks /\ c.page = q
    BY <1>5, <2>1
  <2>3. b.page \in Nat /\ b.log \in Nat /\ c.log \in Nat /\ from <= q /\ q + Pow2[b.log] <= to
    BY <1>5, <2>2, BlocksFacts
  <2>4. Within(q, b.page, b.log) /\ Within(q, c.page, c.log) /\ q \in from .. to - 1
    BY <1>5, <2>2, <2>3, PowerFacts, SMTT(30) DEF Within
  <2>5. b = c
    BY <1>5, <2>2, <2>3, <2>4, BlocksDisjoint
  <2> QED
    BY <2>1, <2>4, <2>5
<1> HIDE DEF blocks
<1>6. ASSUME NEW q \in DOMAIN D
      PROVE  /\ q \notin from .. to - 1 => E[q] = D[q]
             /\ \A b \in blocks : b.page = q =>
                  E[q] = [D[q] EXCEPT !.tag = one, !.groupId = g, !.sizeLog = b.log]
             /\ q \in from .. to - 1 /\ (\A b \in blocks : b.page # q) =>
                  E[q] = [D[q] EXCEPT !.tag = rest, !.groupId = g]
  <2>1. PICK i : i = q - base
    OBVIOUS
  <2>2. i \in DOMAIN X /\ E[q] = Y[i] /\ D[q] = X[i] /\ i + base = q
    BY <1>3, <2>1
  <2>3. Y[i] = written(X[i], q)
    <3> HIDE DEF written
    <3> QED
      BY <1>4, <2>2
  <2>4. q \notin from .. to - 1 => E[q] = D[q]
    BY <2>2, <2>3
  <2>5. ASSUME NEW b \in blocks, b.page = q
        PROVE  E[q] = [D[q] EXCEPT !.tag = one, !.groupId = g, !.sizeLog = b.log]
    <3>1. q \in from .. to - 1 /\ (CHOOSE c \in blocks : c.page = q).log = b.log
      BY <1>5, <2>5
    <3>2. PICK l : l = (CHOOSE c \in blocks : c.page = q).log
      OBVIOUS
    <3>3. Y[i] = [X[i] EXCEPT !.tag = one, !.groupId = g, !.sizeLog = l]
      BY <2>3, <2>5, <3>1, <3>2
    <3> QED
      BY <2>2, <3>1, <3>2, <3>3
  <2>6. ASSUME q \in from .. to - 1, \A b \in blocks : b.page # q
        PROVE  E[q] = [D[q] EXCEPT !.tag = rest, !.groupId = g]
    BY <2>2, <2>3, <2>6
  <2> QED
    BY <2>4, <2>5, <2>6
<1> QED
  BY <1>1, <1>2, <1>6 DEF blocks, Written

-----------------------------------------------------------------------------
(* Pages that InitPages makes free blocks of.                              *)

\* The free blocks that InitPages makes of the pages from one to another
FreshBlocks(from, to, g) ==
  {[page |-> b.page, log |-> b.log, pages |-> Pow2[b.log], free |-> TRUE, group |-> g]
     : b \in BlocksOf(from, to)}

\* ... and what it writes.
Cleared(E, from, to, g) ==
  /\ \A q \in from .. to - 1 : /\ q \in DOMAIN E /\ E[q].groupId = g
                               /\ (\A b \in BlocksOf(from, to) : b.page # q) => E[q].tag = "PartOf"
  /\ \A b \in BlocksOf(from, to) : E[b.page].tag = "Free" /\ E[b.page].sizeLog = b.log

(* They are as the invariant wants them.                                   *)
LEMMA FreshFacts ==
  ASSUME NEW G, GroupsInOrder(G), NEW g \in DOMAIN G, NEW from \in Nat, NEW to \in Nat,
         G[g].firstPage <= from, to <= G[g].afterLastPage,
         \A b \in BlocksOf(from, to) : b.log <= MaxLog
  PROVE  /\ \A c \in FreshBlocks(from, to, g) :
              WellPlaced(c, G) /\ c.free /\ c.group = g /\ \A E : Cleared(E, from, to, g) => Shown(E, c)
         /\ Disjoint(FreshBlocks(from, to, g))
         /\ \A q \in Nat : (\E c \in FreshBlocks(from, to, g) : In(q, c)) <=> q \in from .. to - 1
         /\ \A k \in Logs : FreeAt(FreshBlocks(from, to, g), k)
                              = {b.page : b \in {c \in BlocksOf(from, to) : c.log = k}}
<1> DEFINE C == FreshBlocks(from, to, g)
           blocks == BlocksOf(from, to)
<1>1. ASSUME NEW c \in C
      PROVE  \E b \in blocks : /\ c.page = b.page /\ c.log = b.log /\ c.pages = Pow2[b.log]
                               /\ c.free = TRUE /\ c.group = g
                               /\ c = [page |-> b.page, log |-> b.log, pages |-> Pow2[b.log],
                                       free |-> TRUE, group |-> g]
  BY DEF FreshBlocks
<1>2. ASSUME NEW b \in blocks
      PROVE  \E c \in C : /\ c.page = b.page /\ c.log = b.log /\ c.pages = Pow2[b.log]
                          /\ c.free = TRUE /\ c.group = g
  <2>1. PICK c : c = [page |-> b.page, log |-> b.log, pages |-> Pow2[b.log], free |-> TRUE, group |-> g]
    OBVIOUS
  <2>2. c \in C
    BY <2>1 DEF FreshBlocks
  <2> QED
    BY <2>1, <2>2
<1>3. \A b \in blocks : /\ b.page \in Nat /\ b.log \in Nat /\ b.log \in Logs /\ b.page % Pow2[b.log] = 0
                        /\ Pow2[b.log] \in Nat \ {0}
                        /\ from <= b.page /\ b.page + Pow2[b.log] <= to
  <2>1. ASSUME NEW b \in blocks
        PROVE  /\ b.page \in Nat /\ b.log \in Nat /\ b.page % Pow2[b.log] = 0
               /\ from <= b.page /\ b.page + Pow2[b.log] <= to
    BY BlocksFacts
  <2> QED
    BY <2>1, ConstantFacts, PowerFacts DEF Logs
<1>4. G[g].firstPage \in Nat /\ G[g].afterLastPage \in Nat
  <2>1. G[g] \in Group
    BY DEF GroupsInOrder
  <2> QED
    BY <2>1 DEF Group
<1> HIDE DEF C, blocks
<1>5. ASSUME NEW c \in C PROVE WellPlaced(c, G)
  <2>1. PICK b \in blocks : /\ c.page = b.page /\ c.log = b.log /\ c.pages = Pow2[b.log]
                            /\ c.free = TRUE /\ c.group = g
                            /\ c = [page |-> b.page, log |-> b.log, pages |-> Pow2[b.log],
                                       free |-> TRUE, group |-> g]
    BY <1>1
  <2>2. c \in Block(G)
    BY <1>3, <2>1 DEF Block
  <2>3. Whole(c)
    BY <2>1 DEF Whole
  <2> QED
    BY <1>3, <1>4, <2>1, <2>2, <2>3 DEF WellPlaced
<1>6. ASSUME NEW c \in C, NEW b \in blocks, c.page = b.page, c.log = b.log, c.pages = Pow2[b.log],
             NEW q \in Nat
      PROVE  In(q, c) <=> Within(q, b.page, b.log)
  BY <1>6 DEF In, Within
<1>7. ASSUME NEW c \in C, NEW E, Cleared(E, from, to, g) PROVE Shown(E, c)
  <2>1. PICK b \in blocks : /\ c.page = b.page /\ c.log = b.log /\ c.pages = Pow2[b.log]
                            /\ c.free = TRUE /\ c.group = g
    BY <1>1
  <2>2. Whole(c)
    BY <2>1 DEF Whole
  <2>3. ASSUME NEW q \in Nat, In(q, c) PROVE q \in from .. to - 1 /\ Within(q, b.page, b.log)
    BY <1>3, <1>6, <2>1, <2>3 DEF In
  <2>4. ASSUME NEW q \in Nat, In(q, c), q # c.page PROVE \A d \in blocks : d.page # q
    <3> SUFFICES ASSUME NEW d \in blocks, d.page = q PROVE FALSE
      OBVIOUS
    <3>1. Within(q, d.page, d.log)
      BY <1>3 DEF Within
    <3>2. d = b
      BY <2>1, <2>3, <2>4, <3>1, BlocksDisjoint DEF blocks
    <3> QED
      BY <2>1, <2>4, <3>2
  <2>5. ASSUME NEW q \in Nat, In(q, c)
        PROVE  q \in DOMAIN E /\ E[q].tag = TagAt(c, q) /\ E[q].groupId = c.group
    <3>1. q \in from .. to - 1
      BY <2>3, <2>5
    <3>2. CASE q = c.page
      BY <1>7, <2>1, <3>1, <3>2 DEF Cleared, TagAt, blocks
    <3>3. CASE q # c.page
      <4>1. \A d \in blocks : d.page # q
        BY <2>4, <2>5, <3>3
      <4> QED
        BY <1>7, <2>1, <2>2, <3>1, <3>3, <4>1 DEF Cleared, TagAt, blocks
    <3> QED
      BY <3>2, <3>3
  <2>6. E[c.page].sizeLog = c.log
    BY <1>7, <2>1 DEF Cleared, blocks
  <2> QED
    BY <2>2, <2>5, <2>6 DEF Shown
<1>8. Disjoint(C)
  <2>1. ASSUME NEW c \in C, NEW d \in C, NEW q \in Nat, In(q, c), In(q, d) PROVE c = d
    <3>1. PICK b \in blocks : /\ c.page = b.page /\ c.log = b.log /\ c.pages = Pow2[b.log]
                              /\ c = [page |-> b.page, log |-> b.log, pages |-> Pow2[b.log],
                                      free |-> TRUE, group |-> g]
      BY <1>1
    <3>2. PICK e \in blocks : /\ d.page = e.page /\ d.log = e.log /\ d.pages = Pow2[e.log]
                              /\ d = [page |-> e.page, log |-> e.log, pages |-> Pow2[e.log],
                                      free |-> TRUE, group |-> g]
      BY <1>1
    <3>3. Within(q, b.page, b.log) /\ Within(q, e.page, e.log)
      BY <1>6, <2>1, <3>1, <3>2
    <3>4. b = e
      BY <3>3, BlocksDisjoint DEF blocks
    <3> QED
      BY <3>1, <3>2, <3>4
  <2> QED
    BY <2>1 DEF Disjoint
<1>9. ASSUME NEW q \in Nat PROVE (\E c \in C : In(q, c)) <=> q \in from .. to - 1
  <2>1. ASSUME NEW c \in C, In(q, c) PROVE q \in from .. to - 1
    <3>1. PICK b \in blocks : c.page = b.page /\ c.log = b.log /\ c.pages = Pow2[b.log]
      BY <1>1
    <3> QED
      BY <1>3, <2>1, <3>1 DEF In
  <2>2. ASSUME q \in from .. to - 1 PROVE \E c \in C : In(q, c)
    <3>1. PICK b \in blocks : Within(q, b.page, b.log)
      BY <2>2, BlocksCoverPage DEF blocks
    <3>2. PICK c \in C : c.page = b.page /\ c.log = b.log /\ c.pages = Pow2[b.log]
      BY <1>2
    <3> QED
      BY <1>6, <3>1, <3>2
  <2> QED
    BY <2>1, <2>2
<1>10. ASSUME NEW k \in Logs PROVE FreeAt(C, k) = {b.page : b \in {c \in blocks : c.log = k}}
  <2>1. ASSUME NEW x \in FreeAt(C, k) PROVE \E b \in blocks : b.log = k /\ x = b.page
    <3>1. PICK c \in C : c.log = k /\ x = c.page
      BY DEF FreeAt
    <3> QED
      BY <1>1, <3>1
  <2>2. ASSUME NEW b \in blocks, b.log = k PROVE b.page \in FreeAt(C, k)
    BY <1>2, <2>2 DEF FreeAt
  <2> QED
    BY <2>1, <2>2
<1>11. \A c \in C : c.free /\ c.group = g
  BY <1>1
<1> QED
  BY <1>5, <1>7, <1>8, <1>9, <1>10, <1>11 DEF C, blocks

\* What the arguments of InitPages are
Typed(X) == \A i \in DOMAIN X : X[i] \in ExtlData
Small(from, to) == \A b \in BlocksOf(from, to) : b.log <= MaxLog

\* The pages are described, with the types of descriptions.
Inside(D, from, to) == from .. to - 1 \subseteq DOMAIN D
Described(D) == D \in [DOMAIN D -> ExtlData]

\* Only the pages from one to another are changed.
Confined(D, E, from, to) ==
  DOMAIN E = DOMAIN D /\ \A q \in DOMAIN D : q \notin from .. to - 1 => E[q] = D[q]

(* InitPages clears them.                                                  *)
LEMMA InitClears ==
  ASSUME NEW X, Indexed(X), NEW base \in Nat, NEW g \in Nat, NEW from \in Nat, NEW to \in Nat,
         Typed(X), Small(from, to),
         NEW Y, Y = InitPages(X, base, g, from, to, "Free", "PartOf"),
         NEW D, D = View(X, base), Inside(D, from, to), NEW E, E = View(Y, base)
  PROVE  /\ DOMAIN Y = DOMAIN X /\ Typed(Y) /\ Confined(D, E, from, to)
         /\ Cleared(E, from, to, g)
<1> DEFINE blocks == BlocksOf(from, to)
<1>1. /\ DOMAIN Y = DOMAIN X /\ DOMAIN E = DOMAIN D
      /\ \A q \in DOMAIN D :
           /\ q \notin from .. to - 1 => E[q] = D[q]
           /\ \A b \in blocks : b.page = q =>
                E[q] = [D[q] EXCEPT !.tag = "Free", !.groupId = g, !.sizeLog = b.log]
           /\ q \in from .. to - 1 /\ (\A b \in blocks : b.page # q) =>
                E[q] = [D[q] EXCEPT !.tag = "PartOf", !.groupId = g]
  <2>1. DOMAIN Y = DOMAIN X /\ Written(D, E, g, from, to, "Free", "PartOf")
    BY InitPagesView
  <2> QED
    BY <2>1 DEF Written
<1> HIDE DEF blocks
<1>2. \A q \in DOMAIN D : D[q] \in ExtlData
  BY ViewFacts DEF Typed
<1>3. ASSUME NEW b \in blocks PROVE b.page \in from .. to - 1 /\ b.log \in Logs /\ b.page \in DOMAIN D
  <2>1. b.page \in Nat /\ b.log \in Nat /\ from <= b.page /\ b.page + Pow2[b.log] <= to
    BY BlocksFacts DEF blocks
  <2>2. b.page \in from .. to - 1 /\ b.log \in Logs
    BY <2>1, PowerFacts, ConstantFacts DEF Logs, blocks, Small
  <2> QED
    BY <2>2 DEF Inside
<1>4. \A q \in DOMAIN D : E[q] \in ExtlData
  <2>1. ASSUME NEW q \in DOMAIN D PROVE E[q] \in ExtlData
    <3>1. D[q] \in ExtlData
      BY <1>2
    <3>2. CASE q \notin from .. to - 1
      BY <1>1, <3>1, <3>2
    <3>3. CASE \E b \in blocks : b.page = q
      <4>1. PICK b \in blocks : b.page = q
        BY <3>3
      <4>2. E[q] = [D[q] EXCEPT !.tag = "Free", !.groupId = g, !.sizeLog = b.log]
        BY <1>1, <4>1
      <4> QED
        BY <1>3, <3>1, <4>2 DEF ExtlData, Tags
    <3>4. CASE q \in from .. to - 1 /\ \A b \in blocks : b.page # q
      <4>1. E[q] = [D[q] EXCEPT !.tag = "PartOf", !.groupId = g]
        BY <1>1, <3>4
      <4> QED
        BY <3>1, <4>1 DEF ExtlData, Tags
    <3> QED
      BY <3>2, <3>3, <3>4
  <2> QED
    BY <2>1
<1>5. \A i \in DOMAIN Y : Y[i] \in ExtlData
  <2>1. Indexed(Y)
    BY <1>1 DEF Indexed
  <2>2. ASSUME NEW i \in DOMAIN Y PROVE Y[i] \in ExtlData
    <3>1. PICK q : q = i + base
      OBVIOUS
    <3>2. q \in DOMAIN E /\ i \in Nat
      BY <2>1, <3>1, ViewFacts
    <3>3. E[q] = Y[q - base] /\ q - base = i
      BY <2>1, <3>1, <3>2, ViewFacts
    <3> QED
      BY <1>1, <1>4, <3>2, <3>3
  <2> QED
    BY <2>2
<1>6. Cleared(E, from, to, g)
  <2>1. ASSUME NEW q \in from .. to - 1
        PROVE  /\ q \in DOMAIN E /\ E[q].groupId = g
               /\ (\A b \in blocks : b.page # q) => E[q].tag = "PartOf"
    <3>1. q \in DOMAIN D /\ D[q] \in ExtlData
      BY <1>2 DEF Inside
    <3>2. CASE \E b \in blocks : b.page = q
      <4>1. PICK b \in blocks : b.page = q
        BY <3>2
      <4>2. E[q] = [D[q] EXCEPT !.tag = "Free", !.groupId = g, !.sizeLog = b.log]
        BY <1>1, <3>1, <4>1
      <4> QED
        BY <1>1, <3>1, <3>2, <4>2 DEF ExtlData
    <3>3. CASE \A b \in blocks : b.page # q
      BY <1>1, <3>1, <3>3, ZenonT(60) DEF ExtlData
    <3> QED
      BY <3>2, <3>3
  <2>2. ASSUME NEW b \in blocks PROVE E[b.page].tag = "Free" /\ E[b.page].sizeLog = b.log
    <3>1. PICK q : q = b.page
      OBVIOUS
    <3>2. q \in DOMAIN D /\ D[q] \in ExtlData
      BY <1>2, <1>3, <3>1
    <3>3. E[q] = [D[q] EXCEPT !.tag = "Free", !.groupId = g, !.sizeLog = b.log]
      BY <1>1, <3>1, <3>2
    <3>4. E[q].tag = "Free" /\ E[q].sizeLog = b.log
      BY <3>2, <3>3 DEF ExtlData
    <3> QED
      BY <3>1, <3>4
  <2> QED
    BY <2>1, <2>2 DEF Cleared, blocks
<1> QED
  BY <1>1, <1>5, <1>6 DEF blocks, Typed, Confined

-----------------------------------------------------------------------------
(* A block is halved, or cut off.                                          *)

\* What halving makes of a block: the part wanted, and upper halves.
SplitBlocks(p, w, j, g) ==
  {[page |-> p, log |-> w, pages |-> Pow2[w], free |-> FALSE, group |-> g]}
    \cup {[page |-> p + Pow2[k], log |-> k, pages |-> Pow2[k], free |-> TRUE, group |-> g] : k \in w .. j - 1}

(* They make up the block.                                                 *)
LEMMA SplitTiles ==
  ASSUME NEW p \in Nat, NEW w \in Nat, NEW j \in Nat, w <= j, NEW g
  PROVE  /\ \A q \in Nat : (\E c \in SplitBlocks(p, w, j, g) : In(q, c)) <=> p <= q /\ q < p + Pow2[j]
         /\ Disjoint(SplitBlocks(p, w, j, g))
<1> DEFINE C == SplitBlocks(p, w, j, g)
           Shape(c) == \/ c = [page |-> p, log |-> w, pages |-> Pow2[w], free |-> FALSE, group |-> g]
                       \/ \E k \in w .. j - 1 :
                            c = [page |-> p + Pow2[k], log |-> k, pages |-> Pow2[k], free |-> TRUE, group |-> g]
<1>1. \A c \in C : Shape(c)
  BY DEF SplitBlocks
<1>2. \A k \in w .. j : Pow2[w] <= Pow2[k] /\ Pow2[k] <= Pow2[j] /\ Pow2[k] \in Nat \ {0}
  <2>1. ASSUME NEW k \in w .. j PROVE Pow2[w] <= Pow2[k] /\ Pow2[k] <= Pow2[j] /\ Pow2[k] \in Nat \ {0}
    <3>1. k \in Nat /\ w <= k /\ k <= j
      OBVIOUS
    <3> QED
      BY <3>1, PowerOrder, PowerFacts
  <2> QED
    BY <2>1
<1>3. \A k \in w .. j - 1 : Pow2[k + 1] = 2 * Pow2[k] /\ Pow2[k + 1] <= Pow2[j]
  <2>1. ASSUME NEW k \in w .. j - 1 PROVE Pow2[k + 1] = 2 * Pow2[k] /\ Pow2[k + 1] <= Pow2[j]
    <3>1. k \in Nat /\ k + 1 \in Nat /\ k + 1 <= j
      OBVIOUS
    <3> QED
      BY <3>1, PowerOrder, PowerFacts
  <2> QED
    BY <2>1
<1>4. ASSUME NEW q \in Nat, NEW c, Shape(c), In(q, c)
      PROVE  /\ p <= q /\ q < p + Pow2[j]
             /\ q < p + Pow2[w] <=> c = [page |-> p, log |-> w, pages |-> Pow2[w], free |-> FALSE, group |-> g]
  <2>1. CASE c = [page |-> p, log |-> w, pages |-> Pow2[w], free |-> FALSE, group |-> g]
    <3>1. c.page = p /\ c.pages = Pow2[w]
      BY <2>1
    <3> QED
      BY <1>2, <1>4, <2>1, <3>1 DEF In
  <2>2. CASE \E k \in w .. j - 1 :
               c = [page |-> p + Pow2[k], log |-> k, pages |-> Pow2[k], free |-> TRUE, group |-> g]
    <3>1. PICK k \in w .. j - 1 :
                 c = [page |-> p + Pow2[k], log |-> k, pages |-> Pow2[k], free |-> TRUE, group |-> g]
      BY <2>2
    <3>2. c.page = p + Pow2[k] /\ c.pages = Pow2[k] /\ c.free
      BY <3>1
    <3>3. k \in w .. j
      OBVIOUS
    <3>4. /\ Pow2[k + 1] = 2 * Pow2[k] /\ Pow2[k + 1] <= Pow2[j] /\ Pow2[k] \in Nat \ {0}
          /\ Pow2[w] <= Pow2[k] /\ Pow2[j] \in Nat /\ Pow2[w] \in Nat
      BY <1>2, <1>3, <3>3
    <3>5. p + Pow2[k] <= q /\ q < p + Pow2[k] + Pow2[k]
      BY <1>4, <3>2, <3>4 DEF In
    <3>6. p <= q /\ q < p + Pow2[j] /\ ~ (q < p + Pow2[w])
      BY <3>4, <3>5
    <3>7. c # [page |-> p, log |-> w, pages |-> Pow2[w], free |-> FALSE, group |-> g]
      BY <3>2
    <3> QED
      BY <3>6, <3>7
  <2> QED
    BY <1>4, <2>1, <2>2
<1>5. ASSUME NEW q \in Nat, p <= q, q < p + Pow2[j] PROVE \E c \in C : In(q, c)
  <2>1. CASE q < p + Pow2[w]
    <3>1. PICK c : c = [page |-> p, log |-> w, pages |-> Pow2[w], free |-> FALSE, group |-> g]
      OBVIOUS
    <3>2. c \in C /\ In(q, c)
      BY <1>5, <2>1, <3>1 DEF SplitBlocks, In
    <3> QED
      BY <3>2
  <2>2. CASE q >= p + Pow2[w]
    <3>1. q - p \in Nat /\ Pow2[w] <= q - p /\ q - p < Pow2[j]
      BY <1>2, <1>5, <2>2
    <3>2. PICK x : x = q - p
      OBVIOUS
    <3>3. PICK k \in w .. j - 1 : Pow2[k] <= x /\ x < Pow2[k + 1]
      <4>1. x \in Nat /\ Pow2[w] <= x /\ x < Pow2[j]
        BY <3>1, <3>2
      <4> QED
        BY <4>1, HighestBit
    <3>4. PICK c : c = [page |-> p + Pow2[k], log |-> k, pages |-> Pow2[k], free |-> TRUE, group |-> g]
      OBVIOUS
    <3>5. c \in C
      BY <3>4 DEF SplitBlocks
    <3>6. c.page = p + Pow2[k] /\ c.pages = Pow2[k]
      BY <3>4
    <3>7. k \in w .. j /\ Pow2[k + 1] = 2 * Pow2[k] /\ Pow2[k] \in Nat
      BY <1>2, <1>3
    <3>8. In(q, c)
      BY <3>1, <3>2, <3>3, <3>6, <3>7 DEF In
    <3> QED
      BY <3>5, <3>8
  <2> QED
    BY <1>2, <2>1, <2>2
<1>6. ASSUME NEW b \in C, NEW c \in C, NEW q \in Nat, In(q, b), In(q, c) PROVE b = c
  <2>0. Shape(b) /\ Shape(c)
    BY <1>1
  <2>1. CASE q < p + Pow2[w]
    <3>1. b = [page |-> p, log |-> w, pages |-> Pow2[w], free |-> FALSE, group |-> g]
      BY <1>4, <1>6, <2>0, <2>1
    <3>2. c = [page |-> p, log |-> w, pages |-> Pow2[w], free |-> FALSE, group |-> g]
      BY <1>4, <1>6, <2>0, <2>1
    <3> QED
      BY <3>1, <3>2
  <2>2. CASE ~ (q < p + Pow2[w])
    <3>1. /\ \E k \in w .. j - 1 :
                b = [page |-> p + Pow2[k], log |-> k, pages |-> Pow2[k], free |-> TRUE, group |-> g]
          /\ \E k \in w .. j - 1 :
                c = [page |-> p + Pow2[k], log |-> k, pages |-> Pow2[k], free |-> TRUE, group |-> g]
      BY <1>4, <1>6, <2>0, <2>2
    <3>2. PICK k \in w .. j - 1 :
                b = [page |-> p + Pow2[k], log |-> k, pages |-> Pow2[k], free |-> TRUE, group |-> g]
      BY <3>1
    <3>3. PICK l \in w .. j - 1 :
                c = [page |-> p + Pow2[l], log |-> l, pages |-> Pow2[l], free |-> TRUE, group |-> g]
      BY <3>1
    <3>4. /\ b.page = p + Pow2[k] /\ b.pages = Pow2[k]
          /\ c.page = p + Pow2[l] /\ c.pages = Pow2[l]
      BY <3>2, <3>3
    <3>5. k \in Nat /\ l \in Nat /\ Pow2[k] \in Nat /\ Pow2[l] \in Nat
      BY PowerFacts
    <3>6. /\ p + Pow2[k] <= q /\ q < p + Pow2[k] + Pow2[k]
          /\ p + Pow2[l] <= q /\ q < p + Pow2[l] + Pow2[l]
      BY <1>6, <3>4, <3>5 DEF In
    <3>7. ~ (k < l)
      <4> SUFFICES ASSUME k < l PROVE FALSE
        OBVIOUS
      <4>1. 2 * Pow2[k] <= Pow2[l]
        BY <3>5, PowerOrder
      <4> QED
        BY <3>5, <3>6, <4>1
    <3>8. ~ (l < k)
      <4> SUFFICES ASSUME l < k PROVE FALSE
        OBVIOUS
      <4>1. 2 * Pow2[l] <= Pow2[k]
        BY <3>5, PowerOrder
      <4> QED
        BY <3>5, <3>6, <4>1
    <3>9. k = l
      BY <3>5, <3>7, <3>8
    <3> QED
      BY <3>2, <3>3, <3>9
  <2> QED
    BY <2>1, <2>2
<1> HIDE DEF C, Shape
<1>7. \A q \in Nat : (\E c \in C : In(q, c)) <=> p <= q /\ q < p + Pow2[j]
  BY <1>1, <1>4, <1>5
<1>8. Disjoint(C)
  BY <1>6 DEF Disjoint
<1> QED
  BY <1>7, <1>8 DEF C

(* A free block is halved until it has the size wanted.                    *)
LEMMA SplitKeeps ==
  ASSUME NEW D, NEW G, NEW F, NEW B, Good(D, G, F, B),
         NEW b \in B, b.free, NEW p, p = b.page, NEW j, j = b.log, NEW w \in Logs, w <= j,
         NEW E, DOMAIN E = DOMAIN D, E \in [DOMAIN D -> ExtlData],
         E[p].tag = "Alloced" /\ E[p].sizeLog = w /\ E[p].groupId = D[p].groupId,
         \A k \in w .. j - 1 : /\ E[p + Pow2[k]].tag = "Free" /\ E[p + Pow2[k]].sizeLog = k
                               /\ E[p + Pow2[k]].groupId = D[p].groupId,
         \A q \in DOMAIN D : q # p /\ (\A k \in w .. j - 1 : q # p + Pow2[k]) => E[q] = D[q],
         NEW H, H = [k \in Logs |-> CASE k = j -> F[k] \ {p}
                                      [] w <= k /\ k < j -> F[k] \cup {p + Pow2[k]}
                                      [] OTHER -> F[k]]
  PROVE  Good(E, G, H, (B \ {b}) \cup SplitBlocks(p, w, j, b.group))
<1> DEFINE g == b.group
           C == SplitBlocks(p, w, j, g)
<1>1. WellPlaced(b, G) /\ Shown(D, b) /\ GroupsInOrder(G) /\ DOMAIN D \subseteq Nat /\ Lists(F, B)
  BY DEF Good
<1>2. /\ p \in Nat /\ j \in Nat /\ j \in Logs /\ w \in Nat /\ b.pages = Pow2[j] /\ g \in DOMAIN G
      /\ p % Pow2[j] = 0 /\ Pow2[j] \in Nat \ {0}
  BY <1>1, BlockFacts, ConstantFacts, PowerFacts
<1>3. /\ G[g].firstPage <= p /\ p + Pow2[j] <= G[g].afterLastPage
      /\ G[g].firstPage \in Nat /\ G[g].afterLastPage \in Nat
  <2>1. G[g] \in Group
    BY <1>1, <1>2 DEF GroupsInOrder
  <2> QED
    BY <1>1, <1>2, <2>1 DEF WellPlaced, Group
<1>4. \A q \in Nat : In(q, b) <=> p <= q /\ q < p + Pow2[j]
  BY <1>2 DEF In
<1>5. ASSUME NEW q \in Nat, p <= q, q < p + Pow2[j]
      PROVE  q \in DOMAIN D /\ D[q].groupId = g /\ (q # p => D[q].tag = "PartOf")
  <2>1. In(q, b)
    BY <1>4, <1>5
  <2>2. Whole(b)
    BY <1>2 DEF Whole
  <2> QED
    BY <1>1, <2>1, <2>2 DEF Shown, TagAt
<1>6. /\ \A q \in Nat : (\E c \in C : In(q, c)) <=> p <= q /\ q < p + Pow2[j]
      /\ Disjoint(C)
  BY <1>2, SplitTiles
<1>7. ASSUME NEW k \in w .. j
      PROVE  k \in Nat /\ k \in Logs /\ Pow2[k] \in Nat \ {0} /\ Pow2[k] <= Pow2[j] /\ p % Pow2[k] = 0
  <2>1. k \in Nat /\ k <= j
    BY <1>2
  <2>2. k \in Logs
    BY <1>2, <2>1, ConstantFacts DEF Logs
  <2> QED
    BY <1>2, <2>1, <2>2, PowerFacts, PowerOrder, AlignedToSmaller
<1>8. ASSUME NEW k \in w .. j - 1
      PROVE  /\ Pow2[k] + Pow2[k] <= Pow2[j] /\ k \in w .. j
             /\ p + Pow2[k] \in Nat /\ (p + Pow2[k]) % Pow2[k] = 0
  <2>1. k \in w .. j /\ k < j /\ k \in Nat
    BY <1>2
  <2>2. 2 * Pow2[k] <= Pow2[j]
    BY <1>2, <2>1, PowerOrder
  <2>3. Pow2[k] \in Nat \ {0} /\ p % Pow2[k] = 0
    BY <1>7, <2>1
  <2>4. PICK a : a = Pow2[k]
    OBVIOUS
  <2>5. (p + Pow2[k]) % Pow2[k] = 0
    <3>1. a \in Nat \ {0} /\ a \in Nat /\ a % a = 0 /\ p % a = 0 /\ p \in Nat
      BY <1>2, <2>3, <2>4
    <3>2. (p + a) % a = 0
      BY <3>1, SumMultiple, Zenon
    <3> QED
      BY <2>4, <3>2
  <2> QED
    BY <1>2, <2>1, <2>2, <2>3, <2>5
<1> DEFINE lower == [page |-> p, log |-> w, pages |-> Pow2[w], free |-> FALSE, group |-> g]
           upper(k) == [page |-> p + Pow2[k], log |-> k, pages |-> Pow2[k], free |-> TRUE, group |-> g]
<1>9. \A c \in C : c = lower \/ \E k \in w .. j - 1 : c = upper(k)
  BY DEF SplitBlocks
<1>10. lower \in C /\ \A k \in w .. j - 1 : upper(k) \in C
  BY DEF SplitBlocks
<1>11. WellPlaced(lower, G)
  <2>1. w \in w .. j
    BY <1>2
  <2>2. Pow2[w] \in Nat \ {0} /\ Pow2[w] <= Pow2[j] /\ p % Pow2[w] = 0
    BY <1>7, <2>1
  <2>3. lower \in Block(G)
    BY <1>2, <2>2 DEF Block
  <2> QED
    BY <1>2, <1>3, <2>2, <2>3 DEF WellPlaced, Whole
<1>12. ASSUME NEW k \in w .. j - 1 PROVE WellPlaced(upper(k), G)
  <2>1. /\ Pow2[k] + Pow2[k] <= Pow2[j] /\ k \in w .. j
        /\ p + Pow2[k] \in Nat /\ (p + Pow2[k]) % Pow2[k] = 0
    BY <1>8
  <2>2. k \in Logs /\ Pow2[k] \in Nat \ {0}
    BY <1>7, <2>1
  <2>3. upper(k) \in Block(G)
    BY <1>2, <2>1, <2>2 DEF Block
  <2>4. p + Pow2[k] + Pow2[k] <= G[g].afterLastPage /\ G[g].firstPage <= p + Pow2[k]
    BY <1>2, <1>3, <2>1, <2>2
  <2> QED
    BY <2>1, <2>3, <2>4 DEF WellPlaced, Whole
<1>13. \A c \in C : In(c.page, c) /\ Whole(c)
  <2>1. w \in w .. j
    BY <1>2
  <2>2. lower.page = p /\ lower.pages = Pow2[w] /\ lower.log = w
    OBVIOUS
  <2>3. In(lower.page, lower) /\ Whole(lower)
    <3>1. Pow2[w] \in Nat \ {0}
      BY <1>7, <2>1
    <3> HIDE DEF lower
    <3> QED
      BY <1>2, <2>2, <3>1 DEF In, Whole
  <2>4. ASSUME NEW k \in w .. j - 1 PROVE In(upper(k).page, upper(k)) /\ Whole(upper(k))
    <3>1. Pow2[k] \in Nat \ {0} /\ p + Pow2[k] \in Nat
      BY <1>7, <1>8
    <3>2. upper(k).page = p + Pow2[k] /\ upper(k).pages = Pow2[k] /\ upper(k).log = k
      OBVIOUS
    <3> HIDE DEF upper
    <3> QED
      BY <3>1, <3>2 DEF In, Whole
  <2> HIDE DEF lower, upper, C
  <2> QED
    BY <1>9, <2>3, <2>4
<1>14. ASSUME NEW c \in C PROVE Shown(E, c)
  <2>1. In(c.page, c) /\ Whole(c) /\ c.group = g
    BY <1>9, <1>13
  <2>2. /\ E[c.page].sizeLog = c.log
        /\ E[c.page].tag = (IF c.free THEN "Free" ELSE "Alloced")
        /\ E[c.page].groupId = D[p].groupId
    <3>1. CASE c = lower
      BY <3>1
    <3>2. CASE \E k \in w .. j - 1 : c = upper(k)
      BY <3>2
    <3> QED
      BY <1>9, <3>1, <3>2
  <2>3. D[p].groupId = g
    BY <1>2, <1>5
  <2>4. c.page \in Nat
    BY <1>2, <1>8, <1>9
  <2>5. ASSUME NEW q \in Nat, In(q, c), q # c.page PROVE E[q] = D[q] /\ D[q].tag = "PartOf" /\ D[q].groupId = g
    <3>1. p <= q /\ q < p + Pow2[j]
      BY <1>6, <2>5
    <3>2. ASSUME NEW d \in C, d.page = q PROVE FALSE
      BY <1>6, <1>13, <2>5, <3>2 DEF Disjoint
    <3>3. q # p /\ \A k \in w .. j - 1 : q # p + Pow2[k]
      <4>1. lower.page = p /\ \A k \in w .. j - 1 : upper(k).page = p + Pow2[k]
        OBVIOUS
      <4> HIDE DEF lower, upper
      <4> QED
        BY <1>10, <3>2, <4>1
    <3> QED
      BY <1>5, <3>1, <3>3
  <2>6. ASSUME NEW q \in Nat, In(q, c)
        PROVE  q \in DOMAIN E /\ E[q].tag = TagAt(c, q) /\ E[q].groupId = c.group
    <3>1. q \in DOMAIN E
      BY <1>5, <1>6, <2>6
    <3> QED
      BY <2>1, <2>2, <2>3, <2>5, <2>6, <3>1 DEF TagAt
  <2> QED
    BY <2>1, <2>2, <2>6 DEF Shown
<1>15. \A c \in C : WellPlaced(c, G)
  <2> HIDE DEF lower, upper, C
  <2> QED
    BY <1>9, <1>11, <1>12
<1>16. ASSUME NEW k \in Logs PROVE H[k] = (F[k] \ FreeAt({b}, k)) \cup FreeAt(C, k)
  <2>1. FreeAt({b}, k) = IF k = j THEN {p} ELSE {}
    BY DEF FreeAt
  <2>2. FreeAt(C, k) = IF k \in w .. j - 1 THEN {p + Pow2[k]} ELSE {}
    <3>1. ASSUME NEW x \in FreeAt(C, k) PROVE k \in w .. j - 1 /\ x = p + Pow2[k]
      <4>1. PICK c \in C : c.free /\ c.log = k /\ x = c.page
        BY DEF FreeAt
      <4>2. ~ lower.free
        OBVIOUS
      <4>3. PICK l \in w .. j - 1 : c = upper(l)
        BY <1>9, <4>1, <4>2
      <4> QED
        BY <4>1, <4>3
    <3>2. ASSUME k \in w .. j - 1 PROVE p + Pow2[k] \in FreeAt(C, k)
      <4>1. upper(k) \in C /\ upper(k).free /\ upper(k).log = k /\ upper(k).page = p + Pow2[k]
        BY <1>10, <3>2
      <4> QED
        BY <4>1 DEF FreeAt
    <3> QED
      BY <3>1, <3>2
  <2>3. k \in Nat
    BY ConstantFacts
  <2>4. k \in w .. j - 1 <=> w <= k /\ k < j
    BY <1>2, <2>3
  <2> QED
    BY <1>2, <2>1, <2>2, <2>3, <2>4
<1>17. H \in [Logs -> SUBSET Nat]
  <2>1. ASSUME NEW k \in Logs PROVE H[k] \in SUBSET Nat
    <3>1. F[k] \subseteq Nat
      BY <1>1 DEF Lists
    <3>2. FreeAt(C, k) \subseteq Nat
      <4>1. \A c \in C : c.page \in Nat
        BY <1>2, <1>8, <1>9
      <4> QED
        BY <4>1 DEF FreeAt
    <3> QED
      BY <1>16, <3>1, <3>2
  <2> QED
    BY <2>1
<1>18. \A q \in DOMAIN D : (\A r \in {b} : ~ In(q, r)) => E[q] = D[q]
  <2>1. ASSUME NEW q \in DOMAIN D, ~ In(q, b) PROVE E[q] = D[q]
    <3>1. q \in Nat /\ ~ (p <= q /\ q < p + Pow2[j])
      BY <1>1, <1>4, <2>1
    <3>2. q # p
      BY <1>2, <3>1
    <3>3. \A k \in w .. j - 1 : q # p + Pow2[k]
      <4>1. ASSUME NEW k \in w .. j - 1, q = p + Pow2[k] PROVE FALSE
        <5>1. Pow2[k] + Pow2[k] <= Pow2[j] /\ Pow2[k] \in Nat \ {0}
          BY <1>7, <1>8
        <5> QED
          BY <1>2, <3>1, <4>1, <5>1
      <4> QED
        BY <4>1
    <3> QED
      BY <3>2, <3>3
  <2> QED
    BY <2>1
<1>19. \A q \in Nat : (\E r \in {b} : In(q, r)) <=> (\E c \in C : In(q, c))
  BY <1>4, <1>6
<1> HIDE DEF C, g
<1>20. \A c \in C : WellPlaced(c, G) /\ Shown(E, c)
  BY <1>14, <1>15
<1>21. \A k \in Logs : H[k] = (F[k] \ FreeAt({b}, k)) \cup FreeAt(C, k)
  BY <1>16
<1>22. Disjoint(C)
  BY <1>6
<1>23. Replaces(D, G, F, E, H, {b}, C)
  BY <1>17, <1>18, <1>19, <1>20, <1>21, <1>22 DEF Replaces
<1>24. {b} \subseteq B
  OBVIOUS
<1>25. Good(E, G, H, (B \ {b}) \cup C)
  BY <1>23, <1>24, Replaced, Zenon
<1> QED
  BY <1>25 DEF C, g

\* The blocks after a block is cut
CutUp(B, b, c, from, to, g) == (B \ {b}) \cup ({c} \cup FreshBlocks(from, to, g))

\* The block b is cut in two: its first part c, and free blocks made of the rest.
Cuts(D, G, F, E, H, b, c, mid, to) ==
  /\ WellPlaced(c, G) /\ c.page = b.page /\ c.group = b.group /\ c.pages <= b.pages
  /\ mid = b.page + c.pages /\ to = b.page + b.pages
  /\ DOMAIN E = DOMAIN D /\ E \in [DOMAIN D -> ExtlData]
  /\ Shown(E, c) /\ Cleared(E, mid, to, b.group)
  /\ \A q \in DOMAIN D : ~ In(q, b) => E[q] = D[q]
  /\ H = [k \in Logs |-> ((F[k] \ FreeAt({b}, k)) \cup FreeAt({c}, k))
                           \cup {x.page : x \in {y \in BlocksOf(mid, to) : y.log = k}}]

(* Then the blocks are described as before.                                *)
LEMMA CutKeeps ==
  ASSUME NEW D, NEW G, NEW F, NEW B, Good(D, G, F, B), NEW b \in B,
         NEW c, NEW mid, NEW to, NEW E, NEW H, Cuts(D, G, F, E, H, b, c, mid, to)
  PROVE  Good(E, G, H, (B \ {b}) \cup ({c} \cup FreshBlocks(mid, to, b.group)))
<1>0. /\ WellPlaced(c, G) /\ c.page = b.page /\ c.group = b.group /\ c.pages <= b.pages
      /\ mid = b.page + c.pages /\ to = b.page + b.pages
      /\ DOMAIN E = DOMAIN D /\ E \in [DOMAIN D -> ExtlData]
      /\ Shown(E, c) /\ Cleared(E, mid, to, b.group)
      /\ \A q \in DOMAIN D : ~ In(q, b) => E[q] = D[q]
      /\ H = [k \in Logs |-> ((F[k] \ FreeAt({b}, k)) \cup FreeAt({c}, k))
                               \cup {x.page : x \in {y \in BlocksOf(mid, to) : y.log = k}}]
  BY DEF Cuts
<1> DEFINE g == b.group
           N == FreshBlocks(mid, to, g)
           C == {c} \cup N
<1>1. WellPlaced(b, G) /\ GroupsInOrder(G) /\ Lists(F, B)
  BY DEF Good
<1>2. /\ b.page \in Nat /\ b.pages \in Nat /\ b.pages <= Pow2[b.log] /\ b.log \in Nat /\ b.log <= MaxLog
      /\ g \in DOMAIN G /\ c.pages \in Nat \ {0} /\ c.page \in Nat /\ Pow2[b.log] \in Nat
  <2>1. b.log \in Logs
    BY <1>1, BlockFacts
  <2> QED
    BY <1>0, <1>1, <2>1, BlockFacts, ConstantFacts, PowerFacts
<1>3. mid \in Nat /\ to \in Nat /\ b.page < mid /\ mid <= to /\ to <= mid + Pow2[b.log]
  BY <1>0, <1>2
<1>4. G[g].firstPage <= mid /\ to <= G[g].afterLastPage
  <2>1. G[g] \in Group
    BY <1>1, <1>2 DEF GroupsInOrder
  <2>2. G[g].firstPage \in Nat /\ G[g].afterLastPage \in Nat
    BY <2>1 DEF Group
  <2>3. G[g].firstPage <= b.page /\ to <= G[g].afterLastPage
    BY <1>0, <1>1 DEF WellPlaced
  <2> QED
    BY <1>2, <1>3, <2>2, <2>3
<1>5. \A x \in BlocksOf(mid, to) : x.log <= MaxLog
  <2>1. ASSUME NEW x \in BlocksOf(mid, to) PROVE x.log <= MaxLog
    <3>1. x.log \in Nat /\ x.log <= b.log
      BY <1>2, <1>3, BlocksFacts, BlocksSize
    <3> QED
      BY <1>2, <3>1, ConstantFacts
  <2> QED
    BY <2>1
<1> HIDE DEF g
<1>6. /\ \A x \in N : WellPlaced(x, G) /\ x.free /\ x.group = g /\ \A X : Cleared(X, mid, to, g) => Shown(X, x)
      /\ Disjoint(N)
      /\ \A q \in Nat : (\E x \in N : In(q, x)) <=> q \in mid .. to - 1
      /\ \A k \in Logs : FreeAt(N, k) = {x.page : x \in {y \in BlocksOf(mid, to) : y.log = k}}
  BY <1>1, <1>2, <1>3, <1>4, <1>5, FreshFacts
<1>7. \A x \in N : WellPlaced(x, G) /\ Shown(E, x)
  BY <1>0, <1>6 DEF g
<1>8. \A q \in Nat : In(q, c) <=> b.page <= q /\ q < mid
  BY <1>0, <1>2 DEF In
<1>9. \A q \in Nat : In(q, b) <=> b.page <= q /\ q < to
  BY <1>0, <1>2 DEF In
<1> HIDE DEF N
<1>10. \A x \in C : WellPlaced(x, G) /\ Shown(E, x)
  BY <1>0, <1>7
<1>11. Disjoint(C)
  <2>1. ASSUME NEW x \in C, NEW y \in C, NEW q \in Nat, In(q, x), In(q, y) PROVE x = y
    <3>1. CASE q < mid
      <4>1. x \notin N /\ y \notin N
        BY <1>3, <1>6, <2>1, <3>1
      <4> QED
        BY <4>1
    <3>2. CASE ~ (q < mid)
      <4>1. x # c /\ y # c
        BY <1>8, <2>1, <3>2
      <4> QED
        BY <1>6, <2>1, <4>1 DEF Disjoint
    <3> QED
      BY <3>1, <3>2
  <2> QED
    BY <2>1 DEF Disjoint
<1>12. \A q \in Nat : (\E r \in {b} : In(q, r)) <=> (\E x \in C : In(q, x))
  <2>1. ASSUME NEW q \in Nat PROVE In(q, b) <=> (\E x \in C : In(q, x))
    <3>1. (\E x \in C : In(q, x)) <=> In(q, c) \/ \E x \in N : In(q, x)
      OBVIOUS
    <3> QED
      BY <1>3, <1>2, <1>6, <1>8, <1>9, <3>1
  <2> QED
    BY <2>1
<1>13. ASSUME NEW k \in Logs
       PROVE  /\ H[k] = (F[k] \ FreeAt({b}, k)) \cup FreeAt(C, k)
              /\ H[k] \in SUBSET Nat
  <2>1. FreeAt(C, k) = FreeAt({c}, k) \cup FreeAt(N, k)
    BY DEF FreeAt
  <2>2. FreeAt(N, k) = {x.page : x \in {y \in BlocksOf(mid, to) : y.log = k}}
    BY <1>6
  <2>3. H[k] = (F[k] \ FreeAt({b}, k)) \cup FreeAt(C, k)
    BY <1>0, <2>1, <2>2
  <2>4. F[k] \subseteq Nat
    BY <1>1 DEF Lists
  <2>5. FreeAt(C, k) \subseteq Nat
    <3>1. \A x \in C : x.page \in Nat
      BY <1>10, BlockFacts
    <3> QED
      BY <3>1 DEF FreeAt
  <2> QED
    BY <2>3, <2>4, <2>5
<1>14. H \in [Logs -> SUBSET Nat] /\ \A k \in Logs : H[k] = (F[k] \ FreeAt({b}, k)) \cup FreeAt(C, k)
  BY <1>0, <1>13
<1>15. \A q \in DOMAIN D : (\A r \in {b} : ~ In(q, r)) => E[q] = D[q]
  BY <1>0
<1> HIDE DEF C
<1>16. Replaces(D, G, F, E, H, {b}, C)
  BY <1>0, <1>10, <1>11, <1>12, <1>14, <1>15 DEF Replaces
<1>17. {b} \subseteq B
  OBVIOUS
<1>18. Good(E, G, H, (B \ {b}) \cup C)
  BY <1>16, <1>17, Replaced, Zenon
<1> QED
  BY <1>18 DEF C, N, g

\* Nothing is between a page and itself.
LEMMA NoBlocks ==
  ASSUME NEW p \in Nat
  PROVE  BlocksOf(p, p) = {}
BY DEF BlocksOf

\* The pages from one to another are in use.
Marked(E, from, to, g) ==
  \A q \in DOMAIN E : q \in from .. to - 1 => E[q].tag = "PartOfAlloced" /\ E[q].groupId = g

(* The pages that are in use behind the middle of a block are marked so.   *)
LEMMA InitMarks ==
  ASSUME NEW X, Indexed(X), NEW base \in Nat, NEW g \in Nat, NEW from \in Nat, NEW to \in Nat,
         Typed(X), Small(from, to),
         NEW Y, Y = InitPages(X, base, g, from, to, "PartOfAlloced", "PartOfAlloced"),
         NEW D, D = View(X, base), NEW E, E = View(Y, base)
  PROVE  /\ DOMAIN Y = DOMAIN X /\ Typed(Y) /\ Confined(D, E, from, to)
         /\ Marked(E, from, to, g)
<1> DEFINE blocks == BlocksOf(from, to)
<1>1. /\ DOMAIN Y = DOMAIN X /\ DOMAIN E = DOMAIN D
      /\ \A q \in DOMAIN D :
           /\ q \notin from .. to - 1 => E[q] = D[q]
           /\ \A b \in blocks : b.page = q =>
                E[q] = [D[q] EXCEPT !.tag = "PartOfAlloced", !.groupId = g, !.sizeLog = b.log]
           /\ q \in from .. to - 1 /\ (\A b \in blocks : b.page # q) =>
                E[q] = [D[q] EXCEPT !.tag = "PartOfAlloced", !.groupId = g]
  <2>1. DOMAIN Y = DOMAIN X /\ Written(D, E, g, from, to, "PartOfAlloced", "PartOfAlloced")
    BY InitPagesView
  <2> QED
    BY <2>1 DEF Written
<1>2. \A q \in DOMAIN D : D[q] \in ExtlData
  BY ViewFacts DEF Typed
<1>3. ASSUME NEW b \in blocks PROVE b.page \in from .. to - 1 /\ b.log \in Logs
  <2>1. b.page \in Nat /\ b.log \in Nat /\ from <= b.page /\ b.page + Pow2[b.log] <= to
    BY BlocksFacts
  <2> QED
    BY <2>1, PowerFacts, ConstantFacts DEF Logs, Small
<1> HIDE DEF blocks
<1>4. ASSUME NEW q \in DOMAIN D
      PROVE  E[q] \in ExtlData /\ (q \in from .. to - 1 => E[q].tag = "PartOfAlloced" /\ E[q].groupId = g)
  <2>1. D[q] \in ExtlData
    BY <1>2
  <2>2. CASE q \notin from .. to - 1
    BY <1>1, <2>1, <2>2
  <2>3. CASE \E b \in blocks : b.page = q
    <3>1. PICK b \in blocks : b.page = q
      BY <2>3
    <3>2. E[q] = [D[q] EXCEPT !.tag = "PartOfAlloced", !.groupId = g, !.sizeLog = b.log]
      BY <1>1, <3>1
    <3> QED
      BY <1>3, <2>1, <3>2 DEF ExtlData, Tags
  <2>4. CASE q \in from .. to - 1 /\ \A b \in blocks : b.page # q
    <3>1. E[q] = [D[q] EXCEPT !.tag = "PartOfAlloced", !.groupId = g]
      BY <1>1, <2>4
    <3> QED
      BY <2>1, <3>1 DEF ExtlData, Tags
  <2> QED
    BY <2>2, <2>3, <2>4
<1>5. \A i \in DOMAIN Y : Y[i] \in ExtlData
  <2>1. Indexed(Y)
    BY <1>1 DEF Indexed
  <2>2. ASSUME NEW i \in DOMAIN Y PROVE Y[i] \in ExtlData
    <3>1. PICK q : q = i + base
      OBVIOUS
    <3>2. q \in DOMAIN E /\ i \in Nat
      BY <2>1, <3>1, ViewFacts
    <3>3. E[q] = Y[q - base] /\ q - base = i
      BY <2>1, <3>1, <3>2, ViewFacts
    <3> QED
      BY <1>1, <1>4, <3>2, <3>3
  <2> QED
    BY <2>2
<1> QED
  BY <1>1, <1>4, <1>5 DEF Typed, Confined, Marked

\* A block in use
Used(p, w, n, g) == [page |-> p, log |-> w, pages |-> n, free |-> FALSE, group |-> g]

(* Less than the block was asked for: what is left of it is freed.         *)
LEMMA CutOffKeeps ==
  ASSUME NEW D, NEW G, NEW F, NEW B, Good(D, G, F, B),
         NEW p, NEW w \in Logs, w > 0, NEW g, NEW a \in B,
         a = Used(p, w, Pow2[w], g),
         NEW n \in Nat, Pow2[w - 1] < n, n < Pow2[w],
         NEW half, half = p + Pow2[w - 1], NEW end, end = p + n, NEW to, to = p + Pow2[w],
         D[p].sizePages = n,
         NEW E, Described(E), Confined(D, E, half, to), Marked(E, half, end, g),
         Cleared(E, end, to, g),
         NEW c, c = Used(p, w, n, g),
         NEW H, H = WithFree(F, end, to)
  PROVE  Good(E, G, H, (B \ {a}) \cup ({c} \cup FreshBlocks(end, to, g)))
<1>0. /\ DOMAIN E = DOMAIN D /\ E \in [DOMAIN D -> ExtlData]
      /\ \A q \in DOMAIN D : q \notin half .. to - 1 => E[q] = D[q]
      /\ \A q \in DOMAIN D : q \in half .. end - 1 => E[q].tag = "PartOfAlloced" /\ E[q].groupId = g
  BY DEF Confined, Marked, Described
<1>1. WellPlaced(a, G) /\ Shown(D, a) /\ DOMAIN D \subseteq Nat /\ GroupsInOrder(G)
  BY DEF Good
<1>2. /\ a.page = p /\ a.log = w /\ a.pages = Pow2[w] /\ a.free = FALSE /\ a.group = g
      /\ c.page = p /\ c.log = w /\ c.pages = n /\ c.free = FALSE /\ c.group = g
  BY DEF Used
<1>3. p \in Nat /\ g \in DOMAIN G /\ p % Pow2[w] = 0 /\ In(p, a)
  BY <1>1, <1>2, BlockFacts
<1>4. /\ w \in Nat /\ w - 1 \in Nat /\ Pow2[w] \in Nat \ {0} /\ Pow2[w - 1] \in Nat \ {0}
      /\ Pow2[w] = 2 * Pow2[w - 1]
  <2>1. w \in Nat /\ w - 1 \in Nat /\ (w - 1) + 1 = w
    BY ConstantFacts
  <2> QED
    BY <2>1, PowerFacts
<1>5. ~ Whole(c) /\ Part(c) /\ Whole(a)
  BY <1>2, <1>4 DEF Whole, Part
<1>6. WellPlaced(c, G)
  <2>1. c \in Block(G)
    BY <1>3, <1>4 DEF Block, Used
  <2>2. G[g].firstPage <= p /\ p + Pow2[w] <= G[g].afterLastPage
    BY <1>1, <1>2 DEF WellPlaced
  <2>3. G[g].afterLastPage \in Nat
    <3>1. G[g] \in Group
      BY <1>1, <1>3 DEF GroupsInOrder
    <3> QED
      BY <3>1, ConstantFacts DEF Group
  <2>4. p + n <= G[g].afterLastPage
    BY <1>3, <1>4, <2>2, <2>3
  <2> QED
    BY <1>2, <1>3, <1>5, <2>1, <2>2, <2>4 DEF WellPlaced
<1>7. Shown(E, c)
  <2>1. ASSUME NEW q \in Nat, In(q, c)
        PROVE  q \in DOMAIN E /\ E[q].tag = TagAt(c, q) /\ E[q].groupId = c.group
    <3>1. p <= q /\ q < p + n
      BY <1>2, <2>1 DEF In
    <3>2. In(q, a)
      BY <1>2, <1>3, <1>4, <3>1 DEF In
    <3>3. q \in DOMAIN D /\ D[q].tag = TagAt(a, q) /\ D[q].groupId = g
      BY <1>1, <1>2, <3>2 DEF Shown
    <3>4. CASE q < half
      <4>1. E[q] = D[q]
        BY <1>0, <1>3, <1>4, <3>3, <3>4
      <4>2. TagAt(c, q) = TagAt(a, q)
        BY <1>2, <1>3, <1>4, <1>5, <3>4 DEF TagAt
      <4> QED
        BY <1>0, <1>2, <3>3, <4>1, <4>2
    <3>5. CASE half <= q
      <4>1. q \in half .. end - 1
        BY <1>3, <1>4, <3>1, <3>5
      <4>2. TagAt(c, q) = "PartOfAlloced"
        BY <1>2, <1>3, <1>4, <1>5, <3>5 DEF TagAt
      <4> QED
        BY <1>0, <1>2, <3>3, <4>1, <4>2
    <3> QED
      BY <1>3, <1>4, <3>4, <3>5
  <2>2. E[p] = D[p]
    <3>1. p \in DOMAIN D
      BY <1>1, <1>3, Zenon DEF Shown
    <3>2. p \notin half .. to - 1
      BY <1>3, <1>4
    <3> QED
      BY <1>0, <3>1, <3>2
  <2>3. D[p].sizeLog = w
    BY <1>1, <1>2 DEF Shown
  <2> QED
    BY <1>2, <2>1, <2>2, <2>3 DEF Shown
<1>8. \A q \in DOMAIN D : ~ In(q, a) => E[q] = D[q]
  <2>1. ASSUME NEW q \in DOMAIN D, ~ In(q, a) PROVE E[q] = D[q]
    <3>1. q \in Nat /\ ~ (p <= q /\ q < p + Pow2[w])
      BY <1>1, <1>2, <2>1 DEF In
    <3>2. q \notin half .. to - 1
      BY <1>3, <1>4, <3>1
    <3> QED
      BY <1>0, <3>2
  <2> QED
    BY <2>1
<1>9. H = [k \in Logs |-> ((F[k] \ FreeAt({a}, k)) \cup FreeAt({c}, k))
                             \cup {x.page : x \in {y \in BlocksOf(end, to) : y.log = k}}]
  <2>1. \A k \in Logs : FreeAt({a}, k) = {} /\ FreeAt({c}, k) = {}
    BY <1>2 DEF FreeAt
  <2> QED
    BY <2>1 DEF WithFree
<1>10. c.page = a.page /\ c.group = a.group /\ c.pages <= a.pages /\ end = a.page + c.pages /\ to = a.page + a.pages
  BY <1>2, <1>4
<1>11. Cleared(E, end, to, a.group)
  BY <1>2
<1>12. Cuts(D, G, F, E, H, a, c, end, to)
  BY <1>0, <1>6, <1>7, <1>8, <1>9, <1>10, <1>11, Zenon DEF Cuts
<1>13. Good(E, G, H, (B \ {a}) \cup ({c} \cup FreshBlocks(end, to, a.group)))
  BY <1>12, CutKeeps, Zenon
<1> QED
  BY <1>2, <1>13

-----------------------------------------------------------------------------
(* A block is returned, or put together with its other half.               *)

\* A free block
Unused(p, k, g) == [page |-> p, log |-> k, pages |-> Pow2[k], free |-> TRUE, group |-> g]

\* What is done to the descriptions and the lists when the block b is returned
Freed(D, E, b, k, mid, end) ==
  /\ DOMAIN E = DOMAIN D /\ E \in [DOMAIN D -> ExtlData]
  /\ E[b.page].tag = "Free" /\ E[b.page].sizeLog = k /\ E[b.page].groupId = D[b.page].groupId
  /\ \A q \in DOMAIN D : q # b.page /\ q \notin mid .. end - 1 => E[q] = D[q]
  /\ Cleared(E, mid, end, b.group)

FreedLists(F, H, p, k, mid, end) ==
  H = [l \in Logs |-> (IF l = k THEN F[l] \cup {p} ELSE F[l])
                        \cup {x.page : x \in {y \in BlocksOf(mid, end) : y.log = l}}]

(* A block that is returned is free; when it was cut off, its first half   *)
(* is, and the pages in use behind its middle are.                         *)
LEMMA FreeKeeps ==
  ASSUME NEW D, NEW G, NEW F, NEW B, Good(D, G, F, B), NEW b \in B, ~ b.free,
         NEW p, p = b.page, NEW k, k = (IF Whole(b) THEN b.log ELSE b.log - 1),
         NEW mid, mid = p + Pow2[k], NEW end, end = p + b.pages,
         NEW E, Freed(D, E, b, k, mid, end), NEW c, c = Unused(p, k, b.group),
         NEW H, FreedLists(F, H, p, k, mid, end)
  PROVE  /\ Good(E, G, H, CutUp(B, b, c, mid, end, b.group))
         /\ k \in Logs /\ mid <= end
<1>0. /\ DOMAIN E = DOMAIN D /\ E \in [DOMAIN D -> ExtlData]
      /\ E[p].tag = "Free" /\ E[p].sizeLog = k /\ E[p].groupId = D[p].groupId
      /\ \A q \in DOMAIN D : q # p /\ q \notin mid .. end - 1 => E[q] = D[q]
      /\ Cleared(E, mid, end, b.group)
  BY DEF Freed
<1>1. WellPlaced(b, G) /\ Shown(D, b) /\ DOMAIN D \subseteq Nat /\ GroupsInOrder(G)
  BY DEF Good
<1>2. /\ c.page = p /\ c.log = k /\ c.pages = Pow2[k] /\ c.free = TRUE /\ c.group = b.group
  BY DEF Unused
<1>3. p \in Nat /\ b.group \in DOMAIN G /\ p % Pow2[b.log] = 0 /\ In(p, b) /\ b.log \in Logs /\ b.log \in Nat
      /\ b.pages \in Nat \ {0}
  BY <1>1, BlockFacts
<1>4. /\ k \in Nat /\ k \in Logs /\ k <= b.log /\ Pow2[k] <= b.pages /\ Pow2[k] \in Nat \ {0}
      /\ ~ Whole(b) => k = b.log - 1 /\ b.log > 0
  <2>1. Whole(b) \/ Part(b)
    BY <1>1 DEF WellPlaced
  <2>2. CASE Whole(b)
    BY <1>3, <2>2, PowerFacts DEF Whole
  <2>3. CASE ~ Whole(b)
    <3>1. b.log > 0 /\ Pow2[b.log - 1] < b.pages /\ k = b.log - 1
      BY <2>1, <2>3 DEF Part
    <3>2. k \in Nat /\ k <= b.log
      BY <1>3, <3>1
    <3>3. k \in Logs
      BY <1>3, <3>2, ConstantFacts DEF Logs
    <3>4. Pow2[k] \in Nat \ {0}
      BY <3>2, PowerFacts
    <3> QED
      BY <1>3, <2>3, <3>1, <3>2, <3>3, <3>4
  <2> QED
    BY <2>2, <2>3
<1>5. Whole(c)
  BY <1>2 DEF Whole
<1>6. p % Pow2[k] = 0
  BY <1>3, <1>4, AlignedToSmaller
<1>7. WellPlaced(c, G)
  <2>1. c \in Block(G)
    BY <1>3, <1>4 DEF Block, Unused
  <2>2. G[b.group].firstPage <= p /\ p + b.pages <= G[b.group].afterLastPage
    BY <1>1 DEF WellPlaced
  <2>3. G[b.group].afterLastPage \in Nat
    <3>1. G[b.group] \in Group
      BY <1>1, <1>3 DEF GroupsInOrder
    <3> QED
      BY <3>1, ConstantFacts DEF Group
  <2>4. p + Pow2[k] <= G[b.group].afterLastPage
    BY <1>3, <1>4, <2>2, <2>3
  <2> QED
    BY <1>2, <1>5, <1>6, <2>1, <2>2, <2>4 DEF WellPlaced
<1>8. Shown(E, c)
  <2>1. ASSUME NEW q \in Nat, In(q, c)
        PROVE  q \in DOMAIN E /\ E[q].tag = TagAt(c, q) /\ E[q].groupId = c.group
    <3>1. p <= q /\ q < p + Pow2[k]
      BY <1>2, <2>1 DEF In
    <3>2. In(q, b)
      BY <1>3, <1>4, <3>1 DEF In
    <3>3. q \in DOMAIN D /\ D[q].tag = TagAt(b, q) /\ D[q].groupId = b.group
      BY <1>1, <3>2 DEF Shown
    <3>4. CASE q = p
      BY <1>0, <1>2, <3>3, <3>4 DEF TagAt
    <3>5. CASE q # p
      <4>1. E[q] = D[q]
        BY <1>0, <1>3, <1>4, <3>1, <3>3, <3>5
      <4>2. TagAt(c, q) = "PartOf"
        BY <1>2, <1>5, <3>5 DEF TagAt
      <4>3. TagAt(b, q) = "PartOf"
        BY <1>3, <1>4, <3>1, <3>5 DEF TagAt
      <4> QED
        BY <1>0, <1>2, <3>3, <4>1, <4>2, <4>3
    <3> QED
      BY <3>4, <3>5
  <2> QED
    BY <1>0, <1>2, <1>5, <2>1 DEF Shown
<1>9. \A q \in DOMAIN D : ~ In(q, b) => E[q] = D[q]
  <2>1. ASSUME NEW q \in DOMAIN D, ~ In(q, b) PROVE E[q] = D[q]
    <3>1. q \in Nat /\ ~ (p <= q /\ q < p + b.pages)
      BY <1>1, <2>1 DEF In
    <3>2. q # p /\ q \notin mid .. end - 1
      BY <1>3, <1>4, <3>1
    <3> QED
      BY <1>0, <3>2
  <2> QED
    BY <2>1
<1>10. H = [l \in Logs |-> ((F[l] \ FreeAt({b}, l)) \cup FreeAt({c}, l))
                             \cup {x.page : x \in {y \in BlocksOf(mid, end) : y.log = l}}]
  <2>1. \A l \in Logs : FreeAt({b}, l) = {}
    BY DEF FreeAt
  <2>2. \A l \in Logs : FreeAt({c}, l) = IF l = k THEN {p} ELSE {}
    BY <1>2 DEF FreeAt
  <2> QED
    BY <2>1, <2>2 DEF FreedLists
<1>11. c.page = b.page /\ c.group = b.group /\ c.pages <= b.pages /\ mid = b.page + c.pages /\ end = b.page + b.pages
  BY <1>2, <1>4
<1>12. Cuts(D, G, F, E, H, b, c, mid, end)
  BY <1>0, <1>7, <1>8, <1>9, <1>10, <1>11, Zenon DEF Cuts
<1>13. Good(E, G, H, (B \ {b}) \cup ({c} \cup FreshBlocks(mid, end, b.group)))
  BY <1>12, CutKeeps, ZenonT(60)
<1>14. mid <= end
  BY <1>3, <1>4
<1> QED
  BY <1>4, <1>13, <1>14 DEF CutUp

\* What is done to the descriptions when a and b are put together
Joined(D, E, a, b, k) ==
  /\ DOMAIN E = DOMAIN D /\ E \in [DOMAIN D -> ExtlData]
  /\ E[a.page].tag = D[a.page].tag /\ E[a.page].groupId = D[a.page].groupId /\ E[a.page].sizeLog = k + 1
  /\ E[b.page].tag = "PartOf" /\ E[b.page].groupId = D[b.page].groupId
  /\ \A q \in DOMAIN D : q # a.page /\ q # b.page => E[q] = D[q]

JoinedLists(F, H, p, q, k) == H = [F EXCEPT ![k] = @ \ {p, q}, ![k + 1] = @ \cup {p}]

\* The blocks then
JoinedUp(B, a, b, c) == (B \ {a, b}) \cup {c}

(* A free block and its other half are put together.                       *)
LEMMA RecombineKeeps ==
  ASSUME NEW D, NEW G, NEW F, NEW B, Good(D, G, F, B),
         NEW a \in B, NEW b \in B, a.free, b.free, NEW k \in Logs, k + 1 \in Logs,
         a.log = k, b.log = k, a.group = b.group,
         a.page % Pow2[k + 1] = 0, b.page = a.page + Pow2[k],
         NEW E, Joined(D, E, a, b, k), NEW c, c = Unused(a.page, k + 1, a.group),
         NEW H, JoinedLists(F, H, a.page, b.page, k)
  PROVE  Good(E, G, H, JoinedUp(B, a, b, c))
<1>0. /\ DOMAIN E = DOMAIN D /\ E \in [DOMAIN D -> ExtlData]
      /\ E[a.page].tag = D[a.page].tag /\ E[a.page].groupId = D[a.page].groupId /\ E[a.page].sizeLog = k + 1
      /\ E[b.page].tag = "PartOf" /\ E[b.page].groupId = D[b.page].groupId
      /\ \A q \in DOMAIN D : q # a.page /\ q # b.page => E[q] = D[q]
  BY DEF Joined
<1>1. /\ WellPlaced(a, G) /\ Shown(D, a) /\ WellPlaced(b, G) /\ Shown(D, b)
      /\ DOMAIN D \subseteq Nat /\ GroupsInOrder(G) /\ Lists(F, B)
  BY DEF Good
<1>2. /\ c.page = a.page /\ c.log = k + 1 /\ c.pages = Pow2[k + 1] /\ c.free = TRUE /\ c.group = a.group
  BY DEF Unused
<1>3. /\ a.page \in Nat /\ b.page \in Nat /\ a.pages = Pow2[k] /\ b.pages = Pow2[k] /\ a.group \in DOMAIN G
      /\ In(a.page, a) /\ In(b.page, b)
  BY <1>1, BlockFacts
<1>4. k \in Nat /\ Pow2[k] \in Nat \ {0} /\ Pow2[k + 1] = 2 * Pow2[k] /\ Pow2[k + 1] \in Nat \ {0}
  BY PowerFacts, ConstantFacts
<1>5. Whole(c) /\ Whole(a) /\ Whole(b)
  BY <1>2, <1>3 DEF Whole
<1>6. WellPlaced(c, G)
  <2>1. c \in Block(G)
    BY <1>3, <1>4 DEF Block, Unused
  <2>2. G[a.group].firstPage <= a.page /\ b.page + b.pages <= G[a.group].afterLastPage
    BY <1>1 DEF WellPlaced
  <2>3. c.page + c.pages = b.page + b.pages
    BY <1>2, <1>3, <1>4
  <2> QED
    BY <1>2, <1>5, <2>1, <2>2, <2>3 DEF WellPlaced
<1>7. \A q \in Nat : In(q, c) <=> In(q, a) \/ In(q, b)
  BY <1>2, <1>3, <1>4 DEF In
<1>8. Shown(E, c)
  <2>1. ASSUME NEW q \in Nat, In(q, c)
        PROVE  q \in DOMAIN E /\ E[q].tag = TagAt(c, q) /\ E[q].groupId = c.group
    <3>1. /\ q \in DOMAIN D /\ D[q].groupId = a.group
          /\ q # a.page /\ q # b.page => D[q].tag = "PartOf"
          /\ q = a.page => D[q].tag = "Free"
      <4>1. CASE In(q, a)
        <5>1. q \in DOMAIN D /\ D[q].groupId = a.group /\ D[q].tag = TagAt(a, q)
          BY <1>1, <4>1 DEF Shown
        <5> QED
          BY <1>5, <5>1 DEF TagAt
      <4>2. CASE In(q, b)
        <5>1. q \in DOMAIN D /\ D[q].groupId = a.group /\ D[q].tag = TagAt(b, q)
          BY <1>1, <4>2 DEF Shown
        <5>2. q # a.page
          BY <1>3, <1>4, <4>2 DEF In
        <5> QED
          BY <1>5, <5>1, <5>2 DEF TagAt
      <4> QED
        BY <1>7, <2>1, <4>1, <4>2
    <3>2. CASE q = a.page
      BY <1>0, <1>2, <3>1, <3>2 DEF TagAt
    <3>3. CASE q # a.page
      <4>1. TagAt(c, q) = "PartOf"
        BY <1>2, <1>5, <3>3 DEF TagAt
      <4> QED
        BY <1>0, <1>2, <3>1, <3>3, <4>1
    <3> QED
      BY <3>2, <3>3
  <2> QED
    BY <1>0, <1>2, <1>5, <2>1 DEF Shown
<1>9. \A q \in DOMAIN D : (\A r \in {a, b} : ~ In(q, r)) => E[q] = D[q]
  BY <1>0, <1>3
<1>10. \A q \in Nat : (\E r \in {a, b} : In(q, r)) <=> (\E x \in {c} : In(q, x))
  BY <1>7
<1>11. H \in [Logs -> SUBSET Nat]
  BY <1>1, <1>3 DEF Lists, JoinedLists
<1>12. \A l \in Logs : H[l] = (F[l] \ FreeAt({a, b}, l)) \cup FreeAt({c}, l)
  <2>1. ASSUME NEW l \in Logs PROVE H[l] = (F[l] \ FreeAt({a, b}, l)) \cup FreeAt({c}, l)
    <3>1. FreeAt({a, b}, l) = IF l = k THEN {a.page, b.page} ELSE {}
      BY DEF FreeAt
    <3>2. FreeAt({c}, l) = IF l = k + 1 THEN {a.page} ELSE {}
      BY <1>2 DEF FreeAt
    <3>3. DOMAIN F = Logs
      BY <1>1 DEF Lists
    <3> QED
      BY <1>4, <3>1, <3>2, <3>3 DEF JoinedLists
  <2> QED
    BY <2>1
<1>13. \A x \in {c} : WellPlaced(x, G) /\ Shown(E, x)
  BY <1>6, <1>8
<1>14. Disjoint({c})
  BY DEF Disjoint
<1>15. Replaces(D, G, F, E, H, {a, b}, {c})
  BY <1>0, <1>9, <1>10, <1>11, <1>12, <1>13, <1>14, Zenon DEF Replaces
<1>16. {a, b} \subseteq B
  OBVIOUS
<1> QED
  BY <1>15, <1>16, Replaced, Zenon DEF JoinedUp

-----------------------------------------------------------------------------
(* The descriptions are moved, and new pages come with them.               *)

(* The descriptions are moved to a new array, with unusable pages in it    *)
(* that no group has.                                                      *)
LEMMA MovedKeeps ==
  ASSUME NEW D, NEW G, NEW F, NEW B, Good(D, G, F, B),
         NEW E, DOMAIN E \subseteq Nat,
         \A i \in DOMAIN G : GroupPages(G[i]) \subseteq DOMAIN E,
         \A q \in DOMAIN E : E[q] = IF q \in DOMAIN D THEN D[q] ELSE Blank("Unusable"),
         E = [q \in DOMAIN E |-> E[q]]
  PROVE  Good(E, G, F, B)
<1>1. /\ DOMAIN D \subseteq Nat /\ D \in [DOMAIN D -> ExtlData] /\ GroupsInOrder(G)
      /\ \A b \in B : WellPlaced(b, G) /\ Shown(D, b)
      /\ Disjoint(B) /\ Covers(B, G) /\ Gaps(D, G) /\ Lists(F, B)
  BY DEF Good
<1>2. ASSUME NEW b \in B, NEW q \in Nat, In(q, b) PROVE q \in DOMAIN E /\ E[q] = D[q]
  <2>1. q \in DOMAIN D /\ WellPlaced(b, G)
    BY <1>1, <1>2 DEF Shown
  <2>2. b.group \in DOMAIN G /\ b.page \in Nat /\ b.pages \in Nat
    BY <2>1, BlockFacts
  <2>3. G[b.group] \in Group
    BY <1>1, <2>2 DEF GroupsInOrder
  <2>4. q \in GroupPages(G[b.group])
    BY <1>2, <2>1, <2>2, <2>3, ConstantFacts DEF WellPlaced, In, GroupPages, Group
  <2> QED
    BY <2>1, <2>2, <2>4
<1>3. ASSUME NEW b \in B PROVE Shown(E, b)
  <2>1. Shown(D, b) /\ b.page \in Nat /\ In(b.page, b)
    BY <1>1, BlockFacts
  <2>2. E[b.page] = D[b.page]
    BY <1>2, <2>1
  <2>3. \A q \in Nat : In(q, b) => q \in DOMAIN E /\ E[q].tag = TagAt(b, q) /\ E[q].groupId = b.group
    BY <1>2, <2>1 DEF Shown
  <2> QED
    BY <2>1, <2>2, <2>3 DEF Shown
<1>4. Blank("Unusable") \in ExtlData /\ Blank("Unusable").tag = "Unusable"
  BY DEF Blank, ExtlData, Tags
<1>5. E \in [DOMAIN E -> ExtlData]
  BY <1>1, <1>4
<1>6. Gaps(E, G)
  BY <1>1, <1>4 DEF Gaps
<1> QED
  BY <1>1, <1>3, <1>5, <1>6 DEF Good

\* A group is added, all of it free.
Adds(D, G, F, E, H, m) ==
  /\ m \in Group /\ ~ TooLarge(m) /\ \A i \in DOMAIN G : Apart(m, G[i])
  /\ DOMAIN E = DOMAIN D /\ E \in [DOMAIN D -> ExtlData]
  /\ \A q \in DOMAIN D : q \notin m.firstPage .. m.afterLastPage - 1 => E[q] = D[q]
  /\ Cleared(E, m.firstPage, m.afterLastPage, Len(G) + 1)
  /\ H = WithFree(F, m.firstPage, m.afterLastPage)

(* Then the blocks are described as before, and new ones with them.        *)
LEMMA AddKeeps ==
  ASSUME NEW D, NEW G, NEW F, NEW B, Good(D, G, F, B),
         NEW E, NEW H, NEW m, Adds(D, G, F, E, H, m),
         NEW g, g = Len(G) + 1
  PROVE  Good(E, G \o <<m>>, H, B \cup FreshBlocks(m.firstPage, m.afterLastPage, g))
<1> DEFINE K == G \o <<m>>
           from == m.firstPage
           to == m.afterLastPage
           N == FreshBlocks(from, to, g)
           A == B \cup N
<1>1. /\ DOMAIN D \subseteq Nat /\ D \in [DOMAIN D -> ExtlData] /\ GroupsInOrder(G)
      /\ \A b \in B : WellPlaced(b, G) /\ Shown(D, b)
      /\ Disjoint(B) /\ Covers(B, G) /\ Gaps(D, G) /\ Lists(F, B)
  BY DEF Good
<1>2. /\ m \in Group /\ ~ TooLarge(m) /\ \A i \in DOMAIN G : Apart(m, G[i])
      /\ DOMAIN E = DOMAIN D /\ E \in [DOMAIN D -> ExtlData]
      /\ \A q \in DOMAIN D : q \notin from .. to - 1 => E[q] = D[q]
      /\ Cleared(E, from, to, g)
      /\ H = WithFree(F, from, to)
  BY DEF Adds
<1>3. from \in Nat /\ to \in Nat
  BY <1>2, ConstantFacts DEF Group
<1>4. /\ G \in Seq(Group) /\ Len(G) \in Nat /\ DOMAIN G = 1 .. Len(G)
      /\ DOMAIN K = 1 .. g /\ g \in Nat /\ g \in DOMAIN K
      /\ K[g] = m /\ \A i \in DOMAIN G : i \in DOMAIN K /\ K[i] = G[i] /\ i # g
      /\ K \in Seq(Group)
  BY <1>1, <1>2 DEF GroupsInOrder
<1> HIDE DEF K
<1>5. GroupsInOrder(K)
  <2>1. ASSUME NEW i \in DOMAIN K, NEW j \in DOMAIN K, i # j PROVE Apart(K[i], K[j])
    <3>1. CASE i \in DOMAIN G /\ j \in DOMAIN G
      BY <1>1, <1>4, <2>1, <3>1 DEF GroupsInOrder
    <3>2. CASE i = g /\ j \in DOMAIN G
      BY <1>2, <1>4, <2>1, <3>2
    <3>3. CASE j = g /\ i \in DOMAIN G
      BY <1>2, <1>4, <2>1, <3>3 DEF Apart
    <3> QED
      BY <1>4, <2>1, <3>1, <3>2, <3>3
  <2>2. ASSUME NEW i \in DOMAIN K PROVE ~ TooLarge(K[i])
    <3>1. CASE i \in DOMAIN G
      BY <1>1, <1>4, <3>1 DEF GroupsInOrder
    <3>2. CASE i = g
      BY <1>2, <1>4, <3>2
    <3> QED
      BY <1>4, <3>1, <3>2
  <2> QED
    BY <1>4, <2>1, <2>2 DEF GroupsInOrder
<1>6. /\ \A x \in N : WellPlaced(x, K) /\ x.free /\ x.group = g /\ Shown(E, x)
      /\ Disjoint(N)
      /\ \A q \in Nat : (\E x \in N : In(q, x)) <=> q \in from .. to - 1
      /\ \A k \in Logs : FreeAt(N, k) = {x.page : x \in {y \in BlocksOf(from, to) : y.log = k}}
  <2>1. \A x \in BlocksOf(from, to) : x.log <= MaxLog
    <3>1. ASSUME NEW x \in BlocksOf(from, to) PROVE x.log <= MaxLog
      <4>1. x.log \in Nat /\ ~ (x.log > MaxLog)
        BY <1>2, <1>3, BlocksFacts DEF TooLarge
      <4> QED
        BY <4>1, ConstantFacts
    <3> QED
      BY <3>1
  <2>2. K[g].firstPage <= from /\ to <= K[g].afterLastPage
    BY <1>3, <1>4
  <2> HIDE DEF from, to
  <2>3. /\ \A x \in N : WellPlaced(x, K) /\ x.free /\ x.group = g /\ \A X : Cleared(X, from, to, g) => Shown(X, x)
        /\ Disjoint(N)
        /\ \A q \in Nat : (\E x \in N : In(q, x)) <=> q \in from .. to - 1
        /\ \A k \in Logs : FreeAt(N, k) = {x.page : x \in {y \in BlocksOf(from, to) : y.log = k}}
    BY <1>3, <1>4, <1>5, <2>1, <2>2, FreshFacts
  <2> HIDE DEF N
  <2> QED
    BY <1>2, <2>3
<1> HIDE DEF N
<1>7. ASSUME NEW b \in B, NEW q \in Nat, In(q, b)
      PROVE  q \notin from .. to - 1 /\ q \in DOMAIN D /\ E[q] = D[q]
  <2>1. WellPlaced(b, G) /\ q \in DOMAIN D
    BY <1>1, <1>7 DEF Shown
  <2>2. b.group \in DOMAIN G /\ b.page \in Nat /\ b.pages \in Nat
    BY <2>1, BlockFacts
  <2>3. G[b.group] \in Group
    BY <1>1, <2>2 DEF GroupsInOrder
  <2>4. q \in GroupPages(G[b.group])
    BY <1>7, <2>1, <2>2, <2>3, ConstantFacts DEF WellPlaced, In, GroupPages, Group
  <2>5. q \notin from .. to - 1
    BY <1>2, <2>2, <2>4 DEF Apart, GroupPages
  <2> QED
    BY <1>2, <2>1, <2>5
<1>8. ASSUME NEW b \in B PROVE WellPlaced(b, K) /\ Shown(E, b)
  <2>1. Shown(D, b) /\ b.page \in Nat /\ In(b.page, b) /\ WellPlaced(b, G) /\ b.group \in DOMAIN G
    BY <1>1, BlockFacts
  <2>2. E[b.page] = D[b.page]
    BY <1>7, <2>1
  <2>3. \A q \in Nat : In(q, b) => q \in DOMAIN E /\ E[q].tag = TagAt(b, q) /\ E[q].groupId = b.group
    BY <1>2, <1>7, <2>1 DEF Shown
  <2>4. Shown(E, b)
    BY <2>1, <2>2, <2>3 DEF Shown
  <2>5. b \in Block(K)
    BY <1>4, <2>1 DEF WellPlaced, Block
  <2> QED
    BY <1>4, <2>1, <2>4, <2>5 DEF WellPlaced
<1>9. \A b \in A : WellPlaced(b, K) /\ Shown(E, b)
  BY <1>6, <1>8
<1>10. Disjoint(A)
  <2>1. ASSUME NEW b \in A, NEW c \in A, NEW q \in Nat, In(q, b), In(q, c) PROVE b = c
    <3>1. CASE b \in B /\ c \in B
      BY <1>1, <2>1, <3>1 DEF Disjoint
    <3>2. CASE b \in N /\ c \in N
      BY <1>6, <2>1, <3>2 DEF Disjoint
    <3> QED
      BY <1>6, <1>7, <2>1, <3>1, <3>2
  <2> QED
    BY <2>1 DEF Disjoint
<1>11. Covers(A, K)
  <2>1. ASSUME NEW i \in DOMAIN K, NEW q \in GroupPages(K[i]) PROVE \E b \in A : In(q, b)
    <3>1. CASE i \in DOMAIN G
      BY <1>1, <1>4, <3>1 DEF Covers
    <3>2. CASE i = g
      <4>1. q \in from .. to - 1 /\ q \in Nat
        BY <1>3, <1>4, <3>2 DEF GroupPages
      <4> QED
        BY <1>6, <4>1
    <3> QED
      BY <1>4, <3>1, <3>2
  <2> QED
    BY <2>1 DEF Covers
<1>12. Gaps(E, K)
  <2>1. ASSUME NEW q \in DOMAIN E, \A i \in DOMAIN K : q \notin GroupPages(K[i]) PROVE E[q].tag = "Unusable"
    <3>1. q \notin from .. to - 1
      BY <1>4, <2>1 DEF GroupPages
    <3>2. \A i \in DOMAIN G : q \notin GroupPages(G[i])
      BY <1>4, <2>1
    <3> QED
      BY <1>1, <1>2, <3>1, <3>2 DEF Gaps
  <2> QED
    BY <2>1 DEF Gaps
<1>13. Lists(H, A)
  <2>1. ASSUME NEW k \in Logs PROVE H[k] = FreeAt(A, k) /\ H[k] \subseteq Nat
    <3>1. F[k] = FreeAt(B, k) /\ F[k] \subseteq Nat
      BY <1>1 DEF Lists
    <3>2. H[k] = F[k] \cup FreeAt(N, k)
      BY <1>2, <1>6 DEF WithFree
    <3>3. FreeAt(A, k) = FreeAt(B, k) \cup FreeAt(N, k)
      BY DEF FreeAt
    <3>4. FreeAt(N, k) \subseteq Nat
      <4>1. \A x \in N : x.page \in Nat
        BY <1>6, BlockFacts
      <4> QED
        BY <4>1 DEF FreeAt
    <3> QED
      BY <3>1, <3>2, <3>3, <3>4
  <2>2. H = [k \in Logs |-> H[k]]
    BY <1>2 DEF WithFree
  <2> QED
    BY <2>1, <2>2 DEF Lists
<1> HIDE DEF A
<1>14. Good(E, K, H, A)
  BY <1>1, <1>2, <1>5, <1>9, <1>10, <1>11, <1>12, <1>13 DEF Good
<1> QED
  BY <1>14 DEF A, K, N

(***************************************************************************)
(* Part two: the steps of the buddy system.                                *)
(***************************************************************************)


-----------------------------------------------------------------------------
(* The state and the blocks.                                               *)

(* The number of pages is of no account in the description of a whole      *)
(* block.                                                                  *)
LEMMA SizedKeeps ==
  ASSUME NEW D, NEW G, NEW F, NEW B, Good(D, G, F, B), NEW a \in B, Whole(a), NEW n \in Nat,
         NEW E, DOMAIN E = DOMAIN D, E \in [DOMAIN D -> ExtlData],
         E[a.page] = [D[a.page] EXCEPT !.sizePages = n],
         \A q \in DOMAIN D : q # a.page => E[q] = D[q]
  PROVE  Good(E, G, F, B)
<1>1. WellPlaced(a, G) /\ Shown(D, a) /\ Lists(F, B) /\ D \in [DOMAIN D -> ExtlData]
  BY DEF Good
<1>2. a.page \in Nat /\ In(a.page, a)
  BY <1>1, BlockFacts
<1>3. a.page \in DOMAIN D
  BY <1>1, <1>2 DEF Shown
<1>4. \A q \in DOMAIN D : E[q].tag = D[q].tag /\ E[q].groupId = D[q].groupId /\ E[q].sizeLog = D[q].sizeLog
  <2>1. D[a.page] \in ExtlData
    BY <1>1, <1>3
  <2> QED
    BY <2>1 DEF ExtlData
<1>5. Shown(E, a)
  BY <1>1, <1>3, <1>4 DEF Shown
<1>6. \A q \in DOMAIN D : (\A r \in {a} : ~ In(q, r)) => E[q] = D[q]
  BY <1>2
<1>7. \A k \in Logs : F[k] = (F[k] \ FreeAt({a}, k)) \cup FreeAt({a}, k)
  <2>1. \A k \in Logs : FreeAt({a}, k) \subseteq F[k]
    BY <1>1 DEF Lists, FreeAt
  <2> QED
    BY <2>1
<1>8. F \in [Logs -> SUBSET Nat]
  BY <1>1 DEF Lists
<1>9. Replaces(D, G, F, E, F, {a}, {a})
  BY <1>1, <1>5, <1>6, <1>7, <1>8 DEF Replaces, Disjoint
<1>10. {a} \subseteq B /\ (B \ {a}) \cup {a} = B
  OBVIOUS
<1>11. Good(E, G, F, (B \ {a}) \cup {a})
  BY <1>9, <1>10, Replaced, Zenon
<1> QED
  BY <1>10, <1>11

(* The block a page is in.                                                 *)
LEMMA BlockOfPage ==
  ASSUME NEW D, NEW G, NEW F, NEW B, Good(D, G, F, B), NEW q \in DOMAIN D, D[q].tag # "Unusable"
  PROVE  \E b \in B : In(q, b) /\ D[q].tag = TagAt(b, q)
<1>1. \E i \in DOMAIN G : q \in GroupPages(G[i])
  BY DEF Good, Gaps
<1>2. PICK b \in B : In(q, b)
  BY <1>1 DEF Good, Covers
<1>3. q \in Nat /\ Shown(D, b)
  BY DEF Good
<1> QED
  BY <1>2, <1>3 DEF Shown

(* Whether a page is the first of a block is seen from its tag.            *)
LEMMA FirstPage ==
  ASSUME NEW D, NEW G, NEW F, NEW B, Good(D, G, F, B), NEW q \in DOMAIN D, D[q].tag \in {"Free", "Alloced"}
  PROVE  \E b \in B : b.page = q /\ (b.free <=> D[q].tag = "Free")
<1>1. PICK b \in B : In(q, b) /\ D[q].tag = TagAt(b, q)
  BY BlockOfPage
<1>2. q = b.page
  BY <1>1 DEF TagAt
<1> QED
  BY <1>1, <1>2 DEF TagAt

(* Whether a block was cut off is seen from the page half way.             *)
LEMMA HalfTellsCut ==
  ASSUME NEW D, NEW G, NEW F, NEW B, Good(D, G, F, B), NEW b \in B,
         NEW half, half = b.page + Pow2[IF b.log = 0 THEN 0 ELSE b.log - 1]
  PROVE  half \in DOMAIN D /\ D[half].tag = "PartOfAlloced" <=> ~ Whole(b)
<1>1. WellPlaced(b, G) /\ Shown(D, b) /\ DOMAIN D \subseteq Nat /\ Disjoint(B)
  BY DEF Good
<1>2. b.page \in Nat /\ b.log \in Nat /\ b.pages \in Nat \ {0} /\ In(b.page, b)
  BY <1>1, BlockFacts
<1>3. CASE ~ Whole(b)
  <2>1. ~ b.free /\ b.log > 0 /\ Pow2[b.log - 1] < b.pages
    BY <1>1, <1>3 DEF WellPlaced, Part
  <2>2. half = b.page + Pow2[b.log - 1] /\ b.log - 1 \in Nat
    BY <1>2, <2>1
  <2>3. Pow2[b.log - 1] \in Nat \ {0}
    BY <2>2, PowerFacts
  <2>4. half \in Nat /\ half # b.page /\ In(half, b)
    BY <1>2, <2>1, <2>2, <2>3 DEF In
  <2>5. TagAt(b, half) = "PartOfAlloced"
    BY <1>3, <2>2, <2>3, <2>4, <1>2 DEF TagAt
  <2> QED
    BY <1>1, <1>3, <2>4, <2>5 DEF Shown
<1>4. CASE Whole(b) /\ b.log > 0
  <2>1. half = b.page + Pow2[b.log - 1] /\ b.log - 1 \in Nat /\ (b.log - 1) + 1 = b.log
    BY <1>2, <1>4
  <2>2. Pow2[b.log - 1] \in Nat \ {0} /\ Pow2[b.log] = 2 * Pow2[b.log - 1]
    BY <2>1, PowerFacts
  <2>3. half \in Nat /\ half # b.page /\ In(half, b)
    BY <1>2, <1>4, <2>1, <2>2 DEF In, Whole
  <2>4. TagAt(b, half) = "PartOf"
    BY <1>4, <2>3 DEF TagAt
  <2> QED
    BY <1>1, <1>4, <2>3, <2>4 DEF Shown
<1>5. CASE Whole(b) /\ b.log = 0
  <2>1. half = b.page + 1 /\ b.pages = 1
    BY <1>5, PowerFacts DEF Whole
  <2>2. ASSUME half \in DOMAIN D, D[half].tag = "PartOfAlloced" PROVE FALSE
    <3>1. PICK c \in B : In(half, c) /\ D[half].tag = TagAt(c, half)
      <4>1. D[half].tag # "Unusable"
        BY <2>2
      <4> QED
        BY <2>2, <4>1, BlockOfPage
    <3>2. half # c.page
      BY <2>2, <3>1 DEF TagAt
    <3>3. c.page \in Nat /\ c.pages \in Nat
      BY BlockFacts DEF Good
    <3>4. In(b.page, c)
      BY <1>2, <2>1, <3>1, <3>2, <3>3 DEF In
    <3>5. c = b
      BY <1>1, <1>2, <3>4 DEF Disjoint
    <3> QED
      BY <1>2, <2>1, <3>1, <3>5 DEF In
  <2> QED
    BY <1>5, <2>2
<1> QED
  BY <1>2, <1>3, <1>4, <1>5

(* What the state says of the blocks.                                      *)
LEMMA BlockState ==
  ASSUME Types, NEW B, Good(Desc, groups, freePages, B), NEW b \in B
  PROVE  /\ b.page \in Managed /\ b.page - firstPage \in DOMAIN extl
         /\ SizeLog(b.page) = b.log /\ GroupId(b.page) = b.group
         /\ Tag(b.page) = IF b.free THEN "Free" ELSE "Alloced"
         /\ IsCutOff(b.page) <=> ~ Whole(b)
         /\ UsedPages(b.page) = b.pages
         /\ ~ Whole(b) => ExtlDataOfPage(b.page).sizePages = b.pages
<1>1. WellPlaced(b, groups) /\ Shown(Desc, b)
  BY DEF Good
<1>2. b.page \in Nat /\ In(b.page, b)
  BY <1>1, BlockFacts
<1>3. /\ b.page \in DOMAIN Desc /\ Desc[b.page].tag = TagAt(b, b.page) /\ Desc[b.page].groupId = b.group
      /\ Desc[b.page].sizeLog = b.log
      /\ ~ Whole(b) => Desc[b.page].sizePages = b.pages
  BY <1>1, <1>2 DEF Shown
<1>4. /\ DOMAIN Desc = Managed
      /\ \A p \in Managed : /\ p - firstPage \in DOMAIN extl /\ Desc[p] = ExtlDataOfPage(p)
                            /\ Tag(p) = Desc[p].tag /\ SizeLog(p) = Desc[p].sizeLog
                            /\ GroupId(p) = Desc[p].groupId
  BY DescFacts
<1>5. /\ b.page \in Managed /\ b.page - firstPage \in DOMAIN extl
      /\ SizeLog(b.page) = b.log /\ GroupId(b.page) = b.group
      /\ Tag(b.page) = TagAt(b, b.page) /\ Desc[b.page] = ExtlDataOfPage(b.page)
  BY <1>3, <1>4
<1>6. Tag(b.page) = IF b.free THEN "Free" ELSE "Alloced"
  BY <1>5 DEF TagAt
<1>7. IsCutOff(b.page) <=> ~ Whole(b)
  <2>1. PICK half : half = b.page + Pow2[IF b.log = 0 THEN 0 ELSE b.log - 1]
    OBVIOUS
  <2>2. half = HalfOf(b.page)
    BY <1>5, <2>1 DEF HalfOf
  <2>3. half \in DOMAIN Desc /\ Desc[half].tag = "PartOfAlloced" <=> ~ Whole(b)
    BY <2>1, HalfTellsCut
  <2> QED
    BY <1>4, <2>2, <2>3 DEF IsCutOff
<1>8. UsedPages(b.page) = b.pages
  BY <1>3, <1>5, <1>7 DEF UsedPages, Whole
<1> QED
  BY <1>3, <1>5, <1>6, <1>7, <1>8

\* A block as its owner knows it
Owned(b) == [page |-> b.page, pages |-> b.pages]

(* The blocks in use and the free blocks.                                  *)
LEMMA OwnedBlocks ==
  ASSUME Types, NEW B, Good(Desc, groups, freePages, B)
  PROVE  /\ UsedBlocks = {Owned(b) : b \in {c \in B : ~ c.free}}
         /\ FreeBlocks = {Owned(b) : b \in {c \in B : c.free}}
<1>1. /\ DOMAIN Desc = Managed
      /\ \A p \in Managed : Tag(p) = Desc[p].tag
  BY DescFacts
<1>2. ASSUME NEW x \in UsedBlocks PROVE \E b \in B : ~ b.free /\ x = Owned(b)
  <2>1. PICK p \in Managed : Tag(p) = "Alloced" /\ x = [page |-> p, pages |-> UsedPages(p)]
    BY DEF UsedBlocks
  <2>2. PICK b \in B : b.page = p /\ ~ b.free
    <3>1. p \in DOMAIN Desc /\ Desc[p].tag \in {"Free", "Alloced"} /\ Desc[p].tag # "Free"
      BY <1>1, <2>1
    <3> QED
      BY <3>1, FirstPage
  <2>3. UsedPages(p) = b.pages
    BY <2>2, BlockState
  <2> QED
    BY <2>1, <2>2, <2>3 DEF Owned
<1>3. ASSUME NEW b \in B, ~ b.free PROVE Owned(b) \in UsedBlocks
  <2>1. b.page \in Managed /\ Tag(b.page) = "Alloced" /\ UsedPages(b.page) = b.pages
    BY <1>3, BlockState
  <2> QED
    BY <2>1 DEF UsedBlocks, Owned
<1>4. ASSUME NEW x \in FreeBlocks PROVE \E b \in B : b.free /\ x = Owned(b)
  <2>1. PICK k \in Logs : \E p \in freePages[k] : x = [page |-> p, pages |-> Pow2[k]]
    BY DEF FreeBlocks
  <2>2. PICK p \in freePages[k] : x = [page |-> p, pages |-> Pow2[k]]
    BY <2>1
  <2>3. PICK b \in B : b.free /\ b.log = k /\ b.page = p
    <3>1. p \in FreeAt(B, k)
      BY <2>2 DEF Good, Lists
    <3> QED
      BY <3>1 DEF FreeAt
  <2>4. b.pages = Pow2[k]
    <3>1. WellPlaced(b, groups)
      BY DEF Good
    <3> QED
      BY <2>3, <3>1, BlockFacts
  <2> QED
    BY <2>2, <2>3, <2>4 DEF Owned
<1>5. ASSUME NEW b \in B, b.free PROVE Owned(b) \in FreeBlocks
  <2>1. b.log \in Logs /\ b.pages = Pow2[b.log]
    <3>1. WellPlaced(b, groups)
      BY DEF Good
    <3> QED
      BY <1>5, <3>1, BlockFacts
  <2>2. PICK k \in Logs : k = b.log
    BY <2>1
  <2>3. b.page \in freePages[k]
    <3>1. freePages[k] = FreeAt(B, k)
      BY DEF Good, Lists
    <3> QED
      BY <1>5, <2>2, <3>1 DEF FreeAt
  <2>4. Owned(b) \in {[page |-> p, pages |-> Pow2[k]] : p \in freePages[k]}
    BY <2>1, <2>2, <2>3 DEF Owned
  <2> QED
    BY <2>4, Zenon DEF FreeBlocks
<1> QED
  BY <1>2, <1>3, <1>4, <1>5

(* The blocks tile the groups.                                             *)
LEMMA GoodTiles ==
  ASSUME Types, NEW B, Good(Desc, groups, freePages, B)
  PROVE  BlocksTile
<1> DEFINE blocks == UsedBlocks \cup FreeBlocks
           Pages(b) == b.page .. b.page + b.pages - 1
<1>1. \A x \in blocks : \E b \in B : x = Owned(b)
  BY OwnedBlocks
<1>2. \A b \in B : Owned(b) \in blocks
  BY OwnedBlocks
<1> HIDE DEF blocks
<1>3. ASSUME NEW b \in B
      PROVE  /\ b.page \in Nat /\ b.pages \in Nat /\ b.group \in DOMAIN groups
             /\ Owned(b).page = b.page /\ Owned(b).pages = b.pages
             /\ \A q \in Pages(Owned(b)) : q \in Nat /\ In(q, b)
             /\ \A q \in Nat : In(q, b) => q \in Pages(Owned(b))
  <2>1. WellPlaced(b, groups)
    BY DEF Good
  <2>2. b.page \in Nat /\ b.pages \in Nat /\ b.group \in DOMAIN groups
    BY <2>1, BlockFacts
  <2>3. Owned(b).page = b.page /\ Owned(b).pages = b.pages
    BY DEF Owned
  <2> QED
    BY <2>2, <2>3 DEF In
<1>4. \A i \in DOMAIN groups : groups[i].firstPage \in Nat /\ groups[i].afterLastPage \in Nat
  <2>1. \A i \in DOMAIN groups : groups[i] \in Group
    BY DEF Good, GroupsInOrder
  <2> QED
    BY <2>1, ConstantFacts DEF Group
<1>5. ASSUME NEW i \in DOMAIN groups, NEW p \in GroupPages(groups[i])
      PROVE  Cardinality({b \in blocks : p \in Pages(b)}) = 1
  <2>1. p \in Nat
    BY <1>4 DEF GroupPages
  <2>2. PICK b \in B : In(p, b)
    BY DEF Good, Covers
  <2>3. ASSUME NEW x \in blocks, p \in Pages(x) PROVE x = Owned(b)
    <3>1. PICK c \in B : x = Owned(c)
      BY <1>1
    <3>2. In(p, c)
      BY <1>3, <2>3, <3>1
    <3>3. c = b
      BY <2>1, <2>2, <3>2 DEF Good, Disjoint
    <3> QED
      BY <3>1, <3>3
  <2>4. Owned(b) \in blocks /\ p \in Pages(Owned(b))
    BY <1>2, <1>3, <2>1, <2>2
  <2>5. {x \in blocks : p \in Pages(x)} = {Owned(b)}
    <3> HIDE DEF Pages
    <3> QED
      BY <2>3, <2>4
  <2> QED
    BY <2>5, FS_Singleton, Zenon
<1>6. ASSUME NEW x \in blocks
      PROVE  \E i \in DOMAIN groups : Pages(x) \subseteq GroupPages(groups[i]) /\ GroupId(x.page) = i
  <2>1. PICK b \in B : x = Owned(b)
    BY <1>1
  <2>2. GroupId(x.page) = b.group
    BY <1>3, <2>1, BlockState
  <2>3. WellPlaced(b, groups)
    BY DEF Good
  <2>4. Pages(x) \subseteq GroupPages(groups[b.group])
    <3>1. groups[b.group].firstPage <= b.page /\ b.page + b.pages <= groups[b.group].afterLastPage
      BY <2>3 DEF WellPlaced
    <3>2. x.page = b.page /\ x.pages = b.pages
      BY <1>3, <2>1
    <3> QED
      BY <1>3, <1>4, <3>1, <3>2 DEF GroupPages
  <2> QED
    BY <1>3, <2>2, <2>4
<1>7. ASSUME NEW k \in Logs, NEW p \in Managed
      PROVE  p \in freePages[k] <=> Tag(p) = "Free" /\ SizeLog(p) = k
  <2>1. freePages[k] = FreeAt(B, k)
    BY DEF Good, Lists
  <2>2. ASSUME p \in freePages[k] PROVE Tag(p) = "Free" /\ SizeLog(p) = k
    <3>1. PICK b \in B : b.free /\ b.log = k /\ b.page = p
      BY <2>1, <2>2 DEF FreeAt
    <3> QED
      BY <3>1, BlockState
  <2>3. ASSUME Tag(p) = "Free", SizeLog(p) = k PROVE p \in freePages[k]
    <3>1. p \in DOMAIN Desc /\ Desc[p].tag = "Free"
      BY <2>3, DescFacts
    <3>2. PICK b \in B : b.page = p /\ b.free
      BY <3>1, FirstPage
    <3>3. b.log = k
      BY <2>3, <3>2, BlockState
    <3> QED
      BY <2>1, <3>2, <3>3 DEF FreeAt
  <2> QED
    BY <2>2, <2>3
<1> QED
  BY <1>5, <1>6, <1>7 DEF BlocksTile, blocks

-----------------------------------------------------------------------------
(* A block is taken.                                                       *)

(* The descriptions as a view and as an array say the same.                *)
LEMMA DescArray ==
  ASSUME Types, NEW B, Good(Desc, groups, freePages, B)
  PROVE  /\ Indexed(extl) /\ firstPage \in Nat /\ Desc = View(extl, firstPage)
         /\ \A i \in DOMAIN extl : extl[i] \in ExtlData /\ i \in Int
<1>1. Indexed(extl) /\ firstPage \in Nat
  BY DEF Types
<1>2. Desc \in [DOMAIN Desc -> ExtlData]
  BY DEF Good
<1>3. Desc = View(extl, firstPage)
  BY DEF Desc
<1>4. ASSUME NEW i \in DOMAIN extl PROVE extl[i] \in ExtlData /\ i \in Int
  <2>1. PICK q : q = i + firstPage
    OBVIOUS
  <2>2. q \in DOMAIN Desc /\ i \in Nat
    BY <1>1, <1>3, <2>1, ViewFacts
  <2>3. Desc[q] = extl[q - firstPage]
    <3>1. q \in DOMAIN View(extl, firstPage)
      BY <1>3, <2>2
    <3>2. View(extl, firstPage)[q] = extl[q - firstPage]
      BY <1>1, <3>1, ViewFacts
    <3> QED
      BY <1>3, <3>2
  <2>4. q - firstPage = i
    BY <1>1, <2>1, <2>2
  <2> QED
    BY <1>2, <2>2, <2>3, <2>4
<1> QED
  BY <1>1, <1>3, <1>4

\* The blocks after halving b
Halved(B, b, p, w, j, g) == (B \ {b}) \cup SplitBlocks(p, w, j, g)

(* Split, page by page.                                                    *)
LEMMA SplitView ==
  ASSUME Types, WantInOrder, NEW B, Good(Desc, groups, freePages, B), NEW b \in B, b.free,
         NEW p, p = b.page, NEW j, j = b.log, want.log <= j,
         NEW Y, Y = Split(p, j), NEW H, H = FreeAfterSplit(p, j), NEW E, E = View(Y, firstPage)
  PROVE  /\ Indexed(Y) /\ DOMAIN Y = DOMAIN extl
         /\ \A i \in DOMAIN Y : Y[i] \in ExtlData
         /\ Good(E, groups, H, Halved(B, b, p, want.log, j, b.group))
<1> DEFINE w == want.log
           D == Desc
           half(q) == {k \in w .. j - 1 : q = p + Pow2[k]}
           split(d, q) ==
             CASE q = p -> [d EXCEPT !.tag = "Alloced", !.sizeLog = w]
               [] half(q) # {} -> [d EXCEPT !.tag = "Free", !.groupId = b.group,
                                             !.sizeLog = CHOOSE k \in half(q) : TRUE]
               [] OTHER -> d
<1>1. WellPlaced(b, groups) /\ Shown(D, b) /\ DOMAIN D \subseteq Nat /\ D \in [DOMAIN D -> ExtlData]
      /\ GroupsInOrder(groups)
  BY DEF Good
<1>2. /\ p \in Nat /\ j \in Nat /\ j \in Logs /\ b.pages = Pow2[j] /\ In(p, b) /\ b.group \in DOMAIN groups
      /\ w \in Logs /\ w \in Nat /\ w <= j
  <2>1. w \in Logs
    BY DEF WantInOrder
  <2> QED
    BY <1>1, <2>1, BlockFacts, ConstantFacts
<1>3. b.group \in Nat
  BY <1>1, <1>2 DEF GroupsInOrder
<1>4. p \in Managed /\ GroupId(p) = b.group /\ p \in DOMAIN D /\ D[p].groupId = b.group
  <2>1. p \in Managed /\ GroupId(p) = b.group
    BY BlockState
  <2> QED
    BY <2>1, DescFacts
<1>5. /\ Indexed(extl) /\ firstPage \in Nat /\ D = View(extl, firstPage)
      /\ \A i \in DOMAIN extl : extl[i] \in ExtlData /\ i \in Int
  BY DescArray
<1>6. DOMAIN Y = DOMAIN extl
  BY DEF Split
<1>7. Indexed(Y)
  BY <1>5, <1>6 DEF Indexed
<1>8. DOMAIN E = DOMAIN D
  BY <1>5, <1>6 DEF View
<1>9. ASSUME NEW i \in DOMAIN extl PROVE Y[i] = split(extl[i], i + firstPage)
  BY <1>4, <1>9 DEF Split
<1>10. ASSUME NEW k \in w .. j - 1
       PROVE  /\ k \in Nat /\ k \in Logs /\ Pow2[k] \in Nat \ {0} /\ p + Pow2[k] \in DOMAIN D
              /\ k \in half(p + Pow2[k])
              /\ \A l \in half(p + Pow2[k]) : l = k
  <2>1. k \in Nat /\ k < j /\ k \in Logs
    BY <1>2, ConstantFacts DEF Logs
  <2>2. Pow2[k] \in Nat \ {0} /\ 2 * Pow2[k] <= Pow2[j] /\ Pow2[j] \in Nat
    <3>1. Pow2[k] \in Nat \ {0} /\ Pow2[j] \in Nat
      BY <1>2, <2>1, PowerFacts
    <3>2. k <= j
      BY <1>2, <2>1
    <3>3. 2 * Pow2[k] <= Pow2[j]
      BY <1>2, <2>1, <3>2, PowerOrder
    <3> QED
      BY <3>1, <3>3
  <2>3. p + Pow2[k] \in Nat /\ In(p + Pow2[k], b)
    BY <1>2, <2>2 DEF In
  <2>4. p + Pow2[k] \in DOMAIN D
    BY <1>1, <2>3 DEF Shown
  <2>5. ASSUME NEW l \in half(p + Pow2[k]) PROVE l = k
    <3>1. l \in Nat /\ p + Pow2[k] = p + Pow2[l]
      BY <1>2
    <3>2. Pow2[l] \in Nat
      BY <3>1, PowerFacts
    <3>3. Pow2[k] = Pow2[l]
      BY <1>2, <2>2, <3>1, <3>2
    <3> QED
      BY <2>1, <3>1, <3>3, PowersDiffer
  <2> QED
    BY <2>1, <2>2, <2>4, <2>5
<1>11. ASSUME NEW q, \A k \in w .. j - 1 : q # p + Pow2[k] PROVE half(q) = {}
  BY <1>11
<1>12. ASSUME NEW k \in w .. j - 1 PROVE (CHOOSE l \in half(p + Pow2[k]) : TRUE) = k
  <2>1. PICK S : S = half(p + Pow2[k])
    OBVIOUS
  <2>2. k \in S /\ \A l \in S : l = k
    BY <1>10, <2>1
  <2>3. (CHOOSE l \in S : TRUE) \in S
    BY <2>2
  <2> QED
    BY <2>1, <2>2, <2>3
<1>13. ASSUME NEW q \in DOMAIN D PROVE E[q] = split(D[q], q) /\ D[q] \in ExtlData
  <2>1. q \in Nat /\ q - firstPage \in DOMAIN extl /\ D[q] = extl[q - firstPage] /\ D[q] \in ExtlData
    <3>1. q \in Nat /\ q - firstPage \in DOMAIN extl /\ D[q] = extl[q - firstPage]
      <4>1. q \in DOMAIN View(extl, firstPage)
        BY <1>5
      <4>2. q \in Nat /\ q - firstPage \in DOMAIN extl /\ View(extl, firstPage)[q] = extl[q - firstPage]
        BY <1>5, <4>1, ViewFacts, Zenon
      <4> QED
        BY <1>5, <4>2, Zenon
    <3>2. D[q] \in ExtlData
      BY <1>1
    <3> QED
      BY <3>1, <3>2
  <2>2. E[q] = Y[q - firstPage]
    <3>1. q \in DOMAIN View(Y, firstPage)
      BY <1>8
    <3>2. View(Y, firstPage)[q] = Y[q - firstPage]
      BY <1>5, <1>7, <3>1, ViewFacts, Zenon
    <3> QED
      BY <3>2
  <2>3. (q - firstPage) + firstPage = q
    BY <1>5, <2>1
  <2>4. Y[q - firstPage] = split(extl[q - firstPage], (q - firstPage) + firstPage)
    <3> HIDE DEF split
    <3> QED
      BY <1>9, <2>1
  <2> HIDE DEF split
  <2> QED
    BY <2>1, <2>2, <2>3, <2>4
<1>14. E[p] = [D[p] EXCEPT !.tag = "Alloced", !.sizeLog = w]
  <2>1. E[p] = split(D[p], p)
    BY <1>4, <1>13
  <2>2. half(p) = {}
    <3>1. ASSUME NEW k \in w .. j - 1, p = p + Pow2[k] PROVE FALSE
      BY <1>2, <1>10, <3>1
    <3> QED
      BY <3>1
  <2> HIDE DEF half
  <2> QED
    BY <2>1, <2>2
<1>15. ASSUME NEW k \in w .. j - 1
       PROVE  E[p + Pow2[k]] = [D[p + Pow2[k]] EXCEPT !.tag = "Free", !.groupId = b.group, !.sizeLog = k]
  <2>1. PICK q : q = p + Pow2[k]
    OBVIOUS
  <2>2. E[q] = split(D[q], q)
    <3> HIDE DEF split
    <3> QED
      BY <1>10, <1>13, <2>1
  <2>3. q # p
    BY <1>2, <1>10, <2>1
  <2>4. half(q) # {} /\ (CHOOSE l \in half(q) : TRUE) = k
    <3> HIDE DEF half
    <3> QED
      BY <1>10, <1>12, <2>1
  <2> HIDE DEF half
  <2> QED
    BY <2>1, <2>2, <2>3, <2>4
<1>16. ASSUME NEW q \in DOMAIN D, q # p, \A k \in w .. j - 1 : q # p + Pow2[k] PROVE E[q] = D[q]
  <2>1. E[q] = split(D[q], q) /\ half(q) = {}
    BY <1>11, <1>13, <1>16
  <2> HIDE DEF half
  <2> QED
    BY <1>16, <2>1
<1>17. \A q \in DOMAIN D : E[q] \in ExtlData
  <2>1. ASSUME NEW q \in DOMAIN D PROVE E[q] \in ExtlData
    <3>0. D[q] \in ExtlData
      BY <1>13
    <3>1. CASE q = p
      BY <1>2, <1>14, <3>0, <3>1 DEF ExtlData, Tags
    <3>2. CASE \E k \in w .. j - 1 : q = p + Pow2[k]
      <4>1. PICK k \in w .. j - 1 : q = p + Pow2[k]
        BY <3>2
      <4>2. E[q] = [D[q] EXCEPT !.tag = "Free", !.groupId = b.group, !.sizeLog = k] /\ k \in Logs
        BY <1>10, <1>15, <4>1
      <4> QED
        BY <1>3, <3>0, <4>2 DEF ExtlData, Tags
    <3> QED
      BY <1>16, <3>0, <3>1, <3>2
  <2> QED
    BY <2>1
<1>18. \A i \in DOMAIN Y : Y[i] \in ExtlData
  <2>1. ASSUME NEW i \in DOMAIN Y PROVE Y[i] \in ExtlData
    <3>1. PICK q : q = i + firstPage
      OBVIOUS
    <3>2. q \in DOMAIN E /\ i \in Nat
      BY <1>5, <1>7, <3>1, ViewFacts
    <3>3. E[q] = Y[q - firstPage] /\ q - firstPage = i
      BY <1>5, <1>7, <3>1, <3>2, ViewFacts
    <3> QED
      BY <1>8, <1>17, <3>2, <3>3
  <2> QED
    BY <2>1
<1> HIDE DEF split, half
<1>19. E[p].tag = "Alloced" /\ E[p].sizeLog = w /\ E[p].groupId = D[p].groupId
  <2>1. D[p] \in ExtlData
    BY <1>4, <1>13
  <2> QED
    BY <1>14, <2>1 DEF ExtlData
<1>20. \A k \in w .. j - 1 : /\ E[p + Pow2[k]].tag = "Free" /\ E[p + Pow2[k]].sizeLog = k
                             /\ E[p + Pow2[k]].groupId = D[p].groupId
  <2>1. ASSUME NEW k \in w .. j - 1
        PROVE  /\ E[p + Pow2[k]].tag = "Free" /\ E[p + Pow2[k]].sizeLog = k
               /\ E[p + Pow2[k]].groupId = D[p].groupId
    <3>1. D[p + Pow2[k]] \in ExtlData
      BY <1>10, <1>13
    <3> QED
      BY <1>4, <1>15, <3>1, ZenonT(60) DEF ExtlData
  <2> QED
    BY <2>1
<1>21. E \in [DOMAIN D -> ExtlData]
  <2>1. E = [q \in DOMAIN E |-> E[q]]
    BY DEF View
  <2> QED
    BY <1>8, <1>17, <2>1
<1>22. H = [k \in Logs |-> CASE k = j -> freePages[k] \ {p}
                             [] w <= k /\ k < j -> freePages[k] \cup {p + Pow2[k]}
                             [] OTHER -> freePages[k]]
  BY DEF FreeAfterSplit
<1> HIDE DEF w, D
<1>23. Good(D, groups, freePages, B)
  BY DEF D
<1>24. \A q \in DOMAIN D : q # p /\ (\A k \in w .. j - 1 : q # p + Pow2[k]) => E[q] = D[q]
  BY <1>16
<1>25. Good(E, groups, H, (B \ {b}) \cup SplitBlocks(p, w, j, b.group))
  BY <1>2, <1>8, <1>19, <1>20, <1>21, <1>22, <1>23, <1>24, SplitKeeps
<1> QED
  BY <1>6, <1>7, <1>18, <1>25 DEF w, Halved

\* An array with one element changed
Changed(X, i, v) == [X EXCEPT ![i] = v]

(* One description is changed.                                             *)
LEMMA ViewExcept ==
  ASSUME NEW X, Indexed(X), NEW base \in Nat, NEW D, D = View(X, base), NEW p \in DOMAIN D, NEW v,
         NEW Y, Y = Changed(X, p - base, v), NEW E, E = View(Y, base)
  PROVE  /\ Indexed(Y) /\ DOMAIN Y = DOMAIN X /\ DOMAIN E = DOMAIN D
         /\ p - base \in DOMAIN X /\ D[p] = X[p - base]
         /\ E[p] = v /\ \A q \in DOMAIN D : q # p => E[q] = D[q]
<1>1. DOMAIN Y = DOMAIN X
  BY DEF Changed
<1>2. Indexed(Y) /\ DOMAIN E = DOMAIN D
  BY <1>1 DEF Indexed, View
<1>3. ASSUME NEW q \in DOMAIN D
      PROVE  q \in Nat /\ q - base \in DOMAIN X /\ D[q] = X[q - base] /\ E[q] = Y[q - base]
  <2>1. q \in DOMAIN View(X, base) /\ q \in DOMAIN View(Y, base)
    BY <1>2
  <2>2. q \in Nat /\ q - base \in DOMAIN X /\ View(X, base)[q] = X[q - base]
    BY <2>1, ViewFacts, Zenon
  <2>3. View(Y, base)[q] = Y[q - base]
    BY <1>2, <2>1, ViewFacts, Zenon
  <2> QED
    BY <2>2, <2>3
<1>4. E[p] = v
  BY <1>3 DEF Changed
<1>5. ASSUME NEW q \in DOMAIN D, q # p PROVE E[q] = D[q]
  <2>1. q - base # p - base
    BY <1>3, <1>5
  <2> QED
    BY <1>3, <2>1 DEF Changed
<1> QED
  BY <1>1, <1>2, <1>3, <1>4, <1>5

(* A view has the types of its array.                                      *)
LEMMA ViewTyped ==
  ASSUME NEW X, Indexed(X), NEW base \in Nat
  PROVE  (\A i \in DOMAIN X : X[i] \in ExtlData) <=> View(X, base) \in [DOMAIN View(X, base) -> ExtlData]
<1> DEFINE D == View(X, base)
<1>1. \A q \in DOMAIN D : q \in Nat /\ q - base \in DOMAIN X /\ D[q] = X[q - base]
  BY ViewFacts
<1>2. \A i \in DOMAIN X : i + base \in DOMAIN D /\ i \in Nat /\ (i + base) - base = i
  BY ViewFacts
<1>3. D = [q \in DOMAIN D |-> D[q]]
  BY DEF View
<1> HIDE DEF D
<1>4. ASSUME \A i \in DOMAIN X : X[i] \in ExtlData PROVE D \in [DOMAIN D -> ExtlData]
  BY <1>1, <1>3, <1>4
<1>5. ASSUME D \in [DOMAIN D -> ExtlData], NEW i \in DOMAIN X PROVE X[i] \in ExtlData
  <2>1. D[i + base] \in ExtlData /\ D[i + base] = X[(i + base) - base]
    BY <1>1, <1>2, <1>5
  <2> QED
    BY <1>2, <2>1
<1>6. (\A i \in DOMAIN X : X[i] \in ExtlData) <=> D \in [DOMAIN D -> ExtlData]
  BY <1>4, <1>5
<1> QED
  BY <1>6 DEF D

(* What CutOff does to the descriptions.                                   *)
LEMMA CutOffView ==
  ASSUME NEW X, Indexed(X), NEW base \in Nat, NEW D, D = View(X, base), NEW G, NEW F, NEW B, Good(D, G, F, B),
         NEW p, NEW w \in Logs, NEW g, NEW a \in B,
         a = Used(p, w, Pow2[w], g),
         NEW n \in Nat, n # 0, n < Pow2[w], w > 0 => Pow2[w - 1] < n, D[p].sizePages = n,
         NEW half, half = p + Pow2[w - 1], NEW end, end = p + n, NEW to, to = p + Pow2[w],
         NEW Y, Y = InitPages(X, base, g, half, end, "PartOfAlloced", "PartOfAlloced"),
         NEW Z, Z = InitPages(Y, base, g, end, to, "Free", "PartOf"), NEW E, E = View(Z, base),
         NEW c, c = Used(p, w, n, g),
         NEW H, H = WithFree(F, end, to)
  PROVE  /\ Indexed(Z)
         /\ Good(E, G, H, CutUp(B, a, c, end, to, g))
<1>1. WellPlaced(a, G) /\ Shown(D, a) /\ D \in [DOMAIN D -> ExtlData] /\ GroupsInOrder(G)
  BY DEF Good
<1>2. a.page = p /\ a.log = w /\ a.pages = Pow2[w] /\ a.free = FALSE /\ a.group = g
  BY DEF Used
<1>3. p \in Nat /\ g \in DOMAIN G /\ g \in Nat
  BY <1>1, <1>2, BlockFacts DEF GroupsInOrder
<1>4. /\ w \in Nat /\ w > 0 /\ w - 1 \in Nat /\ w <= MaxLog /\ Pow2[w] \in Nat \ {0} /\ Pow2[w - 1] \in Nat \ {0}
      /\ Pow2[w] = 2 * Pow2[w - 1] /\ Pow2[w - 1] < n
  <2>1. w \in Nat /\ w <= MaxLog
    BY ConstantFacts
  <2>2. w > 0
    BY <2>1, PowerFacts
  <2>3. w - 1 \in Nat /\ (w - 1) + 1 = w
    BY <2>1, <2>2
  <2> QED
    BY <2>1, <2>2, <2>3, PowerFacts
<1>5. half \in Nat /\ end \in Nat /\ to \in Nat /\ p < half /\ half < end /\ end < to
  BY <1>3, <1>4
<1>6. ASSUME NEW f \in Nat, NEW t \in Nat, half <= f, t <= to, NEW b \in BlocksOf(f, t) PROVE b.log <= MaxLog
  <2>1. t <= f + Pow2[w]
    BY <1>3, <1>4, <1>5, <1>6
  <2>2. b.log \in Nat /\ b.log <= w
    BY <1>4, <2>1, BlocksFacts, BlocksSize
  <2> QED
    BY <1>4, <2>2, ConstantFacts
<1>7. Typed(X)
  BY <1>1, ViewTyped DEF Typed
<1>8. PICK M : M = View(Y, base)
  OBVIOUS
<1>9. Small(half, end) /\ Small(end, to)
  BY <1>5, <1>6 DEF Small
<1>10. DOMAIN Y = DOMAIN X /\ Typed(Y) /\ Confined(D, M, half, end) /\ Marked(M, half, end, g)
  BY <1>3, <1>5, <1>7, <1>8, <1>9, InitMarks
<1>11. Indexed(Y)
  BY <1>10 DEF Indexed
<1>12. DOMAIN Z = DOMAIN Y /\ Typed(Z) /\ Confined(M, E, end, to) /\ Cleared(E, end, to, g)
  <2>1. ASSUME NEW q \in end .. to - 1 PROVE q \in DOMAIN D
    <3>1. q \in Nat /\ In(q, a)
      BY <1>2, <1>3, <1>5 DEF In
    <3> QED
      BY <1>1, <3>1 DEF Shown
  <2>2. Inside(M, end, to)
    BY <1>10, <2>1 DEF Confined, Inside
  <2> QED
    BY <1>3, <1>5, <1>8, <1>9, <1>10, <1>11, <2>2, InitClears
<1>13. Indexed(Z) /\ Described(E)
  <2>1. Indexed(Z)
    BY <1>11, <1>12 DEF Indexed
  <2>2. View(Z, base) \in [DOMAIN View(Z, base) -> ExtlData]
    BY <1>12, <2>1, ViewTyped DEF Typed
  <2> QED
    BY <2>1, <2>2 DEF Described
<1>14. Confined(D, E, half, to)
  <2>1. ASSUME NEW q \in DOMAIN D, q \notin half .. to - 1 PROVE E[q] = D[q]
    <3>1. q \notin end .. to - 1 /\ q \notin half .. end - 1
      BY <1>5, <2>1
    <3> QED
      BY <1>10, <1>12, <3>1 DEF Confined
  <2> QED
    BY <1>10, <1>12, <2>1 DEF Confined
<1>15. Marked(E, half, end, g)
  <2>1. ASSUME NEW q \in DOMAIN E, q \in half .. end - 1 PROVE E[q].tag = "PartOfAlloced" /\ E[q].groupId = g
    <3>1. q \notin end .. to - 1
      BY <1>5, <2>1
    <3> QED
      BY <1>10, <1>12, <2>1, <3>1 DEF Confined, Marked
  <2> QED
    BY <2>1 DEF Marked
<1>17. Good(E, G, H, (B \ {a}) \cup ({c} \cup FreshBlocks(end, to, g)))
  BY <1>4, <1>12, <1>13, <1>14, <1>15, CutOffKeeps, ZenonT(60)
<1> QED
  BY <1>13, <1>17 DEF CutUp

InUse(B) == {b \in B : ~ b.free}

\* The block b is taken for a request; A is what is left.
Took(B, b, A, log, pages) ==
  /\ b.free /\ log <= b.log
  /\ InUse(A) = InUse(B) \cup {Used(b.page, log, IF pages = 0 THEN Pow2[log] ELSE pages, b.group)}

(* Min is what its name says.                                              *)
LEMMA MinFacts ==
  ASSUME NEW S, S \subseteq Nat, S # {}
  PROVE  Min(S) \in S /\ \A x \in S : Min(S) <= x
<1>1. \E x \in S : \A y \in S : x <= y
  BY LeastNatural
<1> QED
  BY <1>1 DEF Min

(* The allocation takes a free block of the smallest size there is.        *)
LEMMA FoundSize ==
  ASSUME WantInOrder, NonEmpty # {}, NEW j, j = FindNonEmptyFreePages
  PROVE  j \in Logs /\ j \in Nat /\ want.log <= j /\ freePages[j] # {} /\ want.log \in Logs /\ want.log \in Nat
<1>1. want.log \in Logs /\ want.log \in Nat
  BY ConstantFacts DEF WantInOrder
<1>2. NonEmpty \subseteq Nat
  BY <1>1, ConstantFacts DEF NonEmpty
<1>3. j \in NonEmpty
  BY <1>2, MinFacts DEF FindNonEmptyFreePages
<1>4. j \in Nat /\ want.log <= j /\ j <= MaxLog /\ freePages[j] # {}
  BY <1>1, <1>3, ConstantFacts DEF NonEmpty
<1> QED
  BY <1>1, <1>4, ConstantFacts DEF Logs

(* What halving leaves in use.                                             *)
LEMMA SplitInUse ==
  ASSUME NEW B, NEW b \in B, b.free, NEW p, NEW w, NEW j, NEW g, NEW A, A = Halved(B, b, p, w, j, g),
         NEW a, a = Used(p, w, Pow2[w], g)
  PROVE  InUse(A) = InUse(B) \cup {a} /\ a \in A
<1> DEFINE lower == Used(p, w, Pow2[w], g)
           upper(k) == [page |-> p + Pow2[k], log |-> k, pages |-> Pow2[k], free |-> TRUE, group |-> g]
<1>1. \A c \in SplitBlocks(p, w, j, g) : c = lower \/ \E k \in w .. j - 1 : c = upper(k)
  BY DEF SplitBlocks, Used
<1>2. lower \in SplitBlocks(p, w, j, g)
  BY DEF SplitBlocks, Used
<1>3. ~ lower.free /\ \A k \in w .. j - 1 : upper(k).free
  BY DEF Used
<1> HIDE DEF lower, upper
<1>4. \A c \in SplitBlocks(p, w, j, g) : ~ c.free <=> c = lower
  BY <1>1, <1>3
<1>5. InUse(A) = InUse(B) \cup {lower}
  BY <1>2, <1>4 DEF InUse, Halved
<1> QED
  BY <1>2, <1>5 DEF lower, Halved

(* What cutting off leaves in use.                                         *)
LEMMA CutOffInUse ==
  ASSUME NEW A, NEW B, NEW a, InUse(A) = InUse(B) \cup {a}, a \notin InUse(B),
         NEW p, NEW w, NEW n, NEW g, NEW from, NEW to, NEW c, c = Used(p, w, n, g), NEW C, C = CutUp(A, a, c, from, to, g)
  PROVE  InUse(C) = InUse(B) \cup {c}
<1>1. \A x \in FreshBlocks(from, to, g) : x.free
  BY DEF FreshBlocks
<1>2. ~ c.free
  BY DEF Used
<1> QED
  BY <1>1, <1>2 DEF InUse, CutUp

(* A request that finds a free block is served.                            *)
LEMMA TakeBlockStep ==
  ASSUME Types, WantInOrder, NEW B, Good(Desc, groups, freePages, B), TakeBlock
  PROVE  \E b \in B : \E A : /\ Indexed(extl') /\ Good(View(extl', firstPage), groups, freePages', A)
                             /\ Took(B, b, A, want.log, want.pages)
<1>0. PICK w, n : w = want.log /\ n = want.pages
  OBVIOUS
<1>1. PICK j : j = FindNonEmptyFreePages
  OBVIOUS
<1>2. j \in Logs /\ j \in Nat /\ w <= j /\ freePages[j] # {} /\ w \in Logs /\ w \in Nat
  BY <1>0, <1>1, FoundSize DEF TakeBlock
<1>3. /\ n \in Nat /\ (n # 0 => n <= Pow2[w] /\ (w > 0 => Pow2[w - 1] < n))
      /\ Pow2[w] \in Nat \ {0}
  BY <1>0, <1>2, PowerFacts DEF WantInOrder
<1>4. PICK p \in freePages[j] :
        LET desc == Split(p, j)
            free == FreeAfterSplit(p, j)
            sized == [desc EXCEPT ![p - firstPage].sizePages = n]
        IN  IF n \in {0, Pow2[w]}
            THEN /\ extl' = IF n = 0 THEN desc ELSE sized
                 /\ freePages' = free
            ELSE CutOff(p, sized, free)
  BY <1>0, <1>1 DEF TakeBlock
<1>5. PICK b \in B : b.free /\ b.log = j /\ b.page = p
  <2>1. freePages[j] = FreeAt(B, j)
    BY <1>2 DEF Good, Lists
  <2> QED
    BY <2>1 DEF FreeAt
<1>6. PICK Y, H, E, A : /\ Y = Split(p, j) /\ H = FreeAfterSplit(p, j) /\ E = View(Y, firstPage)
                        /\ A = Halved(B, b, p, w, j, b.group)
  OBVIOUS
<1>7. Indexed(Y) /\ Good(E, groups, H, A)
  BY <1>0, <1>2, <1>5, <1>6, SplitView
<1>8. PICK a : a = Used(p, w, Pow2[w], b.group)
  OBVIOUS
<1>9. InUse(A) = InUse(B) \cup {a} /\ a \in A
  <2>1. PICK g : g = b.group
    OBVIOUS
  <2>2. A = Halved(B, b, p, w, j, g)
    BY <1>6, <2>1
  <2>3. a = Used(p, w, Pow2[w], g)
    BY <1>8, <2>1
  <2> QED
    BY <1>5, <2>2, <2>3, SplitInUse
<1>10. a.page = p /\ a.pages = Pow2[w] /\ a.log = w /\ Whole(a)
  BY <1>8 DEF Used, Whole
<1>11. CASE n = 0
  <2>1. extl' = Y /\ freePages' = H
    BY <1>4, <1>6, <1>11
  <2>2. Took(B, b, A, w, n)
    BY <1>2, <1>5, <1>8, <1>9, <1>11 DEF Took
  <2> QED
    BY <1>0, <1>6, <1>7, <2>1, <2>2
<1>12. firstPage \in Nat
  BY DEF Types
<1>13. p \in DOMAIN E /\ E[p] \in ExtlData
  <2>1. WellPlaced(a, groups) /\ Shown(E, a) /\ E \in [DOMAIN E -> ExtlData]
    BY <1>7, <1>9 DEF Good
  <2>2. p \in Nat /\ In(p, a)
    BY <1>10, <2>1, BlockFacts
  <2> QED
    BY <2>1, <2>2 DEF Shown
<1>14. PICK X, v, D : /\ v = [Y[p - firstPage] EXCEPT !.sizePages = n]
                      /\ X = Changed(Y, p - firstPage, v) /\ D = View(X, firstPage)
  OBVIOUS
<1>15. X = [Y EXCEPT ![p - firstPage].sizePages = n]
  BY <1>14 DEF Changed
<1>16. /\ Indexed(X) /\ DOMAIN D = DOMAIN E /\ E[p] = Y[p - firstPage]
       /\ D[p] = v /\ \A q \in DOMAIN E : q # p => D[q] = E[q]
  BY <1>6, <1>7, <1>12, <1>13, <1>14, ViewExcept
<1>17. D[p] = [E[p] EXCEPT !.sizePages = n] /\ D[p].sizePages = n /\ D[p] \in ExtlData
  BY <1>3, <1>13, <1>14, <1>16 DEF ExtlData
<1>18. Good(D, groups, H, A)
  <2>1. D \in [DOMAIN E -> ExtlData]
    <3>1. D = [q \in DOMAIN D |-> D[q]]
      BY <1>14 DEF View
    <3>2. E \in [DOMAIN E -> ExtlData]
      BY <1>7 DEF Good
    <3> QED
      BY <1>16, <1>17, <3>1, <3>2
  <2> QED
    BY <1>3, <1>7, <1>9, <1>10, <1>16, <1>17, <2>1, SizedKeeps
<1>19. CASE n # 0 /\ n = Pow2[w]
  <2>1. extl' = X /\ freePages' = H
    BY <1>4, <1>6, <1>15, <1>19
  <2>2. Took(B, b, A, w, n)
    BY <1>2, <1>5, <1>8, <1>9, <1>19 DEF Took
  <2> QED
    BY <1>0, <1>14, <1>16, <1>18, <2>1, <2>2
<1>20. CASE n # 0 /\ n # Pow2[w]
  <2>1. CutOff(p, X, H)
    BY <1>4, <1>6, <1>15, <1>20
  <2>2. PICK g, half, end, to : g = b.group /\ half = p + Pow2[w - 1] /\ end = p + n /\ to = p + Pow2[w]
    OBVIOUS
  <2>3. GroupId(p) = g
    BY <1>5, <2>2, BlockState
  <2>4. PICK M : M = InitPages(X, firstPage, g, half, end, "PartOfAlloced", "PartOfAlloced")
    OBVIOUS
  <2>5. extl' = InitPages(M, firstPage, g, end, to, "Free", "PartOf") /\ freePages' = WithFree(H, end, to)
    BY <1>0, <2>1, <2>2, <2>3, <2>4 DEF CutOff
  <2>6. PICK Z, c, F, C : /\ Z = extl' /\ c = Used(p, w, n, g) /\ F = WithFree(H, end, to)
                          /\ C = CutUp(A, a, c, end, to, g)
    OBVIOUS
  <2>7. Indexed(Z) /\ Good(View(Z, firstPage), groups, F, C)
    <3>1. PICK N : N = View(Z, firstPage)
      OBVIOUS
    <3>2. n < Pow2[w]
      BY <1>3, <1>20
    <3>3. Z = InitPages(M, firstPage, g, end, to, "Free", "PartOf")
      BY <2>5, <2>6
    <3>4. a = Used(p, w, Pow2[w], g)
      BY <1>8, <2>2
    <3>5. Indexed(Z) /\ Good(N, groups, F, C)
      BY <1>2, <1>3, <1>9, <1>12, <1>14, <1>16, <1>17, <1>18, <1>20, <2>2, <2>4, <2>6, <3>1, <3>2, <3>3, <3>4, CutOffView
    <3> QED
      BY <3>1, <3>5
  <2>8. a \notin InUse(B)
    <3>1. ASSUME a \in B, ~ a.free PROVE FALSE
      <4>1. \A x \in B : WellPlaced(x, groups)
        BY DEF Good
      <4>2. Disjoint(B)
        BY DEF Good
      <4>3. a = b
        BY <1>5, <1>10, <3>1, <4>1, <4>2, SamePage
      <4> QED
        BY <1>5, <3>1, <4>3
    <3> QED
      BY <3>1 DEF InUse
  <2>9. InUse(C) = InUse(B) \cup {c}
    BY <1>9, <2>6, <2>8, CutOffInUse
  <2>10. Took(B, b, C, w, n)
    BY <1>2, <1>5, <1>20, <2>2, <2>6, <2>9 DEF Took
  <2> QED
    BY <1>0, <2>5, <2>6, <2>7, <2>10
<1> QED
  BY <1>11, <1>19, <1>20

\* Nothing is cleared from a page to itself.
LEMMA ClearedNothing ==
  ASSUME NEW E, NEW p \in Nat, NEW g
  PROVE  Cleared(E, p, p, g) /\ BlocksOf(p, p) = {}
<1>1. p .. p - 1 = {}
  OBVIOUS
<1>2. BlocksOf(p, p) = {}
  BY <1>1 DEF BlocksOf
<1> QED
  BY <1>1, <1>2 DEF Cleared

\* The block b is returned; A is what there is then.
Returned(B, b, A) == ~ b.free /\ InUse(A) = InUse(B) \ {b}

(* What is left in use of a block that is returned: nothing.               *)
LEMMA FreeInUse ==
  ASSUME NEW B, NEW b \in B, ~ b.free, NEW c, NEW p, NEW k, NEW g, c = Unused(p, k, g),
         NEW A, NEW from, NEW to, A = CutUp(B, b, c, from, to, g)
  PROVE  Returned(B, b, A)
<1>1. \A x \in FreshBlocks(from, to, g) : x.free
  BY DEF FreshBlocks
<1>2. c.free
  BY DEF Unused
<1> QED
  BY <1>1, <1>2 DEF InUse, CutUp, Returned

(* A block that is returned is free.                                       *)
LEMMA DeallocStep ==
  ASSUME Types, NEW B, Good(Desc, groups, freePages, B), DeallocPages
  PROVE  \E b \in B : \E A : /\ Indexed(extl') /\ Good(View(extl', firstPage), groups, freePages', A)
                             /\ Returned(B, b, A)
<1>1. PICK p \in Managed :
        /\ Tag(p) = "Alloced" /\ HalfOf(p) \in Managed
        /\ LET log == IF IsCutOff(p) THEN (IF SizeLog(p) = 0 THEN 0 ELSE SizeLog(p) - 1)
                                     ELSE SizeLog(p)
               end == p + ExtlDataOfPage(p).sizePages
               first == [extl EXCEPT ![p - firstPage].tag = "Free",
                                     ![p - firstPage].sizeLog = log]
               free == [freePages EXCEPT ![log] = @ \cup {p}]
           IN  IF IsCutOff(p)
               THEN /\ extl' = InitPages(first, firstPage, GroupId(p), HalfOf(p), end,
                                         "Free", "PartOf")
                    /\ freePages' = WithFree(free, HalfOf(p), end)
               ELSE extl' = first /\ freePages' = free
  BY DEF DeallocPages
<1>2. PICK b \in B : b.page = p /\ ~ b.free
  <2>1. p \in DOMAIN Desc /\ Desc[p].tag = "Alloced"
    BY <1>1, DescFacts
  <2> QED
    BY <2>1, FirstPage
<1>3. /\ SizeLog(p) = b.log /\ GroupId(p) = b.group /\ (IsCutOff(p) <=> ~ Whole(b))
      /\ ~ Whole(b) => ExtlDataOfPage(p).sizePages = b.pages
  BY <1>2, BlockState
<1>4. WellPlaced(b, groups) /\ Shown(Desc, b) /\ GroupsInOrder(groups)
  BY DEF Good
<1>5. /\ p \in Nat /\ b.log \in Nat /\ b.log \in Logs /\ b.group \in DOMAIN groups /\ b.pages \in Nat \ {0}
      /\ b.pages <= Pow2[b.log] /\ In(p, b)
  BY <1>2, <1>4, BlockFacts
<1>6. b.group \in Nat
  BY <1>4, <1>5 DEF GroupsInOrder
<1>7. PICK k, mid, end, g : /\ k = (IF Whole(b) THEN b.log ELSE b.log - 1) /\ mid = p + Pow2[k]
                            /\ end = p + b.pages /\ g = b.group
  OBVIOUS
<1>8. /\ k \in Nat /\ k \in Logs /\ Pow2[k] \in Nat \ {0} /\ Pow2[k] <= b.pages
      /\ ~ Whole(b) => b.log # 0
      /\ mid \in Nat /\ end \in Nat /\ p < mid /\ mid <= end /\ (Whole(b) => mid = end)
  <2>1. Whole(b) \/ Part(b)
    BY <1>4 DEF WellPlaced
  <2>2. k \in Nat /\ k <= b.log /\ (~ Whole(b) => b.log # 0 /\ Pow2[k] < b.pages)
    BY <1>5, <1>7, <2>1 DEF Part
  <2>3. k \in Logs /\ Pow2[k] \in Nat \ {0}
    BY <1>5, <2>2, ConstantFacts, PowerFacts DEF Logs
  <2>4. Whole(b) => Pow2[k] = b.pages
    BY <1>7 DEF Whole
  <2> QED
    BY <1>5, <1>7, <2>2, <2>3, <2>4
<1>9. /\ Indexed(extl) /\ firstPage \in Nat /\ Desc = View(extl, firstPage) /\ Typed(extl)
  BY DescArray DEF Typed
<1>10. p \in DOMAIN Desc /\ Desc[p] \in ExtlData
  BY <1>2, <1>4, <1>5 DEF Shown, Good
<1>11. PICK v, X, D : /\ v = [extl[p - firstPage] EXCEPT !.tag = "Free", !.sizeLog = k]
                      /\ X = Changed(extl, p - firstPage, v) /\ D = View(X, firstPage)
  OBVIOUS
<1>12. X = [extl EXCEPT ![p - firstPage].tag = "Free", ![p - firstPage].sizeLog = k]
  BY <1>11 DEF Changed
<1>13. /\ Indexed(X) /\ DOMAIN D = DOMAIN Desc /\ Desc[p] = extl[p - firstPage]
       /\ D[p] = v /\ \A q \in DOMAIN Desc : q # p => D[q] = Desc[q]
  BY <1>9, <1>10, <1>11, ViewExcept
<1>14. D[p].tag = "Free" /\ D[p].sizeLog = k /\ D[p].groupId = Desc[p].groupId /\ D[p] \in ExtlData
  <2>1. PICK d : d = extl[p - firstPage]
    OBVIOUS
  <2>2. d \in ExtlData /\ d = Desc[p] /\ D[p] = [d EXCEPT !.tag = "Free", !.sizeLog = k]
    BY <1>10, <1>11, <1>13, <2>1
  <2>3. [d EXCEPT !.tag = "Free", !.sizeLog = k] \in ExtlData
    BY <1>8, <2>2 DEF ExtlData, Tags
  <2>4. /\ [d EXCEPT !.tag = "Free", !.sizeLog = k].tag = "Free"
        /\ [d EXCEPT !.tag = "Free", !.sizeLog = k].sizeLog = k
        /\ [d EXCEPT !.tag = "Free", !.sizeLog = k].groupId = d.groupId
    BY <2>2 DEF ExtlData
  <2> QED
    BY <2>2, <2>3, <2>4
<1>15. D \in [DOMAIN Desc -> ExtlData]
  <2>1. D = [q \in DOMAIN D |-> D[q]]
    BY <1>11 DEF View
  <2>2. Desc \in [DOMAIN Desc -> ExtlData]
    BY DEF Good
  <2> QED
    BY <1>13, <1>14, <2>1, <2>2
<1>16. PICK F : F = [freePages EXCEPT ![k] = @ \cup {p}]
  OBVIOUS
<1>17. freePages \in [Logs -> SUBSET Nat]
  BY DEF Good, Lists
<1>18. PICK c, A : c = Unused(p, k, g) /\ A = CutUp(B, b, c, mid, end, g)
  OBVIOUS
<1>19. Returned(B, b, A)
  BY <1>2, <1>18, FreeInUse
<1>20. CASE Whole(b)
  <2>1. extl' = X /\ freePages' = F
    BY <1>1, <1>3, <1>7, <1>12, <1>16, <1>20
  <2>2. Cleared(D, mid, end, b.group) /\ BlocksOf(mid, end) = {}
    BY <1>8, <1>20, ClearedNothing
  <2>3. Freed(Desc, D, b, k, mid, end)
    BY <1>2, <1>13, <1>14, <1>15, <2>2 DEF Freed
  <2>4. FreedLists(freePages, F, p, k, mid, end)
    BY <1>8, <1>16, <1>17, <2>2 DEF FreedLists
  <2>5. Good(D, groups, F, A)
    BY <1>2, <1>7, <1>18, <2>3, <2>4, FreeKeeps, ZenonT(60)
  <2> QED
    BY <1>11, <1>13, <1>19, <2>1, <2>5
<1>21. CASE ~ Whole(b)
  <2>1. HalfOf(p) = mid
    BY <1>3, <1>7, <1>8, <1>21 DEF HalfOf
  <2>2. extl' = InitPages(X, firstPage, g, mid, end, "Free", "PartOf") /\ freePages' = WithFree(F, mid, end)
    BY <1>1, <1>3, <1>7, <1>8, <1>12, <1>16, <1>21, <2>1
  <2>3. PICK Y, E, H : Y = extl' /\ E = View(Y, firstPage) /\ H = freePages'
    OBVIOUS
  <2>4. Y = InitPages(X, firstPage, g, mid, end, "Free", "PartOf")
    BY <2>2, <2>3
  <2>5. Typed(X)
    BY <1>9, <1>11, <1>13, <1>15, ViewTyped DEF Typed
  <2>6. Small(mid, end)
    <3>1. ASSUME NEW x \in BlocksOf(mid, end) PROVE x.log <= MaxLog
      <4>1. end <= mid + Pow2[b.log] /\ Pow2[b.log] \in Nat
        BY <1>5, <1>7, <1>8, PowerFacts
      <4>2. x.log \in Nat /\ x.log <= b.log
        BY <1>5, <1>8, <4>1, BlocksFacts, BlocksSize
      <4> QED
        BY <1>5, <4>2, ConstantFacts
    <3> QED
      BY <3>1 DEF Small
  <2>7. Inside(D, mid, end)
    <3>1. ASSUME NEW q \in mid .. end - 1 PROVE q \in DOMAIN Desc
      <4>1. q \in Nat /\ In(q, b)
        BY <1>2, <1>5, <1>7, <1>8 DEF In
      <4> QED
        BY <1>4, <4>1 DEF Shown
    <3> QED
      BY <1>13, <3>1 DEF Inside
  <2>8. DOMAIN Y = DOMAIN X /\ Typed(Y) /\ Confined(D, E, mid, end) /\ Cleared(E, mid, end, g)
    BY <1>6, <1>7, <1>8, <1>9, <1>11, <1>13, <2>3, <2>4, <2>5, <2>6, <2>7, InitClears
  <2>9. Indexed(Y)
    BY <1>13, <2>8 DEF Indexed
  <2>10. Freed(Desc, E, b, k, mid, end)
    <3>1. DOMAIN E = DOMAIN Desc
      BY <1>13, <2>8 DEF Confined
    <3>2. E \in [DOMAIN Desc -> ExtlData]
      BY <1>9, <2>3, <2>8, <2>9, <3>1, ViewTyped DEF Typed
    <3>3. E[p] = D[p]
      <4>1. p \notin mid .. end - 1
        BY <1>5, <1>8
      <4> QED
        BY <1>10, <1>13, <2>8, <4>1 DEF Confined
    <3>4. \A q \in DOMAIN Desc : q # p /\ q \notin mid .. end - 1 => E[q] = Desc[q]
      BY <1>13, <2>8 DEF Confined
    <3> QED
      BY <1>2, <1>7, <1>14, <2>8, <3>1, <3>2, <3>3, <3>4 DEF Freed
  <2>11. FreedLists(freePages, H, p, k, mid, end)
    <3>1. \A l \in Logs : F[l] = IF l = k THEN freePages[l] \cup {p} ELSE freePages[l]
      BY <1>16, <1>17
    <3>2. H = [l \in Logs |-> F[l] \cup {x.page : x \in {y \in BlocksOf(mid, end) : y.log = l}}]
      BY <2>2, <2>3 DEF WithFree
    <3> QED
      BY <3>1, <3>2 DEF FreedLists
  <2>12. Good(E, groups, H, A)
    BY <1>2, <1>7, <1>18, <2>10, <2>11, FreeKeeps, ZenonT(60)
  <2> QED
    BY <1>19, <2>3, <2>9, <2>12
<1> QED
  BY <1>20, <1>21

-----------------------------------------------------------------------------
(* Recombination.                                                          *)

\* Free blocks that are each other's halves
Halves(a, b, k) ==
  /\ a.free /\ b.free /\ a.log = k /\ b.log = k /\ a.group = b.group
  /\ b.page = OtherHalfOfPage(a.page, k)

(* The other half of a half is the first one.                              *)
LEMMA OtherOfOther ==
  ASSUME NEW k \in Nat, NEW p \in Nat, p % Pow2[k] = 0, NEW q \in Nat, q = OtherHalfOfPage(p, k)
  PROVE  /\ p = OtherHalfOfPage(q, k)
         /\ p % Pow2[k + 1] = 0 => q = p + Pow2[k]
         /\ p % Pow2[k + 1] # 0 => q = p - Pow2[k] /\ q < p
<1>1. Pow2[k] \in Nat \ {0}
  BY PowerFacts
<1>2. CASE p % Pow2[k + 1] = 0
  <2>1. q = p + Pow2[k]
    BY <1>1, <1>2, HalfOrOther DEF OtherHalfOfPage
  <2>2. q % Pow2[k + 1] # 0 /\ q % Pow2[k] = 0
    BY <1>2, <2>1, HalfOrOther
  <2>3. ~ ((q \div Pow2[k]) % 2 = 0)
    BY <2>2, HalfOrOther
  <2> QED
    BY <1>1, <1>2, <2>1, <2>3 DEF OtherHalfOfPage
<1>3. CASE p % Pow2[k + 1] # 0
  <2>1. q = p - Pow2[k] /\ p >= Pow2[k] /\ (p - Pow2[k]) % Pow2[k + 1] = 0
    BY <1>1, <1>3, HalfOrOther DEF OtherHalfOfPage
  <2>2. q % Pow2[k + 1] = 0
    BY <2>1
  <2>3. q % Pow2[k] = 0
    <3>1. k + 1 \in Nat /\ k <= k + 1
      OBVIOUS
    <3> QED
      BY <2>2, <3>1, AlignedToSmaller
  <2>4. (q \div Pow2[k]) % 2 = 0
    BY <2>2, <2>3, HalfOrOther
  <2> QED
    BY <1>1, <1>3, <2>1, <2>4 DEF OtherHalfOfPage
<1> QED
  BY <1>2, <1>3

(* A page that can be recombined is that of a block whose other half is    *)
(* free.                                                                   *)
LEMMA PairFound ==
  ASSUME Types, NEW B, Good(Desc, groups, freePages, B), NEW k \in Logs,
         NEW p \in freePages[k], CanRecombine(p, k)
  PROVE  \E a, b \in B : Halves(a, b, k) /\ a.page = p
<1>1. PICK a \in B : a.free /\ a.log = k /\ a.page = p
  <2>1. freePages[k] = FreeAt(B, k)
    BY DEF Good, Lists
  <2> QED
    BY <2>1 DEF FreeAt
<1>2. PICK q : q = OtherHalfOfPage(p, k)
  OBVIOUS
<1>3. q \in Managed /\ Tag(q) = "Free" /\ SizeLog(p) = SizeLog(q) /\ GroupId(p) = GroupId(q)
  BY <1>2 DEF CanRecombine
<1>4. PICK b \in B : b.page = q /\ b.free
  <2>1. q \in DOMAIN Desc /\ Desc[q].tag = "Free"
    BY <1>3, DescFacts
  <2> QED
    BY <2>1, FirstPage
<1>5. SizeLog(p) = k /\ GroupId(p) = a.group
  BY <1>1, BlockState
<1>6. SizeLog(q) = b.log /\ GroupId(q) = b.group
  BY <1>4, BlockState
<1> QED
  BY <1>1, <1>2, <1>3, <1>4, <1>5, <1>6 DEF Halves

(* And the other way round.                                                *)
LEMMA PairTaken ==
  ASSUME Types, NEW B, Good(Desc, groups, freePages, B), NEW k \in Logs,
         NEW a \in B, NEW b \in B, Halves(a, b, k)
  PROVE  a.page \in freePages[k] /\ CanRecombine(a.page, k)
<1>1. a.free /\ b.free /\ a.log = k /\ b.log = k /\ a.group = b.group /\ b.page = OtherHalfOfPage(a.page, k)
  BY DEF Halves
<1>2. a.page \in freePages[k]
  <2>1. freePages[k] = FreeAt(B, k)
    BY DEF Good, Lists
  <2> QED
    BY <1>1, <2>1 DEF FreeAt
<1>3. SizeLog(a.page) = k /\ GroupId(a.page) = a.group
  BY <1>1, BlockState
<1>4. b.page \in Managed /\ Tag(b.page) = "Free" /\ SizeLog(b.page) = k /\ GroupId(b.page) = b.group
  BY <1>1, BlockState
<1> QED
  BY <1>1, <1>2, <1>3, <1>4 DEF CanRecombine

(* Two halves of a block are in one group, so that the block is not too    *)
(* large.                                                                  *)
LEMMA HalvesSmall ==
  ASSUME NEW G, GroupsInOrder(G), NEW k \in Logs, NEW a, NEW b, WellPlaced(a, G), WellPlaced(b, G),
         Halves(a, b, k), b.page = a.page + Pow2[k], a.page % Pow2[k + 1] = 0
  PROVE  k + 1 \in Logs
<1>1. /\ a.page \in Nat /\ a.group \in DOMAIN G /\ b.pages = Pow2[k] /\ a.group = b.group
      /\ k \in Nat /\ Pow2[k] \in Nat \ {0} /\ Pow2[k + 1] = 2 * Pow2[k] /\ k + 1 \in Nat
  BY BlockFacts, ConstantFacts, PowerFacts DEF Halves
<1>2. PICK m, from, to : m = G[a.group] /\ from = m.firstPage /\ to = m.afterLastPage
  OBVIOUS
<1>3. m \in Group /\ ~ TooLarge(m)
  BY <1>1, <1>2 DEF GroupsInOrder
<1>4. from \in Nat /\ to \in Nat
  BY <1>2, <1>3, ConstantFacts DEF Group
<1>5. from <= a.page /\ b.page + b.pages <= to
  BY <1>1, <1>2 DEF WellPlaced
<1>6. Fits(a.page, k + 1, from, to)
  BY <1>1, <1>4, <1>5 DEF Fits
<1>7. Within(a.page, a.page, k + 1)
  BY <1>1 DEF Within
<1>8. PICK x \in BlocksOf(from, to) : k + 1 <= x.log
  BY <1>1, <1>4, <1>6, <1>7, BlocksCover
<1>9. x.log \in Nat /\ ~ (x.log > MaxLog)
  BY <1>2, <1>3, <1>4, <1>8, BlocksFacts DEF TooLarge
<1> QED
  BY <1>1, <1>8, <1>9, ConstantFacts DEF Logs

(* What is recombined was and stays free, and no smaller pair turns up.    *)
LEMMA JoinedFree ==
  ASSUME NEW B, NEW a \in B, NEW b \in B, NEW k \in Nat, Halves(a, b, k), NoPairs(B, k),
         NEW c, c = Unused(a.page, k + 1, a.group), NEW A, A = JoinedUp(B, a, b, c)
  PROVE  InUse(A) = InUse(B) /\ NoPairs(A, k)
<1>1. c.free = TRUE /\ c.log = k + 1
  BY DEF Unused
<1>2. a.free /\ b.free
  BY DEF Halves
<1>3. InUse(A) = InUse(B)
  BY <1>1, <1>2 DEF InUse, JoinedUp
<1>4. \A x \in A : x \in B \/ x = c
  BY DEF JoinedUp
<1>5. ~ (c.log < k)
  BY <1>1
<1>6. NoPairs(A, k)
  BY <1>4, <1>5 DEF NoPairs
<1> QED
  BY <1>3, <1>6

\* The pages RecombinePair chooses from
Joinable(k) == {p \in freePages[k] : CanRecombine(p, k)}

(* The pair that is recombined: the lower half is the first page of a      *)
(* block of twice the size.                                                *)
LEMMA LowestPair ==
  ASSUME Types, NEW B, Good(Desc, groups, freePages, B), NEW k \in Logs,
         Joinable(k) # {}, NEW p, p = Min(Joinable(k)), NEW q, q = OtherHalfOfPage(p, k)
  PROVE  /\ \E a, b \in B : Halves(a, b, k) /\ a.page = p /\ b.page = q
         /\ p % Pow2[k + 1] = 0 /\ q = p + Pow2[k]
<1>1. freePages[k] \subseteq Nat
  BY DEF Good, Lists
<1>2. p \in Joinable(k) /\ \A x \in Joinable(k) : p <= x
  <2>1. Joinable(k) \subseteq Nat
    BY <1>1 DEF Joinable
  <2> QED
    BY <2>1, MinFacts
<1>3. p \in freePages[k] /\ CanRecombine(p, k)
  BY <1>2 DEF Joinable
<1>4. PICK a \in B, b \in B : Halves(a, b, k) /\ a.page = p
  BY <1>3, PairFound
<1>5. b.page = q
  BY <1>4 DEF Halves
<1>6. k \in Nat /\ p \in Nat /\ q \in Nat /\ p % Pow2[k] = 0
  <2>1. WellPlaced(a, groups) /\ WellPlaced(b, groups)
    BY DEF Good
  <2>2. a.log = k
    BY <1>4 DEF Halves
  <2> QED
    BY <1>4, <1>5, <2>1, <2>2, BlockFacts, ConstantFacts
<1>7. p % Pow2[k + 1] = 0
  <2> SUFFICES ASSUME p % Pow2[k + 1] # 0 PROVE FALSE
    OBVIOUS
  <2>1. p = OtherHalfOfPage(q, k) /\ q < p
    BY <1>6, OtherOfOther
  <2>2. Halves(b, a, k)
    BY <1>4, <1>5, <2>1 DEF Halves
  <2>3. q \in freePages[k] /\ CanRecombine(q, k)
    BY <1>5, <2>2, PairTaken
  <2>4. q \in Joinable(k)
    BY <2>3 DEF Joinable
  <2>5. p <= q /\ q < p
    BY <1>2, <2>1, <2>4, Zenon
  <2> QED
    BY <1>6, <2>5
<1>8. q = p + Pow2[k]
  BY <1>6, <1>7, OtherOfOther
<1> QED
  BY <1>4, <1>5, <1>7, <1>8

(* What RecombinePair does to the descriptions.                            *)
LEMMA JoinView ==
  ASSUME NEW X, Indexed(X), NEW base \in Nat, NEW D, D = View(X, base), Described(D),
         NEW a, NEW b, a.page \in DOMAIN D, b.page \in DOMAIN D, a.page # b.page, NEW k, k + 1 \in Logs,
         NEW Z, Z = [X EXCEPT ![a.page - base].sizeLog = k + 1, ![b.page - base].tag = "PartOf"],
         NEW E, E = View(Z, base)
  PROVE  Indexed(Z) /\ Joined(D, E, a, b, k)
<1>1. PICK p, q : p = a.page /\ q = b.page
  OBVIOUS
<1>2. p \in DOMAIN D /\ q \in DOMAIN D /\ p # q
  BY <1>1
<1>3. \A r \in DOMAIN D : D[r] \in ExtlData
  BY DEF Described
<1>4. PICK v, Y, M : /\ v = [D[p] EXCEPT !.sizeLog = k + 1]
                     /\ Y = Changed(X, p - base, v) /\ M = View(Y, base)
  OBVIOUS
<1>5. /\ Indexed(Y) /\ DOMAIN Y = DOMAIN X /\ DOMAIN M = DOMAIN D /\ p - base \in DOMAIN X /\ D[p] = X[p - base]
      /\ M[p] = v /\ \A r \in DOMAIN D : r # p => M[r] = D[r]
  BY <1>2, <1>4, ViewExcept
<1>6. q \in DOMAIN M
  BY <1>2, <1>5
<1>7. PICK u, W, N : /\ u = [M[q] EXCEPT !.tag = "PartOf"]
                     /\ W = Changed(Y, q - base, u) /\ N = View(W, base)
  OBVIOUS
<1>8. /\ Indexed(W) /\ DOMAIN W = DOMAIN Y /\ DOMAIN N = DOMAIN M /\ q - base \in DOMAIN Y /\ M[q] = Y[q - base]
      /\ N[q] = u /\ \A r \in DOMAIN M : r # q => N[r] = M[r]
  BY <1>4, <1>5, <1>6, <1>7, ViewExcept, SMTT(30)
<1>9. Z = W
  <2>1. PICK i, j : i = p - base /\ j = q - base
    OBVIOUS
  <2>2. Y = [X EXCEPT ![i].sizeLog = k + 1]
    BY <1>4, <1>5, <2>1 DEF Changed
  <2>3. W = [Y EXCEPT ![j].tag = "PartOf"]
    BY <1>7, <1>8, <2>1 DEF Changed
  <2>4. Z = [X EXCEPT ![i].sizeLog = k + 1, ![j].tag = "PartOf"]
    BY <1>1, <2>1
  <2> QED
    BY <2>2, <2>3, <2>4
<1>10. E = N
  BY <1>7, <1>9
<1>11. PICK d, e : d = D[p] /\ e = D[q]
  OBVIOUS
<1>12. d \in ExtlData /\ e \in ExtlData
  BY <1>2, <1>3, <1>11
<1>13. E[p] = [d EXCEPT !.sizeLog = k + 1] /\ E[q] = [e EXCEPT !.tag = "PartOf"]
  BY <1>2, <1>4, <1>5, <1>7, <1>8, <1>10, <1>11
<1>14. /\ E[p].tag = d.tag /\ E[p].groupId = d.groupId /\ E[p].sizeLog = k + 1 /\ E[p] \in ExtlData
       /\ E[q].tag = "PartOf" /\ E[q].groupId = e.groupId /\ E[q] \in ExtlData
  BY <1>12, <1>13 DEF ExtlData, Tags
<1>15. \A r \in DOMAIN D : r # p /\ r # q => E[r] = D[r]
  BY <1>5, <1>8, <1>10
<1>16. DOMAIN E = DOMAIN D
  BY <1>5, <1>8, <1>10
<1>17. E \in [DOMAIN D -> ExtlData]
  <2>1. E = [r \in DOMAIN E |-> E[r]]
    BY DEF View
  <2>2. \A r \in DOMAIN D : E[r] \in ExtlData
    BY <1>3, <1>14, <1>15
  <2> QED
    BY <1>16, <2>1, <2>2
<1> QED
  BY <1>1, <1>8, <1>9, <1>11, <1>14, <1>15, <1>16, <1>17 DEF Joined

(* A pair is recombined.                                                   *)
LEMMA RecombineStep ==
  ASSUME Types, NEW B, Good(Desc, groups, freePages, B), NoPairs(B, level), RecombinePair
  PROVE  \E A : /\ Indexed(extl') /\ Good(View(extl', firstPage), groups, freePages', A)
                /\ InUse(A) = InUse(B) /\ NoPairs(A, level)
<1>1. PICK k : k = level
  OBVIOUS
<1>2. PICK p, q : p = Min(Joinable(k)) /\ q = OtherHalfOfPage(p, k)
  OBVIOUS
<1>3. /\ Joinable(k) # {}
      /\ extl' = [extl EXCEPT ![p - firstPage].sizeLog = k + 1, ![q - firstPage].tag = "PartOf"]
      /\ freePages' = [freePages EXCEPT ![k] = @ \ {p, q}, ![k + 1] = @ \cup {p}]
  BY <1>1, <1>2, Zenon DEF RecombinePair, Joinable
<1>4. k \in Logs /\ k \in Nat /\ firstPage \in Nat
  BY <1>1, ConstantFacts DEF Types
<1>5. PICK a \in B, b \in B : Halves(a, b, k) /\ a.page = p /\ b.page = q
  BY <1>1, <1>2, <1>3, <1>4, LowestPair
<1>6. p % Pow2[k + 1] = 0 /\ q = p + Pow2[k]
  BY <1>1, <1>2, <1>3, <1>4, LowestPair
<1>7. WellPlaced(a, groups) /\ WellPlaced(b, groups) /\ Shown(Desc, a) /\ Shown(Desc, b) /\ GroupsInOrder(groups)
  BY DEF Good
<1>8. k + 1 \in Logs
  BY <1>4, <1>5, <1>6, <1>7, HalvesSmall
<1>9. p \in DOMAIN Desc /\ q \in DOMAIN Desc /\ p # q
  <2>1. a.page \in Nat /\ In(a.page, a) /\ b.page \in Nat /\ In(b.page, b)
    BY <1>7, BlockFacts
  <2>2. Pow2[k] \in Nat \ {0}
    BY <1>4, PowerFacts
  <2> QED
    BY <1>5, <1>6, <1>7, <2>1, <2>2 DEF Shown
<1>10. Indexed(extl) /\ Desc = View(extl, firstPage) /\ Described(Desc)
  BY DescArray DEF Described, Good
<1>11. PICK Z, E, H : Z = extl' /\ E = View(Z, firstPage) /\ H = freePages'
  OBVIOUS
<1>12. Indexed(Z) /\ Joined(Desc, E, a, b, k)
  BY <1>3, <1>4, <1>5, <1>8, <1>9, <1>10, <1>11, JoinView
<1>13. JoinedLists(freePages, H, a.page, b.page, k)
  BY <1>3, <1>5, <1>11 DEF JoinedLists
<1>14. PICK c, A : c = Unused(a.page, k + 1, a.group) /\ A = JoinedUp(B, a, b, c)
  OBVIOUS
<1>15. Good(E, groups, H, A)
  <2>1. a.free /\ b.free /\ a.log = k /\ b.log = k /\ a.group = b.group
    BY <1>5 DEF Halves
  <2>2. a.page % Pow2[k + 1] = 0 /\ b.page = a.page + Pow2[k]
    BY <1>5, <1>6
  <2> QED
    BY <1>4, <1>8, <1>12, <1>13, <1>14, <2>1, <2>2, RecombineKeeps
<1>16. InUse(A) = InUse(B) /\ NoPairs(A, level)
  BY <1>1, <1>4, <1>5, <1>14, JoinedFree
<1> QED
  BY <1>11, <1>12, <1>15, <1>16

(* When no pair of a size is left, there are none of the next size either  *)
(* to look for.                                                            *)
LEMMA NoPairsNext ==
  ASSUME Types, NEW B, Good(Desc, groups, freePages, B), NEW k \in Logs, NoPairs(B, k),
         \A p \in freePages[k] : ~ CanRecombine(p, k)
  PROVE  NoPairs(B, k + 1)
<1>1. ASSUME NEW a \in B, NEW b \in B, a.free, b.free, a.log = b.log, a.log < k + 1, a.group = b.group,
             b.page = OtherHalfOfPage(a.page, a.log)
      PROVE  FALSE
  <2>1. WellPlaced(a, groups)
    BY DEF Good
  <2>2. a.log \in Nat /\ k \in Nat
    BY <2>1, BlockFacts, ConstantFacts
  <2>3. CASE a.log < k
    BY <1>1, <2>3 DEF NoPairs
  <2>4. CASE a.log = k
    <3>1. Halves(a, b, k)
      BY <1>1, <2>4 DEF Halves
    <3> QED
      BY <3>1, PairTaken
  <2> QED
    BY <1>1, <2>2, <2>3, <2>4
<1> QED
  BY <1>1 DEF NoPairs

-----------------------------------------------------------------------------
(* Growth.                                                                 *)

(* Max is what its name says.                                              *)
LEMMA MaxFacts ==
  ASSUME NEW n \in Nat, NEW S, S \subseteq 0 .. n, S # {}
  PROVE  Max(S) \in S /\ \A x \in S : x <= Max(S)
<1> DEFINE T == {n - x : x \in S}
<1>1. T \subseteq Nat /\ T # {}
  <2>1. \A x \in S : x \in Nat /\ x <= n /\ n - x \in Nat
    OBVIOUS
  <2> QED
    BY <2>1
<1>2. PICK t \in T : \A y \in T : t <= y
  BY <1>1, LeastNatural
<1>3. PICK x \in S : t = n - x
  BY <1>2
<1>4. ASSUME NEW y \in S PROVE y <= x
  <2>1. n - y \in T /\ y \in 0 .. n /\ x \in 0 .. n
    BY <1>3
  <2>2. t <= n - y
    BY <1>2, <2>1
  <2> QED
    BY <1>3, <2>1, <2>2
<1> QED
  BY <1>3, <1>4 DEF Max

\* All groups are between two pages.
Spanned(G, first, after) ==
  \A i \in DOMAIN G : first <= G[i].firstPage /\ G[i].afterLastPage <= after

(* The first page of all groups, and the last.                             *)
LEMMA GroupsSpan ==
  ASSUME NEW K \in Seq(Group), K # <<>>,
         NEW first, first = Min({K[i].firstPage : i \in DOMAIN K}),
         NEW after, after = Max({K[i].afterLastPage : i \in DOMAIN K})
  PROVE  first \in Nat /\ after \in Nat /\ Spanned(K, first, after)
<1>1. /\ \A i \in DOMAIN K : K[i].firstPage \in Nat /\ K[i].afterLastPage \in 0 .. AfterAll
      /\ 1 \in DOMAIN K
  <2>1. \A i \in DOMAIN K : K[i] \in Group
    OBVIOUS
  <2>2. 1 \in DOMAIN K
    OBVIOUS
  <2> QED
    BY <2>1, <2>2 DEF Group
<1>2. PICK S : S = {K[i].firstPage : i \in DOMAIN K}
  OBVIOUS
<1>3. S \subseteq Nat /\ S # {}
  BY <1>1, <1>2
<1>4. first \in S /\ \A x \in S : first <= x
  BY <1>2, <1>3, MinFacts
<1>5. PICK T : T = {K[i].afterLastPage : i \in DOMAIN K}
  OBVIOUS
<1>6. T \subseteq 0 .. AfterAll /\ T # {} /\ AfterAll \in Nat
  BY <1>1, <1>5, ConstantFacts
<1>7. after \in T /\ \A x \in T : x <= after
  BY <1>5, <1>6, MaxFacts
<1>8. Spanned(K, first, after)
  BY <1>2, <1>4, <1>5, <1>7 DEF Spanned
<1>9. first \in Nat
  BY <1>3, <1>4
<1>10. after \in Nat
  BY <1>6, <1>7
<1> QED
  BY <1>8, <1>9, <1>10

(* The descriptions are moved.                                             *)
LEMMA MovedView ==
  ASSUME Types, NEW B, Good(Desc, groups, freePages, B),
         NEW first \in Nat, NEW after \in Nat, first <= after, Spanned(groups, first, after),
         NEW X, X = Moved(first, after), NEW D, D = View(X, first)
  PROVE  /\ Indexed(X) /\ DOMAIN D = first .. after - 1
         /\ Good(D, groups, freePages, B)
<1>1. DOMAIN X = 0 .. (after - first) - 1 /\ after - first \in Nat
  BY DEF Moved
<1>2. Indexed(X)
  BY <1>1 DEF Indexed
<1>3. DOMAIN D = first .. after - 1
  <2>1. PICK n, m : n = after - first /\ m = n - 1
    OBVIOUS
  <2>2. n \in Nat /\ m \in Int /\ (n = 0 => 0 > m) /\ (n # 0 => ~ (0 > m) /\ (m - 0) + 1 = n) /\ DOMAIN X = 0 .. m
    BY <1>1, <2>1
  <2>3. Cardinality(0 .. m) = IF 0 > m THEN 0 ELSE (m - 0) + 1
    BY <2>2, FS_Interval
  <2>4. Cardinality(DOMAIN X) = n
    BY <2>2, <2>3
  <2>5. DOMAIN D = first .. (first + Cardinality(DOMAIN X)) - 1
    BY <1>2, ViewFacts
  <2>6. (first + n) - 1 = after - 1
    BY <1>1, <2>1
  <2> QED
    BY <2>4, <2>5, <2>6
<1>4. DOMAIN Desc = Managed /\ \A p \in Managed : Desc[p] = ExtlDataOfPage(p)
  BY DescFacts
<1>5. ASSUME NEW q \in DOMAIN D PROVE D[q] = IF q \in DOMAIN Desc THEN Desc[q] ELSE Blank("Unusable")
  <2>1. q - first \in DOMAIN X /\ D[q] = X[q - first] /\ q \in Nat
    BY <1>2, ViewFacts
  <2>2. (q - first) + first = q
    BY <2>1
  <2>3. X[q - first] = IF q \in Managed THEN ExtlDataOfPage(q) ELSE Blank("Unusable")
    BY <1>1, <2>1, <2>2 DEF Moved
  <2> QED
    BY <1>4, <2>1, <2>3
<1>6. \A i \in DOMAIN groups : GroupPages(groups[i]) \subseteq DOMAIN D
  <2>1. ASSUME NEW i \in DOMAIN groups PROVE GroupPages(groups[i]) \subseteq DOMAIN D
    <3>1. groups[i] \in Group
      BY DEF Good, GroupsInOrder
    <3>2. groups[i].firstPage \in Nat /\ groups[i].afterLastPage \in Nat
      BY <3>1, ConstantFacts DEF Group
    <3>3. first <= groups[i].firstPage /\ groups[i].afterLastPage <= after
      BY DEF Spanned
    <3> QED
      BY <1>3, <3>2, <3>3 DEF GroupPages
  <2> QED
    BY <2>1
<1>7. D = [q \in DOMAIN D |-> D[q]]
  BY DEF View
<1>8. DOMAIN D \subseteq Nat
  BY <1>3
<1>9. Good(D, groups, freePages, B)
  BY <1>5, <1>6, <1>7, <1>8, MovedKeeps
<1> QED
  BY <1>2, <1>3, <1>9

\* The blocks when a group is added
Grown(B, m, g) == B \cup FreshBlocks(m.firstPage, m.afterLastPage, g)

\* A group in memory that no other group has
Elsewhere(m, G) == \A i \in DOMAIN G : Apart(m, G[i])

(* One group is added.                                                     *)
LEMMA AddView ==
  ASSUME NEW X, Indexed(X), NEW base \in Nat, NEW D, D = View(X, base),
         NEW G, NEW F, NEW B, Good(D, G, F, B),
         NEW m \in Group, ~ TooLarge(m), Elsewhere(m, G), Inside(D, m.firstPage, m.afterLastPage),
         NEW g, g = Len(G) + 1,
         NEW Y, Y = InitPages(X, base, g, m.firstPage, m.afterLastPage, "Free", "PartOf"),
         NEW E, E = View(Y, base), NEW H, H = WithFree(F, m.firstPage, m.afterLastPage)
  PROVE  /\ Indexed(Y) /\ DOMAIN E = DOMAIN D
         /\ Good(E, G \o <<m>>, H, Grown(B, m, g))
<1>1. PICK from, to : from = m.firstPage /\ to = m.afterLastPage
  OBVIOUS
<1>2. from \in Nat /\ to \in Nat
  BY <1>1, ConstantFacts DEF Group
<1>3. Typed(X)
  <2>1. View(X, base) \in [DOMAIN View(X, base) -> ExtlData]
    BY DEF Good
  <2> QED
    BY <2>1, ViewTyped DEF Typed
<1>4. Small(from, to)
  <2>1. ASSUME NEW b \in BlocksOf(from, to) PROVE b.log <= MaxLog
    <3>1. b.log \in Nat /\ ~ (b.log > MaxLog)
      BY <1>1, <1>2, BlocksFacts DEF TooLarge
    <3> QED
      BY <3>1, ConstantFacts
  <2> QED
    BY <2>1 DEF Small
<1>5. g \in Nat
  BY DEF Good, GroupsInOrder
<1>6. Y = InitPages(X, base, g, from, to, "Free", "PartOf") /\ Inside(D, from, to)
  BY <1>1
<1>7. DOMAIN Y = DOMAIN X /\ Typed(Y) /\ Confined(D, E, from, to) /\ Cleared(E, from, to, g)
  BY <1>2, <1>3, <1>4, <1>5, <1>6, InitClears
<1>8. Indexed(Y)
  BY <1>7 DEF Indexed
<1>9. DOMAIN E = DOMAIN D /\ E \in [DOMAIN D -> ExtlData]
  <2>1. DOMAIN E = DOMAIN D
    BY <1>7 DEF Confined
  <2>2. View(Y, base) \in [DOMAIN View(Y, base) -> ExtlData]
    BY <1>7, <1>8, ViewTyped DEF Typed
  <2> QED
    BY <2>1, <2>2
<1>10. Adds(D, G, F, E, H, m)
  <2>1. \A q \in DOMAIN D : q \notin from .. to - 1 => E[q] = D[q]
    BY <1>7 DEF Confined
  <2>2. \A i \in DOMAIN G : Apart(m, G[i])
    BY DEF Elsewhere
  <2>3. H = WithFree(F, from, to)
    BY <1>1
  <2> QED
    BY <1>1, <1>7, <1>9, <2>1, <2>2, <2>3 DEF Adds
<1>11. Good(E, G \o <<m>>, H, B \cup FreshBlocks(m.firstPage, m.afterLastPage, g))
  BY <1>10, AddKeeps
<1> QED
  BY <1>8, <1>9, <1>11 DEF Grown

(* What is added is free.                                                  *)
LEMMA GrownFree ==
  ASSUME NEW B, NEW m, NEW g, NEW A, A = Grown(B, m, g)
  PROVE  InUse(A) = InUse(B)
<1>1. \A x \in FreshBlocks(m.firstPage, m.afterLastPage, g) : x.free
  BY DEF FreshBlocks
<1> QED
  BY <1>1 DEF InUse, Grown

(* Memory from malloc.                                                     *)
LEMMA MemoryGroup ==
  ASSUME NEW n, NEW m \in Memory(n)
  PROVE  m \in Group
<1>1. m \in [firstPage : MallocAt, afterLastPage : 1 .. AfterAll]
  BY DEF Memory
<1>2. MallocAt \subseteq Nat /\ 1 .. AfterAll \subseteq 0 .. AfterAll
  BY ConstantFacts
<1>3. m.firstPage \in MallocAt /\ m.afterLastPage \in 1 .. AfterAll
  BY <1>1
<1>4. m.firstPage \in Nat /\ m.afterLastPage \in 0 .. AfterAll
  BY <1>2, <1>3, Zenon
<1>5. m = [firstPage |-> m.firstPage, afterLastPage |-> m.afterLastPage]
  BY <1>1
<1> QED
  BY <1>4, <1>5, Zenon DEF Group

(* It has room for all but one of its pages, aligned or not.               *)
LEMMA MemoryFacts ==
  ASSUME NEW n \in Int, NEW m \in Memory(n)
  PROVE  m \in Group /\ m.firstPage + n <= m.afterLastPage + 1
<1>1. m.afterLastPage - m.firstPage \in {n - 1, n}
  BY DEF Memory
<1>2. m \in Group
  BY MemoryGroup
<1>3. m.firstPage \in Nat /\ m.afterLastPage \in Nat
  BY <1>2, ConstantFacts DEF Group
<1> QED
  BY <1>1, <1>2, <1>3

\* Memory for n pages at least, and apart from it a second group, or none
Fresh(m, n, G) == /\ m \in Group /\ Elsewhere(m, G)
                  /\ m.firstPage + n <= m.afterLastPage + 1
Second(o, m, G) == o \in Group /\ Elsewhere(o, G) /\ Apart(m, o)

(* The groups that are added are one or two, apart from all others.        *)
LEMMA NewGroupsFacts ==
  ASSUME NEW n \in Nat, NEW new \in NewGroups(n)
  PROVE  \E m : /\ Fresh(m, n + 2, groups)
                /\ new = <<m>> \/ \E o : Second(o, m, groups) /\ new = <<m, o>>
<1> DEFINE fresh == {m \in Memory(n + 2) : \A i \in DOMAIN groups : Apart(m, groups[i])}
           old == {m \in Memory(extlDataPages) : \A i \in DOMAIN groups : Apart(m, groups[i])}
<1>1. \A m \in fresh : Fresh(m, n + 2, groups)
  BY MemoryFacts DEF Fresh, Elsewhere
<1>2. \A o \in old : o \in Group /\ Elsewhere(o, groups)
  BY MemoryGroup DEF Elsewhere
<1>3. \/ \E m \in fresh, o \in old : new = <<m, o>> /\ Apart(m, o)
      \/ \E m \in fresh : new = <<m>>
  <2> HIDE DEF fresh, old
  <2>1. new \in IF doReuseExtl
                THEN {ms \in {<<m, o>> : m \in fresh, o \in old} : Apart(ms[1], ms[2])}
                ELSE {<<m>> : m \in fresh}
    BY DEF NewGroups, fresh, old
  <2> QED
    BY <2>1
<1> HIDE DEF fresh, old
<1> QED
  BY <1>1, <1>2, <1>3 DEF Second

(* The new group is larger than twice the block that is asked for.         *)
LEMMA NrNewPagesFacts ==
  ASSUME Types, NEW w \in Nat, w = want.log
  PROVE  NrNewPages \in Nat /\ 2 * Pow2[w] <= NrNewPages
<1>1. PICK P : P = Pow2[w]
  OBVIOUS
<1>2. P \in Nat \ {0}
  BY <1>1, PowerFacts
<1>3. PICK a, b : a = (5 * P) \div 2 /\ b = nextGroupNrPages
  OBVIOUS
<1>4. a \in Nat /\ 2 * P <= a /\ b \in Nat
  <2>1. PICK x : x = 5 * P
    OBVIOUS
  <2>2. x \in Nat
    BY <1>2, <2>1
  <2>3. x = (x \div 2) * 2 + (x % 2) /\ x % 2 \in 0 .. 1 /\ x \div 2 \in Nat
    BY <2>2, DivMod
  <2> QED
    <3>1. a = x \div 2
      BY <1>3, <2>1
    <3>2. a \in Nat /\ 2 * P <= a
      BY <1>2, <2>1, <2>3, <3>1
    <3> QED
      BY <1>3, <3>2 DEF Types
<1>5. {a, b} \subseteq 0 .. a + b /\ a + b \in Nat
  BY <1>4
<1>6. Max({a, b}) \in {a, b} /\ a <= Max({a, b})
  BY <1>5, MaxFacts
<1>7. NrNewPages = Max({a, b})
  BY <1>1, <1>3 DEF NrNewPages
<1> QED
  BY <1>1, <1>2, <1>4, <1>6, <1>7

\* There is a free block of a size, or a larger one.
Holds(F, w) == \E k \in w .. MaxLog : F[k] # {}

(* A group that is large enough holds the block that is asked for.         *)
LEMMA RoomInGroup ==
  ASSUME NEW m \in Group, ~ TooLarge(m), NEW w \in Logs, m.firstPage + 2 * Pow2[w] <= m.afterLastPage + 1,
         NEW F, NEW H, H = WithFree(F, m.firstPage, m.afterLastPage)
  PROVE  Holds(H, w)
<1>1. PICK from, to : from = m.firstPage /\ to = m.afterLastPage
  OBVIOUS
<1>2. from \in Nat /\ to \in Nat /\ w \in Nat
  BY <1>1, ConstantFacts DEF Group
<1>3. PICK p \in Nat : Fits(p, w, from, to)
  BY <1>1, <1>2, RoomForBlock
<1>4. Within(p, p, w)
  BY <1>2, <1>3, PowerFacts DEF Within
<1>5. PICK x \in BlocksOf(from, to) : w <= x.log
  BY <1>2, <1>3, <1>4, BlocksCover
<1>6. x.log \in Nat /\ ~ (x.log > MaxLog)
  BY <1>1, <1>2, <1>5, BlocksFacts DEF TooLarge
<1>7. PICK k : k = x.log
  OBVIOUS
<1>8. k \in w .. MaxLog /\ k \in Logs
  BY <1>2, <1>5, <1>6, <1>7, ConstantFacts DEF Logs
<1>9. x.page \in H[k]
  <2>1. H[k] = F[k] \cup {b.page : b \in {c \in BlocksOf(from, to) : c.log = k}}
    BY <1>1, <1>8 DEF WithFree
  <2> QED
    BY <1>5, <1>7, <2>1
<1> QED
  BY <1>8, <1>9 DEF Holds

(* And keeps it when another is added.                                     *)
LEMMA RoomStays ==
  ASSUME NEW F, NEW w \in Logs, Holds(F, w), NEW from, NEW to, NEW H, H = WithFree(F, from, to)
  PROVE  Holds(H, w)
<1>1. PICK k \in w .. MaxLog : F[k] # {}
  BY DEF Holds
<1>2. k \in Logs
  BY ConstantFacts DEF Logs
<1>3. F[k] \subseteq H[k]
  BY <1>2 DEF WithFree
<1> QED
  BY <1>1, <1>3 DEF Holds

(* The first new group.                                                    *)
LEMMA FirstAdded ==
  ASSUME Types, NEW B, Good(Desc, groups, freePages, B),
         NEW m \in Group, ~ TooLarge(m), Elsewhere(m, groups),
         NEW first \in Nat, NEW after \in Nat, first <= after,
         Spanned(groups, first, after), first <= m.firstPage, m.afterLastPage <= after,
         NEW X, X = Moved(first, after), NEW g, g = Len(groups) + 1,
         NEW Y, Y = InitPages(X, first, g, m.firstPage, m.afterLastPage, "Free", "PartOf"),
         NEW E, E = View(Y, first), NEW H, H = WithFree(freePages, m.firstPage, m.afterLastPage)
  PROVE  /\ Indexed(Y) /\ DOMAIN E = first .. after - 1
         /\ Good(E, groups \o <<m>>, H, Grown(B, m, g))
<1>1. PICK D : D = View(X, first)
  OBVIOUS
<1>2. Indexed(X) /\ DOMAIN D = first .. after - 1 /\ Good(D, groups, freePages, B)
  BY <1>1, MovedView
<1>3. Inside(D, m.firstPage, m.afterLastPage)
  <2>1. m.firstPage \in Nat /\ m.afterLastPage \in Nat
    BY ConstantFacts DEF Group
  <2> QED
    BY <1>2, <2>1 DEF Inside
<1>4. /\ Indexed(Y) /\ DOMAIN E = DOMAIN D
      /\ Good(E, groups \o <<m>>, H, Grown(B, m, g))
  BY <1>1, <1>2, <1>3, AddView
<1> QED
  BY <1>2, <1>4

(* The span of a list of groups is that of both its parts.                 *)
LEMMA SpannedParts ==
  ASSUME NEW G \in Seq(Group), NEW N \in Seq(Group), NEW first, NEW after, Spanned(G \o N, first, after)
  PROVE  Spanned(G, first, after) /\ Spanned(N, first, after)
<1>1. PICK K : K = G \o N
  OBVIOUS
<1>2. \A i \in DOMAIN G : i \in DOMAIN K /\ K[i] = G[i]
  BY <1>1
<1>3. \A i \in DOMAIN N : Len(G) + i \in DOMAIN K /\ K[Len(G) + i] = N[i]
  BY <1>1
<1>4. \A i \in DOMAIN K : first <= K[i].firstPage /\ K[i].afterLastPage <= after
  BY <1>1 DEF Spanned
<1>5. Spanned(G, first, after)
  BY <1>2, <1>4 DEF Spanned
<1>6. Spanned(N, first, after)
  <2>1. ASSUME NEW i \in DOMAIN N PROVE first <= N[i].firstPage /\ N[i].afterLastPage <= after
    <3>1. PICK j : j = Len(G) + i
      OBVIOUS
    <3>2. j \in DOMAIN K /\ K[j] = N[i]
      BY <1>3, <3>1
    <3> QED
      BY <1>4, <3>2
  <2> QED
    BY <2>1 DEF Spanned
<1> QED
  BY <1>5, <1>6

\* A group between two pages
Between(m, first, after) == first <= m.firstPage /\ m.afterLastPage <= after

(* One new group.                                                          *)
LEMMA GrowByOne ==
  ASSUME Types, NEW B, Good(Desc, groups, freePages, B), NEW w \in Logs, w = want.log,
         NEW m, Fresh(m, NrNewPages + 2, groups), ~ TooLarge(m),
         NEW g, g = Len(groups) + 1,
         NEW first \in Nat, NEW after \in Nat, Spanned(groups, first, after), Between(m, first, after),
         NEW Y, Y = InitPages(Moved(first, after), first, g, m.firstPage, m.afterLastPage, "Free", "PartOf"),
         NEW H, H = WithFree(freePages, m.firstPage, m.afterLastPage)
  PROVE  /\ Indexed(Y) /\ Holds(H, w) /\ DOMAIN View(Y, first) = first .. after - 1
         /\ \E A : Good(View(Y, first), groups \o <<m>>, H, A) /\ InUse(A) = InUse(B)
<1>1. m \in Group /\ Elsewhere(m, groups)
  BY DEF Fresh
<1>2. w \in Nat /\ NrNewPages \in Nat /\ 2 * Pow2[w] <= NrNewPages /\ Pow2[w] \in Nat \ {0}
  BY NrNewPagesFacts, ConstantFacts, PowerFacts
<1>3. m.firstPage \in Nat /\ m.afterLastPage \in Nat /\ m.firstPage + (NrNewPages + 2) <= m.afterLastPage + 1
  BY <1>1, ConstantFacts DEF Group, Fresh
<1>4. first <= m.firstPage /\ m.afterLastPage <= after
  BY DEF Between
<1>5. first <= after
  BY <1>2, <1>3, <1>4
<1>6. PICK X, E, A : X = Moved(first, after) /\ E = View(Y, first) /\ A = Grown(B, m, g)
  OBVIOUS
<1>7. Indexed(Y) /\ DOMAIN E = first .. after - 1 /\ Good(E, groups \o <<m>>, H, A)
  BY <1>1, <1>4, <1>5, <1>6, FirstAdded
<1>8. InUse(A) = InUse(B)
  BY <1>6, GrownFree
<1>9. Holds(H, w)
  <2>1. PICK k, n, p, q : k = Pow2[w] /\ n = NrNewPages /\ p = m.firstPage /\ q = m.afterLastPage
    OBVIOUS
  <2>2. k \in Nat /\ n \in Nat /\ p \in Nat /\ q \in Nat /\ 2 * k <= n /\ p + (n + 2) <= q + 1
    BY <1>2, <1>3, <2>1
  <2>3. p + 2 * k <= q + 1
    BY <2>2
  <2>4. m.firstPage + 2 * Pow2[w] <= m.afterLastPage + 1
    BY <2>1, <2>3
  <2> QED
    BY <1>1, <2>4, RoomInGroup
<1> QED
  BY <1>6, <1>7, <1>8, <1>9

\* The pages from first to after are described.
Spans(D, first, after) == DOMAIN D = first .. after - 1

(* And another, in the memory the old descriptions were in.                *)
LEMMA GrowByAnother ==
  ASSUME NEW first \in Nat, NEW after \in Nat,
         NEW Y, Indexed(Y), NEW D, D = View(Y, first), Spans(D, first, after),
         NEW G, NEW H, NEW B, Good(D, G, H, B), NEW w \in Logs, Holds(H, w),
         NEW o, o \in Group, Elsewhere(o, G), ~ TooLarge(o), Between(o, first, after),
         NEW g, g = Len(G) + 1,
         NEW Z, Z = InitPages(Y, first, g, o.firstPage, o.afterLastPage, "Free", "PartOf"),
         NEW J, J = WithFree(H, o.firstPage, o.afterLastPage)
  PROVE  /\ Indexed(Z) /\ Holds(J, w)
         /\ \E A : Good(View(Z, first), G \o <<o>>, J, A) /\ InUse(A) = InUse(B)
<1>1. PICK E, A : E = View(Z, first) /\ A = Grown(B, o, g)
  OBVIOUS
<1>2. Inside(D, o.firstPage, o.afterLastPage)
  <2>1. o.firstPage \in Nat /\ o.afterLastPage \in Nat
    BY ConstantFacts DEF Group
  <2>2. first <= o.firstPage /\ o.afterLastPage <= after
    BY DEF Between
  <2>3. DOMAIN D = first .. after - 1
    BY DEF Spans
  <2> QED
    BY <2>1, <2>2, <2>3 DEF Inside
<1>3. Indexed(Z) /\ Good(E, G \o <<o>>, J, A)
  BY <1>1, <1>2, AddView
<1>4. InUse(A) = InUse(B)
  BY <1>1, GrownFree
<1>5. Holds(J, w)
  BY RoomStays
<1> QED
  BY <1>1, <1>3, <1>4, <1>5

(* The two groups are apart.                                               *)
LEMMA SecondElsewhere ==
  ASSUME NEW G \in Seq(Group), NEW m \in Group, NEW o, Second(o, m, G)
  PROVE  /\ Elsewhere(o, G \o <<m>>) /\ Len(G \o <<m>>) = Len(G) + 1
         /\ G \o <<m, o>> = (G \o <<m>>) \o <<o>>
<1>0. PICK L, n : L = G \o <<m>> /\ n = Len(G)
  OBVIOUS
<1>1. o \in Group /\ Elsewhere(o, G) /\ Apart(o, m)
  BY DEF Second, Apart
<1>2. /\ L \in Seq(Group) /\ DOMAIN L = 1 .. n + 1 /\ L[n + 1] = m /\ Len(L) = n + 1
      /\ \A i \in DOMAIN G : L[i] = G[i]
      /\ DOMAIN G = 1 .. n /\ n \in Nat
  BY <1>0
<1>3. ASSUME NEW i \in DOMAIN L PROVE Apart(o, L[i])
  <2>1. CASE i \in DOMAIN G
    BY <1>1, <1>2, <2>1 DEF Elsewhere
  <2>2. CASE i = n + 1
    BY <1>1, <1>2, <2>2
  <2> QED
    BY <1>2, <2>1, <2>2
<1>4. PICK K, M : K = G \o <<m, o>> /\ M = L \o <<o>>
  OBVIOUS
<1>5. /\ K \in Seq(Group) /\ Len(K) = n + 2 /\ K[n + 1] = m /\ K[n + 2] = o
      /\ \A i \in 1 .. n : K[i] = G[i]
  BY <1>0, <1>1, <1>4
<1>6. /\ M \in Seq(Group) /\ Len(M) = n + 2 /\ M[n + 2] = o
      /\ \A i \in 1 .. n + 1 : M[i] = L[i]
  BY <1>1, <1>2, <1>4
<1>7. \A i \in 1 .. Len(K) : K[i] = M[i]
  <2>1. ASSUME NEW i \in 1 .. n + 2 PROVE K[i] = M[i]
    <3>1. i \in 1 .. n \/ i = n + 1 \/ i = n + 2
      BY <1>2
    <3>2. n + 1 \in 1 .. n + 1 /\ 1 .. n \subseteq 1 .. n + 1
      BY <1>2
    <3> QED
      BY <1>2, <1>5, <1>6, <3>1, <3>2
  <2> QED
    BY <1>5, <2>1
<1>8. K = M
  BY <1>5, <1>6, <1>7, SeqEqual, Zenon
<1>9. Elsewhere(o, L)
  BY <1>3 DEF Elsewhere
<1> QED
  BY <1>0, <1>2, <1>4, <1>8, <1>9, Zenon

(* The allocator grows, or memory from malloc is too large for it.         *)
LEMMA GrowStep ==
  ASSUME Types, WantInOrder, NEW B, Good(Desc, groups, freePages, B), NewBuddyGroup
  PROVE  \/ /\ pc' = "too large"
            /\ UNCHANGED <<extl, firstPage, freePages, groups, nextGroupNrPages>>
         \/ /\ pc' = "grown" /\ Indexed(extl') /\ firstPage' \in Nat /\ nextGroupNrPages' \in Nat
            /\ Holds(freePages', want.log)
            /\ \E A : Good(View(extl', firstPage'), groups', freePages', A) /\ InUse(A) = InUse(B)
<1>1. PICK new \in NewGroups(NrNewPages) :
       LET all == groups \o new
           first == Min({all[i].firstPage : i \in DOMAIN all})
           after == Max({all[i].afterLastPage : i \in DOMAIN all})
           n == Len(groups)
           Grp(desc, i) == InitPages(desc, first, n + i, new[i].firstPage,
                                     new[i].afterLastPage, "Free", "PartOf")
           Fre(free, i) == WithFree(free, new[i].firstPage, new[i].afterLastPage)
       IN  IF \E i \in DOMAIN new : TooLarge(new[i])
           THEN /\ pc' = "too large"
                /\ UNCHANGED <<extl, firstPage, freePages, groups, nextGroupNrPages>>
           ELSE /\ groups' = all
                /\ firstPage' = first
                /\ extl' = LET e == Grp(Moved(first, after), 1)
                           IN  IF Len(new) = 2 THEN Grp(e, 2) ELSE e
                /\ freePages' = LET f == Fre(freePages, 1)
                                IN  IF Len(new) = 2 THEN Fre(f, 2) ELSE f
                /\ nextGroupNrPages' = (3 * NrNewPages) \div 2
                /\ pc' = "grown"
  BY DEF NewBuddyGroup
<1>2. PICK w : w = want.log
  OBVIOUS
<1>3. w \in Logs /\ w \in Nat
  BY <1>2, ConstantFacts DEF WantInOrder
<1>4. NrNewPages \in Nat
  BY <1>2, <1>3, NrNewPagesFacts
<1>5. CASE \E i \in DOMAIN new : TooLarge(new[i])
  BY <1>1, <1>5
<1>6. CASE ~ \E i \in DOMAIN new : TooLarge(new[i])
  <2>1. PICK n, K, first, after :
           /\ n = Len(groups) /\ K = groups \o new
           /\ first = Min({K[i].firstPage : i \in DOMAIN K})
           /\ after = Max({K[i].afterLastPage : i \in DOMAIN K})
    OBVIOUS
  <2>2. PICK Y, H, g : /\ g = Len(groups) + 1
                       /\ Y = InitPages(Moved(first, after), first, g, new[1].firstPage,
                                        new[1].afterLastPage, "Free", "PartOf")
                       /\ H = WithFree(freePages, new[1].firstPage, new[1].afterLastPage)
    OBVIOUS
  <2>3. PICK Z, J : /\ Z = InitPages(Y, first, n + 2, new[2].firstPage,
                                     new[2].afterLastPage, "Free", "PartOf")
                    /\ J = WithFree(H, new[2].firstPage, new[2].afterLastPage)
    OBVIOUS
  <2>4. /\ groups' = K /\ firstPage' = first
        /\ extl' = IF Len(new) = 2 THEN Z ELSE Y
        /\ freePages' = IF Len(new) = 2 THEN J ELSE H
        /\ nextGroupNrPages' = (3 * NrNewPages) \div 2 /\ pc' = "grown"
    BY <1>1, <1>6, <2>1, <2>2, <2>3, Zenon
  <2>5. nextGroupNrPages' \in Nat
    <3>1. 3 * NrNewPages \in Nat
      BY <1>4
    <3>2. (3 * NrNewPages) \div 2 \in Nat
      BY <3>1, DivMod
    <3> QED
      BY <2>4, <3>2
  <2>6. PICK m : /\ Fresh(m, NrNewPages + 2, groups)
                 /\ new = <<m>> \/ \E o : Second(o, m, groups) /\ new = <<m, o>>
    BY <1>4, NewGroupsFacts
  <2>7. groups \in Seq(Group) /\ m \in Group /\ new \in Seq(Group) /\ new # <<>> /\ new[1] = m /\ 1 \in DOMAIN new
    <3>1. groups \in Seq(Group) /\ m \in Group
      BY <2>6 DEF Good, GroupsInOrder, Fresh
    <3>2. CASE new = <<m>>
      BY <3>1, <3>2
    <3>3. ASSUME NEW o, Second(o, m, groups), new = <<m, o>>
          PROVE  new \in Seq(Group) /\ new # <<>> /\ new[1] = m /\ 1 \in DOMAIN new
      <4>1. o \in Group
        BY <3>3 DEF Second
      <4> QED
        BY <3>1, <3>3, <4>1
    <3> QED
      BY <2>6, <3>1, <3>2, <3>3
  <2>8. first \in Nat /\ after \in Nat /\ Spanned(groups, first, after) /\ Spanned(new, first, after)
    <3>1. K \in Seq(Group) /\ K # <<>>
      BY <2>1, <2>7
    <3>2. first \in Nat /\ after \in Nat /\ Spanned(K, first, after)
      BY <2>1, <3>1, GroupsSpan
    <3>3. Spanned(groups \o new, first, after)
      BY <2>1, <3>2
    <3> QED
      BY <2>7, <3>2, <3>3, SpannedParts
  <2>9. ~ TooLarge(m) /\ Between(m, first, after)
    BY <1>6, <2>7, <2>8 DEF Spanned, Between
  <2>10. PICK A : /\ Indexed(Y) /\ Holds(H, w) /\ DOMAIN View(Y, first) = first .. after - 1
                  /\ Good(View(Y, first), groups \o <<m>>, H, A) /\ InUse(A) = InUse(B)
    <3>1. /\ Y = InitPages(Moved(first, after), first, g, m.firstPage, m.afterLastPage, "Free", "PartOf")
          /\ H = WithFree(freePages, m.firstPage, m.afterLastPage)
      BY <2>2, <2>7
    <3> QED
      BY <1>2, <1>3, <2>2, <2>6, <2>8, <2>9, <3>1, GrowByOne
  <2>11. CASE new = <<m>>
    <3>1. Len(new) # 2 /\ K = groups \o <<m>>
      BY <2>1, <2>11
    <3>2. extl' = Y /\ freePages' = H
      BY <2>4, <3>1
    <3> QED
      BY <1>2, <2>4, <2>5, <2>8, <2>10, <3>1, <3>2
  <2>12. ASSUME NEW o, Second(o, m, groups), new = <<m, o>>
         PROVE  /\ pc' = "grown" /\ Indexed(extl') /\ firstPage' \in Nat /\ nextGroupNrPages' \in Nat
                /\ Holds(freePages', want.log)
                /\ \E C : Good(View(extl', firstPage'), groups', freePages', C) /\ InUse(C) = InUse(B)
    <3>1. Len(new) = 2 /\ new[2] = o /\ 2 \in DOMAIN new
      BY <2>12
    <3>2. extl' = Z /\ freePages' = J
      BY <2>4, <3>1
    <3>3. o \in Group /\ ~ TooLarge(o) /\ Between(o, first, after)
      BY <1>6, <2>8, <2>12, <3>1 DEF Spanned, Between, Second
    <3>4. PICK L, h : L = groups \o <<m>> /\ h = Len(L) + 1
      OBVIOUS
    <3>5. Elsewhere(o, L) /\ Len(L) = Len(groups) + 1 /\ groups \o <<m, o>> = L \o <<o>>
      <4>1. /\ Elsewhere(o, groups \o <<m>>) /\ Len(groups \o <<m>>) = Len(groups) + 1
            /\ groups \o <<m, o>> = (groups \o <<m>>) \o <<o>>
        BY <2>7, <2>12, SecondElsewhere
      <4> QED
        BY <3>4, <4>1, Zenon
    <3>6. /\ Z = InitPages(Y, first, h, o.firstPage, o.afterLastPage, "Free", "PartOf")
          /\ J = WithFree(H, o.firstPage, o.afterLastPage)
      <4>1. h = n + 2
        BY <2>1, <2>7, <3>4, <3>5
      <4> QED
        BY <2>3, <3>1, <4>1
    <3>7. PICK D : D = View(Y, first)
      OBVIOUS
    <3>10. Good(D, L, H, A) /\ Spans(D, first, after)
      BY <2>10, <3>4, <3>7 DEF Spans
    <3>8. PICK C : /\ Indexed(Z) /\ Holds(J, w)
                   /\ Good(View(Z, first), L \o <<o>>, J, C) /\ InUse(C) = InUse(A)
      <4>1. h = Len(L) + 1 /\ Elsewhere(o, L)
        BY <3>4, <3>5
      <4>2. Indexed(Y) /\ Holds(H, w) /\ first \in Nat /\ after \in Nat
        BY <2>8, <2>10
      <4> QED
        BY <1>3, <3>3, <3>6, <3>7, <3>10, <4>1, <4>2, GrowByAnother
    <3>9. K = L \o <<o>>
      BY <2>1, <2>12, <3>5
    <3> QED
      BY <1>2, <2>4, <2>5, <2>8, <2>10, <3>2, <3>8, <3>9
  <2> QED
    BY <2>6, <2>11, <2>12
<1> QED
  BY <1>5, <1>6

-----------------------------------------------------------------------------
(* The steps.                                                              *)

\* Pow2[w] is the least power of two that holds n pages.
Holding(n, w) == n <= Pow2[w] /\ (w > 0 => Pow2[w - 1] < n)

(* The size of the block for a number of pages.                            *)
LEMMA HigherPowerFacts ==
  ASSUME NEW n \in Requests, NEW w, w = firstHigherPower2(n)
  PROVE  w \in Logs /\ Holding(n, w)
<1>1. n \in Nat \ {0} /\ n <= Pow2[MaxLog] /\ MaxLog \in Nat
  BY ConstantFacts
<1>2. PICK S : S = {k \in 0 .. n : n <= Pow2[k]}
  OBVIOUS
<1>3. n \in S
  <2>1. n < Pow2[n] /\ Pow2[n] \in Nat
    BY <1>1, PowerOrder, PowerFacts
  <2> QED
    BY <1>1, <1>2, <2>1
<1>4. S \subseteq Nat /\ S # {}
  BY <1>2, <1>3
<1>5. Min(S) \in S /\ \A x \in S : Min(S) <= x
  BY <1>4, MinFacts
<1>6. w = Min(S)
  BY <1>2 DEF firstHigherPower2
<1>7. w \in 0 .. n /\ n <= Pow2[w]
  BY <1>2, <1>5, <1>6
<1>8. w <= MaxLog
  <2>1. CASE MaxLog \in 0 .. n
    <3>1. MaxLog \in S
      BY <1>1, <1>2, <2>1
    <3> QED
      BY <1>5, <1>6, <3>1
  <2> QED
    BY <1>1, <1>7, <2>1
<1>9. ASSUME w > 0 PROVE Pow2[w - 1] < n
  <2>1. w - 1 \in 0 .. n /\ w - 1 \in Nat /\ ~ (w <= w - 1)
    <3>1. w \in 0 .. n /\ w > 0 /\ n \in Nat
      BY <1>1, <1>7, <1>9
    <3> HIDE DEF firstHigherPower2
    <3>2. \A v \in 0 .. n : v > 0 => v - 1 \in 0 .. n /\ v - 1 \in Nat /\ ~ (v <= v - 1)
      BY <3>1
    <3> QED
      BY <3>1, <3>2, Zenon
  <2>2. w - 1 \notin S
    BY <1>5, <1>6, <2>1
  <2>3. ~ (n <= Pow2[w - 1]) /\ Pow2[w - 1] \in Nat
    BY <1>2, <2>1, <2>2, PowerFacts
  <2> QED
    BY <1>1, <2>3
<1> QED
  BY <1>1, <1>7, <1>8, <1>9 DEF Logs, Holding

(* What is asked for is in order.                                          *)
LEMMA CallStep ==
  ASSUME AllocPagesLog2 \/ AllocPages
  PROVE  /\ WantInOrder'
         /\ pc = "idle" /\ pc' = "find"
         /\ UNCHANGED <<extl, firstPage, freePages, groups, nextGroupNrPages, level>>
<1>1. PICK asked : /\ CallAlloc(asked)
                     /\ \/ \E k \in Logs : asked = [log |-> k, pages |-> 0]
                        \/ \E n \in Requests : asked = [log |-> firstHigherPower2(n), pages |-> n]
  BY DEF AllocPagesLog2, AllocPages
<1>2. want' = asked
  BY <1>1 DEF CallAlloc
<1>3. CASE \E k \in Logs : asked = [log |-> k, pages |-> 0]
  <2>1. PICK k \in Logs : asked = [log |-> k, pages |-> 0]
    BY <1>3
  <2>2. WantInOrder'
    BY <1>2, <2>1 DEF WantInOrder
  <2> QED
    BY <1>1, <2>2 DEF CallAlloc, Idle
<1>4. CASE \E n \in Requests : asked = [log |-> firstHigherPower2(n), pages |-> n]
  <2>1. PICK n \in Requests : asked = [log |-> firstHigherPower2(n), pages |-> n]
    BY <1>4
  <2>2. PICK w : w = firstHigherPower2(n)
    OBVIOUS
  <2>3. w \in Logs /\ n <= Pow2[w] /\ (w > 0 => Pow2[w - 1] < n)
    BY <2>2, HigherPowerFacts DEF Holding
  <2>4. n \in Nat
    BY ConstantFacts
  <2>5. want' = [log |-> w, pages |-> n]
    BY <1>2, <2>1, <2>2
  <2>6. WantInOrder'
    BY <2>3, <2>4, <2>5 DEF WantInOrder
  <2> QED
    BY <1>1, <2>6 DEF CallAlloc, Idle
<1> QED
  BY <1>1, <1>3, <1>4

\* What a step does to the blocks in use
Asked(B, A) == pc = "idle" /\ pc' = "find" /\ InUse(A) = InUse(B)
Granted(B, A) == /\ pc \in {"find", "retry", "grown"} /\ pc' = "idle"
                 /\ \E b \in B : Took(B, b, A, want.log, want.pages)
Released(B, A) == pc = "idle" /\ pc' = "idle" /\ \E b \in B : Returned(B, b, A)
Kept(B, A) == (pc = "idle" <=> pc' = "idle") /\ want' = want /\ InUse(A) = InUse(B)

\* The blocks after a step, and how far the search for a free one is
Reaches(B, A) ==
  /\ Good(View(extl', firstPage'), groups', freePages', A)
  /\ Searched(A)'
  /\ Asked(B, A) \/ Granted(B, A) \/ Released(B, A) \/ Kept(B, A)

(* Blocks are asked for.                                                   *)
LEMMA CallReaches ==
  ASSUME Types, NEW B, Good(Desc, groups, freePages, B), Searched(B), AllocPagesLog2 \/ AllocPages
  PROVE  Types' /\ WantInOrder' /\ Reaches(B, B)
<1>1. /\ WantInOrder' /\ pc = "idle" /\ pc' = "find"
      /\ UNCHANGED <<extl, firstPage, freePages, groups, nextGroupNrPages, level>>
  BY CallStep
<1>2. Types'
  BY <1>1 DEF Types
<1>3. Good(View(extl', firstPage'), groups', freePages', B)
  BY <1>1 DEF Desc
<1>4. Searched(B)'
  BY <1>1 DEF Searched
<1> QED
  BY <1>1, <1>2, <1>3, <1>4 DEF Reaches, Asked

(* A block is returned.                                                    *)
LEMMA DeallocReaches ==
  ASSUME Types, WantInOrder, NEW B, Good(Desc, groups, freePages, B), Searched(B), DeallocPages
  PROVE  Types' /\ WantInOrder' /\ \E A : Reaches(B, A)
<1>1. /\ pc = "idle" /\ UNCHANGED <<firstPage, groups, nextGroupNrPages, pc, want, level>>
  BY DEF DeallocPages, Idle
<1>2. PICK b, A : /\ b \in B /\ Indexed(extl')
                 /\ Good(View(extl', firstPage), groups, freePages', A)
                 /\ Returned(B, b, A)
  BY DeallocStep
<1>3. Types' /\ WantInOrder'
  BY <1>1, <1>2 DEF Types, WantInOrder
<1>4. Searched(A)'
  BY <1>1 DEF Searched
<1>5. Good(View(extl', firstPage'), groups', freePages', A)
  BY <1>1, <1>2
<1>6. Released(B, A)
  BY <1>1, <1>2 DEF Released
<1> QED
  BY <1>3, <1>4, <1>5, <1>6 DEF Reaches

(* A block is taken.                                                       *)
LEMMA TakeReaches ==
  ASSUME Types, WantInOrder, NEW B, Good(Desc, groups, freePages, B), Searched(B), TakeBlock
  PROVE  Types' /\ WantInOrder' /\ \E A : Reaches(B, A)
<1>1. /\ pc \in {"find", "retry", "grown"} /\ pc' = "idle" /\ want' = NoRequest
      /\ UNCHANGED <<firstPage, groups, nextGroupNrPages, level>>
  BY DEF TakeBlock
<1>2. PICK b, A : /\ b \in B /\ Indexed(extl')
                 /\ Good(View(extl', firstPage), groups, freePages', A)
                 /\ Took(B, b, A, want.log, want.pages)
  BY TakeBlockStep
<1>3. Types'
  BY <1>1, <1>2 DEF Types
<1>4. WantInOrder'
  BY <1>1, ConstantFacts DEF WantInOrder, NoRequest
<1>5. Searched(A)'
  BY <1>1 DEF Searched
<1>6. Good(View(extl', firstPage'), groups', freePages', A)
  BY <1>1, <1>2
<1>7. Granted(B, A)
  BY <1>1, <1>2 DEF Granted
<1> QED
  BY <1>3, <1>4, <1>5, <1>6, <1>7 DEF Reaches

(* No block is free, before or after recombining.                          *)
LEMMA NothingReaches ==
  ASSUME Types, WantInOrder, NEW B, Good(Desc, groups, freePages, B), Searched(B), NothingFree
  PROVE  Types' /\ WantInOrder' /\ \E A : Reaches(B, A)
<1>1. /\ NonEmpty = {}
      /\ \/ pc = "find" /\ pc' = "recombine"
         \/ pc = "retry" /\ pc' = "grow"
      /\ UNCHANGED <<extl, firstPage, freePages, groups, nextGroupNrPages, want, level>>
  BY DEF NothingFree
<1>2. Types' /\ WantInOrder'
  BY <1>1 DEF Types, WantInOrder
<1>3. Good(View(extl', firstPage'), groups', freePages', B)
  BY <1>1 DEF Desc
<1>4. Kept(B, B)
  BY <1>1 DEF Kept
<1>5. Searched(B)'
  <2>1. CASE pc = "find" /\ pc' = "recombine"
    <3>1. level' = 0
      BY <1>1, <2>1 DEF Searched
    <3>2. NoPairs(B, 0)
      <4>1. \A b \in B : b.log \in Nat
        BY BlockFacts DEF Good
      <4> QED
        BY <4>1 DEF NoPairs
    <3> QED
      BY <2>1, <3>1, <3>2 DEF Searched
  <2>2. CASE pc = "retry" /\ pc' = "grow"
    <3>1. level' = 0 /\ NoPairs(B, MaxLog + 1)
      BY <1>1, <2>2 DEF Searched
    <3>2. NonEmpty' = {}
      BY <1>1 DEF NonEmpty
    <3> QED
      BY <2>2, <3>1, <3>2 DEF Searched
  <2> QED
    BY <1>1, <2>1, <2>2
<1> QED
  BY <1>2, <1>3, <1>4, <1>5 DEF Reaches

(* Two halves are put together.                                            *)
LEMMA PairReaches ==
  ASSUME Types, WantInOrder, NEW B, Good(Desc, groups, freePages, B), Searched(B), RecombinePair
  PROVE  Types' /\ WantInOrder' /\ \E A : Reaches(B, A)
<1>1. pc = "recombine" /\ UNCHANGED <<firstPage, groups, nextGroupNrPages, pc, want, level>>
  BY DEF RecombinePair
<1>2. NoPairs(B, level)
  BY <1>1 DEF Searched
<1>3. PICK A : /\ Indexed(extl') /\ Good(View(extl', firstPage), groups, freePages', A)
               /\ InUse(A) = InUse(B) /\ NoPairs(A, level)
  BY <1>2, RecombineStep
<1>4. Types' /\ WantInOrder'
  BY <1>1, <1>3 DEF Types, WantInOrder
<1>5. Searched(A)'
  BY <1>1, <1>3 DEF Searched
<1>6. Good(View(extl', firstPage'), groups', freePages', A)
  BY <1>1, <1>3
<1>7. Kept(B, A)
  BY <1>1, <1>3 DEF Kept
<1> QED
  BY <1>4, <1>5, <1>6, <1>7 DEF Reaches

(* All pairs of one size have been.                                        *)
LEMMA NextSizeReaches ==
  ASSUME Types, WantInOrder, NEW B, Good(Desc, groups, freePages, B), Searched(B), RecombineNextSize
  PROVE  Types' /\ WantInOrder' /\ \E A : Reaches(B, A)
<1>1. /\ pc = "recombine" /\ UNCHANGED <<extl, firstPage, freePages, groups, nextGroupNrPages, want>>
      /\ \A p \in freePages[level] : ~ CanRecombine(p, level)
      /\ IF level < MaxLog THEN level' = level + 1 /\ pc' = pc
                           ELSE level' = 0 /\ pc' = "retry"
  BY DEF RecombineNextSize
<1>2. level \in Logs /\ level \in Nat /\ level <= MaxLog /\ MaxLog \in Nat
  BY ConstantFacts DEF Types
<1>3. NoPairs(B, level + 1)
  <2>1. NoPairs(B, level)
    BY <1>1 DEF Searched
  <2> QED
    BY <1>1, <1>2, <2>1, NoPairsNext
<1>4. Types' /\ WantInOrder'
  <2>1. level' \in Logs
    BY <1>1, <1>2, ConstantFacts DEF Logs
  <2> QED
    BY <1>1, <2>1 DEF Types, WantInOrder
<1>5. Searched(B)'
  <2>1. CASE level < MaxLog
    BY <1>1, <1>3, <2>1 DEF Searched
  <2>2. CASE ~ (level < MaxLog)
    <3>1. level = MaxLog
      BY <1>2, <2>2
    <3>2. NoPairs(B, MaxLog + 1)
      BY <1>3, <3>1
    <3> QED
      BY <1>1, <2>2, <3>2 DEF Searched
  <2> QED
    BY <2>1, <2>2
<1>6. Good(View(extl', firstPage'), groups', freePages', B)
  BY <1>1 DEF Desc
<1>7. Kept(B, B)
  BY <1>1 DEF Kept
<1> QED
  BY <1>4, <1>5, <1>6, <1>7 DEF Reaches

(* There are new groups, or one of them is too large.                      *)
LEMMA GrowReaches ==
  ASSUME Types, WantInOrder, NEW B, Good(Desc, groups, freePages, B), Searched(B), NewBuddyGroup
  PROVE  Types' /\ WantInOrder' /\ \E A : Reaches(B, A)
<1>1. pc = "grow" /\ UNCHANGED <<want, level>>
  BY DEF NewBuddyGroup
<1>2. WantInOrder' /\ level = 0
  BY <1>1 DEF WantInOrder, Searched
<1>3. CASE pc' = "too large" /\ UNCHANGED <<extl, firstPage, freePages, groups, nextGroupNrPages>>
  <2>1. Types'
    BY <1>1, <1>3 DEF Types
  <2>2. Searched(B)'
    BY <1>1, <1>2, <1>3 DEF Searched
  <2>3. Good(View(extl', firstPage'), groups', freePages', B)
    BY <1>3 DEF Desc
  <2>4. Kept(B, B)
    BY <1>1, <1>3 DEF Kept
  <2> QED
    BY <1>2, <2>1, <2>2, <2>3, <2>4 DEF Reaches
<1>4. CASE /\ pc' = "grown" /\ Indexed(extl') /\ firstPage' \in Nat /\ nextGroupNrPages' \in Nat
           /\ Holds(freePages', want.log)
           /\ \E A : Good(View(extl', firstPage'), groups', freePages', A) /\ InUse(A) = InUse(B)
  <2>1. PICK A : Good(View(extl', firstPage'), groups', freePages', A) /\ InUse(A) = InUse(B)
    BY <1>4
  <2>2. Types'
    BY <1>1, <1>4 DEF Types
  <2>3. NonEmpty' # {}
    BY <1>1, <1>4 DEF Holds, NonEmpty
  <2>4. Searched(A)'
    BY <1>1, <1>2, <1>4, <2>3 DEF Searched
  <2>5. Kept(B, A)
    BY <1>1, <1>4, <2>1 DEF Kept
  <2> QED
    BY <1>2, <2>1, <2>2, <2>4, <2>5 DEF Reaches
<1> QED
  BY <1>3, <1>4, GrowStep

(* Every step reaches good blocks.                                         *)
LEMMA NextReaches ==
  ASSUME Types, WantInOrder, NEW B, Good(Desc, groups, freePages, B), Searched(B), [Next]_vars
  PROVE  Types' /\ WantInOrder' /\ \E A : Reaches(B, A)
<1>1. CASE UNCHANGED vars
  <2>1. Types' /\ WantInOrder'
    BY <1>1 DEF Types, WantInOrder, vars
  <2>2. Good(View(extl', firstPage'), groups', freePages', B)
    BY <1>1 DEF Desc, vars
  <2>3. Searched(B)'
    BY <1>1 DEF Searched, NonEmpty, vars
  <2>4. Kept(B, B)
    BY <1>1 DEF Kept, vars
  <2> QED
    BY <2>1, <2>2, <2>3, <2>4 DEF Reaches
<1>2. CASE AllocPagesLog2 \/ AllocPages
  BY <1>2, CallReaches
<1>3. CASE DeallocPages
  BY <1>3, DeallocReaches
<1>4. CASE TakeBlock
  BY <1>4, TakeReaches
<1>5. CASE NothingFree
  BY <1>5, NothingReaches
<1>6. CASE RecombinePair
  BY <1>6, PairReaches
<1>7. CASE RecombineNextSize
  BY <1>7, NextSizeReaches
<1>8. CASE NewBuddyGroup
  BY <1>8, GrowReaches
<1> QED
  BY <1>1, <1>2, <1>3, <1>4, <1>5, <1>6, <1>7, <1>8 DEF Next

-----------------------------------------------------------------------------
(* What is known when memory is asked for, and of the tiling.              *)

(* The other half of a block is in the block of twice the size around it.  *)
LEMMA OtherInside ==
  ASSUME NEW k \in Nat, NEW s \in Nat, s % Pow2[k] = 0, NEW d, d = s - (s % Pow2[k + 1]),
         NEW t, t = OtherHalfOfPage(s, k)
  PROVE  t \in Nat /\ t % Pow2[k] = 0 /\ d <= t /\ t + Pow2[k] <= d + Pow2[k + 1] /\ t # s
<1>1. /\ Pow2[k] \in Nat \ {0} /\ k + 1 \in Nat /\ Pow2[k + 1] \in Nat \ {0}
      /\ Pow2[k + 1] = 2 * Pow2[k]
  BY PowerFacts
<1>2. d \in Nat /\ d % Pow2[k + 1] = 0 /\ d <= s /\ s + Pow2[k] <= d + Pow2[k + 1]
  BY DoubleAround
<1>3. CASE s % Pow2[k + 1] = 0
  <2>1. t = s + Pow2[k] /\ t % Pow2[k] = 0
    BY <1>3, HalfOrOther DEF OtherHalfOfPage
  <2>2. d = s
    BY <1>3
  <2>3. t \in Nat /\ s <= t /\ t # s /\ t + Pow2[k] <= s + Pow2[k + 1]
    <3>1. PICK P, R : P = Pow2[k] /\ R = Pow2[k + 1]
      OBVIOUS
    <3>2. P \in Nat \ {0} /\ R = 2 * P /\ t = s + P
      BY <1>1, <2>1, <3>1
    <3>3. t \in Nat /\ s <= t /\ t # s /\ t + P <= s + R
      BY <3>2
    <3> QED
      BY <3>1, <3>3
  <2> QED
    BY <2>1, <2>2, <2>3
<1>4. CASE s % Pow2[k + 1] # 0
  <2>1. t = s - Pow2[k] /\ s >= Pow2[k] /\ t % Pow2[k + 1] = 0
    BY <1>4, HalfOrOther DEF OtherHalfOfPage
  <2>2. t \in Nat
    BY <1>1, <2>1
  <2>3. t % Pow2[k] = 0
    <3>1. k <= k + 1
      OBVIOUS
    <3> QED
      BY <1>1, <2>1, <2>2, <3>1, AlignedToSmaller
  <2>4. t < d + Pow2[k + 1] /\ d < t + Pow2[k + 1]
    BY <1>1, <1>2, <2>1, <2>2
  <2>5. d <= t /\ t + Pow2[k + 1] <= d + Pow2[k + 1]
    <3>1. k + 1 <= k + 1
      BY <1>1
    <3> QED
      BY <1>1, <1>2, <2>1, <2>2, <2>4, <3>1, Nested
  <2> QED
    BY <1>1, <1>2, <2>1, <2>2, <2>3, <2>5
<1> QED
  BY <1>3, <1>4

(* A free block smaller than an aligned run of free pages in one group,    *)
(* and no other smaller: its other half is free too.                       *)
LEMMA SmallestHasOther ==
  ASSUME NEW G, GroupsInOrder(G), NEW B, \A x \in B : WellPlaced(x, G), Disjoint(B),
         NEW i \in DOMAIN G, NEW p \in Nat, NEW w \in Nat,
         Fits(p, w, G[i].firstPage, G[i].afterLastPage),
         \A q \in Nat : Within(q, p, w) => \E x \in B : x.free /\ In(q, x),
         NEW b \in B, b.free, b.log < w, NEW r \in Nat, Within(r, p, w), In(r, b),
         \A x \in B : \A q \in Nat : x.free /\ Within(q, p, w) /\ In(q, x) => b.log <= x.log
  PROVE  \E c \in B : /\ c.free /\ b.log = c.log /\ b.group = c.group
                      /\ c.page = OtherHalfOfPage(b.page, b.log)
<1>1. PICK k, s : k = b.log /\ s = b.page
  OBVIOUS
<1>2. /\ k \in Nat /\ s \in Nat /\ s % Pow2[k] = 0 /\ b.pages = Pow2[k] /\ k < w
      /\ Pow2[k] \in Nat \ {0} /\ Pow2[w] \in Nat \ {0} /\ k + 1 \in Nat /\ k + 1 <= w /\ Pow2[k + 1] \in Nat \ {0}
      /\ Pow2[k + 1] = 2 * Pow2[k]
  BY <1>1, BlockFacts, PowerFacts
<1>3. p % Pow2[w] = 0 /\ G[i].firstPage <= p /\ p + Pow2[w] <= G[i].afterLastPage
  BY DEF Fits
<1>4. p <= r /\ r < p + Pow2[w] /\ s <= r /\ r < s + Pow2[k]
  BY <1>1, <1>2 DEF Within, In
<1>5. p <= s /\ s + Pow2[k] <= p + Pow2[w]
  <2>1. k <= w /\ s < p + Pow2[w] /\ p < s + Pow2[k]
    BY <1>2, <1>4
  <2> QED
    BY <1>2, <1>3, <2>1, Nested
<1>6. PICK d : d = s - (s % Pow2[k + 1])
  OBVIOUS
<1>7. d \in Nat /\ d % Pow2[k + 1] = 0 /\ d <= s /\ s + Pow2[k] <= d + Pow2[k + 1]
  BY <1>2, <1>6, DoubleAround
<1>8. p <= d /\ d + Pow2[k + 1] <= p + Pow2[w]
  <2>1. d < p + Pow2[w] /\ p < d + Pow2[k + 1]
    BY <1>2, <1>4, <1>5, <1>7
  <2> QED
    BY <1>2, <1>3, <1>7, <2>1, Nested
<1>9. PICK t : t = OtherHalfOfPage(s, k)
  OBVIOUS
<1>10. t \in Nat /\ t % Pow2[k] = 0 /\ d <= t /\ t + Pow2[k] <= d + Pow2[k + 1] /\ t # s
  BY <1>2, <1>6, <1>9, OtherInside
<1>11. Within(t, p, w)
  <2>1. PICK P, R, W : P = Pow2[k] /\ R = Pow2[k + 1] /\ W = Pow2[w]
    OBVIOUS
  <2>2. /\ P \in Nat \ {0} /\ R \in Nat /\ W \in Nat /\ p <= d /\ d + R <= p + W
        /\ t \in Nat /\ d <= t /\ t + P <= d + R /\ d \in Nat
    BY <1>2, <1>7, <1>8, <1>10, <2>1
  <2>3. p <= t /\ t < p + W
    BY <2>2
  <2> QED
    BY <2>1, <2>3 DEF Within
<1>12. PICK c \in B : c.free /\ In(t, c)
  BY <1>10, <1>11
<1>13. PICK l, u : l = c.log /\ u = c.page
  OBVIOUS
<1>14. /\ l \in Nat /\ u \in Nat /\ u % Pow2[l] = 0 /\ c.pages = Pow2[l] /\ Pow2[l] \in Nat \ {0}
       /\ u <= t /\ t < u + Pow2[l] /\ k <= l
  <2>1. WellPlaced(c, G)
    OBVIOUS
  <2>2. l \in Nat /\ u \in Nat /\ u % Pow2[l] = 0 /\ c.pages = Pow2[l]
    BY <1>12, <1>13, <2>1, BlockFacts
  <2>3. u <= t /\ t < u + Pow2[l]
    BY <1>12, <1>13, <2>2 DEF In
  <2>4. k <= l
    BY <1>1, <1>10, <1>11, <1>12, <1>13
  <2> QED
    BY <2>2, <2>3, <2>4, PowerFacts
<1>15. l = k
  <2> SUFFICES ASSUME l # k PROVE FALSE
    OBVIOUS
  <2>1. k + 1 <= l
    BY <1>2, <1>14
  <2>2. u <= d /\ d + Pow2[k + 1] <= u + Pow2[l]
    <3>1. d < u + Pow2[l] /\ u < d + Pow2[k + 1]
      BY <1>2, <1>7, <1>10, <1>14
    <3> QED
      BY <1>2, <1>7, <1>14, <2>1, <3>1, Nested
  <2>3. In(s, c) /\ In(s, b)
    BY <1>1, <1>2, <1>7, <1>13, <1>14, <2>2 DEF In
  <2>4. b = c
    BY <1>2, <2>3 DEF Disjoint
  <2> QED
    BY <1>1, <1>13, <2>4
<1>16. u = t
  BY <1>2, <1>10, <1>14, <1>15, Nested
<1>17. b.group = i /\ c.group = i
  <2>1. ASSUME NEW x \in B, NEW q \in Nat, In(q, x), Within(q, p, w) PROVE x.group = i
    <3>1. WellPlaced(x, G)
      OBVIOUS
    <3>2. x.group \in DOMAIN G /\ x.page \in Nat /\ x.pages \in Nat
      BY <3>1, BlockFacts
    <3>3. G[i] \in Group /\ G[x.group] \in Group
      BY <3>2 DEF GroupsInOrder
    <3>4. /\ G[i].firstPage \in Nat /\ G[i].afterLastPage \in Nat
          /\ G[x.group].firstPage \in Nat /\ G[x.group].afterLastPage \in Nat
      BY <3>3, ConstantFacts DEF Group
    <3>5. q \in GroupPages(G[x.group])
      BY <2>1, <3>1, <3>2, <3>4 DEF WellPlaced, In, GroupPages
    <3>6. q \in GroupPages(G[i])
      BY <1>2, <1>3, <2>1, <3>4 DEF Within, GroupPages
    <3>7. ~ Apart(G[i], G[x.group])
      BY <3>5, <3>6 DEF Apart
    <3> QED
      BY <3>2, <3>7 DEF GroupsInOrder
  <2> QED
    BY <1>10, <1>11, <1>12, <2>1
<1> QED
  BY <1>1, <1>9, <1>12, <1>13, <1>15, <1>16, <1>17

(* Without free halves to recombine, a run of free pages, aligned and in   *)
(* one group, is in a free block as large.                                 *)
LEMMA RunInBlock ==
  ASSUME NEW G, GroupsInOrder(G), NEW B, \A x \in B : WellPlaced(x, G), Disjoint(B), NoPairs(B, MaxLog + 1),
         NEW i \in DOMAIN G, NEW p \in Nat, NEW w \in Nat,
         Fits(p, w, G[i].firstPage, G[i].afterLastPage),
         \A q \in Nat : Within(q, p, w) => \E x \in B : x.free /\ In(q, x)
  PROVE  \E b \in B : b.free /\ w <= b.log
<1> SUFFICES ASSUME \A b \in B : b.free => b.log < w PROVE FALSE
  <2>1. \A b \in B : b.log \in Nat
    BY BlockFacts
  <2> QED
    BY <2>1
<1>1. PICK S : S = {l \in Nat : \E x \in B, q \in Nat : x.free /\ Within(q, p, w) /\ In(q, x) /\ l = x.log}
  OBVIOUS
<1>2. \A x \in B : \A q \in Nat : x.free /\ Within(q, p, w) /\ In(q, x) => x.log \in S
  BY <1>1, BlockFacts
<1>3. S # {}
  <2>1. Within(p, p, w)
    BY PowerFacts DEF Within
  <2> QED
    BY <1>2, <2>1
<1>4. PICK k \in S : \A l \in S : k <= l
  BY <1>1, <1>3, LeastNatural
<1>5. PICK b \in B, r \in Nat : b.free /\ Within(r, p, w) /\ In(r, b) /\ k = b.log
  BY <1>1
<1>6. PICK c \in B : /\ c.free /\ b.log = c.log /\ b.group = c.group
                     /\ c.page = OtherHalfOfPage(b.page, b.log)
  <2>1. \A x \in B : \A q \in Nat : x.free /\ Within(q, p, w) /\ In(q, x) => b.log <= x.log
    BY <1>2, <1>4, <1>5
  <2>2. b.log < w
    BY <1>5
  <2> QED
    BY <1>5, <2>1, <2>2, SmallestHasOther
<1>7. b.log < MaxLog + 1
  <2>1. WellPlaced(b, G)
    OBVIOUS
  <2> QED
    BY <2>1, BlockFacts, ConstantFacts
<1> QED
  BY <1>5, <1>6, <1>7 DEF NoPairs

(* So memory is asked for only when there is no such run.                  *)
LEMMA GrowsWhenFull ==
  ASSUME Types, WantInOrder, NEW B, Good(Desc, groups, freePages, B), Searched(B)
  PROVE  GrowsOnlyWhenFull
<1> SUFFICES ASSUME pc = "grow",
                    NEW i \in DOMAIN groups, NEW p \in GroupPages(groups[i]),
                    Fits(p, want.log, groups[i].firstPage, groups[i].afterLastPage),
                    \A q \in p .. p + Pow2[want.log] - 1 :
                       \E b \in FreeBlocks : q \in b.page .. b.page + b.pages - 1
             PROVE  FALSE
  BY DEF GrowsOnlyWhenFull
<1>1. NoPairs(B, MaxLog + 1) /\ NonEmpty = {}
  BY DEF Searched
<1>2. PICK w : w = want.log
  OBVIOUS
<1>3. w \in Logs /\ w \in Nat /\ Pow2[w] \in Nat \ {0}
  BY <1>2, ConstantFacts, PowerFacts DEF WantInOrder
<1>4. GroupsInOrder(groups) /\ (\A x \in B : WellPlaced(x, groups)) /\ Disjoint(B) /\ Lists(freePages, B)
  BY DEF Good
<1>5. p \in Nat
  <2>1. groups[i] \in Group
    BY <1>4 DEF GroupsInOrder
  <2> QED
    BY <2>1, ConstantFacts DEF Group, GroupPages
<1>6. ASSUME NEW q \in Nat, Within(q, p, w) PROVE \E x \in B : x.free /\ In(q, x)
  <2>1. q \in p .. p + Pow2[want.log] - 1
    BY <1>2, <1>3, <1>5, <1>6 DEF Within
  <2>2. PICK y \in FreeBlocks : q \in y.page .. y.page + y.pages - 1
    BY <2>1
  <2>3. PICK x \in B : x.free /\ y = Owned(x)
    <3>1. FreeBlocks = {Owned(b) : b \in {c \in B : c.free}}
      BY OwnedBlocks
    <3> QED
      BY <2>2, <3>1
  <2>4. y.page = x.page /\ y.pages = x.pages
    BY <2>3 DEF Owned
  <2>5. x.page \in Nat /\ x.pages \in Nat
    BY <1>4, BlockFacts
  <2> QED
    BY <2>2, <2>3, <2>4, <2>5 DEF In
<1>7. \A q \in Nat : Within(q, p, w) => \E x \in B : x.free /\ In(q, x)
  BY <1>6
<1>8. PICK b \in B : b.free /\ w <= b.log
  BY <1>1, <1>2, <1>3, <1>4, <1>5, <1>7, RunInBlock
<1>9. PICK k : k = b.log
  OBVIOUS
<1>10. k \in Logs /\ k \in Nat /\ k <= MaxLog /\ w <= k
  BY <1>4, <1>8, <1>9, BlockFacts, ConstantFacts
<1>11. b.page \in freePages[k]
  BY <1>4, <1>8, <1>9, <1>10 DEF Lists, FreeAt
<1>12. k \in NonEmpty
  BY <1>2, <1>3, <1>10, <1>11, ConstantFacts DEF NonEmpty
<1> QED
  BY <1>1, <1>12

-----------------------------------------------------------------------------
(* The promise, and the theorems.                                          *)

(* The blocks of the promise are those in use.                             *)
LEMMA UsedInUse ==
  \A A : Types /\ Good(Desc, groups, freePages, A) => UsedBlocks = {Owned(b) : b \in InUse(A)}
<1> SUFFICES ASSUME NEW A, Types, Good(Desc, groups, freePages, A)
             PROVE  UsedBlocks = {Owned(b) : b \in InUse(A)}
  OBVIOUS
<1>1. UsedBlocks = {Owned(b) : b \in {c \in A : ~ c.free}}
  BY OwnedBlocks
<1> QED
  BY <1>1, Zenon DEF InUse

\* What is asked for, in pages
Wanted == IF pc \in {"idle"} THEN 0 ELSE IF want.pages = 0 THEN Pow2[want.log] ELSE want.pages

(* The powers of two of the promise are the same.                          *)
LEMMA SamePowers == Promise!Pow2 = Pow2
BY Zenon DEF Promise!Pow2, Pow2

(* Its alignment is the size of the block.                                 *)
LEMMA AlignmentIs ==
  ASSUME NEW n \in Nat \ {0}, NEW w \in Nat, Holding(n, w)
  PROVE  Promise!Alignment(n) = Pow2[w]
<1>1. n <= Pow2[w] /\ (w > 0 => w - 1 \in Nat /\ Pow2[w - 1] < n /\ Pow2[w] = 2 * Pow2[w - 1] /\ Pow2[w - 1] \in Nat)
      /\ Pow2[w] \in Nat
  <2>1. w > 0 => w - 1 \in Nat /\ (w - 1) + 1 = w
    OBVIOUS
  <2> QED
    BY <2>1, PowerFacts DEF Holding
<1>2. w <= n /\ Pow2[w] < 2 * n
  <2>1. CASE w = 0
    <3>1. Pow2[w] = 1
      BY <2>1, PowerFacts
    <3> QED
      BY <2>1, <3>1
  <2>2. CASE w > 0
    <3>1. w - 1 < Pow2[w - 1]
      BY <1>1, <2>2, PowerOrder
    <3> QED
      BY <1>1, <2>2, <3>1
  <2> QED
    BY <2>1, <2>2
<1>3. ASSUME NEW k \in 0 .. n, n <= Pow2[k], Pow2[k] < 2 * n PROVE k = w
  <2>1. k \in Nat /\ Pow2[k] \in Nat
    BY <1>3, PowerFacts
  <2>2. ~ (k < w)
    <3> SUFFICES ASSUME k < w PROVE FALSE
      OBVIOUS
    <3>1. 2 * Pow2[k] <= Pow2[w]
      BY <2>1, PowerOrder
    <3> QED
      BY <1>1, <1>2, <1>3, <2>1, <3>1
  <2>3. ~ (w < k)
    <3> SUFFICES ASSUME w < k PROVE FALSE
      OBVIOUS
    <3>1. 2 * Pow2[w] <= Pow2[k]
      BY <2>1, PowerOrder
    <3> QED
      BY <1>1, <1>3, <2>1, <3>1
  <2> QED
    BY <2>1, <2>2, <2>3
<1>4. PICK S : S = {Pow2[k] : k \in 0 .. n}
  OBVIOUS
<1>5. Promise!Alignment(n) = CHOOSE a \in S : n <= a /\ a < 2 * n
  BY <1>4, SamePowers DEF Promise!Alignment
<1>6. Pow2[w] \in S /\ n <= Pow2[w] /\ Pow2[w] < 2 * n
  <2>1. w \in 0 .. n
    BY <1>2
  <2> QED
    BY <1>1, <1>2, <1>4, <2>1
<1>7. \A a \in S : n <= a /\ a < 2 * n => a = Pow2[w]
  BY <1>3, <1>4
<1>8. (CHOOSE a \in S : n <= a /\ a < 2 * n) = Pow2[w]
  BY <1>6, <1>7
<1> QED
  BY <1>5, <1>8

(* What is asked for is a number of pages the block that is taken holds.   *)
LEMMA WantedFacts ==
  ASSUME WantInOrder, pc # "idle"
  PROVE  /\ Wanted \in Nat \ {0} /\ Holding(Wanted, want.log) /\ want.log \in Logs
         /\ Wanted = IF want.pages = 0 THEN Pow2[want.log] ELSE want.pages
<1>1. PICK w, n : w = want.log /\ n = want.pages
  OBVIOUS
<1>2. w \in Logs /\ w \in Nat /\ n \in Nat /\ Pow2[w] \in Nat \ {0}
      /\ (n # 0 => n <= Pow2[w] /\ (w > 0 => Pow2[w - 1] < n))
  BY <1>1, ConstantFacts, PowerFacts DEF WantInOrder
<1>3. Wanted = IF n = 0 THEN Pow2[w] ELSE n
  BY <1>1 DEF Wanted
<1>4. w > 0 => Pow2[w - 1] < Pow2[w]
  <2> SUFFICES ASSUME w > 0 PROVE Pow2[w - 1] < Pow2[w]
    OBVIOUS
  <2>1. w - 1 \in Nat /\ (w - 1) + 1 = w
    BY <1>2
  <2>2. Pow2[w] = 2 * Pow2[w - 1] /\ Pow2[w - 1] \in Nat \ {0}
    BY <2>1, PowerFacts
  <2> QED
    BY <2>2
<1>5. CASE n = 0
  <2>1. Holding(Pow2[w], w)
    BY <1>2, <1>4 DEF Holding
  <2> QED
    BY <1>1, <1>2, <1>3, <1>5, <2>1
<1>6. CASE n # 0
  <2>1. Holding(n, w)
    BY <1>2, <1>6 DEF Holding
  <2> QED
    BY <1>1, <1>2, <1>3, <1>6, <2>1
<1> QED
  BY <1>5, <1>6

(* A block that is taken is what was promised.                             *)
LEMMA TakenGranted ==
  ASSUME Types, WantInOrder, pc # "idle", NEW B, Good(Desc, groups, freePages, B),
         NEW b \in B, NEW A, Took(B, b, A, want.log, want.pages),
         UsedBlocks' = {Owned(c) : c \in InUse(A)}, Wanted' = 0
  PROVE  Promise!Grant
<1>1. PICK n, w, p : n = Wanted /\ w = want.log /\ p = b.page
  OBVIOUS
<1>2. n \in Nat \ {0} /\ Holding(n, w) /\ w \in Logs /\ w \in Nat
      /\ n = IF want.pages = 0 THEN Pow2[w] ELSE want.pages
  BY <1>1, WantedFacts, ConstantFacts
<1>3. b.free /\ w <= b.log /\ InUse(A) = InUse(B) \cup {Used(p, w, n, b.group)}
  BY <1>1, <1>2 DEF Took
<1>4. GroupsInOrder(groups) /\ (\A c \in B : WellPlaced(c, groups)) /\ Disjoint(B)
  BY DEF Good
<1>5. p \in Nat /\ b.log \in Nat /\ p % Pow2[b.log] = 0 /\ b.pages = Pow2[b.log] /\ b.group \in DOMAIN groups
  BY <1>1, <1>3, <1>4, BlockFacts
<1>6. n <= b.pages /\ b.pages \in Nat
  <2>1. n <= Pow2[w] /\ Pow2[w] <= Pow2[b.log] /\ Pow2[w] \in Nat /\ Pow2[b.log] \in Nat
    BY <1>2, <1>3, <1>5, PowerFacts, PowerOrder DEF Holding
  <2> QED
    BY <1>2, <1>5, <2>1
<1>7. p \in Page
  <2>1. groups[b.group] \in Group
    BY <1>4, <1>5 DEF GroupsInOrder
  <2>2. groups[b.group].afterLastPage \in 0 .. AfterAll
    BY <2>1 DEF Group
  <2>3. p + b.pages <= groups[b.group].afterLastPage
    BY <1>1, <1>4 DEF WellPlaced
  <2> QED
    BY <1>2, <1>5, <1>6, <2>2, <2>3, ConstantFacts DEF Page
<1>8. p % Promise!Alignment(n) = 0
  BY <1>2, <1>3, <1>5, AlignmentIs, AlignedToSmaller
<1>9. PICK x : x = [page |-> p, pages |-> n]
  OBVIOUS
<1>10. Owned(Used(p, w, n, b.group)) = x
  BY <1>9 DEF Owned, Used
<1>11. UsedBlocks = {Owned(c) : c \in InUse(B)}
  BY UsedInUse
<1>12. UsedBlocks' = UsedBlocks \cup {x}
  BY <1>3, <1>10, <1>11
<1>13. \A y \in UsedBlocks : Promise!PagesOf(y) \cap Promise!PagesOf(x) = {}
  <2> SUFFICES ASSUME NEW c \in InUse(B), NEW q \in Promise!PagesOf(Owned(c)), q \in Promise!PagesOf(x)
               PROVE  FALSE
    BY <1>11
  <2>1. c \in B /\ ~ c.free
    BY DEF InUse
  <2>2. c.page \in Nat /\ c.pages \in Nat
    BY <1>4, <2>1, BlockFacts
  <2>3. q \in c.page .. c.page + c.pages - 1
    BY DEF Promise!PagesOf, Owned
  <2>4. q \in p .. p + n - 1
    BY <1>9 DEF Promise!PagesOf
  <2>5. q \in Nat /\ In(q, c)
    BY <2>2, <2>3 DEF In
  <2>6. In(q, b)
    BY <1>1, <1>2, <1>5, <1>6, <2>4 DEF In
  <2>7. c = b
    BY <1>4, <2>1, <2>5, <2>6 DEF Disjoint
  <2> QED
    BY <1>3, <2>1, <2>7
<1> QED
  BY <1>1, <1>2, <1>7, <1>8, <1>9, <1>12, <1>13 DEF Promise!Grant, Wanted

(* A block that is returned is one of them.                                *)
LEMMA ReturnedReleased ==
  ASSUME Types, pc = "idle", NEW B, Good(Desc, groups, freePages, B),
         NEW b \in B, NEW A, Returned(B, b, A),
         UsedBlocks' = {Owned(c) : c \in InUse(A)}, Wanted' = 0
  PROVE  Promise!Release
<1>1. ~ b.free /\ InUse(A) = InUse(B) \ {b}
  BY DEF Returned
<1>2. b \in InUse(B)
  BY <1>1 DEF InUse
<1>3. UsedBlocks = {Owned(c) : c \in InUse(B)}
  BY UsedInUse
<1>4. \A c \in InUse(B) : Owned(c) = Owned(b) => c = b
  <2> SUFFICES ASSUME NEW c \in InUse(B), Owned(c) = Owned(b) PROVE c = b
    OBVIOUS
  <2>1. c \in B /\ c.page = b.page
    BY DEF InUse, Owned
  <2>2. (\A x \in B : WellPlaced(x, groups)) /\ Disjoint(B)
    BY DEF Good
  <2> QED
    BY <2>1, <2>2, SamePage
<1>5. UsedBlocks' = UsedBlocks \ {Owned(b)} /\ Owned(b) \in UsedBlocks
  BY <1>1, <1>2, <1>3, <1>4
<1>6. Wanted = 0
  BY DEF Wanted
<1> QED
  BY <1>5, <1>6 DEF Promise!Release, Wanted

(* The same of the next state.                                             *)
LEMMA UsedNext ==
  (\A A : Types /\ Good(Desc, groups, freePages, A) => UsedBlocks = {Owned(b) : b \in InUse(A)})'
BY UsedInUse, PTL

(* What is wanted is a number of pages, in the next state.                 *)
LEMMA WantedNext == (WantInOrder /\ pc # "idle" => Wanted \in Nat \ {0})'
<1>1. WantInOrder /\ pc # "idle" => Wanted \in Nat \ {0}
  BY WantedFacts
<1> QED
  BY <1>1, PTL

(* Every step is one of the promise, or changes nothing the callers see.   *)
LEMMA StepPromised ==
  ASSUME Types, WantInOrder, NEW B, Good(Desc, groups, freePages, B), Searched(B), [Next]_vars
  PROVE  [Promise!Next]_<<UsedBlocks, Wanted>>
<1>1. PICK A : Types' /\ WantInOrder' /\ Reaches(B, A)
  BY NextReaches
<1>2. UsedBlocks' = {Owned(c) : c \in InUse(A)}
  <2>2. Good(Desc, groups, freePages, A)'
    BY <1>1 DEF Reaches, Desc
  <2> QED
    BY <1>1, <2>2, UsedNext
<1>3. UsedBlocks = {Owned(c) : c \in InUse(B)}
  BY UsedInUse
<1>4. CASE Asked(B, A)
  <2>1. pc = "idle" /\ pc' # "idle" /\ UsedBlocks' = UsedBlocks
    BY <1>2, <1>3, <1>4 DEF Asked
  <2>2. Wanted = 0
    BY <2>1 DEF Wanted
  <2> QED
    BY <1>1, <2>1, <2>2, WantedNext DEF Promise!Next, Promise!Ask, Wanted
<1>5. CASE Granted(B, A)
  <2>1. pc # "idle" /\ Wanted' = 0
    BY <1>5 DEF Granted, Wanted
  <2>2. PICK b \in B : Took(B, b, A, want.log, want.pages)
    BY <1>5 DEF Granted
  <2>3. Promise!Grant
    BY <1>2, <2>1, <2>2, TakenGranted
  <2> QED
    BY <2>3 DEF Promise!Next
<1>6. CASE Released(B, A)
  <2>1. pc = "idle" /\ Wanted' = 0
    BY <1>6 DEF Released, Wanted
  <2>2. PICK b \in B : Returned(B, b, A)
    BY <1>6 DEF Released
  <2>3. Promise!Release
    BY <1>2, <2>1, <2>2, ReturnedReleased
  <2> QED
    BY <2>3 DEF Promise!Next
<1>7. CASE Kept(B, A)
  <2>1. UsedBlocks' = UsedBlocks
    BY <1>2, <1>3, <1>7 DEF Kept
  <2>2. Wanted' = Wanted
    BY <1>7 DEF Kept, Wanted
  <2> QED
    BY <2>1, <2>2
<1> QED
  BY <1>1, <1>4, <1>5, <1>6, <1>7 DEF Reaches

(* At first there are no pages.                                            *)
LEMMA InitGood ==
  ASSUME Init
  PROVE  /\ Types /\ WantInOrder /\ Good(Desc, groups, freePages, {}) /\ Searched({})
         /\ UsedBlocks = {} /\ Wanted = 0
<1>1. DOMAIN extl = {} /\ firstPage = 0 /\ groups = <<>> /\ freePages = [k \in Logs |-> {}]
      /\ pc = "idle" /\ want = NoRequest /\ level = 0 /\ nextGroupNrPages = InitialPages
  BY DEF Init
<1>2. Indexed(extl)
  <2>1. 0 .. 0 - 1 = {}
    OBVIOUS
  <2> QED
    BY <1>1, <2>1 DEF Indexed
<1>3. Types
  BY <1>1, <1>2, ConstantFacts DEF Types
<1>4. WantInOrder
  BY <1>1, ConstantFacts DEF WantInOrder, NoRequest
<1>5. Searched({})
  BY <1>1 DEF Searched
<1>6. DOMAIN Desc = {} /\ Managed = {}
  <2>1. ASSUME NEW p \in DOMAIN Desc PROVE FALSE
    <3>1. p \in DOMAIN View(extl, firstPage)
      BY DEF Desc
    <3>2. p - firstPage \in DOMAIN extl
      BY <1>1, <1>2, <3>1, ViewFacts
    <3> QED
      BY <1>1, <3>2
  <2> QED
    BY <1>3, <2>1, DescFacts
<1>7. Good(Desc, groups, freePages, {})
  <2>1. Desc = [p \in DOMAIN Desc |-> Desc[p]]
    BY DEF Desc, View
  <2>2. Desc \in [DOMAIN Desc -> ExtlData] /\ DOMAIN Desc \subseteq Nat
    BY <1>6, <2>1
  <2>3. GroupsInOrder(groups) /\ DOMAIN groups = {}
    BY <1>1 DEF GroupsInOrder
  <2>4. Covers({}, groups) /\ Gaps(Desc, groups) /\ Disjoint({})
    BY <1>6, <2>3 DEF Covers, Gaps, Disjoint
  <2>5. Lists(freePages, {})
    BY <1>1 DEF Lists, FreeAt
  <2> QED
    BY <2>2, <2>3, <2>4, <2>5 DEF Good
<1>8. UsedBlocks = {}
  BY <1>6 DEF UsedBlocks
<1>9. Wanted = 0
  BY <1>1 DEF Wanted
<1> QED
  BY <1>3, <1>4, <1>5, <1>7, <1>8, <1>9

(* The invariant is one.                                                   *)
THEOREM BuddyInvariance == Spec => []BInv
<1>1. Init => BInv
  BY InitGood DEF BInv
<1>2. BInv /\ [Next]_vars => BInv'
  <2> SUFFICES ASSUME BInv, [Next]_vars PROVE BInv'
    OBVIOUS
  <2>1. PICK B : Good(Desc, groups, freePages, B) /\ Searched(B)
    BY DEF BInv
  <2>2. PICK A : Types' /\ WantInOrder' /\ Reaches(B, A)
    BY <2>1, NextReaches DEF BInv
  <2>3. Good(Desc, groups, freePages, A)' /\ Searched(A)'
    BY <2>2 DEF Reaches, Desc
  <2> QED
    BY <2>2, <2>3 DEF BInv
<1> QED
  BY <1>1, <1>2, PTL DEF Spec

(* No page is lost and none is in two blocks: blocks in use and blocks on  *)
(* the lists tile the groups, each in one group, whatever is split, cut    *)
(* off, recombined, returned or added (buddy.cc:31-135, 323-334).          *)
THEOREM PagesTiled == Spec => []BlocksTile
<1>1. BInv => BlocksTile
  BY GoodTiles DEF BInv
<1> QED
  BY <1>1, BuddyInvariance, PTL

(* Memory is asked for only when no free pages, aligned and in one group,  *)
(* would do: one pass over the sizes, smallest first, leaves no two free   *)
(* halves apart (buddy.cc:31-82).                                          *)
THEOREM GrowthJustified == Spec => []GrowsOnlyWhenFull
<1>1. BInv => GrowsOnlyWhenFull
  BY GrowsWhenFull DEF BInv
<1> QED
  BY <1>1, BuddyInvariance, PTL

(* The group that is added holds the block that is asked for, wherever     *)
(* malloc puts it (buddy.cc:153-158), so that the last attempt does not    *)
(* panic (buddy.cc:294-312).                                               *)
THEOREM GrowthSuffices == Spec => []AllocSucceeds
<1>1. BInv => AllocSucceeds
  BY DEF BInv, Searched, AllocSucceeds
<1> QED
  BY <1>1, BuddyInvariance, PTL

(* Callers see a page allocator: what they get is as large as they asked   *)
(* for, aligned and nobody else's, and it stays so until they return it    *)
(* (pages.ch:50-53).                                                       *)
THEOREM PromiseKept == Spec => KeepsPromise
<1>1. Init => Promise!Init
  BY InitGood DEF Promise!Init, Wanted
<1>2. BInv /\ [Next]_vars => [Promise!Next]_<<UsedBlocks, Wanted>>
  BY StepPromised DEF BInv
<1>3. [Promise!Next]_<<UsedBlocks, Wanted>> =>
        [Promise!Next]_<<UsedBlocks, IF pc \in {"idle"} THEN 0
                                     ELSE IF want.pages = 0 THEN Pow2[want.log] ELSE want.pages>>
  BY DEF Wanted
<1> QED
  BY <1>1, <1>2, <1>3, BuddyInvariance, PTL DEF Spec, KeepsPromise, Promise!Spec

-----------------------------------------------------------------------------
(***************************************************************************)
(* The bump allocator.                                                     *)
(*                                                                         *)
(* For every fragment size, margin, set of object sizes and number of      *)
(* fragments to start with: no space grows beyond the limit that the       *)
(* policy sets, and resizing leaves room for the allocation that brought   *)
(* the collection about.  The argument is in what mm_plan_SS_DoGC          *)
(* computes: with less than 40 percent free the limit grows by a fragment  *)
(* at least; otherwise what is free of a full space is in its last         *)
(* fragment, and suffices.  Finalizers may then take the room, unless the  *)
(* allocation is one of theirs.                                            *)
(***************************************************************************)

\* the request in progress is one while there is one to serve
Serving == phase \in {"ensured", "retry"} => request \in Request

\* the limit only grows
Limit == maxFragments * FragmentSize >= 100

BumpInv == TypeOK /\ Serving /\ Limit /\ SpaceBounded /\ RoomAfterResizing

LEMMA BumpConstants ==
  /\ FragmentSize \in Nat \ {0} /\ Margin \in Nat /\ InitialMax \in Nat \ {0} /\ MaxGC \in Nat
  /\ \A n \in Sizes : n \in Nat /\ n <= FragmentSize
  /\ \A n \in Sizes : n + Margin <= 40 * (FragmentSize \div 100)
  /\ InitialMax * FragmentSize >= 100
BY BumpAssumption

----------------------------------------------------------------------------
(* Arithmetic.                                                             *)

LEMMA Quotient ==
  ASSUME NEW a \in Int, NEW b \in Nat \ {0}
  PROVE  /\ a \div b \in Int
         /\ b * (a \div b) <= a
         /\ a < b * (a \div b) + b
OBVIOUS

\* The quotient is at least k when the dividend is at least k times b.
LEMMA QuotientAtLeast ==
  ASSUME NEW a \in Int, NEW b \in Nat \ {0}, NEW k \in Int, a >= k * b
  PROVE  a \div b >= k
<1> DEFINE q == a \div b
<1>1. q \in Int /\ a < b * q + b
  BY Quotient
<1>2. SUFFICES ASSUME q <= k - 1 PROVE FALSE
  BY <1>1
<1>3. b * q <= b * (k - 1)
  BY <1>1, <1>2
<1>4. b * (k - 1) = k * b - b
  OBVIOUS
<1>5. b * q \in Int /\ k * b \in Int
  BY <1>1
<1> QED
  BY <1>1, <1>3, <1>4, <1>5

LEMMA ProductMonotone ==
  ASSUME NEW a \in Nat, NEW b \in Nat, NEW c \in Nat, a <= b
  PROVE  a * c <= b * c
<1>1. PICK d \in Nat : b = a + d
  <2>1. b - a \in Nat /\ b = a + (b - a)
    OBVIOUS
  <2> QED
    BY <2>1
<1>2. b * c = a * c + d * c
  BY <1>1
<1>3. d * c \in Nat /\ a * c \in Nat
  BY <1>1
<1> QED
  BY <1>2, <1>3

\* What a request needs is in 40 percent of a fragment.
LEMMA NeedType ==
  ASSUME NEW rq \in Request
  PROVE  /\ rq.size \in Sizes
         /\ Need(rq) \in Nat
         /\ Need(rq) <= 40 * (FragmentSize \div 100)
         /\ Need(rq) <= FragmentSize
<1>1. rq.size \in Sizes
  BY DEF Request
<1>2. FragmentSize \div 100 \in Int /\ 100 * (FragmentSize \div 100) <= FragmentSize
  BY BumpConstants, Quotient
<1>3. FragmentSize \div 100 >= 0
  BY BumpConstants, QuotientAtLeast
<1> QED
  BY <1>1, <1>2, <1>3, BumpConstants DEF Need

----------------------------------------------------------------------------
(* Cutting words off leaves the space in order and within the limit.       *)
LEMMA CutStep ==
  ASSUME TypeOK, SpaceBounded, NEW n \in Nat, n <= FragmentSize, Cut(n)
  PROVE  /\ nrFragments' \in [Space -> Nat]
         /\ curFragment' \in Nat /\ curFragment' < nrFragments'[toSpace]
         /\ avail' \in Int /\ avail' <= FragmentSize
         /\ \A s \in Space : nrFragments'[s] <= maxFragments
<1> USE BumpConstants DEF TypeOK, SpaceBounded
<1>1. CASE avail >= n /\ avail' = avail - n /\ UNCHANGED <<nrFragments, curFragment>>
  BY <1>1
<1>2. CASE /\ curFragment + 1 < nrFragments[toSpace] /\ curFragment' = curFragment + 1
           /\ avail' = FragmentSize - n /\ UNCHANGED nrFragments
  BY <1>2
<1>3. CASE /\ ~ NoFragmentLeft /\ curFragment' = nrFragments[toSpace]
           /\ nrFragments' = [nrFragments EXCEPT ![toSpace] = @ + 1]
           /\ avail' = FragmentSize - n
  BY <1>3 DEF NoFragmentLeft
<1> QED
  BY <1>1, <1>2, <1>3 DEF Cut

LEMMA AddType ==
  ASSUME NEW bag \in Bag, NEW n \in Sizes
  PROVE  Add(bag, n) \in Bag
BY DEF Add, Bag

LEMMA LimitPositive ==
  ASSUME TypeOK, Limit
  PROVE  maxFragments >= 1
BY BumpConstants DEF TypeOK, Limit

LEMMA StartGCStep ==
  ASSUME BumpInv, NEW rq \in Request \cup {None}, StartGC(rq)
  PROVE  BumpInv'
<1> USE BumpConstants DEF BumpInv, StartGC, finalizing
<1>1. 1 - toSpace \in Space
  BY DEF TypeOK, Space
<1>2. left' \in Bag /\ objects' \in Bag
  BY DEF SubBags, Bag, NoObject, TypeOK
<1>3. /\ nrFragments' \in [Space -> Nat] /\ nrFragments'[toSpace'] >= 1
      /\ \A s \in Space : nrFragments'[s] <= maxFragments
  BY <1>1, LimitPositive DEF TypeOK, SpaceBounded
<1>4. TypeOK'
  BY <1>1, <1>2, <1>3 DEF TypeOK
<1> QED
  BY <1>3, <1>4 DEF Serving, Limit, SpaceBounded, RoomAfterResizing

----------------------------------------------------------------------------
(* What the policy computes.                                               *)
LEMMA ResizedFacts ==
  ASSUME BumpInv
  PROVE  /\ Resized \in Nat /\ Resized >= maxFragments
         /\ \/ Resized > maxFragments
            \/ TotalSize - UsedSize >= 40 * (FragmentSize \div 100)
<1> USE BumpConstants DEF BumpInv
<1> DEFINE T == TotalSize
           free == TotalSize - UsedSize
           onePercentSz == T \div 100
           pf == free \div onePercentSz
           new == T + (60 - pf) * onePercentSz
<1>1. /\ maxFragments \in Nat \ {0} /\ T \in Int /\ free \in Int /\ T >= 100
      /\ T >= FragmentSize
  <2>1. maxFragments \in Nat \ {0} /\ curFragment \in Nat /\ avail \in Int
    BY LimitPositive DEF TypeOK
  <2>2. T = maxFragments * FragmentSize /\ T \in Int /\ T >= 100
    BY <2>1 DEF TotalSize, Limit
  <2>3. (curFragment + 1) * FragmentSize \in Int
    BY <2>1
  <2>4. T >= FragmentSize
    BY <2>1, <2>2
  <2> QED
    BY <2>1, <2>2, <2>3, <2>4 DEF UsedSize
<1> HIDE DEF T, free
<1>2. onePercentSz \in Nat \ {0}
  <2>1. onePercentSz >= 1
    BY <1>1, QuotientAtLeast
  <2> QED
    BY <1>1, <2>1, Quotient
<1>3. onePercentSz >= FragmentSize \div 100
  <2>1. FragmentSize \div 100 \in Int /\ 100 * (FragmentSize \div 100) <= FragmentSize
    BY Quotient
  <2>2. T >= (FragmentSize \div 100) * 100
    BY <1>1, <2>1
  <2> QED
    BY <1>1, <2>1, <2>2, QuotientAtLeast
<1> HIDE DEF onePercentSz
<1>4. pf \in Int /\ onePercentSz * pf <= free
  BY <1>1, <1>2, Quotient
<1> HIDE DEF pf
<1>5. Resized = IF pf < 40 THEN (new - 1) \div FragmentSize + 1 ELSE maxFragments
  BY DEF Resized, T, free, onePercentSz, pf
<1>6. CASE pf < 40
  <2>1. (60 - pf) * onePercentSz \in Int /\ (60 - pf) * onePercentSz >= 1
    BY <1>2, <1>4, <1>6
  <2>2. new - 1 \in Int /\ new - 1 >= maxFragments * FragmentSize
    BY <1>1, <2>1 DEF T, TotalSize
  <2> HIDE DEF new
  <2>3. (new - 1) \div FragmentSize \in Int /\ (new - 1) \div FragmentSize >= maxFragments
    BY <1>1, <2>2, QuotientAtLeast, Quotient
  <2> QED
    BY <1>1, <1>5, <1>6, <2>3
<1>7. CASE pf >= 40
  <2>1. onePercentSz * pf >= onePercentSz * 40
    BY <1>2, <1>4, <1>7
  <2>2. FragmentSize \div 100 \in Int /\ onePercentSz * pf \in Int
    BY <1>2, <1>4, Quotient
  <2>3. free >= 40 * (FragmentSize \div 100)
    BY <1>1, <1>2, <1>3, <1>4, <2>1, <2>2
  <2>4. Resized = maxFragments
    BY <1>4, <1>5, <1>7
  <2> QED
    BY <1>1, <2>3, <2>4 DEF free
<1> QED
  BY <1>4, <1>6, <1>7

LEMMA EndGCStep ==
  ASSUME BumpInv, EndGC
  PROVE  BumpInv'
<1> USE BumpConstants DEF BumpInv, EndGC, cursor, finalizing
<1>1. CASE request = None
  BY <1>1 DEF TypeOK, Serving, Limit, SpaceBounded, RoomAfterResizing
<1>2. CASE request # None
  <2>1. /\ phase' = "collected" /\ request' = request /\ request \in Request
        /\ maxFragments' = Resized
    BY <1>2 DEF TypeOK
  <2>2. /\ maxFragments \in Nat \ {0} /\ maxFragments' \in Nat /\ maxFragments' >= maxFragments
        /\ curFragment \in Nat /\ avail \in Int /\ toSpace \in Space
        /\ nrFragments[toSpace] \in Nat
    BY <2>1, ResizedFacts, LimitPositive DEF TypeOK
  <2>3. TypeOK' /\ Serving' /\ SpaceBounded'
    BY <2>1, <2>2 DEF TypeOK, Serving, SpaceBounded
  <2>4. Limit'
    <3>1. maxFragments' * FragmentSize >= maxFragments * FragmentSize
      BY <2>2, ProductMonotone
    <3>2. maxFragments' * FragmentSize \in Int /\ maxFragments * FragmentSize \in Int
      BY <2>2
    <3> QED
      BY <3>1, <3>2 DEF Limit
  <2>5. RoomAfterResizing'
    <3>1. SUFFICES ASSUME Full(Need(request))' PROVE FALSE
      BY DEF RoomAfterResizing
    <3>2. /\ avail < Need(request) /\ curFragment + 1 >= nrFragments[toSpace]
          /\ nrFragments[toSpace] >= Resized
      BY <2>1, <3>1 DEF Full, NoFragmentLeft, Need
    <3>3. nrFragments[toSpace] <= maxFragments /\ curFragment < nrFragments[toSpace]
      BY <2>2 DEF SpaceBounded, TypeOK
    <3>4. curFragment + 1 = maxFragments /\ Resized = maxFragments
      BY <2>1, <2>2, <3>2, <3>3
    <3>5. TotalSize - UsedSize = avail
      <4>1. maxFragments * FragmentSize \in Int
        BY <2>2
      <4> QED
        BY <2>2, <3>4, <4>1 DEF TotalSize, UsedSize
    <3>6. avail >= 40 * (FragmentSize \div 100)
      BY <2>2, <3>4, <3>5, ResizedFacts
    <3>7. Need(request) \in Nat /\ Need(request) <= 40 * (FragmentSize \div 100)
      BY <2>1, NeedType
    <3>8. FragmentSize \div 100 \in Int
      BY Quotient
    <3> QED
      BY <2>2, <3>2, <3>6, <3>7, <3>8
  <2> QED
    BY <2>3, <2>4, <2>5
<1> QED
  BY <1>1, <1>2

----------------------------------------------------------------------------
LEMMA CopyStep ==
  ASSUME BumpInv, NEW n \in Sizes, CopyObject(n)
  PROVE  BumpInv'
<1> USE BumpConstants DEF BumpInv, CopyObject, finalizing
<1>1. left \in Bag /\ left[n] > 0 /\ [left EXCEPT ![n] = @ - 1] \in Bag
  BY DEF TypeOK, Bag
<1>2. CASE /\ Cut(n) /\ left' = [left EXCEPT ![n] = @ - 1]
           /\ objects' = Add(objects, n) /\ UNCHANGED phase
  <2>1. TypeOK'
    BY <1>1, <1>2, CutStep, AddType DEF TypeOK
  <2>2. SpaceBounded'
    BY <1>2, CutStep DEF SpaceBounded
  <2> QED
    BY <1>2, <2>1, <2>2 DEF Serving, Limit, RoomAfterResizing
<1>3. CASE phase' = "panic" /\ UNCHANGED <<cursor, left, objects>>
  BY <1>3 DEF cursor, TypeOK, Serving, Limit, SpaceBounded, RoomAfterResizing
<1> QED
  BY <1>2, <1>3

LEMMA ServedType ==
  ASSUME TypeOK, NEW rq \in Request, Served(rq)
  PROVE  /\ objects' \in Bag /\ request' \in Request \cup {None}
         /\ phase' \in {"mutator", "ensured"}
         /\ phase' = "ensured" => request' \in Request
BY AddType, NeedType DEF Served, TypeOK

LEMMA TryCutStep ==
  ASSUME BumpInv, NEW rq \in Request, TryCut(rq)
  PROVE  BumpInv'
<1> USE BumpConstants DEF BumpInv, finalizing
<1>1. CASE /\ Cut(Need(rq)) /\ Served(rq)
           /\ UNCHANGED <<toSpace, maxFragments, left, finalizing, gcs>>
  <2>1. TypeOK'
    BY <1>1, CutStep, NeedType, ServedType DEF TypeOK
  <2>2. SpaceBounded'
    BY <1>1, CutStep, NeedType DEF SpaceBounded
  <2> QED
    BY <1>1, <2>1, <2>2, ServedType DEF Serving, Limit, RoomAfterResizing
<1>2. CASE StartGC(rq)
  BY <1>2, StartGCStep
<1> QED
  BY <1>1, <1>2 DEF TryCut

LEMMA AllocStep ==
  ASSUME BumpInv, NEW n \in Sizes, Alloc(n)
  PROVE  BumpInv'
<1>1. [kind |-> "Alloc", size |-> n] \in Request
  BY DEF Request
<1> QED
  BY <1>1, TryCutStep DEF Alloc

LEMMA EnsureStep ==
  ASSUME BumpInv, NEW n \in Sizes, Ensure(n)
  PROVE  BumpInv'
<1> DEFINE rq == [kind |-> "Ensure", size |-> n]
<1>1. rq \in Request
  BY DEF Request
<1>2. CASE Served(rq) /\ UNCHANGED <<cursor, toSpace, maxFragments, left, finalizing, gcs>>
  BY <1>1, <1>2, ServedType, BumpConstants
     DEF BumpInv, TypeOK, cursor, finalizing, Serving, Limit, SpaceBounded, RoomAfterResizing
<1>3. CASE TryCut(rq)
  BY <1>1, <1>3, TryCutStep
<1> QED
  BY <1>2, <1>3 DEF Ensure

LEMMA AllocEnsuredStep ==
  ASSUME BumpInv, AllocEnsured
  PROVE  BumpInv'
<1> USE BumpConstants DEF BumpInv, AllocEnsured, finalizing
<1>1. request \in Request /\ request.size \in Sizes /\ request.size \in Nat
  BY NeedType DEF Serving
<1>2. TypeOK'
  BY <1>1, AddType DEF TypeOK
<1> QED
  BY <1>2 DEF Serving, Limit, SpaceBounded, RoomAfterResizing

(* What the collection leaves alone is still so when the finalizers begin, *)
(* end, or are not run.                                                    *)
LEMMA PostStep ==
  ASSUME BumpInv, CollectPost \/ EndPost
  PROVE  BumpInv'
<1> USE BumpConstants DEF BumpInv, cursor, finalizing
<1>1. UNCHANGED <<cursor, toSpace, maxFragments, objects, left, gcs>>
  BY DEF CollectPost, EndPost
<1>2. TypeOK' /\ Limit' /\ SpaceBounded' /\ Serving'
  BY <1>1 DEF CollectPost, EndPost, Resume, TypeOK, Serving, Limit, SpaceBounded
<1>3. CASE CollectPost
  <2>1. CASE ~ post
    BY <1>2, <1>3, <2>1 DEF CollectPost, RoomAfterResizing
  <2>2. CASE post /\ request' = request
    <3>1. Full(Need(request))' <=> Full(Need(request))
      BY <1>1, <2>2 DEF Full, NoFragmentLeft, Need
    <3>2. phase = "collected" /\ phase' = IF request = None THEN "mutator" ELSE "retry"
      BY <1>3, <2>2 DEF CollectPost, Resume
    <3> QED
      BY <1>2, <3>1, <3>2 DEF RoomAfterResizing
  <2>3. post => request' = request
    BY <1>3 DEF CollectPost, Resume
  <2> QED
    BY <2>1, <2>2, <2>3
<1>4. CASE EndPost
  BY <1>2, <1>4 DEF EndPost, Resume, RoomAfterResizing
<1> QED
  BY <1>3, <1>4

----------------------------------------------------------------------------
LEMMA BumpInitInvariant == BumpInit => BumpInv
<1> SUFFICES ASSUME BumpInit PROVE BumpInv
  OBVIOUS
<1>1. TypeOK
  <2>1. NoObject \in Bag
    BY DEF NoObject, Bag
  <2>2. /\ InitialMax \in Nat /\ MaxGC \in Nat
        /\ FragmentSize \in Int /\ FragmentSize <= FragmentSize
    BY BumpConstants
  <2>3. /\ nrFragments \in [Space -> Nat] /\ toSpace \in Space
        /\ curFragment \in Nat /\ curFragment < nrFragments[toSpace]
    BY DEF BumpInit, Space
  <2>4. /\ avail \in Int /\ avail <= FragmentSize
        /\ maxFragments \in Nat
    BY <2>2 DEF BumpInit
  <2>5. objects \in Bag /\ left \in Bag
    BY <2>1 DEF BumpInit
  <2>6. /\ request \in Request \cup {None} /\ outer \in Request \cup {None}
        /\ post \in BOOLEAN
    BY DEF BumpInit
  <2>7. phase \in {"mutator", "ensured", "copy", "collected", "retry", "panic"}
    BY DEF BumpInit
  <2>8. gcs \in 0 .. MaxGC
    BY <2>2 DEF BumpInit
  <2> QED
    BY <2>3, <2>4, <2>5, <2>6, <2>7, <2>8 DEF TypeOK
<1> QED
  BY <1>1, BumpConstants DEF BumpInit, BumpInv, Serving, Limit, SpaceBounded, RoomAfterResizing, Space

LEMMA BumpNextInvariant == BumpInv /\ [BumpNext]_bumpVars => BumpInv'
<1> SUFFICES ASSUME BumpInv, [BumpNext]_bumpVars PROVE BumpInv'
  OBVIOUS
<1>1. ASSUME NEW n \in Sizes, Alloc(n) \/ Ensure(n) \/ CopyObject(n) PROVE BumpInv'
  BY <1>1, AllocStep, EnsureStep, CopyStep
<1>2. CASE AllocEnsured
  BY <1>2, AllocEnsuredStep
<1>3. CASE Retry
  BY <1>3, TryCutStep DEF Retry, BumpInv, Serving
<1>4. CASE PerformGC
  BY <1>4, StartGCStep DEF PerformGC
<1>5. CASE EndGC
  BY <1>5, EndGCStep
<1>6. CASE CollectPost \/ EndPost
  BY <1>6, PostStep
<1>7. CASE UNCHANGED bumpVars
  BY <1>7 DEF bumpVars, BumpInv, TypeOK, Serving, Limit, SpaceBounded, RoomAfterResizing,
              Full, NoFragmentLeft, Need
<1> QED
  BY <1>1, <1>2, <1>3, <1>4, <1>5, <1>6, <1>7 DEF BumpNext

LEMMA BumpInvariance == BumpSpec => []BumpInv
BY BumpInitInvariant, BumpNextInvariant, PTL DEF BumpSpec

(* The variables of the allocator keep their types: the cursor stays in a  *)
(* fragment that the space has.                                            *)
THEOREM TypeCorrect == BumpSpec => []TypeOK
<1>1. BumpInv => TypeOK
  BY DEF BumpInv
<1> QED
  BY <1>1, BumpInvariance, PTL

(* Neither space gets more fragments than the policy allows, whatever is   *)
(* allocated, ensured and collected.                                       *)
THEOREM NeverBeyondTheLimit == BumpSpec => []SpaceBounded
<1>1. BumpInv => SpaceBounded
  BY DEF BumpInv
<1> QED
  BY <1>1, BumpInvariance, PTL

(* When the space has been collected and resized (ss.cc:304-316) there is  *)
(* room for the allocation that asked for it, for every size of objects    *)
(* and fragments; an allocation of a finalizer also finds it when it is    *)
(* tried again (bump.cc:57), since nothing runs in between.                *)
THEOREM ResizingMakesRoom == BumpSpec => []RoomAfterResizing
<1>1. BumpInv => RoomAfterResizing
  BY DEF BumpInv
<1> QED
  BY <1>1, BumpInvariance, PTL
=============================================================================
