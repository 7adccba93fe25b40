--------------------------------- MODULE Lof ---------------------------------
(***************************************************************************)
(* The list-of-free allocator of EHC/src/rts/mm/allocator/listoffree.cc,   *)
(* the malloc of the run-time system itself, on the fragments that         *)
(* mm_space_Fragment gets from the page allocator (mm/space/fragment.cc).  *)
(* Small sizes are rounded to a class; a class cuts pages in chunks and    *)
(* keeps those that are free in a list through their first words.  Larger  *)
(* sizes are a fragment of their own.  What the data of a page says leads  *)
(* from an address back to its class or fragment.                          *)
(*                                                                         *)
(* Memory is a function from word addresses to words; the page allocator   *)
(* is that of PageAllocator.  Sizes are counted in words.  The operators   *)
(* work on the allocator as one record, because other components make      *)
(* several calls in one step:                                              *)
(*   mem     the words of memory                                           *)
(*   blocks  the blocks of pages in use, by all components                 *)
(*   frags   the fragments of mm_space_Fragment, page 0 when deallocated   *)
(*   per     perSizeRounded: free, pages and chunkSize of each class       *)
(*   user    the user data of each page                                    *)
(*   panics  what the run-time system has given up for, if it has          *)
(***************************************************************************)
EXTENDS Integers, Powers, Sequences, FiniteSets, FiniteSetsExt, Functions

CONSTANTS PageWords,   \* words of a page, 2^MM_Pages_MinSize_Log
          GroupLog,    \* MM_Allocator_LOF_RoundGroupSize_Log
          NrGroups,    \* MM_Allocator_LOF_NrRoundGroup
          NrPages,     \* bound: pages of the address space, page 0 is that of NULL
          Client,      \* names of the chunks a client may hold
          Sizes,       \* the sizes it asks for
          MaxFrags     \* bound: slots in the table of fragments

ASSUME LofAssumption ==
  /\ PageWords \in Nat /\ GroupLog \in Nat /\ NrGroups \in Nat \ {0}
  /\ PageWords > (Pow2[NrGroups] - 1) * Pow2[GroupLog]
  /\ NrPages \in Nat \ {0, 1} /\ MaxFrags \in Nat
  /\ Client \subseteq Nat /\ Sizes \subseteq Nat \ {0}

VARIABLES lof, held

Null == 0
Junk == -1      \* a word of a page that is not in use
GroupSize == Pow2[GroupLog]
NrClasses == NrGroups * GroupSize
MaxRounded == (Pow2[NrGroups] - 1) * GroupSize

\* The member of a set of one: { F(x) : x \in {e} } calls e x
The(S) == CHOOSE y \in S : TRUE

RoundUp(x, unit) == ((x + unit - 1) \div unit) * unit
PageOfAddr(a) == a \div PageWords
PagesOf(words) == RoundUp(words, PageWords) \div PageWords

----------------------------------------------------------------------------
(* The pages below: any aligned place may be given, here the lowest or the *)
(* highest.  When there is none the place is page 0, which makes it panic. *)
Align(n) == CHOOSE a \in {Pow2[k] : k \in 0..n} : n <= a /\ a < 2 * n

Places(m, n) ==
  { p \in 1..NrPages - Align(n) :
      /\ p % Align(n) = 0
      /\ \A b \in m.blocks : b.page + b.pages <= p \/ p + n <= b.page }

Place(m, n, high) ==
  LET ps == Places(m, n) IN IF ps = {} THEN 0 ELSE IF high THEN Max(ps) ELSE Min(ps)

AllocPages(m, n, p) ==
  [m EXCEPT !.blocks = @ \cup {[page |-> p, pages |-> n]},
            !.panics = @ \cup IF p = 0 THEN {"no pages"} ELSE {}]

DeallocPages(m, p) ==
  LET b == CHOOSE x \in m.blocks : x.page = p
  IN  [m EXCEPT !.blocks = @ \ {b},
                !.mem = [a \in DOMAIN @ |->
                           IF PageOfAddr(a) \in p..p + b.pages - 1 THEN Junk ELSE @[a]]]

\* mm_space_Fragment: the new fragment is the last of frags
GrowSpace(m, words, high) ==
  LET n == PagesOf(words)
  IN  The({ [AllocPages(m, n, p) EXCEPT !.frags = Append(@, [page |-> p, size |-> words])]
              : p \in {Place(m, n, high)} })

BugDeallocFragment(m, i) == [m EXCEPT !.frags[i] = [page |-> 0, size |-> 0]]
DeallocFragment(m, i) ==
  IF m.frags[i].size > 0
  THEN [DeallocPages(m, m.frags[i].page) EXCEPT !.frags[i] = [page |-> 0, size |-> 0]]
  ELSE m

\* The user data of the pages that hold words p * PageWords ..
BugSetUserData(m, p, words, data) ==
  [m EXCEPT !.user = [q \in DOMAIN @ |-> IF q = p THEN data ELSE @[q]]]
SetUserData(m, p, words, data) ==
  [m EXCEPT !.user = [q \in DOMAIN @ |->
     IF p <= q /\ (q - p) * PageWords < words THEN data ELSE @[q]]]

----------------------------------------------------------------------------
(* Size classes. *)
MsBit(x) == Max({ b \in 0..NrGroups - 1 : (x \div Pow2[b]) % 2 = 1 })

SizeClass(w) ==
  LET log == MsBit(((w - 1) \div GroupSize) + 1)
      off == (Pow2[log] - 1) * GroupSize
  IN  [log |-> log,
       inx |-> log * GroupSize + ((w - 1 - off) \div Pow2[log]),
       rounded |-> RoundUp(w - off, Pow2[log]) + off]

Direct(i) == [kind |-> "direct", inx |-> i]
InClass(c) == [kind |-> "class", inx |-> c]

\* The addresses of the chunks that a page of a class is cut in
ChunksOf(page, log, rounded) ==
  LET last == (Pow2[log] * PageWords - 1) \div rounded - 1
  IN  { page * PageWords + 1 + k * rounded : k \in 0..last }

\* New pages for a class whose list of free chunks is empty, in the fragment
\* that was added last
CutChunks(m, c) ==
  LET first  == m.frags[Len(m.frags)].page * PageWords
      chunks == ChunksOf(PageOfAddr(first), c.log, c.rounded)
  IN  [m EXCEPT
         !.per[c.inx] = [free |-> first + 1, pages |-> first, chunkSize |-> c.rounded],
         !.mem = [a \in DOMAIN @ |->
                    IF a = first THEN m.per[c.inx].pages
                    ELSE IF a \in chunks
                         THEN IF a + c.rounded \in chunks THEN a + c.rounded ELSE Null
                         ELSE @[a]]]

Refill(m, c, high) ==
  The({ SetUserData(CutChunks(g, c), g.frags[Len(g.frags)].page, Pow2[c.log] * PageWords, InClass(c.inx))
          : g \in {GrowSpace(m, Pow2[c.log] * PageWords, high)} })

\* mm_allocator_LOF_Alloc: the allocator afterwards and the address
AllocChunk(m, c, high) ==
  The({ [m |-> [r EXCEPT !.per[c.inx].free = r.mem[r.per[c.inx].free]],
         at |-> r.per[c.inx].free]
          : r \in {IF m.per[c.inx].free = Null THEN Refill(m, c, high) ELSE m} })

AllocDirect(m, w, high) ==
  The({ [m |-> SetUserData(g, g.frags[Len(g.frags)].page, w, Direct(Len(g.frags))),
         at |-> g.frags[Len(g.frags)].page * PageWords]
          : g \in {GrowSpace(m, w, high)} })

Alloc(m, w, high) ==
  IF w <= MaxRounded
  THEN The({ AllocChunk(m, c, high) : c \in {SizeClass(w)} })
  ELSE AllocDirect(m, w, high)

\* mm_allocator_LOF_Dealloc.  The words of a free chunk but its first hold
\* something nobody looks at.
BugDealloc(m, a) ==
  LET u == m.user[PageOfAddr(a)]
  IN  IF u.kind = "direct"
      THEN DeallocFragment(m, u.inx)
      ELSE [m EXCEPT !.per[u.inx].free = a]
Dealloc(m, a) ==
  LET u == m.user[PageOfAddr(a)]
  IN  IF u.kind = "direct"
      THEN DeallocFragment(m, u.inx)
      ELSE [m EXCEPT !.per[u.inx].free = a,
                     !.mem = [x \in DOMAIN @ |->
                                IF x = a THEN m.per[u.inx].free
                                ELSE IF x \in a..a + m.per[u.inx].chunkSize - 1 THEN Junk ELSE @[x]]]

GetSizeAtPtr(m, a) ==
  LET u == m.user[PageOfAddr(a)]
  IN  IF u.kind = "direct" THEN m.frags[u.inx].size ELSE m.per[u.inx].chunkSize

Store(m, a, ws) ==
  [m EXCEPT !.mem = [x \in DOMAIN @ |-> IF x - a + 1 \in DOMAIN ws THEN ws[x - a + 1] ELSE @[x]]]
Words(m, a, n) == [i \in 1..n |-> m.mem[a + i - 1]]

\* mm_allocator_LOF_Realloc
BugRealloc(m, a, w, high) ==
  IF GetSizeAtPtr(m, a) < w
  THEN The({ [m |-> Store(Dealloc(new.m, a), new.at, Words(Dealloc(new.m, a), a, GetSizeAtPtr(m, a))),
              at |-> new.at] : new \in {Alloc(m, w, high)} })
  ELSE [m |-> m, at |-> a]
Realloc(m, a, w, high) ==
  IF GetSizeAtPtr(m, a) < w
  THEN The({ [m |-> Dealloc(Store(new.m, new.at, Words(m, a, GetSizeAtPtr(m, a))), a),
              at |-> new.at] : new \in {Alloc(m, w, high)} })
  ELSE [m |-> m, at |-> a]

----------------------------------------------------------------------------
\* mm_allocator_LOF_Init: fragment 1 holds the allocator's own data
LofInit ==
  GrowSpace([mem |-> [a \in 0..NrPages * PageWords - 1 |-> Junk],
             blocks |-> {}, frags |-> <<>>,
             per |-> [c \in 0..NrClasses - 1 |-> [free |-> Null, pages |-> Null, chunkSize |-> 0]],
             user |-> [p \in 0..NrPages - 1 |-> InClass(0)],
             panics |-> {}],
            PageWords, FALSE)

\* A step stays within the bounds
Bounded(m) == Len(m.frags) <= MaxFrags /\ m.panics = {}

\* What the holder of chunk k writes in its words from the i-th on
Content(k, i, w) == [j \in 1..w - i + 1 |-> -(100 * k + i + j - 1)]

Malloc(k, w) ==
  /\ k \notin DOMAIN held
  /\ \E r \in {Alloc(lof, w, FALSE)} :
       /\ Bounded(r.m)
       /\ lof' = Store(r.m, r.at, Content(k, 1, w))
       /\ held' = [x \in DOMAIN held \cup {k} |->
                     IF x = k THEN [at |-> r.at, size |-> w] ELSE held[x]]

Free(k) ==
  /\ k \in DOMAIN held
  /\ lof' = Dealloc(lof, held[k].at)
  /\ held' = [x \in DOMAIN held \ {k} |-> held[x]]

\* The holder relies on no more than the words it asked for
Resize(k, w) ==
  /\ k \in DOMAIN held /\ w # held[k].size
  /\ \E r \in {Realloc(lof, held[k].at, w, FALSE)} :
       /\ Bounded(r.m)
       /\ lof' = Store(r.m, r.at + held[k].size, Content(k, held[k].size + 1, w))
       /\ held' = [held EXCEPT ![k] = [at |-> r.at, size |-> w]]

ClientStep ==
  \E k \in Client :
    \/ Free(k)
    \/ \E w \in Sizes : Malloc(k, w) \/ Resize(k, w)
=============================================================================
