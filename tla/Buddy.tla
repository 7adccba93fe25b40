-------------------------------- MODULE Buddy --------------------------------
(***************************************************************************)
(* The buddy system of EHC/src/rts/mm/pages/buddy.{cc,ch}, which hands out *)
(* pages to the spaces and allocators above it.  Addresses are counted in  *)
(* pages, sizes are powers of two relative to one page.                    *)
(*                                                                         *)
(* Pages come in groups, one for each malloc.  One array, extl, describes  *)
(* all pages from the first to the last of any group, the gaps between     *)
(* groups included; when a group is added a larger array is made and the   *)
(* memory of the old one becomes a group itself.                           *)
(*                                                                         *)
(* An allocation that finds no free block first recombines all free        *)
(* buddies, smallest first, and then asks for a new group.  Each of these  *)
(* is a step here, and so is each pair that is recombined.  A free list is *)
(* the set of its blocks: any of them may be the first.                    *)
(***************************************************************************)
EXTENDS Integers, Powers, Sequences, FiniteSets, FiniteSetsExt

CONSTANTS MaxLog,        \* MM_Pages_Buddy_FreePages_Size - 1
          InitialPages,  \* MM_Pages_Buddy_InitialGroupSize, in pages
          PerPage,       \* entries of extl that fit in a page
          MallocAt,      \* bound: pages at which malloc may place memory
          AfterAll,      \* bound: the end of the address space
          Requests,      \* bound: numbers of pages that are asked for
          MaxBlocks,     \* bound: blocks in use
          MaxGroups      \* bound: with so many groups no new ones are added

ASSUME BuddyAssumption ==
  /\ {MaxLog, MaxBlocks, MaxGroups, AfterAll} \subseteq Nat
  /\ {InitialPages, PerPage} \subseteq Nat \ {0}
  /\ MallocAt \subseteq Nat \ {0}
  /\ Requests \subseteq 1..Pow2[MaxLog]

VARIABLES extl,       \* the descriptions of pages firstPage, firstPage + 1, ...
          firstPage,  \* the first page that is described
          freePages,  \* the free blocks of each size
          groups,     \* the groups, as [firstPage, afterLastPage]
          nextGroupNrPages,  \* the least size of the next group
          pc,         \* where the allocation in progress is
          want,       \* what it asks for: [log, pages], pages = 0 in AllocPagesLog2
          level       \* pgInx0 of the recombination in progress

vars == <<extl, firstPage, freePages, groups, nextGroupNrPages, pc, want, level>>

Logs == 0..MaxLog
Page == 0..AfterAll - 1
Tags == {"Free", "Alloced", "Unusable", "PartOf", "PartOfAlloced"}

\* A number of pages that nobody has set
Unset == -1

ExtlData == [tag : Tags, sizeLog : {Unset} \cup Logs,
             groupId : Nat, sizePages : {Unset} \cup Nat]

Blank(tag) == [tag |-> tag, sizeLog |-> Unset, groupId |-> 0, sizePages |-> Unset]

NoRequest == [log |-> 0, pages |-> 0]
Idle == pc = "idle"

-----------------------------------------------------------------------------
(* Pages and their descriptions *)

afterLastPage == firstPage + Cardinality(DOMAIN extl)
Managed == firstPage .. afterLastPage - 1

ExtlDataOfPage(p) == extl[p - firstPage]
Tag(p) == ExtlDataOfPage(p).tag
SizeLog(p) == ExtlDataOfPage(p).sizeLog
GroupId(p) == ExtlDataOfPage(p).groupId

OtherHalfOfPage(p, k) == IF (p \div Pow2[k]) % 2 = 0 THEN p + Pow2[k] ELSE p - Pow2[k]

Fits(p, k, from, to) == p % Pow2[k] = 0 /\ from <= p /\ p + Pow2[k] <= to

(* The blocks into which mm_pages_Buddy_InitPages divides the pages from   *)
(* one up to another: going up, it takes the largest block that is aligned *)
(* and does not stick out, that is, a block whose double would stick out.  *)
BlocksOf(from, to) ==
  {b \in [page : from .. to - 1, log : 0..to] :
     /\ Fits(b.page, b.log, from, to)
     /\ ~Fits(b.page - (b.page % Pow2[b.log + 1]), b.log + 1, from, to)}

InitPages(desc, base, g, from, to, tagFirst, tagRest) ==
  LET blocks == BlocksOf(from, to) IN
  [i \in DOMAIN desc |->
     IF i + base \notin from .. to - 1 THEN desc[i]
     ELSE IF \E b \in blocks : b.page = i + base
          THEN [desc[i] EXCEPT !.tag = tagFirst, !.groupId = g,
                  !.sizeLog = (CHOOSE b \in blocks : b.page = i + base).log]
          ELSE [desc[i] EXCEPT !.tag = tagRest, !.groupId = g]]

\* The insertions in the free lists that go with it when tagFirst is Free
WithFree(free, from, to) ==
  [k \in Logs |-> free[k] \cup {b.page : b \in {c \in BlocksOf(from, to) : c.log = k}}]

-----------------------------------------------------------------------------
Init ==
  /\ extl = [i \in {} |-> Blank("Unusable")]
  /\ firstPage = 0
  /\ freePages = [k \in Logs |-> {}]
  /\ groups = <<>>
  /\ nextGroupNrPages = InitialPages
  /\ pc = "idle"
  /\ want = NoRequest
  /\ level = 0

-----------------------------------------------------------------------------
(* Allocation *)

firstHigherPower2(n) == Min({k \in 0..n : n <= Pow2[k]})

CallAlloc(asked) ==
  /\ Idle
  /\ Cardinality({p \in Managed : Tag(p) = "Alloced"}) < MaxBlocks
  /\ pc' = "find"
  /\ want' = asked
  /\ UNCHANGED <<extl, firstPage, freePages, groups, nextGroupNrPages, level>>

AllocPagesLog2 == \E k \in Logs :
  /\ Pow2[k] \in Requests
  /\ CallAlloc([log |-> k, pages |-> 0])

AllocPages == \E n \in Requests :
  CallAlloc([log |-> firstHigherPower2(n), pages |-> n])

\* The sizes of free blocks that are large enough
NonEmpty == {k \in want.log..MaxLog : freePages[k] # {}}

FindNonEmptyFreePages == Min(NonEmpty)

\* Block p of size Pow2[j] is halved until it has the size wanted.
Split(p, j) ==
  [i \in DOMAIN extl |->
     LET q == i + firstPage
         half == {k \in want.log .. j - 1 : q = p + Pow2[k]}
     IN  CASE q = p -> [extl[i] EXCEPT !.tag = "Alloced", !.sizeLog = want.log]
           [] half # {} -> [extl[i] EXCEPT !.tag = "Free", !.groupId = GroupId(p),
                                           !.sizeLog = CHOOSE k \in half : TRUE]
           [] OTHER -> extl[i]]

FreeAfterSplit(p, j) ==
  [k \in Logs |-> CASE k = j -> freePages[k] \ {p}
                    [] want.log <= k /\ k < j -> freePages[k] \cup {p + Pow2[k]}
                    [] OTHER -> freePages[k]]

\* Mutant: the rest is freed, but the second half not marked as in use.
BugCutOff(p, desc, free) ==
  LET end == p + want.pages
  IN  /\ extl' = InitPages(desc, firstPage, GroupId(p), end, p + Pow2[want.log], "Free", "PartOf")
      /\ freePages' = WithFree(free, end, p + Pow2[want.log])

\* What AllocPages does with the second half when less than all was asked for.
CutOff(p, desc, free) ==
  LET g == GroupId(p)
      half == p + Pow2[want.log - 1]
      end == p + want.pages
      used == InitPages(desc, firstPage, g, half, end, "PartOfAlloced", "PartOfAlloced")
  IN  /\ extl' = InitPages(used, firstPage, g, end, p + Pow2[want.log], "Free", "PartOf")
      /\ freePages' = WithFree(free, end, p + Pow2[want.log])

TakeBlock ==
  /\ pc \in {"find", "retry", "grown"}
  /\ NonEmpty # {}
  /\ LET j == FindNonEmptyFreePages IN
     \E p \in freePages[j] :
       LET free == FreeAfterSplit(p, j)
           desc == Split(p, j)
           sized == [desc EXCEPT ![p - firstPage].sizePages = want.pages]
       IN  IF want.pages \in {0, Pow2[want.log]}
           THEN /\ extl' = IF want.pages = 0 THEN desc ELSE sized
                /\ freePages' = free
           ELSE CutOff(p, sized, free)
  /\ pc' = "idle"
  /\ want' = NoRequest
  /\ UNCHANGED <<firstPage, groups, nextGroupNrPages, level>>

\* After growing too the code panics: see AllocSucceeds.
NothingFree ==
  /\ NonEmpty = {}
  /\ \/ pc = "find" /\ pc' = "recombine"
     \/ pc = "retry" /\ pc' = "grow"
  /\ UNCHANGED <<extl, firstPage, freePages, groups, nextGroupNrPages, want, level>>

-----------------------------------------------------------------------------
(* Recombination *)

CanRecombine(p, k) ==
  LET other == OtherHalfOfPage(p, k) IN
  /\ other \in Managed
  /\ Tag(other) = "Free"
  /\ SizeLog(p) = SizeLog(other)
  /\ GroupId(p) = GroupId(other)

\* The pairs of one size are disjoint, so that their order does not matter.
RecombinePair ==
  LET pairs == {p \in freePages[level] : CanRecombine(p, level)}
      lower == Min(pairs)
      upper == OtherHalfOfPage(lower, level)
  IN  /\ pc = "recombine"
      /\ pairs # {}
      /\ extl' = [extl EXCEPT ![lower - firstPage].sizeLog = level + 1,
                              ![upper - firstPage].tag = "PartOf"]
      /\ freePages' = [freePages EXCEPT ![level] = @ \ {lower, upper},
                                        ![level + 1] = @ \cup {lower}]
      /\ UNCHANGED <<firstPage, groups, nextGroupNrPages, pc, want, level>>

\* Mutant: the loop over sizes ends one too early.
BugRecombineNextSize ==
  /\ pc = "recombine"
  /\ \A p \in freePages[level] : ~CanRecombine(p, level)
  /\ IF level < MaxLog - 2 THEN level' = level + 1 /\ UNCHANGED pc
                           ELSE level' = 0 /\ pc' = "retry"
  /\ UNCHANGED <<extl, firstPage, freePages, groups, nextGroupNrPages, want>>

RecombineNextSize ==
  /\ pc = "recombine"
  /\ \A p \in freePages[level] : ~CanRecombine(p, level)
  /\ IF level < MaxLog THEN level' = level + 1 /\ UNCHANGED pc
                       ELSE level' = 0 /\ pc' = "retry"
  /\ UNCHANGED <<extl, firstPage, freePages, groups, nextGroupNrPages, want>>

-----------------------------------------------------------------------------
(* Growth *)

GroupPages(g) == g.firstPage .. g.afterLastPage - 1

\* Whole pages in memory of a size between n and n + 1 pages, placed by malloc
Memory(n) == {m \in [firstPage : MallocAt, afterLastPage : 1..AfterAll] :
                m.afterLastPage - m.firstPage \in {n - 1, n}}

Apart(g, h) == GroupPages(g) \cap GroupPages(h) = {}

extlDataPages == Cardinality(DOMAIN extl) \div PerPage
doReuseExtl == Cardinality(DOMAIN extl) > 2 * PerPage

\* The new groups: memory for n pages, and what the old descriptions were in.
NewGroups(n) ==
  LET fresh == {m \in Memory(n + 2) : \A i \in DOMAIN groups : Apart(m, groups[i])}
      old == {m \in Memory(extlDataPages) : \A i \in DOMAIN groups : Apart(m, groups[i])}
  IN  IF doReuseExtl
      THEN {ms \in {<<m, o>> : m \in fresh, o \in old} : Apart(ms[1], ms[2])}
      ELSE {<<m>> : m \in fresh}

\* Mutant: the descriptions are not shifted when pages come in front.
BugMoved(first, after) ==
  [i \in 0 .. after - first - 1 |->
     IF i \in DOMAIN extl THEN extl[i] ELSE Blank("Unusable")]

\* The old descriptions moved to a new array, the rest of which is unusable.
Moved(first, after) ==
  [i \in 0 .. after - first - 1 |->
     IF i + first \in Managed THEN ExtlDataOfPage(i + first) ELSE Blank("Unusable")]

\* Mutant: just as many pages as are asked for.
BugNrNewPages == Max({Pow2[want.log], nextGroupNrPages})

NrNewPages == Max({(5 * Pow2[want.log]) \div 2, nextGroupNrPages})

TooLarge(g) == \E b \in BlocksOf(g.firstPage, g.afterLastPage) : b.log > MaxLog

NewBuddyGroup ==
  /\ pc = "grow"
  /\ Len(groups) < MaxGroups
  /\ \E new \in NewGroups(NrNewPages) :
       LET all == groups \o new
           first == Min({all[i].firstPage : i \in DOMAIN all})
           after == Max({all[i].afterLastPage : i \in DOMAIN all})
           n == Len(groups)
           Grp(desc, i) == InitPages(desc, first, n + i, new[i].firstPage,
                                     new[i].afterLastPage, "Free", "PartOf")
           Fre(free, i) == WithFree(free, new[i].firstPage, new[i].afterLastPage)
       IN  IF \E i \in DOMAIN new : TooLarge(new[i])
           THEN /\ pc' = "too large"
                /\ UNCHANGED <<extl, firstPage, freePages, groups, nextGroupNrPages>>
           ELSE /\ groups' = all
                /\ firstPage' = first
                /\ extl' = LET e == Grp(Moved(first, after), 1)
                           IN  IF Len(new) = 2 THEN Grp(e, 2) ELSE e
                /\ freePages' = LET f == Fre(freePages, 1)
                                IN  IF Len(new) = 2 THEN Fre(f, 2) ELSE f
                /\ nextGroupNrPages' = (3 * NrNewPages) \div 2
                /\ pc' = "grown"
  /\ UNCHANGED <<want, level>>

-----------------------------------------------------------------------------
(* Deallocation.  The description of the page half way the block tells     *)
(* whether less than the block was asked for.  For a single page that is   *)
(* the page behind it; the last page of all has none, and is not returned: *)
(* the program returns blocks of more than a page only (fragments of a     *)
(* copy space, objects too large for a size class).                        *)

HalfOf(p) == p + Pow2[IF SizeLog(p) = 0 THEN 0 ELSE SizeLog(p) - 1]

IsCutOff(p) == HalfOf(p) \in Managed /\ Tag(HalfOf(p)) = "PartOfAlloced"

DeallocPages ==
  /\ Idle
  /\ \E p \in Managed :
       /\ Tag(p) = "Alloced" /\ HalfOf(p) \in Managed
       /\ LET log == IF IsCutOff(p) THEN (IF SizeLog(p) = 0 THEN 0 ELSE SizeLog(p) - 1)
                                    ELSE SizeLog(p)
              end == p + ExtlDataOfPage(p).sizePages
              first == [extl EXCEPT ![p - firstPage].tag = "Free",
                                    ![p - firstPage].sizeLog = log]
              free == [freePages EXCEPT ![log] = @ \cup {p}]
          IN  IF IsCutOff(p)
              THEN /\ extl' = InitPages(first, firstPage, GroupId(p), HalfOf(p), end,
                                        "Free", "PartOf")
                   /\ freePages' = WithFree(free, HalfOf(p), end)
              ELSE extl' = first /\ freePages' = free
  /\ UNCHANGED <<firstPage, groups, nextGroupNrPages, pc, want, level>>

-----------------------------------------------------------------------------
Next ==
  \/ AllocPagesLog2 \/ AllocPages \/ DeallocPages
  \/ TakeBlock \/ NothingFree
  \/ RecombinePair \/ RecombineNextSize
  \/ NewBuddyGroup

Spec == Init /\ [][Next]_vars

-----------------------------------------------------------------------------
(* Properties *)

\* The pages a caller has in its block: what DeallocPages would return.
UsedPages(p) == IF IsCutOff(p) THEN ExtlDataOfPage(p).sizePages ELSE Pow2[SizeLog(p)]

UsedBlocks == {[page |-> p, pages |-> UsedPages(p)] : p \in {q \in Managed : Tag(q) = "Alloced"}}
FreeBlocks == UNION {{[page |-> p, pages |-> Pow2[k]] : p \in freePages[k]} : k \in Logs}

(* The allocator keeps the promise of MM_Pages: a block is as large as it  *)
(* was asked for, aligned, and nobody else's until it is returned; a block *)
(* in use is not moved, cut or lost by splitting, recombining or growing.  *)
Promise == INSTANCE PageAllocator WITH
  blocks <- UsedBlocks,
  want <- IF pc \in {"idle"} THEN 0
          ELSE IF want.pages = 0 THEN Pow2[want.log] ELSE want.pages
KeepsPromise == Promise!Spec

(* No page is lost and none is described twice: the free blocks on the     *)
(* lists and the blocks in use tile the groups, every block lies in one    *)
(* group, and every free one is tagged so (buddy.cc:31-135, 323-334).      *)
BlocksTile ==
  LET blocks == UsedBlocks \cup FreeBlocks
      Pages(b) == b.page .. b.page + b.pages - 1
  IN  /\ \A i \in DOMAIN groups : \A p \in GroupPages(groups[i]) :
           Cardinality({b \in blocks : p \in Pages(b)}) = 1
      /\ \A b \in blocks : \E i \in DOMAIN groups :
           Pages(b) \subseteq GroupPages(groups[i]) /\ GroupId(b.page) = i
      /\ \A k \in Logs : \A p \in Managed :
           p \in freePages[k] <=> Tag(p) = "Free" /\ SizeLog(p) = k

(* More memory is asked of malloc only when no run of free pages, aligned  *)
(* and in one group, is as large as the request: one pass over the free    *)
(* lists recombines all there is to recombine (buddy.cc:31-82).            *)
GrowsOnlyWhenFull ==
  pc = "grow" =>
    ~\E i \in DOMAIN groups : \E p \in GroupPages(groups[i]) :
       /\ Fits(p, want.log, groups[i].firstPage, groups[i].afterLastPage)
       /\ \A q \in p .. p + Pow2[want.log] - 1 :
            \E b \in FreeBlocks : q \in b.page .. b.page + b.pages - 1

(* A new group holds a block of the size that was asked for, wherever      *)
(* malloc places it ("2.5 as many to make sure szPagesLog will fit",       *)
(* buddy.cc:156), so the allocation that asked for it does not fail.       *)
AllocSucceeds == pc = "grown" => NonEmpty # {}
=============================================================================
