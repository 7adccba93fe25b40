-------------------------------- MODULE Spaces --------------------------------
(***************************************************************************)
(* The copy spaces of the collector and the table that leads from the      *)
(* frame of an address to its space (EHC/src/rts/mm/space.cc,              *)
(* mm/space/copyspace.cc, mm/basic/rangemap.cc).  A space keeps its        *)
(* fragments in a flexible array (mm/basic/flexarray.cc).  Arrays and      *)
(* table are chunks of the list-of-free allocator, which other components  *)
(* use at the same time.                                                   *)
(***************************************************************************)
EXTENDS Lof

CONSTANTS Space,        \* the copy spaces, by the word that stands for each
          FramePages,   \* pages of a frame, 2^MM_GC_CopySpace_FragmentSize_Log__
          InitSlots,    \* slots that an array is made with
          InxMod,       \* the number of values of MM_RangeMap_Inx
          MaxFragments  \* bound: fragments of a space

ASSUME SpacesAssumption ==
  /\ Space \subseteq Nat \ {0} /\ \E k \in 0..FramePages : FramePages = Pow2[k]
  /\ InitSlots \in Nat /\ InxMod \in Nat /\ NrPages < InxMod /\ MaxFragments \in Nat

VARIABLES table,     \* the flexible array of each space: its ptr, free and size
          rangeMap   \* mm_Spaces_FrameToSpace: its ptr, firstInx and size

vars == <<lof, held, table, rangeMap>>

Larger(x, y) == IF x > y THEN x ELSE y
Smaller(x, y) == IF x < y THEN x ELSE y

----------------------------------------------------------------------------
(* Flexible arrays, with one word for a slot. *)
NewArray(m) ==
  LET r == Alloc(m, InitSlots + 1, FALSE)
  IN  [m |-> Store(r.m, r.at, [i \in 1..InitSlots + 1 |-> 0]),
       arr |-> [ptr |-> r.at, free |-> 0, size |-> InitSlots + 1]]

ExtendArray(m, a, newsz, high) ==
  The({ [m |-> r.m, arr |-> [a EXCEPT !.ptr = r.at, !.size = newsz]]
          : r \in {Realloc(m, a.ptr, newsz, high)} })

AllocSlot(m, a, high) ==
  The({ [m |-> Store(e.m, e.arr.ptr + a.free, <<0>>), arr |-> [e.arr EXCEPT !.free = @ + 1]]
          : e \in {IF 1 > a.size - a.free
                   THEN ExtendArray(m, a, 3 * ((a.free + 1) \div 2 + 1), high)
                   ELSE [m |-> m, arr |-> a]} })

Fragments(s) == { lof.mem[table[s].ptr + i] : i \in 0..table[s].free - 1 }

----------------------------------------------------------------------------
(* The range map.  A first index 0 means that it has no entries yet. *)
\* The entries of t, as those of a new chunk at a for size indices from first
BugMove(m, t, a, first, size) ==
  Store(m, a, [k \in 1..size |-> IF k <= t.size THEN m.mem[t.ptr + k - 1] ELSE Null])
Move(m, t, a, first, size) ==
  Store(m, a, [k \in 1..size |->
    LET i == first + k - 1
    IN  IF i \in t.first..t.first + t.size - 1 THEN m.mem[t.ptr + i - t.first] ELSE Null])

Resized(m, t, first, size, high) ==
  IF size <= t.size
  THEN [m |-> m, map |-> t]
  ELSE The({ [m |-> IF t.ptr = Null THEN Move(r.m, t, r.at, first, size)
                    ELSE Dealloc(Move(r.m, t, r.at, first, size), t.ptr),
              map |-> [ptr |-> r.at, first |-> first, size |-> size]]
               : r \in {Alloc(m, size, high)} })

\* mm_rangeMap_Realloc for one index more
Extend(m, t, inx, high) ==
  LET old   == IF t.first = 0 THEN inx ELSE t.first
      first == Smaller(old, inx)
  IN  Resized(m, [t EXCEPT !.first = old], first, Larger(inx + 1, old + t.size) - first, high)

InRange(t, inx) == (inx - t.first) % InxMod < t.size

FrameInx(page) == (page \div FramePages) % InxMod

\* mm_Spaces_GetSpaceForAddress, for the addresses of a page
GetSpaceForAddress(page) ==
  LET inx == FrameInx(page)
  IN  IF InRange(rangeMap, inx)
      THEN lof.mem[rangeMap.ptr + inx - rangeMap.first] ELSE Null

\* mm_Spaces_RegisterSpaceFrame, after the range map t has been extended
RegisterSpaceFrame(m, t, s, page) == Store(m, t.ptr + FrameInx(page) - t.first, <<s>>)

----------------------------------------------------------------------------
\* mm_space_CopySpace_GrowSpaceByDefault: a slot, a frame in it, its registration
GrowSpaceByDefault(s, high) ==
  /\ table[s].free < MaxFragments
  /\ \E slot \in {AllocSlot(lof, table[s], FALSE)} :
       \E page \in {Place(slot.m, FramePages, high)} :
         \E m \in {Store(AllocPages(slot.m, FramePages, page),
                        slot.arr.ptr + slot.arr.free - 1, <<page>>)} :
           \E map \in {Extend(m, rangeMap, FrameInx(page), FALSE)} :
             /\ Bounded(map.m)
             /\ lof' = RegisterSpaceFrame(map.m, map.map, s, page)
             /\ table' = [table EXCEPT ![s] = slot.arr]
             /\ rangeMap' = map.map
  /\ UNCHANGED held

\* mm_space_Fragment_Init, for the spaces of the plan in turn.  The record of
\* the space itself, a chunk that is never returned, is left out.
SpaceInit(s) ==
  /\ s \notin DOMAIN table /\ \A t \in Space : t < s => t \in DOMAIN table
  /\ \E r \in {NewArray(lof)} :
       /\ Bounded(r.m)
       /\ lof' = r.m
       /\ table' = [t \in DOMAIN table \cup {s} |-> IF t = s THEN r.arr ELSE table[t]]
  /\ UNCHANGED <<held, rangeMap>>

\* mm_init: the allocator and the empty range map
Init ==
  /\ lof = LofInit
  /\ table = <<>>
  /\ rangeMap = [ptr |-> Null, first |-> 0, size |-> 0]
  /\ held = <<>>

\* The spaces are there before anything else is asked for
Running == DOMAIN table = Space

Next ==
  \/ \E s \in Space : SpaceInit(s)
  \/ Running /\ ClientStep /\ UNCHANGED <<table, rangeMap>>
  \/ Running /\ \E s \in Space, high \in BOOLEAN : GrowSpaceByDefault(s, high)

Spec == Init /\ [][Next]_vars

----------------------------------------------------------------------------
(* Correctness. *)
\* The chunks in use: those of clients, the arrays, the range map
Tables == { table[s].ptr : s \in DOMAIN table } \cup ({rangeMap.ptr} \ {Null})
InUse == { held[k].at : k \in DOMAIN held } \cup Tables

\* The addresses met when a list is followed from a, at most n of them
Chain[n \in Nat] ==
  [a \in Int |-> IF n = 0 \/ a \notin DOMAIN lof.mem \ {Null} THEN <<>>
                ELSE <<a>> \o Chain[n - 1][lof.mem[a]]]

\* The pages of the blocks a class has, and the chunks they are cut in
PagesOfClass(c) == Chain[NrPages][lof.per[c].pages]
ChunksOfClass(c) ==
  UNION { ChunksOf(PageOfAddr(p), c \div GroupSize, lof.per[c].chunkSize) : p \in Range(PagesOfClass(c)) }

(* A chunk keeps what its holder wrote in it, whatever is allocated, freed,
   resized or grown by others, also when it is moved to grow itself. *)
KeepsContent ==
  \A k \in DOMAIN held : Words(lof, held[k].at, held[k].size) = Content(k, 1, held[k].size)

(* Every chunk of a class is in its free list or in use, never both, and no
   chunk is lost: the allocator can use again all that was freed. *)
ChunksConserved ==
  \A c \in DOMAIN lof.per :
    LET free == Chain[NrPages * PageWords][lof.per[c].free]
        used == { a \in InUse : lof.user[PageOfAddr(a)] = InClass(c) }
    IN  /\ Range(free) \cap used = {}
        /\ Len(free) = Cardinality(Range(free))
        /\ lof.per[c].pages # Null => Range(free) \cup used = ChunksOfClass(c)
        /\ lof.per[c].pages = Null => free = <<>> /\ used = {}

(* The size found back from the address of a chunk is that of the room it
   has: enough for what its holder asked, and free of any other chunk. *)
SizeFoundBack ==
  /\ \A k \in DOMAIN held : GetSizeAtPtr(lof, held[k].at) >= held[k].size
  /\ \A a, b \in InUse : a < b => a + GetSizeAtPtr(lof, a) <= b

(* The blocks in use are the fragments of the allocator and the frames of the
   spaces, each of them one block: no page is lost, none is used by two. *)
PagesAccounted ==
  LET pages(b) == b.page..b.page + b.pages - 1
      live == { i \in DOMAIN lof.frags : lof.frags[i].page # 0 }
      frag(i) == [page |-> lof.frags[i].page, pages |-> PagesOf(lof.frags[i].size)]
      frame(f) == [page |-> f, pages |-> FramePages]
      Frames(s) == { frame(f) : f \in Fragments(s) }
  IN  /\ lof.blocks = { frag(i) : i \in live } \cup UNION { Frames(s) : s \in DOMAIN table }
      /\ \A i, j \in live : i # j => frag(i) # frag(j)
      /\ \A s, t \in DOMAIN table : s # t => Frames(s) \cap Frames(t) = {}
      /\ \A i \in live, s \in DOMAIN table : frag(i) \notin Frames(s)
      /\ \A b, c \in lof.blocks : b # c => pages(b) \cap pages(c) = {}

(* For every address the table gives the space whose fragment it lies in, and
   no space for an address outside of all, although frames come in any order
   below and above those known and the table moves when it grows. *)
MapExact ==
  \A p \in 0..NrPages - 1 :
    LET owners == { s \in DOMAIN table : \E f \in Fragments(s) : p \in f..f + FramePages - 1 }
    IN  IF owners = {} THEN GetSpaceForAddress(p) = Null ELSE owners = {GetSpaceForAddress(p)}

=============================================================================
