-------------------------------- MODULE Bump --------------------------------
(***************************************************************************)
(* The bump allocator of the copying collector and its resizing policy:    *)
(* EHC/src/rts/mm/allocator/bump.{ch,cc} and mm_plan_SS_DoGC in            *)
(* mm/semispace/ss.cc.                                                     *)
(*                                                                         *)
(* A space is a list of fragments of one size.  The allocator cuts objects *)
(* from the current fragment; what is left at its end, too small for the   *)
(* next object, is lost.  When the space has as many fragments as it may   *)
(* have the allocator asks for a collection, which copies the live objects *)
(* to the other space with this same allocator, in the order in which it   *)
(* meets them.  Of an object only its size matters here, so both spaces    *)
(* are bags of sizes, and which objects are live is a free choice.         *)
(*                                                                         *)
(* Before the allocation that asked for the collection is tried again, the *)
(* finalizers that the collection has queued run (collectPost).  They are  *)
(* Haskell code, that is, mutator: they allocate, and their allocations    *)
(* may bring about collections of their own, which run no finalizers.      *)
(*                                                                         *)
(* C code that allocates several objects ensures room for all of them      *)
(* first (Ensure) and then allocates unchecked (AllocEnsured).             *)
(***************************************************************************)
EXTENDS Integers

CONSTANTS Sizes,         \* sizes of objects, at most a quarter of a fragment
          Margin,        \* what GB_AllocEnsure_Bytes asks in addition (4 words)
          FragmentSize,
          InitialMax,    \* fragments allowed at first
          MaxGC,         \* bound: collections in a behaviour
          None

ASSUME BumpAssumption ==
  /\ FragmentSize \in Nat /\ Margin \in Nat /\ InitialMax \in Nat \ {0} /\ MaxGC \in Nat
  /\ Sizes \subseteq {n \in 1 .. FragmentSize : 4 * n <= FragmentSize}
  /\ \A n \in Sizes : n + Margin <= 40 * (FragmentSize \div 100)
  /\ InitialMax * FragmentSize >= 100    \* one percent is not nothing

VARIABLES nrFragments,     \* per space, the fragments it has
          toSpace,
          curFragment,     \* the fragment allocated from
          avail,           \* addrCursorFree - addrFirstFree
          maxFragments,
          objects,         \* objects in toSpace, by size
          left,            \* live objects still to be copied, by size
          request,         \* the allocation that waits for a collection
          post,            \* MM_PLAN_SS_GCPROGRESS_POSTCOLLECTING
          outer,           \* the one that waits for the finalizers
          phase,
          gcs              \* collections so far

bumpVars == <<nrFragments, toSpace, curFragment, avail, maxFragments,
              objects, left, request, post, outer, phase, gcs>>
cursor   == <<nrFragments, curFragment, avail>>
finalizing == <<post, outer>>

Space   == {0, 1}
Bag     == [Sizes -> Nat]
NoObject == [n \in Sizes |-> 0]
Request == [kind : {"Alloc", "Ensure"}, size : Sizes]

BumpInit ==
  /\ nrFragments = [s \in Space |-> IF s = 0 THEN 1 ELSE 0]
  /\ toSpace = 0 /\ curFragment = 0 /\ avail = FragmentSize
  /\ maxFragments = InitialMax
  /\ objects = NoObject /\ left = NoObject
  /\ request = None /\ post = FALSE /\ outer = None
  /\ phase = "mutator" /\ gcs = 0

----------------------------------------------------------------------------
(* Cutting n words off.                                                    *)

\* one fragment more than allowed
BugNoFragmentLeft == nrFragments[toSpace] > maxFragments

NoFragmentLeft == nrFragments[toSpace] >= maxFragments

\* mm_allocator_Bump_Alloc_AndEnsureSpace: neither the rest of the fragment
\* nor a fragment the space has or may get will do
Full(n) ==
  /\ avail < n
  /\ curFragment + 1 >= nrFragments[toSpace]
  /\ NoFragmentLeft

\* mm_allocator_Bump_Alloc_AndCheckCursor, up to a collection
Cut(n) ==
  \/ /\ avail >= n
     /\ avail' = avail - n
     /\ UNCHANGED <<nrFragments, curFragment>>
  \/ /\ avail < n /\ curFragment + 1 < nrFragments[toSpace]
     /\ curFragment' = curFragment + 1
     /\ avail' = FragmentSize - n
     /\ UNCHANGED nrFragments
  \/ /\ avail < n /\ curFragment + 1 >= nrFragments[toSpace] /\ ~ NoFragmentLeft
     /\ curFragment' = nrFragments[toSpace]
     /\ nrFragments' = [nrFragments EXCEPT ![toSpace] = @ + 1]
     /\ avail' = FragmentSize - n

SubBags(bag) == {b \in [Sizes -> UNION {0 .. bag[n] : n \in Sizes}] :
                   \A n \in Sizes : b[n] <= bag[n]}

Add(bag, n) == [bag EXCEPT ![n] = @ + 1]

----------------------------------------------------------------------------
(* Collection.                                                             *)

\* allocation goes on in the fragment with the number of the current one
BugStartGC(rq) ==
  /\ gcs < MaxGC
  /\ gcs' = gcs + 1
  /\ toSpace' = 1 - toSpace
  /\ nrFragments' = [nrFragments EXCEPT ![1 - toSpace] = IF @ = 0 THEN 1 ELSE @]
  /\ curFragment' = curFragment /\ avail' = FragmentSize
  /\ left' \in SubBags(objects)
  /\ objects' = NoObject
  /\ request' = rq
  /\ phase' = "copy"
  /\ UNCHANGED <<maxFragments, finalizing>>

\* mm_collector_SS_Collect: swap the spaces, mm_allocator_Bump_ResetWithSpace
StartGC(rq) ==
  /\ gcs < MaxGC
  /\ gcs' = gcs + 1
  /\ toSpace' = 1 - toSpace
  /\ nrFragments' = [nrFragments EXCEPT ![1 - toSpace] = IF @ = 0 THEN 1 ELSE @]
  /\ curFragment' = 0 /\ avail' = FragmentSize
  /\ left' \in SubBags(objects)
  /\ objects' = NoObject
  /\ request' = rq
  /\ phase' = "copy"
  /\ UNCHANGED <<maxFragments, finalizing>>

\* A live object is copied.  Were there no room for it, the allocator would
\* call mm_plan_SS_DoGC, which panics: a collection is in progress.
CopyObject(n) ==
  /\ phase = "copy" /\ left[n] > 0
  /\ \/ /\ ~ Full(n) /\ Cut(n)
        /\ left' = [left EXCEPT ![n] = @ - 1]
        /\ objects' = Add(objects, n)
        /\ UNCHANGED phase
     \/ /\ Full(n)
        /\ phase' = "panic"
        /\ UNCHANGED <<cursor, left, objects>>
  /\ UNCHANGED <<toSpace, maxFragments, request, finalizing, gcs>>

\* mm_allocator_Bump_GetTotalSize, mm_allocator_Bump_GetUsedSize
TotalSize == maxFragments * FragmentSize
UsedSize  == (curFragment + 1) * FragmentSize - avail

\* the fuller, the less is added
BugResized ==
  LET onePercentSz   == TotalSize \div 100
      percentageFree == (TotalSize - UsedSize) \div onePercentSz
      newTotalSz     == TotalSize + percentageFree * onePercentSz
  IN  IF percentageFree < 40 THEN (newTotalSz - 1) \div FragmentSize + 1 ELSE maxFragments

\* mm_plan_SS_DoGC, mm_allocator_Bump_SetTotalSize: with less than 40% free
\* the total is to become what is used and 60% of the previous total
Resized ==
  LET onePercentSz   == TotalSize \div 100
      percentageFree == (TotalSize - UsedSize) \div onePercentSz
      newTotalSz     == TotalSize + (60 - percentageFree) * onePercentSz
  IN  IF percentageFree < 40 THEN (newTotalSz - 1) \div FragmentSize + 1 ELSE maxFragments

EndGC ==
  /\ phase = "copy" /\ left = NoObject
  /\ phase' = "collected"
  /\ maxFragments' = IF request = None    \* a preemptive collection
                     THEN maxFragments ELSE Resized
  /\ UNCHANGED <<cursor, toSpace, objects, left, request, finalizing, gcs>>

\* mm_plan_SS_DoGC returns, to the allocation that called it if there is one
Resume(rq) ==
  /\ request' = rq
  /\ phase' = IF rq = None THEN "mutator" ELSE "retry"

\* mm_plan_SS_DoGC: run the finalizers, unless this is a collection that one
\* of them has brought about
CollectPost ==
  /\ phase = "collected"
  /\ \/ /\ ~ post
        /\ post' = TRUE /\ outer' = request
        /\ request' = None /\ phase' = "mutator"
     \/ /\ post
        /\ Resume(request)
        /\ UNCHANGED finalizing
  /\ UNCHANGED <<cursor, toSpace, maxFragments, objects, left, gcs>>

\* the last finalizer has returned
EndPost ==
  /\ post /\ phase = "mutator"
  /\ post' = FALSE /\ outer' = None
  /\ Resume(outer)
  /\ UNCHANGED <<cursor, toSpace, maxFragments, objects, left, gcs>>

----------------------------------------------------------------------------
(* The mutator, finalizers included.                                       *)

Need(rq) == IF rq.kind = "Alloc" THEN rq.size ELSE rq.size + Margin

\* the words of the request have been cut off
Served(rq) ==
  IF rq.kind = "Alloc"
  THEN objects' = Add(objects, rq.size) /\ request' = None /\ phase' = "mutator"
  ELSE request' = rq /\ phase' = "ensured" /\ UNCHANGED objects

\* mm_allocator_Bump_Alloc_AndEnsureSpace, for the one or the other
TryCut(rq) ==
  \/ /\ ~ Full(Need(rq)) /\ Cut(Need(rq))
     /\ Served(rq)
     /\ UNCHANGED <<toSpace, maxFragments, left, finalizing, gcs>>
  \/ /\ Full(Need(rq))
     /\ StartGC(rq)

Alloc(n) == phase = "mutator" /\ TryCut([kind |-> "Alloc", size |-> n])

\* mm_allocator_Bump_Ensure checks the cursor first and leaves it alone when
\* there is room.  Otherwise mm_allocator_Bump_Alloc_AndEnsureSpace makes
\* room, and allocates.
Ensure(n) ==
  LET rq == [kind |-> "Ensure", size |-> n]
  IN  /\ phase = "mutator"
      /\ \/ /\ avail >= Need(rq)
            /\ Served(rq)
            /\ UNCHANGED <<cursor, toSpace, maxFragments, left, finalizing, gcs>>
         \/ avail < Need(rq) /\ TryCut(rq)

\* mm_allocator_Bump_AllocEnsured: the cursor is not checked
AllocEnsured ==
  /\ phase = "ensured"
  /\ avail' = avail - request.size
  /\ objects' = Add(objects, request.size)
  /\ request' = None /\ phase' = "mutator"
  /\ UNCHANGED <<nrFragments, curFragment, toSpace, maxFragments, left, finalizing, gcs>>

\* the allocation that asked for the collection is tried again
Retry == phase = "retry" /\ TryCut(request)

\* mm_itf_gc, the primitive that collects on request
PerformGC == phase = "mutator" /\ StartGC(None)

BumpNext ==
  \/ \E n \in Sizes : Alloc(n) \/ Ensure(n) \/ CopyObject(n)
  \/ AllocEnsured \/ Retry \/ PerformGC
  \/ EndGC \/ CollectPost \/ EndPost

BumpSpec == BumpInit /\ [][BumpNext]_bumpVars

----------------------------------------------------------------------------
TypeOK ==
  /\ nrFragments \in [Space -> Nat]
  /\ toSpace \in Space
  /\ curFragment \in Nat /\ curFragment < nrFragments[toSpace]
  /\ avail \in Int /\ avail <= FragmentSize
  /\ maxFragments \in Nat
  /\ objects \in Bag /\ left \in Bag
  /\ request \in Request \cup {None}
  /\ post \in BOOLEAN /\ outer \in Request \cup {None}
  /\ phase \in {"mutator", "ensured", "copy", "collected", "retry", "panic"}
  /\ gcs \in 0 .. MaxGC

(* Neither space ever has more fragments than the policy allows.           *)
SpaceBounded == \A s \in Space : nrFragments[s] <= maxFragments

(* When the space has been collected and resized there is room for the     *)
(* allocation that asked for it.  An allocation of a finalizer is tried    *)
(* again at once and succeeds.  Any other comes after the finalizers, who  *)
(* may have taken the room: that it "should (cannot) not fail" (bump.cc:   *)
(* 56) is more than the code sees to, the allocator may collect again.     *)
RoomAfterResizing ==
  /\ phase = "collected" /\ request # None => ~ Full(Need(request))
  /\ phase = "retry" /\ post => ~ Full(Need(request))
=============================================================================
