------------------------------ MODULE SemiSpace ------------------------------
(***************************************************************************)
(* The copying collector of the bytecode runtime: mm_collector_SS_Collect  *)
(* (EHC/src/rts/mm/semispace/sscollector.cc) tracing with mm_trace_GBM     *)
(* (mm/gbm/gbtrace.cc), between bursts of mutator activity.                *)
(*                                                                         *)
(* An address is a space and the number of the object in its space, in     *)
(* the order of allocation: the bump allocator is abstracted to a counter. *)
(* A node is a header kind and NF fields, each a pointer or a word that    *)
(* is none (an unboxed integer, an address outside the collected heap).    *)
(* An indirection keeps its target in field 1; it is left behind by the    *)
(* mutator when it updates a thunk and by the collector, as forwarding     *)
(* pointer, when it copies a node.  Roots stand for every place the trace  *)
(* supplies visit: registers, local and global roots, stack, module        *)
(* constants, queued finalizers.                                           *)
(*                                                                         *)
(* Tracing one slot takes several steps here, one for each turn of the     *)
(* loop that follows indirections: at is the slot, cur the value so far.   *)
(***************************************************************************)
EXTENDS Integers, FiniteSets

CONSTANTS Root,    \* the root slots
          NonPtr,  \* words that are not pointers into the heap
          N,       \* objects that fit in one space
          NF,      \* fields of a node
          None,    \* no slot, no value
          MaxOps   \* bound: mutator operations in a behaviour

Space  == {0, 1}
Fields == 1 .. NF
Addr   == Space \X (1 .. N)
Val    == Addr \cup NonPtr
Slot   == Root \cup (Addr \X Fields)
Kind   == {"Free", "Thunk", "Con", "Raw", "Ind"}
Node   == [kind : Kind, flds : [Fields -> Val]]

ASSUME SemiSpaceAssumption ==
  /\ N \in Nat /\ NF \in Nat \ {0} /\ MaxOps \in Nat
  /\ IsFiniteSet(Root)
  /\ NonPtr # {} /\ NonPtr \cap Addr = {}
  /\ Root \cap (Addr \X Fields) = {}
  /\ None \notin Val \cup Slot

VARIABLES heap,     \* contents of both spaces
          roots,    \* contents of the root slots
          toSpace,  \* the space allocated in; the other one is collected
          top,      \* objects allocated in toSpace
          phase,    \* "mutator", "roots" or "work"
          todo,     \* roots not yet traced in this collection
          grey,     \* the work list: copied objects with untraced payload
          at,       \* the slot being traced
          cur,      \* the object TraceObject has got to for that slot
          snap,     \* history: heap and roots when the collection began
          ops       \* mutator operations done

gcvars == <<todo, grey, at, cur, snap>>
vars   == <<heap, roots, toSpace, top, phase, gcvars, ops>>

fromSpace == 1 - toSpace
AnyWord   == CHOOSE w \in NonPtr : TRUE
FreeNode  == [kind |-> "Free", flds |-> [f \in Fields |-> AnyWord]]

Init ==
  /\ heap = [a \in Addr |-> FreeNode]
  /\ roots = [r \in Root |-> AnyWord]
  /\ toSpace = 0 /\ top = 0
  /\ phase = "mutator"
  /\ todo = {} /\ grey = {} /\ at = None /\ cur = None /\ snap = None
  /\ ops = 0

----------------------------------------------------------------------------
(* Indirections.                                                           *)
IsIndirection(h, v) == v \in Addr /\ h[v].kind = "Ind"

\* gb_Indirection_FollowObject: the end of a chain of indirections, which
\* passes each address once at most.
Target(h, v) ==
  LET chain[n \in 0 .. 2 * N] ==
        IF n = 0 THEN v
        ELSE IF IsIndirection(h, chain[n - 1]) THEN h[chain[n - 1]].flds[1]
        ELSE chain[n - 1]
  IN  chain[2 * N]

----------------------------------------------------------------------------
(* The mutator, as far as the heap is concerned.  It follows indirections  *)
(* one by one, as a load of the field they keep.                           *)
Held == NonPtr \cup {roots[r] : r \in Root}

MutatorStep ==
  /\ phase = "mutator" /\ ops < MaxOps
  /\ ops' = ops + 1
  /\ UNCHANGED <<toSpace, phase, gcvars>>

\* the cursor moves on by two objects
BugAlloc(r) ==
  /\ MutatorStep
  /\ top < N
  /\ \E k \in {"Thunk", "Con", "Raw"} :
       \E fl \in [Fields -> IF k = "Raw" THEN NonPtr ELSE Held] :
         heap' = [heap EXCEPT ![<<toSpace, top + 1>>] = [kind |-> k, flds |-> fl]]
  /\ top' = top + 2
  /\ roots' = [roots EXCEPT ![r] = <<toSpace, top + 1>>]

\* A new node, built from words the mutator holds.  Raw nodes (malloc'ed
\* pointers, floats, big integers) have no traceable fields.
Alloc(r) ==
  /\ MutatorStep
  /\ top < N
  /\ \E k \in {"Thunk", "Con", "Raw"} :
       \E fl \in [Fields -> IF k = "Raw" THEN NonPtr ELSE Held] :
         heap' = [heap EXCEPT ![<<toSpace, top + 1>>] = [kind |-> k, flds |-> fl]]
  /\ top' = top + 1
  /\ roots' = [roots EXCEPT ![r] = <<toSpace, top + 1>>]

\* An evaluated thunk is overwritten with an indirection to its value.
Update(r) ==
  LET a == roots[r]
  IN  /\ MutatorStep
      /\ a \in Addr /\ heap[a].kind = "Thunk"
      /\ \E v \in Held :
           /\ Target(heap, v) # a
           /\ heap' = [heap EXCEPT ![a] = [kind |-> "Ind", flds |-> [@.flds EXCEPT ![1] = v]]]
      /\ UNCHANGED <<roots, top>>

\* A field is filled in after allocation: letrec, mutable variables, arrays.
SetField(r) ==
  LET a == roots[r]
  IN  /\ MutatorStep
      /\ a \in Addr /\ heap[a].kind = "Con"
      /\ \E f \in Fields, v \in Held : heap' = [heap EXCEPT ![a].flds[f] = v]
      /\ UNCHANGED <<roots, top>>

\* A root takes a plain word, another root's value, or a field of its node.
Load(r) ==
  /\ MutatorStep
  /\ \/ \E v \in Held : roots' = [roots EXCEPT ![r] = v]
     \/ /\ roots[r] \in Addr
        /\ \E f \in IF heap[roots[r]].kind = "Ind" THEN {1} ELSE Fields :
             roots' = [roots EXCEPT ![r] = heap[roots[r]].flds[f]]
  /\ UNCHANGED <<heap, top>>

----------------------------------------------------------------------------
(* The collector.                                                          *)

\* mm_trace_GBM_CanTrace: a pointer, and into the collected space
CanTrace(v) == v \in Addr /\ v[1] = fromSpace

\* thunks are taken for nodes without fields to trace
BugHasTraceableFields(k) == k \notin {"Raw", "Thunk"}

\* gb_NH_HasTraceableFields
HasTraceableFields(k) == k # "Raw"

\* Swap the spaces, reset the allocator with the new to-space, forget work.
DoGC ==
  /\ phase = "mutator"
  /\ toSpace' = fromSpace
  /\ top' = 0
  /\ heap' = [a \in Addr |-> IF a[1] = fromSpace THEN FreeNode ELSE heap[a]]
  /\ phase' = "roots"
  /\ todo' = Root
  /\ grey' = {}
  /\ snap' = [heap |-> heap, roots |-> roots]
  /\ UNCHANGED <<roots, at, cur, ops>>

\* The trace supplies of the group run one after the other.
TakeRoot(r) ==
  /\ phase = "roots" /\ at = None /\ r \in todo
  /\ at' = r /\ cur' = roots[r]
  /\ UNCHANGED <<heap, roots, toSpace, top, phase, todo, grey, snap, ops>>

EndRoots ==
  /\ phase = "roots" /\ at = None /\ todo = {}
  /\ phase' = "work"
  /\ UNCHANGED <<heap, roots, toSpace, top, todo, grey, at, cur, snap, ops>>

\* mm_traceSupply_Buffer_Run.  The work list is first-in first-out and an
\* object enters it when it is allocated, so the oldest one is next.
PopWork ==
  /\ phase = "work" /\ at = None
  /\ \E a \in grey :
       /\ \A b \in grey : a[2] <= b[2]
       /\ at' = <<a, 1>> /\ cur' = heap[a].flds[1]
       /\ grey' = grey \ {a}
  /\ UNCHANGED <<heap, roots, toSpace, top, phase, todo, snap, ops>>

\* field NF is taken for the target of an indirection
BugFollowInd ==
  /\ at # None /\ CanTrace(cur) /\ heap[cur].kind = "Ind"
  /\ cur' = heap[cur].flds[NF]
  /\ UNCHANGED <<heap, roots, toSpace, top, phase, todo, grey, at, snap, ops>>

\* mm_trace_GBM_TraceKnownToBeObject: follow the chain of indirections
FollowInd ==
  /\ at # None /\ CanTrace(cur) /\ heap[cur].kind = "Ind"
  /\ cur' = heap[cur].flds[1]
  /\ UNCHANGED <<heap, roots, toSpace, top, phase, todo, grey, at, snap, ops>>

\* no forwarding pointer is left behind
BugCopy ==
  /\ at # None /\ CanTrace(cur) /\ heap[cur].kind # "Ind"
  /\ top < N
  /\ LET new == <<toSpace, top + 1>>
     IN  /\ heap' = [heap EXCEPT ![new] = heap[cur]]
         /\ grey' = IF HasTraceableFields(heap[cur].kind) THEN grey \cup {new} ELSE grey
         /\ cur' = new
  /\ top' = top + 1
  /\ UNCHANGED <<roots, toSpace, phase, todo, at, snap, ops>>

\* mm_trace_GBM_TraceKnownToBeObject: copy the node, overwrite the original
\* with a forwarding pointer, queue the payload of the copy.  An allocation
\* that does not fit would end the program: the allocator asks for another
\* collection and mm_plan_SS_DoGC panics.  Module Bump is about that.
Copy ==
  /\ at # None /\ CanTrace(cur) /\ heap[cur].kind # "Ind"
  /\ top < N
  /\ LET new == <<toSpace, top + 1>>
     IN  /\ heap' = [heap EXCEPT ![new] = heap[cur],
                                 ![cur].kind = "Ind", ![cur].flds[1] = new]
         /\ grey' = IF HasTraceableFields(heap[cur].kind) THEN grey \cup {new} ELSE grey
         /\ cur' = new
  /\ top' = top + 1
  /\ UNCHANGED <<roots, toSpace, phase, todo, at, snap, ops>>

\* the root is traced over and over
BugStoreRoot ==
  /\ at \in Root /\ ~ CanTrace(cur)
  /\ roots' = [roots EXCEPT ![at] = cur]
  /\ todo' = todo
  /\ at' = None /\ cur' = None
  /\ UNCHANGED <<heap, toSpace, top, phase, grey, snap, ops>>

\* the traced object replaces the contents of a root slot ...
StoreRoot ==
  /\ at \in Root /\ ~ CanTrace(cur)
  /\ roots' = [roots EXCEPT ![at] = cur]
  /\ todo' = todo \ {at}
  /\ at' = None /\ cur' = None
  /\ UNCHANGED <<heap, toSpace, top, phase, grey, snap, ops>>

\* the last field is not traced
BugStoreField ==
  /\ at \in Addr \X Fields /\ ~ CanTrace(cur)
  /\ heap' = [heap EXCEPT ![at[1]].flds[at[2]] = cur]
  /\ IF at[2] < NF - 1
     THEN at' = <<at[1], at[2] + 1>> /\ cur' = heap[at[1]].flds[at[2] + 1]
     ELSE at' = None /\ cur' = None
  /\ UNCHANGED <<roots, toSpace, top, phase, todo, grey, snap, ops>>

\* ... or of a field, and the next field of the payload follows
\* (mm_trace_GBM_TraceObjectPayload)
StoreField ==
  /\ at \in Addr \X Fields /\ ~ CanTrace(cur)
  /\ heap' = [heap EXCEPT ![at[1]].flds[at[2]] = cur]
  /\ IF at[2] < NF
     THEN at' = <<at[1], at[2] + 1>> /\ cur' = heap[at[1]].flds[at[2] + 1]
     ELSE at' = None /\ cur' = None
  /\ UNCHANGED <<roots, toSpace, top, phase, todo, grey, snap, ops>>

TracingDone == phase = "work" /\ at = None /\ grey = {}

EndGC ==
  /\ TracingDone
  /\ phase' = "mutator"
  /\ snap' = None
  /\ UNCHANGED <<heap, roots, toSpace, top, todo, grey, at, cur, ops>>

----------------------------------------------------------------------------
Mutator == \E r \in Root : Alloc(r) \/ Update(r) \/ SetField(r) \/ Load(r)

Collector ==
  \/ \E r \in Root : TakeRoot(r)
  \/ EndRoots \/ PopWork \/ FollowInd \/ Copy
  \/ StoreRoot \/ StoreField \/ EndGC

Next == Mutator \/ DoGC \/ Collector

\* A collection is one call: once started the collector runs on.
Spec == Init /\ [][Next]_vars /\ WF_vars(Collector)

----------------------------------------------------------------------------
TypeOK ==
  /\ heap \in [Addr -> Node]
  /\ roots \in [Root -> Val]
  /\ toSpace \in Space
  /\ top \in 0 .. N
  /\ phase \in {"mutator", "roots", "work"}
  /\ todo \subseteq Root
  /\ grey \subseteq Addr
  /\ at \in Slot \cup {None}
  /\ cur \in Val \cup {None}
  /\ ops \in 0 .. MaxOps

\* A word that the mutator may use: no pointer, or an object of to-space.
Valid(v) == v \in NonPtr \/ (v \in Addr /\ v[1] = toSpace /\ v[2] <= top)

Allocated(a) == a[1] = toSpace /\ a[2] <= top

(* Outside a collection neither a root nor a field of an allocated node    *)
(* refers to memory of the space that was collected.                       *)
NoDangling ==
  phase = "mutator" =>
    /\ \A r \in Root : Valid(roots[r])
    /\ \A a \in Addr : Allocated(a) => \A f \in Fields : Valid(heap[a].flds[f])

(* The copy of an object, once made: during a collection the indirections  *)
(* of from-space that lead to to-space are the forwarding pointers.        *)
Forward(v) == IF CanTrace(v) THEN heap[v].flds[1] ELSE v

Forwarded == {a \in Addr : CanTrace(a) /\ heap[a].kind = "Ind" /\ Valid(heap[a].flds[1])
                           /\ snap.heap[a].kind # "Ind"}

(* A finished collection preserves the graph the mutator sees: every root  *)
(* and every field of every copy leads to the copy of what it led to, with *)
(* indirections removed, sharing kept and the node itself unchanged.       *)
GraphPreserved ==
  TracingDone =>
    /\ \A r \in Root : roots[r] = Forward(Target(snap.heap, snap.roots[r]))
    /\ \A a \in Forwarded :
         /\ heap[Forward(a)].kind = snap.heap[a].kind
         /\ \A f \in Fields :
              heap[Forward(a)].flds[f] = Forward(Target(snap.heap, snap.heap[a].flds[f]))
    /\ \A a, b \in Forwarded : Forward(a) = Forward(b) => a = b

(* The objects of the collected space that the mutator could get at when   *)
(* the collection began: the least set that has what the roots lead to and *)
(* what the fields of its members lead to (of an indirection its target,   *)
(* not the other fields that the updated thunk has left there).            *)
Followed(node) ==
  IF node.kind = "Ind" THEN {1} ELSE IF node.kind = "Raw" THEN {} ELSE Fields

Closed(S) ==
  /\ \A r \in Root : CanTrace(snap.roots[r]) => snap.roots[r] \in S
  /\ \A a \in S : \A f \in Followed(snap.heap[a]) :
       CanTrace(snap.heap[a].flds[f]) => snap.heap[a].flds[f] \in S

FromSpace == {fromSpace} \X (1 .. N)

Reachable == {a \in FromSpace : \A S \in SUBSET FromSpace : Closed(S) => a \in S}

(* To-space holds copies of reachable objects only, one each: every object *)
(* forwarded was reachable, no garbage is copied, and nothing but the      *)
(* copies that forwarding pointers lead to is allocated.                   *)
ExactlyTheForwarded ==
  phase \in {"roots", "work"} =>
    /\ Forwarded \subseteq Reachable
    /\ top = Cardinality(Forwarded)

(* What a collection has still to do, counted in steps at most: an object  *)
(* that may be copied is queued for its payload, each slot may lead along  *)
(* a chain of indirections as long as from-space is big.                   *)
Hops(v) ==
  LET hops[n \in 0 .. N] ==
        [w \in Val |-> IF n = 0 \/ ~ CanTrace(w) \/ heap[w].kind # "Ind" THEN 0
                       ELSE 1 + hops[n - 1][heap[w].flds[1]]]
  IN  hops[N][v]

SlotWork    == N + 2
PayloadWork == NF * SlotWork + 1

WorkLeft ==
  IF phase = "mutator" THEN 0
  ELSE (IF phase = "roots" THEN 2 ELSE 1)
       + Cardinality({a \in Addr : CanTrace(a) /\ heap[a].kind \notin {"Free", "Ind"}}) * (PayloadWork + 1)
       + Cardinality(grey) * PayloadWork
       + Cardinality(todo \ {at}) * SlotWork
       + (IF at \in Addr \X Fields THEN (NF - at[2]) * SlotWork ELSE 0)
       + (IF at # None THEN Hops(cur) + 1 ELSE 0)

(* Every collection comes to its end, although tracing is a loop over a    *)
(* work list that it extends itself: each step leaves less to do, and none *)
(* but the last leaves the collector without a next one (the runs look for *)
(* deadlock).                                                              *)
CollectionAdvances ==
  [][phase # "mutator" => WorkLeft \in Nat /\ WorkLeft' < WorkLeft]_vars

----------------------------------------------------------------------------
(* The inductive strengthening of NoDangling.  Scanned(a, f): the collector *)
(* need not come back to field f of the allocated node a.                  *)
Scanned(a, f) ==
  /\ Allocated(a) /\ a \notin grey
  /\ (at # None /\ at \notin Root) => (at[1] # a \/ f < at[2])

\* A word that memory may hold: it never leads beyond the allocated nodes.
Known(v) == v \in NonPtr \/ (v \in Addr /\ (v[1] = toSpace => v[2] <= top))

\* Where the collector is, and what it has still to do.
Queued(a) == Allocated(a) /\ heap[a].kind # "Raw"

Control ==
  /\ phase = "mutator" => todo = {} /\ grey = {} /\ at = None
  /\ phase = "work" => todo = {}
  /\ \A a \in grey : Queued(a)
  /\ at \in Root => phase # "mutator" /\ at \in todo
  /\ at \in Addr \X Fields => todo = {} /\ Queued(at[1]) /\ at[1] \notin grey
  /\ at # None => cur \in Val /\ Known(cur)

\* Memory not allocated yet is clear, and nodes that are never queued hold
\* nothing to trace.
Untraced ==
  \A a \in Addr :
    /\ a[1] = toSpace /\ a[2] > top => heap[a] = FreeNode
    /\ heap[a].kind = "Raw" => \A f \in Fields : heap[a].flds[f] \in NonPtr

IInv ==
  /\ TypeOK /\ Control /\ Untraced
  /\ \A a \in Addr : \A f \in Fields :
       Known(heap[a].flds[f]) /\ (Scanned(a, f) => Valid(heap[a].flds[f]))
  /\ \A r \in Root :
       Known(roots[r]) /\ (r \notin todo => Valid(roots[r]))
=============================================================================
