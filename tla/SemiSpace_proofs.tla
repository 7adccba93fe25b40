-------------------------- MODULE SemiSpace_proofs --------------------------
(***************************************************************************)
(* The copying collector, for every number of roots, objects and fields.   *)
(*                                                                         *)
(* It leaves no reference to the space it has collected.  The argument is  *)
(* the inductive invariant IInv of SemiSpace: the allocated part of        *)
(* to-space is scanned, or on the work list, or the node the collector is  *)
(* at.                                                                     *)
(*                                                                         *)
(* It preserves the graph the mutator sees, and copies each object once.   *)
(* The invariant for that, GInv, has two halves.  Between collections the  *)
(* indirections are ranked: the mutator cannot close a circle of them,     *)
(* because it updates a thunk only with a value that does not lead back to *)
(* it.  During one, the snapshot taken at its start relates old and new    *)
(* memory: an object of from-space is as it was or forwards to its copy,   *)
(* the allocated part of to-space consists of the copies, one of each, and *)
(* a slot holds what it held or, once scanned, the copy of what that led   *)
(* to.  LInv adds that what has been copied was reachable.                 *)
(***************************************************************************)
EXTENDS SemiSpace, TLAPS, Induction, FunctionTheorems

-----------------------------------------------------------------------------
(* References to the space that has been collected.                        *)

LEMMA ConstantFacts ==
  /\ N \in Nat /\ NF \in Nat \ {0} /\ MaxOps \in Nat
  /\ \A v \in NonPtr : v \notin Addr
  /\ \A r \in Root : r \notin Addr \X Fields
  /\ None \notin Val /\ None \notin Slot
  /\ 1 \in Fields
  /\ FreeNode \in Node /\ FreeNode.kind = "Free"
  /\ AnyWord \in NonPtr /\ \A f \in Fields : FreeNode.flds[f] = AnyWord
BY SemiSpaceAssumption DEF AnyWord, Fields, Val, FreeNode, Node, Kind

LEMMA InitInvariant == Init => IInv
<1> SUFFICES ASSUME Init PROVE IInv
  OBVIOUS
<1> USE ConstantFacts DEF Init
<1>1. TypeOK
  BY DEF TypeOK, Space, Val
<1>2. Control
  BY DEF Control, Slot
<1>3. Untraced
  BY DEF Untraced
<1>4. \A v : v \in NonPtr => Known(v) /\ Valid(v)
  BY DEF Known, Valid
<1> QED
  BY <1>1, <1>2, <1>3, <1>4 DEF IInv

(* Outside a collection the words the mutator holds are valid.             *)
LEMMA HeldValid ==
  ASSUME IInv, phase = "mutator"
  PROVE  \A v \in Held : v \in Val /\ Valid(v) /\ Known(v)
BY ConstantFacts DEF IInv, Control, TypeOK, Held, Valid, Known, Val

LEMMA NodeFields ==
  ASSUME TypeOK, NEW a \in Addr
  PROVE  /\ heap[a] \in Node /\ heap[a].kind \in Kind
         /\ heap[a].flds \in [Fields -> Val]
         /\ \A f \in Fields : heap[a].flds[f] \in Val
BY DEF TypeOK, Node

LEMMA AllocStep ==
  ASSUME IInv, NEW r \in Root, Alloc(r)
  PROVE  IInv'
<1> USE ConstantFacts
<1> DEFINE new == <<toSpace, top + 1>>
<1>1. /\ phase = "mutator" /\ phase' = phase /\ toSpace' = toSpace
      /\ top \in Nat /\ top < N /\ top' = top + 1 /\ ops < MaxOps /\ ops' = ops + 1
      /\ todo' = todo /\ grey' = grey /\ at' = at /\ cur' = cur /\ snap' = snap
      /\ roots' = [roots EXCEPT ![r] = new]
      /\ todo = {} /\ grey = {} /\ at = None
  BY DEF Alloc, MutatorStep, gcvars, IInv, TypeOK, Control
<1>2. PICK k \in {"Thunk", "Con", "Raw"} :
        \E fl \in [Fields -> IF k = "Raw" THEN NonPtr ELSE Held] :
          heap' = [heap EXCEPT ![new] = [kind |-> k, flds |-> fl]]
  BY DEF Alloc
<1>3. PICK fl \in [Fields -> IF k = "Raw" THEN NonPtr ELSE Held] :
        heap' = [heap EXCEPT ![new] = [kind |-> k, flds |-> fl]]
  BY <1>2
<1>4. new \in Addr /\ new[1] = toSpace /\ new[2] = top + 1
  BY <1>1 DEF IInv, TypeOK, Space, Addr
<1>5. \A f \in Fields : fl[f] \in Val /\ Valid(fl[f]) /\ Known(fl[f])
  BY <1>1, HeldValid DEF Val, Valid, Known
<1>6. [kind |-> k, flds |-> fl] \in Node
  BY <1>5 DEF Node, Kind
<1>7. TypeOK /\ heap \in [Addr -> Node]
  BY DEF IInv, TypeOK
<1>8. /\ heap'[new] = [kind |-> k, flds |-> fl]
      /\ \A a \in Addr : a # new => heap'[a] = heap[a]
  BY <1>3, <1>4, <1>7
<1>9. \A v : (Valid(v) => Valid(v)') /\ (Known(v) => Known(v)')
  BY <1>1 DEF Valid, Known, Addr, IInv, TypeOK
<1>10. TypeOK'
  <2>1. heap' \in [Addr -> Node]
    BY <1>3, <1>6, <1>7
  <2>2. roots' \in [Root -> Val]
    BY <1>1, <1>4, <1>7 DEF TypeOK, Val
  <2> QED
    BY <1>1, <1>7, <2>1, <2>2 DEF TypeOK
<1>11. Control'
  BY <1>1 DEF Control, Slot, IInv
<1>12. Untraced'
  <2> SUFFICES ASSUME NEW a \in Addr
               PROVE  /\ a[1] = toSpace' /\ a[2] > top' => heap'[a] = FreeNode
                      /\ heap'[a].kind = "Raw" =>
                           \A f \in Fields : heap'[a].flds[f] \in NonPtr
    BY DEF Untraced, FreeNode
  <2>1. CASE a = new
    BY <2>1, <1>8, <1>1, <1>4
  <2>2. CASE a # new
    BY <2>2, <1>8, <1>1 DEF IInv, Untraced, Addr
  <2> QED
    BY <2>1, <2>2
<1>13. ASSUME NEW a \in Addr, NEW f \in Fields
       PROVE  Known(heap[a].flds[f])' /\ (Scanned(a, f)' => Valid(heap[a].flds[f])')
  <2>1. CASE a = new
    BY <2>1, <1>5, <1>8, <1>9
  <2>2. CASE a # new
    <3>1. heap'[a] = heap[a]
      BY <2>2, <1>8
    <3>2. Known(heap[a].flds[f])
      BY DEF IInv
    <3>3. Scanned(a, f)' => Scanned(a, f)
      BY <1>1, <1>4, <2>2 DEF Scanned, Allocated, Addr
    <3> QED
      BY <3>1, <3>2, <3>3, <1>9 DEF IInv
  <2> QED
    BY <2>1, <2>2
<1>14. ASSUME NEW q \in Root
       PROVE  Known(roots[q])' /\ (q \notin todo' => Valid(roots[q])')
  <2>1. Known(roots[q]) /\ Valid(roots[q]) /\ roots \in [Root -> Val]
    BY <1>1, <1>7 DEF IInv, TypeOK
  <2>2. CASE q = r
    <3>1. roots'[q] = new
      BY <2>1, <2>2, <1>1
    <3> QED
      BY <3>1, <1>1, <1>4 DEF Valid, Known
  <2>3. CASE q # r
    <3>1. roots'[q] = roots[q]
      BY <2>1, <2>3, <1>1
    <3> QED
      BY <3>1, <2>1, <1>9
  <2> QED
    BY <2>2, <2>3
<1> QED
  BY <1>10, <1>11, <1>12, <1>13, <1>14 DEF IInv

(* Storing a valid word in a field of a node, or turning a node into an    *)
(* indirection, between collections.                                       *)
LEMMA WriteStep ==
  ASSUME IInv, MutatorStep, UNCHANGED <<roots, top>>,
         NEW a \in Addr, NEW f \in Fields, NEW v \in Held, NEW k \in Kind,
         heap[a].kind \in {"Thunk", "Con"}, k \in {"Con", "Ind"},
         heap' = [heap EXCEPT ![a] = [kind |-> k, flds |-> [heap[a].flds EXCEPT ![f] = v]]]
  PROVE  IInv'
<1> USE ConstantFacts
<1>1. /\ phase = "mutator" /\ phase' = phase /\ toSpace' = toSpace /\ top' = top
      /\ top \in Nat /\ ops < MaxOps /\ ops' = ops + 1 /\ roots' = roots
      /\ todo' = todo /\ grey' = grey /\ at' = at /\ cur' = cur /\ snap' = snap
      /\ todo = {} /\ grey = {} /\ at = None
  BY DEF MutatorStep, gcvars, IInv, TypeOK, Control
<1>2. v \in Val /\ Valid(v) /\ Known(v)
  BY <1>1, HeldValid
<1>3. TypeOK /\ heap \in [Addr -> Node]
  BY DEF IInv, TypeOK
<1>4. heap[a].flds \in [Fields -> Val]
  BY <1>3, NodeFields
<1> DEFINE fl == [heap[a].flds EXCEPT ![f] = v]
<1>5. fl \in [Fields -> Val] /\ fl[f] = v /\ \A g \in Fields : g # f => fl[g] = heap[a].flds[g]
  BY <1>2, <1>4
<1>6. /\ heap'[a].kind = k /\ heap'[a].flds = fl
      /\ \A b \in Addr : b # a => heap'[b] = heap[b]
  BY <1>3
<1> HIDE DEF fl
<1>7. \A w : (Valid(w) => Valid(w)') /\ (Known(w) => Known(w)')
  BY <1>1 DEF Valid, Known
<1>8. TypeOK'
  <2>1. [kind |-> k, flds |-> fl] \in Node
    BY <1>5 DEF Node
  <2>2. heap' \in [Addr -> Node]
    BY <1>3, <2>1 DEF fl
  <2> QED
    BY <1>1, <1>3, <2>2 DEF TypeOK
<1>9. Control'
  BY <1>1 DEF Control, Slot
<1>10. Untraced'
  <2>1. Untraced
    BY DEF IInv
  <2>2. ~ (a[1] = toSpace /\ a[2] > top)
    BY <2>1 DEF Untraced
  <2> QED
    BY <2>1, <2>2, <1>1, <1>6 DEF Untraced
<1>11. ASSUME NEW b \in Addr, NEW g \in Fields
       PROVE  Known(heap[b].flds[g])' /\ (Scanned(b, g)' => Valid(heap[b].flds[g])')
  <2>1. Known(heap[b].flds[g]) /\ (Scanned(b, g) => Valid(heap[b].flds[g]))
    BY DEF IInv
  <2>2. Scanned(b, g)' => Scanned(b, g)
    BY <1>1 DEF Scanned, Allocated
  <2>3. heap'[b].flds[g] = heap[b].flds[g] \/ heap'[b].flds[g] = v
    BY <1>5, <1>6
  <2> QED
    BY <2>1, <2>2, <2>3, <1>2, <1>7
<1>12. ASSUME NEW q \in Root
       PROVE  Known(roots[q])' /\ (q \notin todo' => Valid(roots[q])')
  BY <1>1, <1>7 DEF IInv
<1> QED
  BY <1>8, <1>9, <1>10, <1>11, <1>12 DEF IInv

LEMMA UpdateStep ==
  ASSUME IInv, NEW r \in Root, Update(r)
  PROVE  IInv'
<1>1. PICK v \in Held :
        heap' = [heap EXCEPT ![roots[r]] = [kind |-> "Ind", flds |-> [@.flds EXCEPT ![1] = v]]]
  BY DEF Update
<1>2. /\ MutatorStep /\ UNCHANGED <<roots, top>>
      /\ roots[r] \in Addr /\ heap[roots[r]].kind = "Thunk"
  BY DEF Update
<1> QED
  BY <1>1, <1>2, WriteStep, ConstantFacts DEF Kind

LEMMA SetFieldStep ==
  ASSUME IInv, NEW r \in Root, SetField(r)
  PROVE  IInv'
<1> DEFINE a == roots[r]
<1>1. PICK f \in Fields, v \in Held : heap' = [heap EXCEPT ![a].flds[f] = v]
  BY DEF SetField
<1>2. MutatorStep /\ UNCHANGED <<roots, top>> /\ a \in Addr /\ heap[a].kind = "Con"
  BY DEF SetField
<1>3. heap[a] = [kind |-> "Con", flds |-> heap[a].flds]
  BY <1>2, NodeFields DEF IInv, Node
<1>4. heap' = [heap EXCEPT ![a] = [kind |-> "Con", flds |-> [heap[a].flds EXCEPT ![f] = v]]]
  <2>1. ASSUME NEW h, NEW x, x = [kind |-> "Con", flds |-> h]
        PROVE  [x EXCEPT !.flds[f] = v] = [kind |-> "Con", flds |-> [h EXCEPT ![f] = v]]
    BY <2>1
  <2>2. heap' = [heap EXCEPT ![a] = [heap[a] EXCEPT !.flds[f] = v]]
    BY <1>1
  <2> QED
    BY <2>1, <2>2, <1>3
<1> QED
  BY <1>2, <1>4, WriteStep DEF Kind

LEMMA LoadStep ==
  ASSUME IInv, NEW r \in Root, Load(r)
  PROVE  IInv'
<1> USE ConstantFacts
<1>1. /\ phase = "mutator" /\ phase' = phase /\ toSpace' = toSpace /\ top' = top
      /\ ops < MaxOps /\ ops' = ops + 1 /\ ops \in Nat /\ heap' = heap
      /\ todo' = todo /\ grey' = grey /\ at' = at /\ cur' = cur /\ snap' = snap
      /\ todo = {} /\ grey = {} /\ at = None
  BY DEF Load, MutatorStep, gcvars, IInv, TypeOK, Control
<1>2. PICK v : roots' = [roots EXCEPT ![r] = v] /\ v \in Val /\ Valid(v) /\ Known(v)
  <2>1. CASE \E v \in Held : roots' = [roots EXCEPT ![r] = v]
    BY <2>1, <1>1, HeldValid
  <2>2. CASE /\ roots[r] \in Addr
             /\ \E f \in IF heap[roots[r]].kind = "Ind" THEN {1} ELSE Fields :
                  roots' = [roots EXCEPT ![r] = heap[roots[r]].flds[f]]
    <3>1. PICK f \in Fields : roots' = [roots EXCEPT ![r] = heap[roots[r]].flds[f]]
      BY <2>2
    <3>2. Valid(roots[r])
      BY <1>1 DEF IInv
    <3>3. Scanned(roots[r], f)
      BY <1>1, <3>2, <2>2 DEF Scanned, Allocated, Valid
    <3> QED
      BY <3>1, <3>3, <2>2, NodeFields DEF IInv
  <2> QED
    BY <2>1, <2>2 DEF Load
<1>3. TypeOK'
  BY <1>1, <1>2 DEF IInv, TypeOK
<1>4. Control' /\ Untraced'
  BY <1>1 DEF IInv, Control, Slot, Untraced
<1>5. ASSUME NEW a \in Addr, NEW f \in Fields
      PROVE  Known(heap[a].flds[f])' /\ (Scanned(a, f)' => Valid(heap[a].flds[f])')
  BY <1>1 DEF IInv, Known, Scanned, Valid, Allocated
<1>6. ASSUME NEW q \in Root
      PROVE  Known(roots[q])' /\ (q \notin todo' => Valid(roots[q])')
  <2>1. roots'[q] = roots[q] \/ roots'[q] = v
    BY <1>2 DEF IInv, TypeOK
  <2> QED
    BY <2>1, <1>1, <1>2 DEF IInv, Known, Valid
<1> QED
  BY <1>3, <1>4, <1>5, <1>6 DEF IInv

LEMMA DoGCStep ==
  ASSUME IInv, DoGC
  PROVE  IInv'
<1> USE ConstantFacts
<1>1. /\ phase = "mutator" /\ phase' = "roots" /\ toSpace' = 1 - toSpace /\ top' = 0
      /\ toSpace \in {0, 1} /\ ops' = ops /\ roots' = roots
      /\ todo' = Root /\ grey' = {} /\ at' = None /\ cur' = cur
      /\ todo = {} /\ grey = {} /\ at = None
  BY DEF DoGC, fromSpace, IInv, TypeOK, Control, Space
<1>2. \A a \in Addr : heap'[a] = IF a[1] = toSpace' THEN FreeNode ELSE heap[a]
  BY <1>1 DEF DoGC, fromSpace
<1>3. FreeNode \in Node /\ FreeNode.kind = "Free" /\ \A f \in Fields : FreeNode.flds[f] = AnyWord
  OBVIOUS
<1>4. \A a \in Addr : a[1] \in {0, 1} /\ a[2] \in Nat /\ a[2] >= 1
  BY DEF Addr, Space
<1>5. TypeOK'
  <2>1. heap' \in [Addr -> Node]
    BY <1>3 DEF DoGC, IInv, TypeOK
  <2> QED
    BY <1>1, <2>1 DEF IInv, TypeOK, Space
<1>6. Control'
  BY <1>1 DEF Control, Slot
<1>7. Untraced'
  BY <1>1, <1>2, <1>3, <1>4 DEF IInv, Untraced
<1>8. \A v : Valid(v) => Known(v)'
  BY <1>1 DEF Valid, Known
<1>9. ASSUME NEW a \in Addr, NEW f \in Fields
      PROVE  Known(heap[a].flds[f])' /\ (Scanned(a, f)' => Valid(heap[a].flds[f])')
  <2>1. ~ Scanned(a, f)'
    BY <1>1, <1>4 DEF Scanned, Allocated
  <2>2. CASE a[1] = toSpace'
    BY <2>1, <2>2, <1>2, <1>3 DEF Known
  <2>3. CASE a[1] # toSpace' /\ a[2] <= top
    <3>1. Scanned(a, f)
      BY <2>3, <1>1, <1>4 DEF Scanned, Allocated
    <3> QED
      BY <3>1, <2>1, <2>3, <1>2, <1>8 DEF IInv
  <2>4. CASE a[1] # toSpace' /\ a[2] > top
    <3>1. heap[a].flds[f] \in NonPtr
      BY <2>4, <1>1, <1>4 DEF IInv, Untraced
    <3> QED
      BY <3>1, <2>1, <2>4, <1>2 DEF Known
  <2> QED
    BY <2>2, <2>3, <2>4, <1>1, <1>4 DEF IInv, TypeOK
<1>10. ASSUME NEW q \in Root
       PROVE  Known(roots[q])' /\ (q \notin todo' => Valid(roots[q])')
  BY <1>1, <1>8 DEF IInv
<1> QED
  BY <1>5, <1>6, <1>7, <1>9, <1>10 DEF IInv

----------------------------------------------------------------------------
(* Steps that leave memory as it is.                                       *)
LEMMA QuietStep ==
  ASSUME IInv, UNCHANGED <<heap, roots, toSpace, top>>
  PROVE  /\ \A v : (Valid(v) <=> Valid(v)') /\ (Known(v) <=> Known(v)')
         /\ \A a : (Allocated(a) <=> Allocated(a)') /\ (Queued(a) <=> Queued(a)')
         /\ Untraced'
BY DEF IInv, Valid, Known, Allocated, Queued, Untraced

LEMMA TakeRootStep ==
  ASSUME IInv, NEW r \in Root, TakeRoot(r)
  PROVE  IInv'
<1> USE ConstantFacts
<1>1. /\ UNCHANGED <<heap, roots, toSpace, top, phase, todo, grey, snap, ops>>
      /\ phase = "roots" /\ at = None /\ r \in todo
      /\ at' = r /\ cur' = roots[r]
  BY DEF TakeRoot
<1>2. TypeOK'
  BY <1>1 DEF IInv, TypeOK, Slot
<1>3. Control'
  BY <1>1, QuietStep DEF IInv, TypeOK, Control
<1>4. \A a \in Addr : \A f \in Fields : Scanned(a, f)' => Scanned(a, f)
  BY <1>1 DEF Scanned, Allocated
<1> QED
  BY <1>1, <1>2, <1>3, <1>4, QuietStep DEF IInv

LEMMA EndRootsStep ==
  ASSUME IInv, EndRoots
  PROVE  IInv'
<1>1. /\ UNCHANGED <<heap, roots, toSpace, top, todo, grey, at, cur, snap, ops>>
      /\ at = None /\ todo = {} /\ phase' = "work"
  BY DEF EndRoots
<1>2. TypeOK' /\ Control'
  BY <1>1, QuietStep, ConstantFacts DEF IInv, TypeOK, Control
<1>3. \A a \in Addr : \A f \in Fields : Scanned(a, f)' => Scanned(a, f)
  BY <1>1 DEF Scanned, Allocated
<1> QED
  BY <1>1, <1>2, <1>3, QuietStep DEF IInv

LEMMA PopWorkStep ==
  ASSUME IInv, PopWork
  PROVE  IInv'
<1> USE ConstantFacts
<1>1. PICK a \in grey : /\ at' = <<a, 1>> /\ cur' = heap[a].flds[1]
                        /\ grey' = grey \ {a}
  BY DEF PopWork
<1>2. /\ UNCHANGED <<heap, roots, toSpace, top, phase, todo, snap, ops>>
      /\ phase = "work" /\ at = None /\ todo = {} /\ a \in Addr /\ Queued(a)
  BY DEF PopWork, IInv, Control, TypeOK
<1>3. at' \in Addr \X Fields /\ at' # None /\ at' \notin Root /\ at'[1] = a /\ at'[2] = 1
  BY <1>1, <1>2 DEF Slot
<1>4. cur' \in Val /\ Known(cur')
  BY <1>1, <1>2, NodeFields DEF IInv
<1>5. TypeOK'
  BY <1>1, <1>2, <1>3, <1>4 DEF IInv, TypeOK, Slot
<1>6. Control'
  BY <1>1, <1>2, <1>3, <1>4, QuietStep DEF IInv, Control, Known
<1>7. \A b \in Addr : \A f \in Fields : Scanned(b, f)' => Scanned(b, f)
  BY <1>1, <1>2, <1>3 DEF Scanned, Allocated, Fields
<1> QED
  BY <1>2, <1>5, <1>6, <1>7, QuietStep DEF IInv

LEMMA FollowIndStep ==
  ASSUME IInv, FollowInd
  PROVE  IInv'
<1> USE ConstantFacts
<1>1. /\ UNCHANGED <<heap, roots, toSpace, top, phase, todo, grey, at, snap, ops>>
      /\ at # None /\ cur \in Addr /\ cur' = heap[cur].flds[1]
  BY DEF FollowInd, CanTrace
<1>2. cur' \in Val /\ Known(cur')
  BY <1>1, NodeFields DEF IInv, Known
<1>3. TypeOK' /\ Control'
  BY <1>1, <1>2, QuietStep DEF IInv, TypeOK, Control, Known
<1>4. \A a \in Addr : \A f \in Fields : Scanned(a, f)' => Scanned(a, f)
  BY <1>1 DEF Scanned, Allocated
<1> QED
  BY <1>1, <1>3, <1>4, QuietStep DEF IInv

\* What the collector stores in a slot is a valid word.
LEMMA StoredValid ==
  ASSUME IInv, at # None, ~ CanTrace(cur)
  PROVE  cur \in Val /\ Valid(cur) /\ Known(cur)
BY ConstantFacts DEF IInv, Control, TypeOK, Known, Valid, CanTrace, fromSpace, Addr, Space, Val

LEMMA StoreRootStep ==
  ASSUME IInv, StoreRoot
  PROVE  IInv'
<1> USE ConstantFacts
<1>1. /\ UNCHANGED <<heap, toSpace, top, phase, grey, snap, ops>>
      /\ at \in Root /\ ~ CanTrace(cur) /\ at # None
      /\ roots' = [roots EXCEPT ![at] = cur] /\ todo' = todo \ {at}
      /\ at' = None /\ cur' = None
  BY DEF StoreRoot, Slot
<1>2. cur \in Val /\ Valid(cur) /\ Known(cur)
  BY <1>1, StoredValid
<1>3. TypeOK'
  BY <1>1, <1>2 DEF IInv, TypeOK
<1>4. /\ \A v : (Valid(v) <=> Valid(v)') /\ (Known(v) <=> Known(v)')
      /\ \A a : Queued(a) <=> Queued(a)'
      /\ Untraced'
  BY <1>1 DEF IInv, Valid, Known, Allocated, Queued, Untraced
<1>5. Control'
  BY <1>1, <1>4 DEF IInv, Control, Slot
<1>6. \A a \in Addr : \A f \in Fields : Scanned(a, f)' => Scanned(a, f)
  BY <1>1 DEF Scanned, Allocated
<1>7. ASSUME NEW q \in Root
      PROVE  Known(roots[q])' /\ (q \notin todo' => Valid(roots[q])')
  BY <1>1, <1>2, <1>4 DEF IInv, TypeOK
<1> QED
  BY <1>1, <1>3, <1>4, <1>5, <1>6, <1>7 DEF IInv

LEMMA EndGCStep ==
  ASSUME IInv, EndGC
  PROVE  IInv'
<1>1. /\ UNCHANGED <<heap, roots, toSpace, top, todo, grey, at, cur, ops>>
      /\ at = None /\ grey = {} /\ todo = {} /\ phase' = "mutator"
  BY DEF EndGC, TracingDone, IInv, Control
<1>2. TypeOK' /\ Control'
  BY <1>1, QuietStep, ConstantFacts DEF IInv, TypeOK, Control, Slot
<1>3. \A a \in Addr : \A f \in Fields : Scanned(a, f)' => Scanned(a, f)
  BY <1>1 DEF Scanned, Allocated
<1> QED
  BY <1>1, <1>2, <1>3, QuietStep DEF IInv

LEMMA StoreFieldStep ==
  ASSUME IInv, StoreField
  PROVE  IInv'
<1> USE ConstantFacts
<1>1. PICK a \in Addr, i \in Fields : at = <<a, i>>
  BY DEF StoreField
<1>2. /\ UNCHANGED <<roots, toSpace, top, phase, todo, grey, snap, ops>>
      /\ at # None /\ at \notin Root /\ at[1] = a /\ at[2] = i /\ ~ CanTrace(cur)
      /\ heap' = [heap EXCEPT ![a].flds[i] = cur]
      /\ \/ i < NF /\ at' = <<a, i + 1>> /\ cur' = heap[a].flds[i + 1]
         \/ ~ (i < NF) /\ at' = None /\ cur' = None
  BY <1>1 DEF StoreField, Slot
<1>3. todo = {} /\ Queued(a) /\ a \notin grey
  BY <1>1, <1>2 DEF IInv, Control
<1>4. cur \in Val /\ Valid(cur) /\ Known(cur)
  BY <1>2, StoredValid
<1>5. TypeOK /\ heap \in [Addr -> Node] /\ heap[a] \in Node
      /\ heap[a].flds \in [Fields -> Val] /\ i \in 1 .. NF
  BY NodeFields DEF IInv, TypeOK, Fields
<1>6. /\ \A b \in Addr : heap'[b].kind = heap[b].kind
      /\ \A b \in Addr : b # a => heap'[b] = heap[b]
      /\ heap'[a].flds = [heap[a].flds EXCEPT ![i] = cur]
      /\ heap' \in [Addr -> Node]
  BY <1>2, <1>4, <1>5 DEF Node
<1>7. \A f \in Fields : heap'[a].flds[f] = IF f = i THEN cur ELSE heap[a].flds[f]
  BY <1>5, <1>6
<1>8. /\ \A v : (Valid(v) <=> Valid(v)') /\ (Known(v) <=> Known(v)')
      /\ \A b \in Addr : Queued(b) <=> Queued(b)'
  BY <1>2, <1>6 DEF Valid, Known, Allocated, Queued
<1>9. i < NF => i + 1 \in Fields /\ at' \in Addr \X Fields
  BY <1>2, <1>5 DEF Fields
<1>10. at' # None => cur' \in Val /\ Known(cur')
  BY <1>2, <1>5, <1>9 DEF IInv
<1>11. TypeOK'
  BY <1>2, <1>5, <1>6, <1>9, <1>10 DEF TypeOK, Slot
<1>12. Control'
  <2>1. \A b \in grey : Queued(b)' /\ b \in Addr
    BY <1>8 DEF IInv, Control, TypeOK
  <2>2. at' \in Root => FALSE
    BY <1>2, <1>9 DEF Slot
  <2>3. at' \in Addr \X Fields => at'[1] = a
    BY <1>2 DEF Slot
  <2> QED
    BY <2>1, <2>2, <2>3, <1>2, <1>3, <1>8, <1>10 DEF IInv, Control
<1>13. Untraced'
  <2>1. top \in Nat /\ a[2] \in Nat
    BY <1>5 DEF TypeOK, Addr
  <2>2. heap[a].kind # "Raw" /\ ~ (a[1] = toSpace /\ a[2] > top)
    BY <2>1, <1>3 DEF Queued, Allocated
  <2> QED
    BY <2>2, <1>2, <1>6 DEF IInv, Untraced
<1>14. ASSUME NEW b \in Addr, NEW f \in Fields
       PROVE  Known(heap[b].flds[f])' /\ (Scanned(b, f)' => Valid(heap[b].flds[f])')
  <2>1. CASE b # a
    <3>1. Scanned(b, f)' => Scanned(b, f)
      BY <2>1, <1>2 DEF Scanned, Allocated
    <3> QED
      BY <2>1, <3>1, <1>6, <1>8 DEF IInv
  <2>2. CASE b = a /\ f = i
    BY <2>2, <1>4, <1>7, <1>8
  <2>3. CASE b = a /\ f # i
    <3>1. Scanned(b, f)' => Scanned(b, f)
      BY <2>3, <1>2, <1>5, <1>9 DEF Scanned, Allocated, Fields, Slot
    <3> QED
      BY <2>3, <3>1, <1>7, <1>8 DEF IInv
  <2> QED
    BY <2>1, <2>2, <2>3
<1>15. ASSUME NEW q \in Root
       PROVE  Known(roots[q])' /\ (q \notin todo' => Valid(roots[q])')
  BY <1>2, <1>8 DEF IInv
<1> QED
  BY <1>11, <1>12, <1>13, <1>14, <1>15 DEF IInv

LEMMA CopyStep ==
  ASSUME IInv, Copy
  PROVE  IInv'
<1> USE ConstantFacts
<1> DEFINE new == <<toSpace, top + 1>>
<1>1. /\ UNCHANGED <<roots, toSpace, todo, at, snap, ops>>
      /\ at # None /\ CanTrace(cur) /\ cur \in Addr /\ cur[1] # toSpace
      /\ toSpace \in {0, 1} /\ top \in Nat /\ TypeOK /\ heap \in [Addr -> Node]
      /\ top < N
  BY DEF Copy, CanTrace, fromSpace, IInv, TypeOK, Space, Control
<1>2. /\ heap' = [heap EXCEPT ![new] = heap[cur], ![cur].kind = "Ind", ![cur].flds[1] = new]
      /\ grey' = IF HasTraceableFields(heap[cur].kind) THEN grey \cup {new} ELSE grey
      /\ cur' = new /\ top' = top + 1 /\ phase' = phase
  BY DEF Copy
<1>3. new \in Addr /\ new \in Val /\ new # cur /\ new[1] = toSpace /\ new[2] = top + 1
  BY <1>1 DEF Addr, Space, Val
<1>4. \A v : (Valid(v) => Valid(v)') /\ (Known(v) => Known(v)')
  BY <1>1, <1>2 DEF Valid, Known, Addr
<1>5. new \in Addr /\ new[1] = toSpace' /\ new[2] <= top'
  BY <1>1, <1>2, <1>3
<1>6. heap[cur] \in Node /\ heap[cur].flds \in [Fields -> Val] /\ heap[cur].kind \in Kind
  BY <1>1, NodeFields
<1>7. /\ heap'[new] = heap[cur]
      /\ heap'[cur].kind = "Ind"
      /\ heap'[cur].flds = [heap[cur].flds EXCEPT ![1] = new]
      /\ \A a \in Addr : a # new /\ a # cur => heap'[a] = heap[a]
      /\ heap' \in [Addr -> Node]
  BY <1>1, <1>2, <1>3, <1>6 DEF Node, Kind
<1>8. \A f \in Fields : heap'[cur].flds[f] = IF f = 1 THEN new ELSE heap[cur].flds[f]
  BY <1>6, <1>7
<1>9. TypeOK'
  BY <1>1, <1>2, <1>3, <1>7 DEF TypeOK
<1>10. ASSUME NEW a \in Addr, Queued(a)
       PROVE  Queued(a)' /\ a # new
  BY <1>10, <1>1, <1>2, <1>3, <1>7 DEF Queued, Allocated, Addr
<1>11. Control'
  <2>1. \A a \in grey' : Queued(a)'
    <3> SUFFICES ASSUME NEW a \in grey' PROVE Queued(a)'
      OBVIOUS
    <3>1. CASE a \in grey
      BY <3>1, <1>10 DEF IInv, Control, TypeOK
    <3>2. CASE a \notin grey
      BY <3>2, <1>1, <1>2, <1>3, <1>7 DEF Queued, Allocated, HasTraceableFields
    <3> QED
      BY <3>1, <3>2
  <2>2. at \in Addr \X Fields => Queued(at[1])' /\ at[1] \notin grey'
    <3> SUFFICES ASSUME NEW a \in Addr, at \in Addr \X Fields, at[1] = a
                 PROVE  Queued(at[1])' /\ a \notin grey'
      OBVIOUS
    <3>1. Queued(a) /\ a \notin grey
      BY DEF IInv, Control
    <3> QED
      BY <3>1, <1>1, <1>2, <1>10
  <2>3. cur' \in Val /\ Known(cur)'
    BY <1>1, <1>2, <1>3 DEF Known
  <2> QED
    BY <2>1, <2>2, <2>3, <1>1, <1>2 DEF IInv, Control
<1>12. Untraced'
  BY <1>1, <1>2, <1>3, <1>7, <1>8 DEF IInv, Untraced, Addr
<1>13. ASSUME NEW a \in Addr, NEW f \in Fields
       PROVE  Known(heap[a].flds[f])' /\ (Scanned(a, f)' => Valid(heap[a].flds[f])')
  <2>1. Known(heap[a].flds[f]) /\ Known(heap[cur].flds[f])
    BY <1>1 DEF IInv
  <2>2. CASE a = new
    <3>1. a \in grey' \/ Valid(heap[cur].flds[f])
      BY <2>2, <1>1, <1>2, <1>6 DEF HasTraceableFields, IInv, Untraced, Valid
    <3> QED
      BY <2>1, <2>2, <3>1, <1>4, <1>7 DEF Scanned
  <2>3. CASE a = cur
    <3>1. ~ Scanned(a, f)'
      BY <2>3, <1>1 DEF Scanned, Allocated
    <3>2. CASE f = 1
      BY <2>3, <3>1, <3>2, <1>5, <1>8 DEF Known
    <3>3. CASE f # 1
      BY <2>1, <2>3, <3>1, <3>3, <1>4, <1>8
    <3> QED
      BY <3>2, <3>3
  <2>4. CASE a # new /\ a # cur
    <3>1. Scanned(a, f)' => Scanned(a, f)
      BY <2>4, <1>1, <1>2, <1>3 DEF Scanned, Allocated, Addr
    <3> QED
      BY <2>1, <2>4, <3>1, <1>4, <1>7 DEF IInv
  <2> QED
    BY <2>2, <2>3, <2>4
<1>14. ASSUME NEW q \in Root
       PROVE  Known(roots[q])' /\ (q \notin todo' => Valid(roots[q])')
  BY <1>1, <1>4 DEF IInv
<1> QED
  BY <1>9, <1>11, <1>12, <1>13, <1>14 DEF IInv

----------------------------------------------------------------------------
LEMMA NextInvariant == IInv /\ [Next]_vars => IInv'
<1> SUFFICES ASSUME IInv, [Next]_vars
             PROVE  IInv'
  OBVIOUS
<1>1. CASE Mutator
  BY <1>1, AllocStep, UpdateStep, SetFieldStep, LoadStep DEF Mutator
<1>2. CASE DoGC
  BY <1>2, DoGCStep
<1>3. CASE Collector
  BY <1>3, TakeRootStep, EndRootsStep, PopWorkStep, FollowIndStep, CopyStep,
     StoreRootStep, StoreFieldStep, EndGCStep DEF Collector
<1>4. CASE UNCHANGED vars
  <2>1. UNCHANGED <<heap, roots, toSpace, top>> /\ UNCHANGED <<phase, todo, grey, at, cur, ops>>
    BY <1>4 DEF vars, gcvars
  <2>2. TypeOK' /\ Control'
    BY <2>1, QuietStep DEF IInv, TypeOK, Control
  <2>3. \A a \in Addr : \A f \in Fields : Scanned(a, f)' <=> Scanned(a, f)
    BY <2>1 DEF Scanned, Allocated
  <2> QED
    BY <2>1, <2>2, <2>3, QuietStep DEF IInv
<1> QED
  BY <1>1, <1>2, <1>3, <1>4 DEF Next

(* Every step of mutator and collector preserves the inductive invariant.  *)
THEOREM Invariance == Spec => []IInv
BY InitInvariant, NextInvariant, PTL DEF Spec

(* Every variable of mutator and collector keeps its type.                 *)
THEOREM TypeCorrect == Spec => []TypeOK
<1>1. IInv => TypeOK
  BY DEF IInv
<1> QED
  BY <1>1, Invariance, PTL

(* When mm_collector_SS_Collect is done no root and no field of a live     *)
(* node refers to the collected space, or beyond the allocated nodes.      *)
THEOREM CollectorSafe == Spec => []NoDangling
<1>1. IInv => NoDangling
  BY DEF IInv, Control, NoDangling, Scanned
<1> QED
  BY <1>1, Invariance, PTL

-----------------------------------------------------------------------------
(* The graph.                                                              *)

\* The chain of indirections from v, as the function inside Target lists it.
Step(h, v) == IF IsIndirection(h, v) THEN h[v].flds[1] ELSE v
IsChain(h, v, c) ==
  /\ c \in [0 .. 2 * N -> Val] /\ c[0] = v
  /\ \A n \in 1 .. 2 * N : c[n] = Step(h, c[n - 1])

(* The step along a chain stays among the words.                           *)
LEMMA StepType ==
  ASSUME NEW h \in [Addr -> Node], NEW v \in Val
  PROVE  Step(h, v) \in Val
BY ConstantFacts DEF Step, IsIndirection, Node

(* Target(h, v) is the last word of such a chain.                          *)
LEMMA TargetChain ==
  ASSUME NEW h \in [Addr -> Node], NEW v \in Val
  PROVE  \E c : IsChain(h, v, c) /\ Target(h, v) = c[2 * N]
<1> DEFINE step == [w \in Val |-> Step(h, w)]
           body(f) == [n \in 0 .. 2 * N |->
                         IF n = 0 THEN v
                         ELSE IF IsIndirection(h, f[n - 1]) THEN h[f[n - 1]].flds[1]
                         ELSE f[n - 1]]
<1>1. step \in [Val -> Val]
  BY StepType
<1>2. 2 * N \in Nat
  BY ConstantFacts
<1>3. PICK f \in [0 .. 2 * N -> Val] :
        f[0] = v /\ \A i \in 1 .. 2 * N : f[i] = Step(h, f[i - 1])
  <2>1. PICK f : Iterates(f, Val, step, v, 2 * N)
    <3> HIDE DEF step
    <3> QED
      BY <1>1, <1>2, IterateExists
  <2>2. \A i \in 1 .. 2 * N : i - 1 \in 0 .. 2 * N
    BY <1>2
  <2> QED
    BY <2>1, <2>2 DEF Iterates
<1>4. f = body(f)
  <2>1. \A n \in 0 .. 2 * N : f[n] = IF n = 0 THEN v ELSE Step(h, f[n - 1])
    BY <1>2, <1>3
  <2>2. f = [n \in 0 .. 2 * N |-> f[n]]
    OBVIOUS
  <2> QED
    BY <2>1, <2>2 DEF Step
<1> DEFINE c == CHOOSE g : g = body(g)
<1>5. c = body(c)
  <2> HIDE DEF body
  <2> QED
    BY <1>4
<1>6. Target(h, v) = c[2 * N]
  BY Zenon DEF Target
<1>7. \A n \in 0 .. 2 * N : c[n] = IF n = 0 THEN v ELSE Step(h, c[n - 1])
  <2> HIDE DEF c
  <2> QED
    BY <1>5 DEF Step
<1> HIDE DEF c
<1>8. \A n \in 0 .. 2 * N : c[n] = f[n]
  <2> DEFINE S == {n \in Nat : n <= 2 * N => c[n] = f[n]}
  <2>1. 0 \in S
    BY <1>2, <1>3, <1>7
  <2>2. ASSUME NEW n \in S PROVE n + 1 \in S
    <3>1. CASE n + 1 <= 2 * N
      <4>1. /\ n \in Nat /\ n + 1 \in 1 .. 2 * N /\ n + 1 \in 0 .. 2 * N
            /\ n + 1 # 0 /\ (n + 1) - 1 = n
        BY <3>1, <1>2
      <4>2. c[n] = f[n]
        BY <3>1, <1>2
      <4>3. c[n + 1] = Step(h, c[(n + 1) - 1]) /\ f[n + 1] = Step(h, f[(n + 1) - 1])
        BY <4>1, <1>3, <1>7
      <4> QED
        BY <4>1, <4>2, <4>3
    <3> QED
      BY <3>1, <1>2
  <2>3. Nat \subseteq S
    <3> HIDE DEF S
    <3>1. S \subseteq Nat
      BY DEF S
    <3> QED
      BY <2>1, <2>2, <3>1, SetInduction
  <2> QED
    BY <2>3
<1>9. IsChain(h, v, f) /\ Target(h, v) = f[2 * N]
  BY <1>2, <1>3, <1>6, <1>8 DEF IsChain
<1> QED
  BY <1>9

(* What leads to the end of a chain leads where its next word leads.       *)
LEMMA Unfold ==
  ASSUME NEW h \in [Addr -> Node], NEW v \in Val
  PROVE  /\ Target(h, v) \in Val
         /\ ~ IsIndirection(h, v) => Target(h, v) = v
         /\ IsIndirection(h, v) /\ ~ IsIndirection(h, Target(h, v)) =>
              Target(h, v) = Target(h, h[v].flds[1])
<1>1. PICK c : IsChain(h, v, c) /\ Target(h, v) = c[2 * N]
  BY TargetChain
<1>2. 2 * N \in Nat /\ (v \in Addr => 2 * N >= 2)
  BY ConstantFacts DEF Addr
<1>3. Target(h, v) \in Val
  BY <1>1, <1>2 DEF IsChain
<1>4. ASSUME ~ IsIndirection(h, v) PROVE Target(h, v) = v
  <2> DEFINE S == {n \in Nat : n <= 2 * N => c[n] = v}
  <2>1. 0 \in S
    BY <1>1 DEF IsChain
  <2>2. ASSUME NEW n \in S PROVE n + 1 \in S
    <3> SUFFICES ASSUME n + 1 <= 2 * N PROVE c[n + 1] = v
      OBVIOUS
    <3>1. n + 1 \in 1 .. 2 * N /\ (n + 1) - 1 = n /\ c[n] = v
      BY <1>2
    <3>2. c[n + 1] = Step(h, c[(n + 1) - 1])
      BY <1>1, <3>1 DEF IsChain
    <3> QED
      BY <1>4, <3>1, <3>2 DEF Step
  <2>3. Nat \subseteq S
    <3> HIDE DEF S
    <3>1. S \subseteq Nat
      BY DEF S
    <3> QED
      BY <2>1, <2>2, <3>1, SetInduction
  <2> QED
    BY <1>1, <1>2, <2>3
<1>5. ASSUME IsIndirection(h, v), ~ IsIndirection(h, Target(h, v))
      PROVE  Target(h, v) = Target(h, h[v].flds[1])
  <2> DEFINE w == h[v].flds[1]
  <2>1. w \in Val /\ w = Step(h, v)
    BY <1>5, StepType DEF Step
  <2>2. PICK d : IsChain(h, w, d) /\ Target(h, w) = d[2 * N]
    BY <2>1, TargetChain
  <2> HIDE DEF w
  <2> DEFINE S == {n \in Nat : n + 1 <= 2 * N => c[n + 1] = d[n]}
  <2>3. 0 \in S
    <3>1. 1 <= 2 * N => 1 \in 1 .. 2 * N /\ 1 - 1 = 0 /\ 0 + 1 = 1
      BY <1>2
    <3> QED
      BY <1>1, <2>1, <2>2, <3>1 DEF IsChain
  <2>4. ASSUME NEW n \in S PROVE n + 1 \in S
    <3> SUFFICES ASSUME (n + 1) + 1 <= 2 * N PROVE c[(n + 1) + 1] = d[n + 1]
      OBVIOUS
    <3>1. /\ (n + 1) + 1 \in 1 .. 2 * N /\ ((n + 1) + 1) - 1 = n + 1
          /\ n + 1 \in 1 .. 2 * N /\ (n + 1) - 1 = n /\ c[n + 1] = d[n]
      BY <1>2
    <3>2. c[(n + 1) + 1] = Step(h, c[((n + 1) + 1) - 1]) /\ d[n + 1] = Step(h, d[(n + 1) - 1])
      BY <1>1, <2>2, <3>1 DEF IsChain
    <3> QED
      BY <3>1, <3>2
  <2>5. Nat \subseteq S
    <3> HIDE DEF S
    <3>1. S \subseteq Nat
      BY DEF S
    <3> QED
      BY <2>3, <2>4, <3>1, SetInduction
  <2>6. 2 * N >= 2 /\ 2 * N - 1 \in Nat /\ (2 * N - 1) + 1 = 2 * N /\ 2 * N \in 1 .. 2 * N
    BY <1>2, <1>5 DEF IsIndirection
  <2>7. c[2 * N] = d[2 * N - 1]
    BY <2>5, <2>6
  <2>8. d[2 * N] = Step(h, d[2 * N - 1])
    BY <2>2, <2>6 DEF IsChain
  <2> QED
    BY <1>1, <1>5, <2>2, <2>7, <2>8 DEF Step, w
<1> QED
  BY <1>3, <1>4, <1>5

(* There are 2 * N addresses.                                              *)
LEMMA AddrFinite == IsFiniteSet(Addr) /\ Cardinality(Addr) = 2 * N
<1>1. IsFiniteSet(1 .. N) /\ Cardinality(1 .. N) = N
  BY FS_Interval, ConstantFacts
<1>2. IsFiniteSet(Space) /\ Cardinality(Space) = 2
  <2>1. Space = {0} \cup {1} /\ 1 \notin {0}
    BY DEF Space
  <2>2. IsFiniteSet({0}) /\ Cardinality({0}) = 1
    BY FS_Singleton
  <2>3. IsFiniteSet({0} \cup {1}) /\ Cardinality({0} \cup {1}) = 1 + 1
    BY <2>1, <2>2, FS_AddElement
  <2> QED
    BY <2>1, <2>3
<1> QED
  BY <1>1, <1>2, FS_Product, ZenonT(60) DEF Addr

\* Along the indirections of h among the nodes X the rank decreases.
Ranked(h, X, rank) ==
  /\ rank \in [Addr -> Nat]
  /\ \A a \in X : IsIndirection(h, a) =>
       LET w == h[a].flds[1]
       IN  w \in X \cup NonPtr /\ (w \in X => rank[w] < rank[a])

(* Ranked chains end at a word that is no indirection.                     *)
LEMMA ChainsEnd ==
  ASSUME NEW h \in [Addr -> Node], NEW X \in SUBSET Addr, NEW rank, Ranked(h, X, rank),
         NEW v \in X \cup NonPtr
  PROVE  ~ IsIndirection(h, Target(h, v)) /\ Target(h, v) \in X \cup NonPtr
<1>0. v \in Val /\ 2 * N \in Nat
  BY ConstantFacts DEF Val
<1>1. PICK c : IsChain(h, v, c) /\ Target(h, v) = c[2 * N]
  BY <1>0, TargetChain
<1>2. ASSUME NEW n \in Nat PROVE n <= 2 * N => c[n] \in X \cup NonPtr
  <2> DEFINE S == {m \in Nat : m <= 2 * N => c[m] \in X \cup NonPtr}
  <2>1. 0 \in S
    BY <1>1 DEF IsChain
  <2>2. ASSUME NEW m \in S PROVE m + 1 \in S
    <3> SUFFICES ASSUME m + 1 <= 2 * N PROVE c[m + 1] \in X \cup NonPtr
      OBVIOUS
    <3>1. m + 1 \in 1 .. 2 * N /\ (m + 1) - 1 = m /\ c[m] \in X \cup NonPtr
      BY <1>0
    <3>2. c[m + 1] = Step(h, c[m])
      BY <1>1, <3>1 DEF IsChain
    <3>3. IsIndirection(h, c[m]) => c[m] \in X
      BY <3>1, ConstantFacts DEF IsIndirection
    <3> QED
      BY <3>1, <3>2, <3>3 DEF Step, Ranked
  <2>3. Nat \subseteq S
    <3> HIDE DEF S
    <3>1. S \subseteq Nat
      BY DEF S
    <3> QED
      BY <2>1, <2>2, <3>1, SetInduction
  <2> QED
    BY <2>3
<1>3. ASSUME IsIndirection(h, c[2 * N]) PROVE FALSE
  <2> DEFINE S == {m \in Nat : m <= 2 * N => IsIndirection(h, c[2 * N - m])}
  <2>1. 0 \in S
    <3>1. 2 * N - 0 = 2 * N
      BY <1>0
    <3> QED
      BY <1>3, <3>1
  <2>2. ASSUME NEW m \in S PROVE m + 1 \in S
    <3> SUFFICES ASSUME m + 1 <= 2 * N, ~ IsIndirection(h, c[2 * N - (m + 1)]) PROVE FALSE
      OBVIOUS
    <3>1. /\ 2 * N - m \in 1 .. 2 * N /\ (2 * N - m) - 1 = 2 * N - (m + 1)
          /\ IsIndirection(h, c[2 * N - m])
      BY <1>0
    <3>2. c[2 * N - m] = Step(h, c[(2 * N - m) - 1])
      BY <1>1, <3>1 DEF IsChain
    <3> QED
      BY <3>1, <3>2 DEF Step
  <2>3. Nat \subseteq S
    <3> HIDE DEF S
    <3>1. S \subseteq Nat
      BY DEF S
    <3> QED
      BY <2>1, <2>2, <3>1, SetInduction
  <2>4. ASSUME NEW i \in 0 .. 2 * N PROVE IsIndirection(h, c[i]) /\ c[i] \in X
    <3>1. 2 * N - i \in Nat /\ 2 * N - i <= 2 * N /\ 2 * N - (2 * N - i) = i
      BY <1>0
    <3>2. IsIndirection(h, c[i])
      BY <2>3, <3>1
    <3> QED
      BY <1>0, <1>2, <3>2, ConstantFacts DEF IsIndirection
  <2>5. ASSUME NEW i \in 1 .. 2 * N PROVE rank[c[i]] < rank[c[i - 1]]
    <3>1. i - 1 \in 0 .. 2 * N /\ i \in 0 .. 2 * N
      BY <1>0
    <3>2. c[i] = Step(h, c[i - 1])
      BY <1>1 DEF IsChain
    <3>3. c[i] = h[c[i - 1]].flds[1]
      BY <2>4, <3>1, <3>2 DEF Step
    <3> QED
      BY <2>4, <3>1, <3>3 DEF Ranked
  <2>6. c \in [0 .. 2 * N -> Addr]
    <3>1. c = [i \in 0 .. 2 * N |-> c[i]]
      BY <1>1 DEF IsChain
    <3> QED
      BY <2>4, <3>1
  <2>7. 2 * N < Cardinality(Addr)
    <3> DEFINE k == 2 * N
    <3>1. k \in Nat /\ c \in [0 .. k -> Addr] /\ \A i \in 1 .. k : rank[c[i]] < rank[c[i - 1]]
      BY <1>0, <2>5, <2>6
    <3>2. rank \in [Addr -> Nat]
      BY DEF Ranked
    <3> HIDE DEF k
    <3>3. k < Cardinality(Addr)
      BY <3>1, <3>2, AddrFinite, DescentBounded
    <3> QED
      BY <3>3 DEF k
  <2> QED
    BY <2>7, AddrFinite, <1>0
<1> QED
  BY <1>0, <1>1, <1>2, <1>3

----------------------------------------------------------------------------
\* The parts of the invariant.
NodesOf(s) == {a \in Addr : a[1] = s}

\* allocated memory holds nodes
NotFree == \A a \in Addr : Allocated(a) => heap[a].kind # "Free"

\* a word of the graph when the collection began
Before(v) == v \in NonPtr \/ (CanTrace(v) /\ snap.heap[v].kind # "Free")

SnapGood ==
  /\ snap.heap \in [Addr -> Node] /\ snap.roots \in [Root -> Val]
  /\ \A r \in Root : Before(snap.roots[r])
  /\ \A a \in NodesOf(fromSpace) : \A f \in Fields : Before(snap.heap[a].flds[f])
  /\ \E rank : Ranked(snap.heap, NodesOf(fromSpace), rank)

CopyOf(a) == heap[a].flds[1]

IsCopied(a) ==
  /\ CanTrace(a) /\ snap.heap[a].kind # "Ind" /\ heap[a].kind = "Ind"
  /\ CopyOf(a) \in Addr /\ Allocated(CopyOf(a))
  /\ heap[CopyOf(a)].kind = snap.heap[a].kind

\* x is the copy of what the word v of the old graph leads to
RightCopy(v, x) ==
  LET t == Target(snap.heap, v)
  IN  IF t \in NonPtr THEN x = t ELSE IsCopied(t) /\ x = CopyOf(t)

\* and x is on the way there
OnTheWay(v, x) ==
  (Before(x) /\ Target(snap.heap, x) = Target(snap.heap, v)) \/ RightCopy(v, x)

Originals == \A a \in NodesOf(fromSpace) : heap[a] = snap.heap[a] \/ IsCopied(a)

OneToOne ==
  /\ \A a, b \in Addr : IsCopied(a) /\ IsCopied(b) /\ CopyOf(a) = CopyOf(b) => a = b
  /\ \A c \in Addr : Allocated(c) => \E a \in Addr : IsCopied(a) /\ CopyOf(a) = c

NoIndirections == \A c \in NodesOf(toSpace) : heap[c].kind # "Ind"

FieldRight(a, f) ==
  IF Scanned(CopyOf(a), f) THEN RightCopy(snap.heap[a].flds[f], heap[CopyOf(a)].flds[f])
                           ELSE heap[CopyOf(a)].flds[f] = snap.heap[a].flds[f]

PayloadRight == \A a \in Addr : IsCopied(a) => \A f \in Fields : FieldRight(a, f)

RootsRight ==
  \A r \in Root : IF r \in todo THEN roots[r] = snap.roots[r]
                                ELSE RightCopy(snap.roots[r], roots[r])

SlotRight ==
  /\ at \in Root => OnTheWay(snap.roots[at], cur)
  /\ at \in Addr \X Fields =>
       \A a \in Addr : IsCopied(a) /\ CopyOf(a) = at[1] =>
         OnTheWay(snap.heap[a].flds[at[2]], cur)

CopyInv == SnapGood /\ Originals /\ OneToOne /\ NoIndirections
GraphInv == CopyInv /\ PayloadRight /\ RootsRight /\ SlotRight

\* Steps that leave memory as it is.
LEMMA SameMemory ==
  ASSUME UNCHANGED <<heap, toSpace, top, snap>>
  PROVE  /\ \A a : (IsCopied(a)' <=> IsCopied(a)) /\ CopyOf(a)' = CopyOf(a)
         /\ \A a : Allocated(a)' <=> Allocated(a)
         /\ \A v : Before(v)' <=> Before(v)
         /\ \A v, x : RightCopy(v, x)' <=> RightCopy(v, x)
         /\ \A v, x : OnTheWay(v, x)' <=> OnTheWay(v, x)
         /\ (CopyInv => CopyInv') /\ (NotFree => NotFree')
<1>1. \A a : (IsCopied(a)' <=> IsCopied(a)) /\ CopyOf(a)' = CopyOf(a)
  BY DEF IsCopied, CopyOf, Allocated, CanTrace, fromSpace
<1>2. /\ \A v : Before(v)' <=> Before(v)
      /\ \A a : Allocated(a)' <=> Allocated(a)
  BY DEF Before, CanTrace, fromSpace, Allocated
<1>3. \A v, x : RightCopy(v, x)' <=> RightCopy(v, x)
  BY <1>1 DEF RightCopy
<1>4. \A v, x : OnTheWay(v, x)' <=> OnTheWay(v, x)
  BY <1>2, <1>3 DEF OnTheWay
<1>5. SnapGood' <=> SnapGood
  BY <1>2 DEF SnapGood, fromSpace
<1>6. (Originals' <=> Originals) /\ (OneToOne' <=> OneToOne) /\ (NoIndirections' <=> NoIndirections)
  BY <1>1, <1>2 DEF Originals, OneToOne, NoIndirections, fromSpace
<1>7. NotFree => NotFree'
  BY <1>2 DEF NotFree
<1> QED
  BY <1>1, <1>2, <1>3, <1>4, <1>5, <1>6, <1>7 DEF CopyInv

(* Where the words of the old graph lead.                                  *)
LEMMA OldTarget ==
  ASSUME SnapGood, NEW v, Before(v)
  PROVE  LET h == snap.heap
         IN  /\ v \in Val
             /\ IsIndirection(h, v) => Before(h[v].flds[1]) /\ Target(h, v) = Target(h, h[v].flds[1])
             /\ ~ IsIndirection(h, v) => Target(h, v) = v
<1> DEFINE h == snap.heap
<1>1. PICK rank : Ranked(h, NodesOf(fromSpace), rank)
  BY DEF SnapGood
<1>2. v \in NodesOf(fromSpace) \cup NonPtr /\ v \in Val /\ h \in [Addr -> Node]
  BY DEF Before, CanTrace, NodesOf, SnapGood, Val
<1>3. ~ IsIndirection(h, Target(h, v))
  BY <1>1, <1>2, ChainsEnd DEF NodesOf
<1>4. IsIndirection(h, v) => Before(h[v].flds[1])
  BY <1>2, ConstantFacts DEF IsIndirection, SnapGood
<1> QED
  BY <1>2, <1>3, <1>4, Unfold

(* The steps of the collector preserve the relation of old and new graph.  *)
LEMMA TakeRootGraph ==
  ASSUME IInv, GraphInv, NEW r \in Root, TakeRoot(r)
  PROVE  GraphInv'
<1>1. /\ UNCHANGED <<heap, roots, toSpace, top, phase, todo, grey, snap, ops>>
      /\ at = None /\ r \in todo /\ at' = r /\ cur' = roots[r]
  BY DEF TakeRoot
<1>2. CopyInv'
  BY <1>1, SameMemory DEF GraphInv
<1>3. \A a \in Addr, f \in Fields : Scanned(a, f)' <=> Scanned(a, f)
  BY <1>1, SameMemory DEF Scanned
<1>4. ASSUME NEW a \in Addr, IsCopied(a)', NEW f \in Fields PROVE FieldRight(a, f)'
  <2>1. IsCopied(a) /\ CopyOf(a)' = CopyOf(a) /\ CopyOf(a) \in Addr
    BY <1>1, <1>4, SameMemory DEF IsCopied
  <2> QED
    BY <1>1, <1>3, <2>1, SameMemory DEF FieldRight, GraphInv, PayloadRight
<1>5. RootsRight'
  BY <1>1, SameMemory DEF GraphInv, RootsRight
<1>6. SlotRight'
  <2>1. Before(snap.roots[r]) /\ roots[r] = snap.roots[r]
    BY <1>1 DEF GraphInv, CopyInv, SnapGood, RootsRight
  <2>2. OnTheWay(snap.roots[r], roots[r])
    BY <2>1 DEF OnTheWay
  <2>3. at' \notin Addr \X Fields
    BY <1>1, ConstantFacts
  <2> QED
    BY <1>1, <2>2, <2>3, SameMemory DEF SlotRight
<1> QED
  BY <1>2, <1>4, <1>5, <1>6 DEF GraphInv, PayloadRight

(* What the value of the slot being traced turns into.                     *)
LEMMA WayFrom ==
  ASSUME IInv, CopyInv, NEW v, OnTheWay(v, cur), CanTrace(cur)
  PROVE  Before(cur) /\ Target(snap.heap, cur) = Target(snap.heap, v) /\ cur \in Addr
<1>1. cur \in Addr /\ cur[1] = 1 - toSpace /\ toSpace \in {0, 1}
  BY DEF CanTrace, fromSpace, IInv, TypeOK, Space
<1>2. ~ RightCopy(v, cur)
  <2>1. cur \notin NonPtr
    BY <1>1, ConstantFacts
  <2>2. ASSUME NEW t, IsCopied(t) PROVE cur # CopyOf(t)
    BY <1>1, <2>2 DEF IsCopied, Allocated
  <2> QED
    BY <2>1, <2>2 DEF RightCopy
<1> QED
  BY <1>1, <1>2 DEF OnTheWay

(* The next word of a chain, or the forwarding pointer, is on the way too. *)
LEMMA WayFollows ==
  ASSUME IInv, CopyInv, NEW v, OnTheWay(v, cur), CanTrace(cur), heap[cur].kind = "Ind"
  PROVE  OnTheWay(v, heap[cur].flds[1])
<1>1. Before(cur) /\ Target(snap.heap, cur) = Target(snap.heap, v) /\ cur \in Addr
  BY WayFrom
<1>2. cur \in NodesOf(fromSpace)
  BY <1>1 DEF CanTrace, NodesOf
<1>3. CASE heap[cur] = snap.heap[cur]
  <2>1. IsIndirection(snap.heap, cur)
    BY <1>1, <1>3 DEF IsIndirection
  <2> QED
    BY <2>1, <1>1, <1>3, OldTarget DEF CopyInv, OnTheWay
<1>4. CASE IsCopied(cur)
  <2>1. ~ IsIndirection(snap.heap, cur)
    BY <1>4 DEF IsCopied, IsIndirection
  <2>2. Target(snap.heap, v) = cur /\ cur \notin NonPtr
    BY <2>1, <1>1, OldTarget, ConstantFacts DEF CopyInv
  <2> QED
    BY <2>2, <1>4 DEF OnTheWay, RightCopy, CopyOf
<1> QED
  BY <1>2, <1>3, <1>4 DEF CopyInv, Originals

(* What need not be traced any more is the copy.                           *)
LEMMA WayEnds ==
  ASSUME CopyInv, NEW v, OnTheWay(v, cur), ~ CanTrace(cur)
  PROVE  RightCopy(v, cur)
<1> SUFFICES ASSUME Before(cur), Target(snap.heap, cur) = Target(snap.heap, v)
             PROVE  RightCopy(v, cur)
  BY DEF OnTheWay
<1>1. cur \in NonPtr
  BY DEF Before
<1>2. ~ IsIndirection(snap.heap, cur)
  BY <1>1, ConstantFacts DEF IsIndirection
<1>3. Target(snap.heap, v) = cur
  BY <1>2, OldTarget DEF CopyInv
<1> QED
  BY <1>1, <1>3 DEF RightCopy

\* The fields that the collector has still to come to are unchanged.
LEMMA Pending ==
  ASSUME CopyInv, PayloadRight, NEW a \in Addr, IsCopied(a), NEW f \in Fields,
         ~ Scanned(CopyOf(a), f)
  PROVE  OnTheWay(snap.heap[a].flds[f], heap[CopyOf(a)].flds[f])
<1>1. heap[CopyOf(a)].flds[f] = snap.heap[a].flds[f]
  BY DEF PayloadRight, FieldRight
<1>2. Before(snap.heap[a].flds[f])
  BY DEF IsCopied, CanTrace, NodesOf, CopyInv, SnapGood
<1> QED
  BY <1>1, <1>2 DEF OnTheWay

(* The trace supplies are done.                                            *)
LEMMA EndRootsGraph ==
  ASSUME IInv, GraphInv, EndRoots
  PROVE  GraphInv'
<1>1. UNCHANGED <<heap, roots, toSpace, top, todo, grey, at, cur, snap, ops>>
  BY DEF EndRoots
<1>2. CopyInv'
  BY <1>1, SameMemory DEF GraphInv
<1>3. \A a \in Addr, f \in Fields : Scanned(a, f)' <=> Scanned(a, f)
  BY <1>1, SameMemory DEF Scanned
<1>4. ASSUME NEW a \in Addr, IsCopied(a)', NEW f \in Fields PROVE FieldRight(a, f)'
  <2>1. IsCopied(a) /\ CopyOf(a)' = CopyOf(a) /\ CopyOf(a) \in Addr
    BY <1>1, <1>4, SameMemory DEF IsCopied
  <2> QED
    BY <1>1, <1>3, <2>1, SameMemory DEF FieldRight, GraphInv, PayloadRight
<1>5. RootsRight' /\ SlotRight'
  BY <1>1, SameMemory DEF GraphInv, RootsRight, SlotRight
<1> QED
  BY <1>2, <1>4, <1>5 DEF GraphInv, PayloadRight

(* The payload of a queued copy is still that of the original.             *)
LEMMA PopWorkGraph ==
  ASSUME IInv, GraphInv, PopWork
  PROVE  GraphInv'
<1>1. PICK a \in grey : /\ at' = <<a, 1>> /\ cur' = heap[a].flds[1]
                        /\ grey' = grey \ {a}
  BY DEF PopWork
<1>2. /\ UNCHANGED <<heap, roots, toSpace, top, phase, todo, snap, ops>>
      /\ at = None /\ a \in Addr
  BY DEF PopWork, IInv, TypeOK
<1>3. CopyInv'
  BY <1>2, SameMemory DEF GraphInv
<1>4. at' # None /\ at' \notin Root /\ at'[1] = a /\ at'[2] = 1
  BY <1>1, <1>2, ConstantFacts DEF Slot
<1>5. \A b \in Addr, f \in Fields : Scanned(b, f)' <=> Scanned(b, f)
  BY <1>1, <1>2, <1>4, SameMemory DEF Scanned, Fields
<1>6. ASSUME NEW b \in Addr, IsCopied(b)', NEW f \in Fields PROVE FieldRight(b, f)'
  <2>1. IsCopied(b) /\ CopyOf(b)' = CopyOf(b) /\ CopyOf(b) \in Addr
    BY <1>2, <1>6, SameMemory DEF IsCopied
  <2> QED
    BY <1>2, <1>5, <2>1, SameMemory DEF FieldRight, GraphInv, PayloadRight
<1>7. RootsRight'
  BY <1>2, SameMemory DEF GraphInv, RootsRight
<1>8. ASSUME NEW b \in Addr, IsCopied(b), CopyOf(b) = a
      PROVE  OnTheWay(snap.heap[b].flds[1], heap[a].flds[1])
  <2>1. ~ Scanned(a, 1)
    BY DEF Scanned
  <2> QED
    BY <1>8, <2>1, Pending, ConstantFacts DEF GraphInv
<1>9. SlotRight'
  BY <1>1, <1>2, <1>4, <1>8, SameMemory DEF SlotRight
<1> QED
  BY <1>3, <1>6, <1>7, <1>9 DEF GraphInv, PayloadRight

(* One turn of the loop that follows indirections.                         *)
LEMMA FollowIndGraph ==
  ASSUME IInv, GraphInv, FollowInd
  PROVE  GraphInv'
<1>1. /\ UNCHANGED <<heap, roots, toSpace, top, phase, todo, grey, at, snap, ops>>
      /\ CanTrace(cur) /\ heap[cur].kind = "Ind" /\ cur' = heap[cur].flds[1]
  BY DEF FollowInd
<1>2. CopyInv'
  BY <1>1, SameMemory DEF GraphInv
<1>3. \A a \in Addr, f \in Fields : Scanned(a, f)' <=> Scanned(a, f)
  BY <1>1, SameMemory DEF Scanned
<1>4. ASSUME NEW a \in Addr, IsCopied(a)', NEW f \in Fields PROVE FieldRight(a, f)'
  <2>1. IsCopied(a) /\ CopyOf(a)' = CopyOf(a) /\ CopyOf(a) \in Addr
    BY <1>1, <1>4, SameMemory DEF IsCopied
  <2> QED
    BY <1>1, <1>3, <2>1, SameMemory DEF FieldRight, GraphInv, PayloadRight
<1>5. RootsRight'
  BY <1>1, SameMemory DEF GraphInv, RootsRight
<1>6. \A v : OnTheWay(v, cur) => OnTheWay(v, cur')
  BY <1>1, WayFollows DEF GraphInv
<1>7. SlotRight'
  BY <1>1, <1>6, SameMemory DEF GraphInv, SlotRight
<1> QED
  BY <1>2, <1>4, <1>5, <1>7 DEF GraphInv, PayloadRight

(* A root gets the copy of what it led to ...                              *)
LEMMA StoreRootGraph ==
  ASSUME IInv, GraphInv, StoreRoot
  PROVE  GraphInv'
<1>1. /\ UNCHANGED <<heap, toSpace, top, phase, grey, snap, ops>>
      /\ at \in Root /\ ~ CanTrace(cur)
      /\ roots' = [roots EXCEPT ![at] = cur] /\ todo' = todo \ {at}
      /\ at' = None /\ at' \notin Root /\ at' \notin Addr \X Fields
  BY ConstantFacts DEF StoreRoot, Slot
<1>2. CopyInv'
  BY <1>1, SameMemory DEF GraphInv
<1>3. \A a \in Addr, f \in Fields : Scanned(a, f)' <=> Scanned(a, f)
  BY <1>1, SameMemory DEF Scanned
<1>4. ASSUME NEW a \in Addr, IsCopied(a)', NEW f \in Fields PROVE FieldRight(a, f)'
  <2>1. IsCopied(a) /\ CopyOf(a)' = CopyOf(a) /\ CopyOf(a) \in Addr
    BY <1>1, <1>4, SameMemory DEF IsCopied
  <2> QED
    BY <1>1, <1>3, <2>1, SameMemory DEF FieldRight, GraphInv, PayloadRight
<1>5. ASSUME NEW q \in Root
      PROVE  IF q \in todo' THEN roots'[q] = snap.roots[q] ELSE RightCopy(snap.roots[q], roots'[q])
  <2>1. CASE q = at
    <3>1. RightCopy(snap.roots[at], cur)
      BY <1>1, WayEnds DEF GraphInv, SlotRight
    <3>2. roots'[at] = cur /\ at \notin todo'
      BY <1>1 DEF IInv, TypeOK
    <3> QED
      BY <2>1, <3>1, <3>2
  <2>2. CASE q # at
    <3>1. roots'[q] = roots[q] /\ (q \in todo' <=> q \in todo)
      BY <2>2, <1>1 DEF IInv, TypeOK
    <3> QED
      BY <3>1 DEF GraphInv, RootsRight
  <2> QED
    BY <2>1, <2>2
<1>6. RootsRight'
  BY <1>1, <1>5, SameMemory DEF RootsRight
<1>7. SlotRight'
  BY <1>1 DEF SlotRight
<1> QED
  BY <1>2, <1>4, <1>6, <1>7 DEF GraphInv, PayloadRight

(* ... and so does a field of the payload.                                 *)
LEMMA StoreFieldGraph ==
  ASSUME IInv, NotFree, GraphInv, StoreField
  PROVE  GraphInv' /\ NotFree'
<1> USE ConstantFacts
<1>1. PICK a \in Addr, i \in Fields : at = <<a, i>>
  BY DEF StoreField
<1>2. /\ UNCHANGED <<roots, toSpace, top, phase, todo, grey, snap, ops>>
      /\ at \in Addr \X Fields /\ at # None /\ at \notin Root
      /\ at[1] = a /\ at[2] = i /\ ~ CanTrace(cur)
      /\ heap' = [heap EXCEPT ![a].flds[i] = cur]
      /\ \/ i < NF /\ at' = <<a, i + 1>> /\ cur' = heap[a].flds[i + 1]
         \/ ~ (i < NF) /\ at' = None /\ cur' = None
  BY <1>1 DEF StoreField, Slot
<1>3. todo = {} /\ Allocated(a) /\ a \notin grey /\ a[1] = toSpace
  BY <1>2 DEF IInv, Control, Queued, Allocated
<1>4. /\ heap \in [Addr -> Node] /\ heap[a].flds \in [Fields -> Val] /\ i \in 1 .. NF
  BY NodeFields DEF IInv, TypeOK, Fields
<1>5. /\ \A b \in Addr : heap'[b].kind = heap[b].kind
      /\ \A b \in Addr : b # a => heap'[b] = heap[b]
      /\ \A f \in Fields : heap'[a].flds[f] = IF f = i THEN cur ELSE heap[a].flds[f]
  BY <1>2, <1>4 DEF Node
<1>6. /\ \A v : CanTrace(v)' <=> CanTrace(v)
      /\ \A v : Before(v)' <=> Before(v)
      /\ \A v : Allocated(v)' <=> Allocated(v)
      /\ fromSpace' = fromSpace
  BY <1>2 DEF CanTrace, Before, Allocated, fromSpace
<1>7. \A b : CanTrace(b) => heap'[b] = heap[b]
  <2>1. \A b : CanTrace(b) => b \in Addr /\ b # a
    BY <1>3 DEF CanTrace, fromSpace, IInv, TypeOK, Space
  <2> QED
    BY <2>1, <1>5
<1>8. \A b : (IsCopied(b)' <=> IsCopied(b)) /\ (CanTrace(b) => CopyOf(b)' = CopyOf(b))
  <2>1. ASSUME NEW b, CanTrace(b) PROVE CopyOf(b)' = CopyOf(b)
    BY <2>1, <1>7 DEF CopyOf
  <2>2. ASSUME NEW b, CanTrace(b) PROVE IsCopied(b)' <=> IsCopied(b)
    BY <2>1, <2>2, <1>2, <1>5, <1>6, <1>7 DEF IsCopied
  <2> QED
    BY <2>1, <2>2, <1>6 DEF IsCopied
<1>9. \A b : IsCopied(b) => CanTrace(b) /\ CopyOf(b) \in Addr /\ b \in NodesOf(fromSpace)
  BY DEF IsCopied, CanTrace, NodesOf
<1>10. \A v, x : RightCopy(v, x)' <=> RightCopy(v, x)
  BY <1>2, <1>8, <1>9 DEF RightCopy
<1>11. \A v, x : OnTheWay(v, x)' <=> OnTheWay(v, x)
  BY <1>2, <1>6, <1>10 DEF OnTheWay
<1>12. CopyInv'
  <2>1. SnapGood'
    BY <1>2, <1>6 DEF GraphInv, CopyInv, SnapGood
  <2>2. Originals'
    <3>1. \A b \in NodesOf(fromSpace) : CanTrace(b)
      BY DEF NodesOf, CanTrace
    <3> QED
      BY <3>1, <1>2, <1>6, <1>7, <1>8 DEF GraphInv, CopyInv, Originals
  <2>3. OneToOne'
    BY <1>6, <1>8, <1>9 DEF GraphInv, CopyInv, OneToOne
  <2>4. NoIndirections'
    BY <1>2, <1>5 DEF GraphInv, CopyInv, NoIndirections, NodesOf
  <2> QED
    BY <2>1, <2>2, <2>3, <2>4 DEF CopyInv
<1>13. ASSUME NEW b \in Addr, IsCopied(b)', NEW f \in Fields PROVE FieldRight(b, f)'
  <2>0. IsCopied(b) /\ CopyOf(b)' = CopyOf(b) /\ CopyOf(b) \in Addr /\ FieldRight(b, f)
    BY <1>8, <1>9, <1>13 DEF GraphInv, PayloadRight
  <2>1. PICK c \in Addr : /\ c = CopyOf(b) /\ CopyOf(b)' = c
                         /\ IsCopied(b) /\ FieldRight(b, f)
    BY <2>0
  <2>2. CASE c # a
    <3>1. Scanned(c, f)' <=> Scanned(c, f)
      BY <2>2, <1>2, <1>6 DEF Scanned
    <3>2. heap'[c] = heap[c]
      BY <2>1, <2>2, <1>5
    <3> QED
      BY <3>1, <3>2, <2>1, <1>2, <1>10 DEF FieldRight
  <2>3. CASE c = a /\ f = i
    <3>1. RightCopy(snap.heap[b].flds[i], cur)
      <4>1. OnTheWay(snap.heap[b].flds[i], cur)
        BY <2>1, <2>3, <1>2 DEF GraphInv, SlotRight
      <4> QED
        BY <4>1, <1>2, WayEnds DEF GraphInv
    <3>2. Scanned(a, i)'
      BY <1>2, <1>3, <1>4, <1>6 DEF Scanned
    <3>3. heap'[a].flds[i] = cur
      BY <1>5
    <3> QED
      BY <3>1, <3>2, <3>3, <2>1, <2>3, <1>2, <1>10 DEF FieldRight
  <2>4. CASE c = a /\ f # i
    <3>1. Scanned(a, f) <=> f < i
      BY <1>2, <1>3 DEF Scanned
    <3>2. Scanned(a, f)' <=> f < i
      BY <2>4, <1>2, <1>3, <1>4, <1>6 DEF Scanned, Fields, Slot
    <3>3. heap'[a].flds[f] = heap[a].flds[f]
      BY <2>4, <1>5
    <3> QED
      BY <3>1, <3>2, <3>3, <2>1, <2>4, <1>2, <1>10 DEF FieldRight
  <2> QED
    BY <2>2, <2>3, <2>4
<1>14. RootsRight'
  BY <1>2, <1>10 DEF GraphInv, RootsRight
<1>15. SlotRight'
  <2>1. CASE i < NF
    <3>1. at' = <<a, i + 1>> /\ cur' = heap[a].flds[i + 1] /\ i + 1 \in Fields
      BY <2>1, <1>2, <1>4 DEF Fields
    <3>2. at' \notin Root /\ at'[1] = a /\ at'[2] = i + 1
      BY <3>1
    <3>3. ~ Scanned(a, i + 1)
      BY <1>2, <1>4 DEF Scanned
    <3>4. ASSUME NEW b \in Addr, IsCopied(b), CopyOf(b) = a
          PROVE  OnTheWay(snap.heap[b].flds[i + 1], cur')
      BY <3>1, <3>3, <3>4, Pending DEF GraphInv
    <3> QED
      BY <3>2, <3>4, <1>2, <1>8, <1>9, <1>11 DEF SlotRight
  <2>2. CASE ~ (i < NF)
    BY <2>2, <1>2 DEF SlotRight, Slot
  <2> QED
    BY <2>1, <2>2
<1>16. NotFree'
  BY <1>5, <1>6 DEF NotFree
<1> QED
  BY <1>12, <1>13, <1>14, <1>15, <1>16 DEF GraphInv, PayloadRight

(* A copy is made of an object that has none, and no other is disturbed.   *)
LEMMA CopyGraph ==
  ASSUME IInv, NotFree, GraphInv, Copy
  PROVE  GraphInv' /\ NotFree'
<1> USE ConstantFacts
<1> PICK h : h = snap.heap
  OBVIOUS
<1> PICK new : new = <<toSpace, top + 1>>
  OBVIOUS
<1> PICK o : o = cur
  OBVIOUS
<1>1. /\ UNCHANGED <<roots, toSpace, phase, todo, at, snap, ops>>
      /\ at # None /\ CanTrace(cur) /\ cur \in Addr /\ cur[1] = fromSpace
      /\ fromSpace = 1 - toSpace /\ fromSpace # toSpace
      /\ toSpace \in {0, 1} /\ top \in Nat /\ heap \in [Addr -> Node]
      /\ top < N /\ heap[cur].kind # "Ind"
  BY DEF Copy, CanTrace, fromSpace, IInv, TypeOK, Space
<1>2. /\ heap' = [heap EXCEPT ![new] = heap[cur], ![cur].kind = "Ind", ![cur].flds[1] = new]
      /\ grey' = IF HasTraceableFields(heap[cur].kind) THEN grey \cup {new} ELSE grey
      /\ cur' = new /\ top' = top + 1
  BY DEF Copy
<1>3. new \in Addr /\ new # cur /\ new[1] = toSpace /\ new[2] = top + 1
  BY <1>1 DEF Addr, Space
<1>4. /\ heap'[new] = heap[cur]
      /\ heap'[cur].kind = "Ind" /\ heap'[cur].flds[1] = new
      /\ \A a \in Addr : a # new /\ a # cur => heap'[a] = heap[a]
  <2>1. heap[cur] \in Node /\ heap[cur].flds \in [Fields -> Val]
    BY <1>1, NodeFields DEF IInv
  <2> QED
    BY <2>1, <1>1, <1>2, <1>3 DEF Node
<1>5. /\ \A v : CanTrace(v)' <=> CanTrace(v)
      /\ \A v : Before(v)' <=> Before(v)
      /\ fromSpace' = fromSpace
  BY <1>1 DEF CanTrace, Before, fromSpace
<1>6. /\ ~ Allocated(new)
      /\ \A c \in Addr : Allocated(c)' <=> Allocated(c) \/ c = new
  <2>1. \A c \in Addr : c[2] \in Nat /\ c = <<c[1], c[2]>>
    BY DEF Addr
  <2> QED
    BY <2>1, <1>1, <1>2, <1>3 DEF Allocated
<1>7. heap[cur] = h[cur] /\ ~ IsCopied(cur)
  BY <1>1 DEF IsCopied, GraphInv, CopyInv, Originals, NodesOf
<1>8. PICK v : Before(v) /\ OnTheWay(v, cur)
  <2>1. CASE at \in Root
    BY <2>1 DEF GraphInv, SlotRight, CopyInv, SnapGood
  <2>2. CASE at \in Addr \X Fields
    <3>1. at[1] \in Addr /\ at[2] \in Fields /\ Allocated(at[1])
      BY <2>2 DEF IInv, Control, Queued
    <3>2. PICK b \in Addr : IsCopied(b) /\ CopyOf(b) = at[1]
      BY <3>1 DEF GraphInv, CopyInv, OneToOne
    <3>3. Before(h[b].flds[at[2]])
      BY <3>1, <3>2 DEF GraphInv, CopyInv, SnapGood, IsCopied, CanTrace, NodesOf
    <3> QED
      BY <2>2, <3>2, <3>3 DEF GraphInv, SlotRight
  <2> QED
    BY <2>1, <2>2, <1>1 DEF IInv, TypeOK, Slot
<1>9. Before(cur) /\ h[cur].kind # "Free" /\ Target(h, cur) = cur
  <2>1. Before(cur)
    BY <1>1, <1>8, WayFrom DEF GraphInv
  <2>2. ~ IsIndirection(h, cur)
    BY <1>1, <1>7 DEF IsIndirection
  <2> QED
    BY <2>1, <2>2, <1>1, OldTarget DEF GraphInv, CopyInv, Before
<1>10. /\ IsCopied(o)' /\ CopyOf(o)' = new
       /\ \A a : IsCopied(a)' /\ a # cur => IsCopied(a)
       /\ \A a : IsCopied(a) => /\ IsCopied(a)' /\ CopyOf(a)' = CopyOf(a) /\ a # cur
                                /\ CopyOf(a) # new /\ CopyOf(a) # cur
  <2>1. IsCopied(o)' /\ CopyOf(o)' = new
    BY <1>1, <1>3, <1>4, <1>5, <1>6, <1>7 DEF IsCopied, CopyOf
  <2>2. ASSUME NEW a, CanTrace(a), a # cur
        PROVE  heap'[a] = heap[a] /\ CopyOf(a)' = CopyOf(a) /\ a \in NodesOf(fromSpace)
    BY <2>2, <1>1, <1>3, <1>4 DEF CanTrace, CopyOf, NodesOf
  <2>3. ASSUME NEW a, IsCopied(a)', a # cur PROVE IsCopied(a)
    <3>1. CanTrace(a) /\ h[a].kind # "Ind" /\ heap[a].kind = "Ind" /\ a \in NodesOf(fromSpace)
      BY <2>2, <2>3, <1>1, <1>5 DEF IsCopied
    <3> QED
      BY <3>1 DEF GraphInv, CopyInv, Originals
  <2>4. ASSUME NEW a, IsCopied(a)
        PROVE  /\ IsCopied(a)' /\ CopyOf(a)' = CopyOf(a) /\ a # cur
               /\ CopyOf(a) # new /\ CopyOf(a) # cur
    <3>1. a # cur /\ CopyOf(a) # new /\ CopyOf(a) # cur /\ CanTrace(a) /\ CopyOf(a) \in Addr
      BY <2>4, <1>1, <1>6, <1>7 DEF IsCopied, Allocated
    <3>2. heap'[CopyOf(a)] = heap[CopyOf(a)] /\ heap'[a] = heap[a] /\ CopyOf(a)' = CopyOf(a)
      BY <3>1, <2>2, <1>4
    <3> QED
      BY <3>1, <3>2, <2>4, <1>1, <1>5, <1>6 DEF IsCopied
  <2> QED
    BY <2>1, <2>3, <2>4
<1>11. \A w, x : RightCopy(w, x) => RightCopy(w, x)'
  BY <1>1, <1>10 DEF RightCopy
<1>12. CopyInv'
  <2>1. SnapGood'
    BY <1>1, <1>5 DEF GraphInv, CopyInv, SnapGood
  <2>2. Originals'
    <3> SUFFICES ASSUME NEW a \in NodesOf(fromSpace) PROVE heap'[a] = h[a] \/ IsCopied(a)'
      BY <1>1, <1>5 DEF Originals
    <3>1. a \in Addr /\ a # new
      BY <1>1, <1>3 DEF NodesOf
    <3> QED
      BY <3>1, <1>4, <1>10 DEF GraphInv, CopyInv, Originals
  <2>3. OneToOne'
    <3>1. ASSUME NEW a \in Addr, NEW b \in Addr, IsCopied(a)', IsCopied(b)', CopyOf(a)' = CopyOf(b)'
          PROVE  a = b
      BY <3>1, <1>10 DEF GraphInv, CopyInv, OneToOne
    <3>2. ASSUME NEW c \in Addr, Allocated(c)' PROVE \E a \in Addr : IsCopied(a)' /\ CopyOf(a)' = c
      <4>1. CASE c = new
        BY <4>1, <1>1, <1>10
      <4>2. CASE Allocated(c)
        BY <4>2, <1>10 DEF GraphInv, CopyInv, OneToOne
      <4> QED
        BY <3>2, <4>1, <4>2, <1>6
    <3> QED
      BY <3>1, <3>2 DEF OneToOne
  <2>4. NoIndirections'
    BY <1>1, <1>4 DEF GraphInv, CopyInv, NoIndirections, NodesOf
  <2> QED
    BY <2>1, <2>2, <2>3, <2>4 DEF CopyInv
<1>13. ASSUME NEW a \in Addr, IsCopied(a)', NEW f \in Fields PROVE FieldRight(a, f)'
  <2>1. CASE a = cur
    <3>1. heap'[new].flds[f] = h[cur].flds[f] /\ CopyOf(a)' = new
      BY <2>1, <1>4, <1>7, <1>10
    <3>2. CASE h[cur].kind # "Raw"
      <4>1. ~ Scanned(new, f)'
        BY <3>2, <1>2, <1>7 DEF Scanned, HasTraceableFields
      <4> QED
        BY <3>1, <4>1, <2>1, <1>1 DEF FieldRight
    <3>3. CASE h[cur].kind = "Raw"
      <4>1. h[cur].flds[f] \in NonPtr
        BY <3>3, <1>1, <1>7 DEF IInv, Untraced
      <4>2. Target(h, h[cur].flds[f]) = h[cur].flds[f]
        BY <4>1, OldTarget DEF Before, IsIndirection, GraphInv, CopyInv
      <4>3. RightCopy(h[cur].flds[f], h[cur].flds[f])
        BY <4>1, <4>2 DEF RightCopy
      <4> QED
        BY <3>1, <4>3, <2>1, <1>1, <1>11 DEF FieldRight
    <3> QED
      BY <3>2, <3>3
  <2>2. CASE a # cur
    <3>1. /\ IsCopied(a) /\ CopyOf(a)' = CopyOf(a) /\ CopyOf(a) # new /\ CopyOf(a) # cur
          /\ CopyOf(a) \in Addr /\ FieldRight(a, f)
      BY <2>2, <1>10, <1>13 DEF IsCopied, GraphInv, PayloadRight
    <3>2. heap'[CopyOf(a)] = heap[CopyOf(a)]
      BY <3>1, <1>4
    <3>3. Scanned(CopyOf(a), f)' <=> Scanned(CopyOf(a), f)
      <4>1. CopyOf(a) \in grey' <=> CopyOf(a) \in grey
        BY <3>1, <1>2
      <4> QED
        BY <4>1, <3>1, <1>1, <1>6, <1>10 DEF Scanned
    <3> QED
      BY <3>1, <3>2, <3>3, <1>1, <1>11 DEF FieldRight
  <2> QED
    BY <2>1, <2>2
<1>14. RootsRight'
  BY <1>1, <1>11 DEF GraphInv, RootsRight
<1>15. ASSUME NEW w, OnTheWay(w, cur) PROVE OnTheWay(w, new)'
  <2>1. Target(h, w) = cur
    BY <1>1, <1>9, <1>15, WayFrom DEF GraphInv
  <2> QED
    BY <2>1, <1>1, <1>10 DEF OnTheWay, RightCopy
<1>16. SlotRight'
  <2>1. ASSUME NEW a \in Addr, IsCopied(a)', CopyOf(a)' = at[1], at \in Addr \X Fields,
               NEW w, w = h[a].flds[at[2]]
        PROVE  OnTheWay(w, new)'
    <3>1. at[1] \in Addr /\ Allocated(at[1])
      BY <2>1 DEF IInv, Control, Queued
    <3>2. IsCopied(a) /\ CopyOf(a) = at[1]
      BY <2>1, <3>1, <1>6, <1>10
    <3> QED
      BY <2>1, <3>2, <1>15 DEF GraphInv, SlotRight
  <2>2. ASSUME at \in Root, NEW w, w = snap.roots[at]
        PROVE  OnTheWay(w, new)'
    BY <2>2, <1>15 DEF GraphInv, SlotRight
  <2> QED
    BY <2>1, <2>2, <1>1, <1>2 DEF SlotRight
<1>17. NotFree'
  BY <1>4, <1>6, <1>7, <1>9, <1>1 DEF NotFree, Allocated
<1> QED
  BY <1>12, <1>13, <1>14, <1>16, <1>17 DEF GraphInv, PayloadRight

----------------------------------------------------------------------------
(* The mutator never makes a circle of indirections.                       *)
ChainsRanked == \E rank : Ranked(heap, NodesOf(toSpace), rank)

MutatorInv == NotFree /\ ChainsRanked

\* Indirections neither come nor go.
LEMMA SameChains ==
  ASSUME IInv, ChainsRanked, toSpace' = toSpace,
         \A a \in Addr : IsIndirection(heap, a)' => IsIndirection(heap, a) /\ heap'[a] = heap[a]
  PROVE  ChainsRanked'
<1>1. PICK rank : Ranked(heap, NodesOf(toSpace), rank)
  BY DEF ChainsRanked
<1>2. Ranked(heap', NodesOf(toSpace), rank)
  BY <1>1 DEF Ranked, NodesOf, IsIndirection
<1> QED
  BY <1>2 DEF ChainsRanked, NodesOf

(* A new node is no indirection.                                           *)
LEMMA AllocChains ==
  ASSUME IInv, MutatorInv, NEW r \in Root, Alloc(r)
  PROVE  MutatorInv'
<1> PICK new : new = <<toSpace, top + 1>>
  OBVIOUS
<1>1. PICK k \in {"Thunk", "Con", "Raw"} :
        \E fl \in [Fields -> IF k = "Raw" THEN NonPtr ELSE Held] :
          heap' = [heap EXCEPT ![new] = [kind |-> k, flds |-> fl]]
  BY DEF Alloc
<1>2. /\ toSpace' = toSpace /\ top' = top + 1 /\ top \in Nat /\ heap \in [Addr -> Node]
      /\ new \in Addr
  BY ConstantFacts DEF Alloc, MutatorStep, IInv, TypeOK, Space, Addr
<1>3. heap'[new].kind = k /\ \A a \in Addr : a # new => heap'[a] = heap[a]
  BY <1>1, <1>2
<1>4. \A a \in Addr : Allocated(a)' => Allocated(a) \/ a = new
  <2>1. \A a \in Addr : a[2] \in Nat /\ a = <<a[1], a[2]>>
    BY DEF Addr
  <2> QED
    BY <2>1, <1>2 DEF Allocated
<1>5. NotFree'
  BY <1>3, <1>4 DEF NotFree, MutatorInv
<1>6. ChainsRanked'
  BY <1>2, <1>3, SameChains DEF IsIndirection, MutatorInv
<1> QED
  BY <1>5, <1>6 DEF MutatorInv

(* An updated thunk is ranked above its value, with all that leads to it.  *)
LEMMA UpdateChains ==
  ASSUME IInv, MutatorInv, NEW r \in Root, Update(r)
  PROVE  MutatorInv'
<1> PICK a : a = roots[r]
  OBVIOUS
<1>1. /\ phase = "mutator" /\ toSpace' = toSpace /\ top' = top
      /\ a \in Addr /\ heap[a].kind = "Thunk" /\ heap \in [Addr -> Node]
  BY DEF Update, MutatorStep, IInv, TypeOK
<1>2. PICK v \in Held :
        /\ Target(heap, v) # a
        /\ heap' = [heap EXCEPT ![a] = [kind |-> "Ind", flds |-> [@.flds EXCEPT ![1] = v]]]
  BY DEF Update
<1>3. /\ heap'[a].kind = "Ind" /\ heap'[a].flds[1] = v
      /\ \A b \in Addr : b # a => heap'[b] = heap[b]
  BY <1>1, <1>2, NodeFields, ConstantFacts DEF IInv
<1> PICK X : X = NodesOf(toSpace)
  OBVIOUS
<1>4. a \in X /\ X \in SUBSET Addr /\ v \in X \cup NonPtr
  <2>1. Valid(a) /\ Valid(v)
    BY <1>1, HeldValid DEF Held
  <2> QED
    BY <2>1, <1>1, ConstantFacts DEF Valid, NodesOf
<1>5. PICK rank : Ranked(heap, X, rank)
  BY DEF MutatorInv, ChainsRanked
<1> DEFINE shift == IF v \in X THEN rank[v] + 1 ELSE 0
           rank2 == [u \in Addr |-> rank[u] + (IF Target(heap, u) = a THEN shift ELSE 0)]
<1>6. rank \in [Addr -> Nat] /\ shift \in Nat /\ (v \in X => rank[v] < shift)
  BY <1>4, <1>5 DEF Ranked
<1>7. rank2 \in [Addr -> Nat]
  BY <1>6
<1>8. ASSUME NEW u \in X, IsIndirection(heap', u)
      PROVE  LET w == heap'[u].flds[1]
             IN  w \in X \cup NonPtr /\ (w \in X => rank2[w] < rank2[u])
  <2>1. CASE u = a
    <3>1. Target(heap, a) = a
      BY <1>1, <1>4, Unfold DEF IsIndirection, Val
    <3>2. v \in X => rank2[v] = rank[v] /\ rank2[a] = rank[a] + shift
      <4> HIDE DEF shift
      <4>1. v \in X => v \in Addr /\ rank[v] \in Nat /\ rank2[v] = rank[v] + 0
        BY <1>2, <1>4, <1>6
      <4>2. a \in Addr /\ rank2[a] = rank[a] + shift
        BY <3>1, <1>1
      <4> HIDE DEF rank2
      <4> QED
        BY <4>1, <4>2
    <3>3. v \in X => rank2[v] < rank2[a]
      BY <3>2, <1>4, <1>6
    <3> HIDE DEF rank2, shift
    <3> QED
      BY <2>1, <3>3, <1>3, <1>4
  <2>2. CASE u # a
    <3> DEFINE w == heap[u].flds[1]
    <3>1. u \in Addr /\ heap'[u] = heap[u] /\ IsIndirection(heap, u)
      BY <2>2, <1>3, <1>4, <1>8 DEF IsIndirection
    <3>2. w \in X \cup NonPtr /\ (w \in X => rank[w] < rank[u])
      BY <3>1, <1>5 DEF Ranked
    <3>3. Target(heap, u) = Target(heap, w)
      <4>1. ~ IsIndirection(heap, Target(heap, u))
        BY <1>1, <1>4, <1>5, ChainsEnd
      <4> QED
        BY <4>1, <3>1, <1>1, Unfold DEF Val
    <3>4. w \in X => rank2[w] < rank2[u]
      <4> SUFFICES ASSUME w \in X PROVE rank2[w] < rank2[u]
        OBVIOUS
      <4>1. w \in Addr /\ rank[w] < rank[u] /\ rank[w] \in Nat /\ rank[u] \in Nat
        BY <3>1, <3>2, <1>4, <1>6
      <4> DEFINE d == IF Target(heap, u) = a THEN shift ELSE 0
      <4>2. rank2[w] = rank[w] + d /\ rank2[u] = rank[u] + d /\ d \in Nat
        BY <4>1, <3>1, <3>3, <1>6
      <4> HIDE DEF rank2, d, w
      <4> QED
        BY <4>1, <4>2
    <3> HIDE DEF rank2
    <3> QED
      BY <3>1, <3>2, <3>4
  <2> QED
    BY <2>1, <2>2
<1>9. Ranked(heap', X, rank2)
  <2> HIDE DEF rank2
  <2> QED
    BY <1>7, <1>8 DEF Ranked
<1>10. ChainsRanked'
  <2> HIDE DEF rank2
  <2> QED
    BY <1>1, <1>9 DEF ChainsRanked, NodesOf
<1>11. NotFree'
  BY <1>1, <1>3 DEF MutatorInv, NotFree, Allocated
<1> QED
  BY <1>10, <1>11 DEF MutatorInv

(* Fields are set of nodes that are no indirections.                       *)
LEMMA SetFieldChains ==
  ASSUME IInv, MutatorInv, NEW r \in Root, SetField(r)
  PROVE  MutatorInv'
<1> PICK a : a = roots[r]
  OBVIOUS
<1>1. PICK f \in Fields, v \in Held : heap' = [heap EXCEPT ![a].flds[f] = v]
  BY DEF SetField
<1>2. /\ toSpace' = toSpace /\ top' = top /\ a \in Addr /\ heap[a].kind = "Con"
      /\ heap \in [Addr -> Node]
  BY DEF SetField, MutatorStep, IInv, TypeOK
<1>3. heap'[a].kind = "Con" /\ \A b \in Addr : b # a => heap'[b] = heap[b]
  BY <1>1, <1>2 DEF Node
<1>4. NotFree'
  BY <1>2, <1>3 DEF MutatorInv, NotFree, Allocated
<1>5. ChainsRanked'
  BY <1>2, <1>3, SameChains DEF IsIndirection, MutatorInv
<1> QED
  BY <1>4, <1>5 DEF MutatorInv

(* A load leaves memory alone.                                             *)
LEMMA LoadChains ==
  ASSUME IInv, MutatorInv, NEW r \in Root, Load(r)
  PROVE  MutatorInv'
<1>1. heap' = heap /\ toSpace' = toSpace /\ top' = top
  BY DEF Load, MutatorStep
<1>2. NotFree'
  BY <1>1 DEF MutatorInv, NotFree, Allocated
<1>3. ChainsRanked'
  BY <1>1, SameChains DEF MutatorInv
<1> QED
  BY <1>2, <1>3 DEF MutatorInv

(* A collection starts with the snapshot and an empty to-space.            *)
LEMMA DoGCGraph ==
  ASSUME IInv, MutatorInv, DoGC
  PROVE  NotFree /\ GraphInv' /\ NotFree'
<1> USE ConstantFacts
<1> PICK h : h = heap
  OBVIOUS
<1> PICK s : s = toSpace
  OBVIOUS
<1>1. /\ phase = "mutator" /\ toSpace' = 1 - s /\ fromSpace' = s /\ top' = 0
      /\ s \in {0, 1} /\ roots' = roots /\ roots \in [Root -> Val] /\ h \in [Addr -> Node]
      /\ todo' = Root /\ at' = None /\ snap' = [heap |-> h, roots |-> roots]
      /\ todo = {} /\ grey = {} /\ at = None /\ top \in Nat
  BY DEF DoGC, fromSpace, IInv, TypeOK, Control, Space
<1>2. /\ \A a \in Addr : a[1] = s => heap'[a] = h[a]
      /\ \A a \in Addr : a[1] # s => heap'[a] = FreeNode
  BY <1>1 DEF DoGC, fromSpace, Addr, Space
<1>3. \A a \in Addr : ~ Allocated(a)'
  BY <1>1 DEF Allocated, Addr
<1>4. ASSUME NEW v, Valid(v) PROVE Before(v)'
  <2>1. CASE v \in NonPtr
    BY <2>1 DEF Before
  <2>2. CASE v \in Addr /\ v[1] = toSpace /\ v[2] <= top
    <3>1. h[v].kind # "Free"
      BY <2>2 DEF MutatorInv, NotFree, Allocated
    <3> QED
      BY <3>1, <2>2, <1>1 DEF Before, CanTrace
  <2> QED
    BY <2>1, <2>2, <1>4 DEF Valid
<1>5. ASSUME NEW a \in NodesOf(s), NEW f \in Fields PROVE Before(h[a].flds[f])'
  <2>1. a \in Addr /\ a[1] = toSpace /\ a[2] \in Nat
    BY DEF NodesOf, Addr
  <2>2. CASE a[2] <= top
    <3>1. Scanned(a, f)
      BY <2>1, <2>2, <1>1 DEF Scanned, Allocated
    <3> QED
      BY <3>1, <2>1, <1>4 DEF IInv
  <2>3. CASE a[2] > top
    <3>1. h[a].flds[f] \in NonPtr
      BY <2>1, <2>3 DEF IInv, Untraced
    <3> QED
      BY <3>1 DEF Before
  <2> QED
    BY <2>1, <2>2, <2>3, <1>1
<1>6. SnapGood'
  <2>1. \A r \in Root : Before(roots[r])'
    BY <1>1, <1>4 DEF IInv
  <2>2. \E rank : Ranked(h, NodesOf(s), rank)
    BY DEF MutatorInv, ChainsRanked
  <2>3. snap'.heap = h /\ snap'.roots = roots
    BY <1>1
  <2>4. \A r \in Root : Before(snap.roots[r])'
    BY <2>1, <2>3, <1>1
  <2>5. \A a \in NodesOf(s) : \A f \in Fields : Before(snap.heap[a].flds[f])'
    BY <1>5, <2>3
  <2> QED
    BY <2>2, <2>3, <2>4, <2>5, <1>1 DEF SnapGood, NodesOf
<1>7. \A a : ~ IsCopied(a)'
  <2>1. \A a : CanTrace(a)' => a \in Addr /\ a[1] = s
    BY <1>1 DEF CanTrace
  <2> QED
    BY <2>1, <1>1, <1>2 DEF IsCopied
<1>8. CopyInv'
  <2>1. Originals' /\ NoIndirections'
    BY <1>1, <1>2 DEF Originals, NoIndirections, NodesOf
  <2>2. OneToOne'
    BY <1>3, <1>7 DEF OneToOne
  <2> QED
    BY <2>1, <2>2, <1>6 DEF CopyInv
<1>9. PayloadRight' /\ RootsRight' /\ SlotRight'
  BY <1>1, <1>7 DEF PayloadRight, RootsRight, SlotRight, Slot
<1> QED
  BY <1>3, <1>8, <1>9 DEF GraphInv, NotFree, MutatorInv

(* It ends with a to-space without indirections.                           *)
LEMMA EndGCGraph ==
  ASSUME IInv, NotFree, GraphInv, EndGC
  PROVE  MutatorInv'
<1>1. UNCHANGED <<heap, toSpace, top>>
  BY DEF EndGC
<1>2. Ranked(heap, NodesOf(toSpace), [a \in Addr |-> 0])
  BY DEF Ranked, GraphInv, CopyInv, NoIndirections, IsIndirection
<1> QED
  BY <1>1, <1>2 DEF MutatorInv, NotFree, Allocated, ChainsRanked, NodesOf

----------------------------------------------------------------------------
\* The inductive invariant.
GInv == IInv /\ NotFree /\ (phase = "mutator" => ChainsRanked)
             /\ (phase # "mutator" => GraphInv)

(* It holds of the empty heap ...                                          *)
LEMMA InitGraph == Init => GInv
<1> SUFFICES ASSUME Init PROVE GInv
  OBVIOUS
<1>1. IInv
  BY InitInvariant
<1>2. NotFree
  BY ConstantFacts DEF Init, NotFree, Allocated, Addr
<1>3. Ranked(heap, NodesOf(toSpace), [a \in Addr |-> 0])
  BY ConstantFacts DEF Init, Ranked, NodesOf, IsIndirection
<1> QED
  BY <1>1, <1>2, <1>3 DEF GInv, ChainsRanked, Init

(* ... and every step preserves it.                                        *)
LEMMA NextGraph == GInv /\ [Next]_vars => GInv'
<1> SUFFICES ASSUME GInv, [Next]_vars PROVE GInv'
  OBVIOUS
<1>1. IInv /\ IInv' /\ NotFree
  BY NextInvariant DEF GInv
<1>2. CASE Mutator
  <2>1. phase = "mutator" /\ phase' = phase
    BY <1>2 DEF Mutator, Alloc, Update, SetField, Load, MutatorStep
  <2>2. MutatorInv
    BY <2>1 DEF GInv, MutatorInv
  <2>3. MutatorInv'
    BY <1>1, <1>2, <2>2, AllocChains, UpdateChains, SetFieldChains, LoadChains DEF Mutator
  <2> QED
    BY <2>1, <2>3, <1>1 DEF GInv, MutatorInv
<1>3. CASE DoGC
  <2>1. phase = "mutator" /\ phase' = "roots"
    BY <1>3 DEF DoGC
  <2> QED
    BY <2>1, <1>1, <1>3, DoGCGraph DEF GInv, MutatorInv
<1>4. CASE EndGC
  <2>1. phase = "work" /\ phase' = "mutator"
    BY <1>4 DEF EndGC, TracingDone
  <2> QED
    BY <2>1, <1>1, <1>4, EndGCGraph DEF GInv, MutatorInv
<1>5. CASE Collector /\ ~ EndGC
  <2>1. phase # "mutator" /\ phase' # "mutator"
    <3>1. phase = "mutator" => at = None /\ at \notin Root /\ at \notin Addr \X Fields
      BY <1>1, ConstantFacts DEF IInv, Control, Slot
    <3>2. phase # "mutator"
      BY <3>1, <1>5 DEF Collector, TakeRoot, EndRoots, PopWork, FollowInd, Copy, StoreRoot,
                        StoreField
    <3>3. phase' = phase \/ phase' = "work"
      BY <1>5 DEF Collector, TakeRoot, EndRoots, PopWork, FollowInd, Copy, StoreRoot, StoreField
    <3> QED
      BY <3>2, <3>3
  <2>2. GraphInv
    BY <2>1 DEF GInv
  <2>3. CASE Copy \/ StoreField
    BY <2>1, <2>2, <2>3, <1>1, CopyGraph, StoreFieldGraph DEF GInv
  <2>4. CASE (\E r \in Root : TakeRoot(r)) \/ EndRoots \/ PopWork \/ FollowInd \/ StoreRoot
    <3>1. UNCHANGED <<heap, toSpace, top, snap>>
      BY <2>4 DEF TakeRoot, EndRoots, PopWork, FollowInd, StoreRoot
    <3>2. NotFree'
      BY <3>1, <1>1, SameMemory
    <3>3. GraphInv'
      BY <2>2, <2>4, <1>1, TakeRootGraph, EndRootsGraph, PopWorkGraph, FollowIndGraph,
         StoreRootGraph
    <3> QED
      BY <2>1, <3>2, <3>3, <1>1 DEF GInv
  <2> QED
    BY <2>3, <2>4, <1>5 DEF Collector
<1>6. CASE UNCHANGED vars
  <2>1. UNCHANGED <<heap, roots, toSpace, top, phase, todo, grey, at, cur, snap>>
    BY <1>6 DEF vars, gcvars
  <2>2. NotFree' /\ (CopyInv => CopyInv')
    BY <2>1, <1>1, SameMemory
  <2>3. ChainsRanked => ChainsRanked'
    BY <2>1 DEF ChainsRanked
  <2>4. \A a \in Addr, f \in Fields : Scanned(a, f)' <=> Scanned(a, f)
    BY <2>1, SameMemory DEF Scanned
  <2>5. ASSUME GraphInv, NEW a \in Addr, IsCopied(a)', NEW f \in Fields PROVE FieldRight(a, f)'
    <3>1. IsCopied(a) /\ CopyOf(a)' = CopyOf(a) /\ CopyOf(a) \in Addr
      BY <2>1, <2>5, SameMemory DEF IsCopied
    <3> QED
      BY <2>1, <2>4, <2>5, <3>1, SameMemory DEF FieldRight, GraphInv, PayloadRight
  <2>6. GraphInv => RootsRight' /\ SlotRight'
    BY <2>1, SameMemory DEF GraphInv, RootsRight, SlotRight
  <2> QED
    BY <2>1, <2>2, <2>3, <2>5, <2>6, <1>1 DEF GInv, GraphInv, PayloadRight
<1> QED
  BY <1>2, <1>3, <1>4, <1>5, <1>6 DEF Next, Collector

(* Old and new graph stay related throughout every collection.             *)
THEOREM GraphInvariance == Spec => []GInv
BY InitGraph, NextGraph, PTL DEF Spec

\* The forwarding pointers are those of the objects copied.
LEMMA ForwardedCopied ==
  ASSUME IInv, GraphInv
  PROVE  /\ Forwarded = {a \in Addr : IsCopied(a)}
         /\ \A a \in Forwarded : Forward(a) = CopyOf(a)
         /\ \A v, x : RightCopy(v, x) => x = Forward(Target(snap.heap, v))
<1>1. ASSUME NEW a \in Forwarded PROVE IsCopied(a)
  <2>1. /\ a \in NodesOf(fromSpace) /\ heap[a].kind = "Ind" /\ snap.heap[a].kind # "Ind"
    BY DEF Forwarded, CanTrace, NodesOf
  <2> QED
    BY <2>1 DEF GraphInv, CopyInv, Originals
<1>2. ASSUME NEW a \in Addr, IsCopied(a) PROVE a \in Forwarded
  BY <1>2 DEF Forwarded, IsCopied, CopyOf, Valid, Allocated
<1>3. \A a : IsCopied(a) => Forward(a) = CopyOf(a)
  BY DEF Forward, IsCopied, CopyOf
<1>4. \A t \in NonPtr : Forward(t) = t
  BY ConstantFacts DEF Forward, CanTrace
<1> QED
  BY <1>1, <1>2, <1>3, <1>4 DEF RightCopy, Forwarded

(* When tracing is done (mm_collector_SS_Collect with gbtrace.cc) every    *)
(* root and every field of every copy leads to the copy of what it led to  *)
(* before, and two objects never share a copy.                             *)
THEOREM CollectorPreservesGraph == Spec => []GraphPreserved
<1>1. ASSUME GInv, TracingDone
      PROVE  /\ \A r \in Root : roots[r] = Forward(Target(snap.heap, snap.roots[r]))
             /\ \A a \in Forwarded :
                  /\ heap[Forward(a)].kind = snap.heap[a].kind
                  /\ \A f \in Fields :
                       heap[Forward(a)].flds[f] = Forward(Target(snap.heap, snap.heap[a].flds[f]))
             /\ \A a, b \in Forwarded : Forward(a) = Forward(b) => a = b
  <2>1. GraphInv /\ IInv /\ grey = {} /\ at = None /\ todo = {}
    BY <1>1 DEF TracingDone, GInv, IInv, Control
  <2>2. ASSUME NEW r \in Root PROVE roots[r] = Forward(Target(snap.heap, snap.roots[r]))
    BY <2>1, ForwardedCopied DEF GraphInv, RootsRight
  <2>3. ASSUME NEW a \in Forwarded, NEW f \in Fields
        PROVE  heap[Forward(a)].flds[f] = Forward(Target(snap.heap, snap.heap[a].flds[f]))
    <3>1. IsCopied(a) /\ a \in Addr /\ Forward(a) = CopyOf(a)
      BY <2>1, ForwardedCopied
    <3>2. Scanned(CopyOf(a), f)
      BY <3>1, <2>1 DEF IsCopied, Scanned
    <3>3. RightCopy(snap.heap[a].flds[f], heap[CopyOf(a)].flds[f])
      BY <3>1, <3>2, <2>1 DEF GraphInv, PayloadRight, FieldRight
    <3> QED
      BY <3>1, <3>3, <2>1, ForwardedCopied
  <2>4. ASSUME NEW a \in Forwarded PROVE heap[Forward(a)].kind = snap.heap[a].kind
    BY <2>1, ForwardedCopied DEF IsCopied
  <2>5. ASSUME NEW a \in Forwarded, NEW b \in Forwarded, Forward(a) = Forward(b) PROVE a = b
    BY <2>1, <2>5, ForwardedCopied DEF GraphInv, CopyInv, OneToOne
  <2> QED
    BY <2>2, <2>3, <2>4, <2>5
<1>2. GInv => GraphPreserved
  BY <1>1 DEF GraphPreserved
<1> QED
  BY <1>2, GraphInvariance, PTL

(* What a chain of indirections leads to belongs to every closed set that  *)
(* has its beginning.                                                      *)
LEMMA ChainClosed ==
  ASSUME SnapGood, NEW S \in SUBSET FromSpace, Closed(S), NEW v \in Val, CanTrace(v) => v \in S,
         Before(v)
  PROVE  CanTrace(Target(snap.heap, v)) => Target(snap.heap, v) \in S
<1> DEFINE h == snap.heap
           Good(w) == Before(w) /\ (CanTrace(w) => w \in S)
<1>1. h \in [Addr -> Node] /\ 2 * N \in Nat
  BY ConstantFacts DEF SnapGood
<1>2. PICK c : IsChain(h, v, c) /\ Target(h, v) = c[2 * N]
  BY <1>1, TargetChain
<1>3. ASSUME NEW w, Good(w) PROVE Good(Step(h, w))
  <2>1. CASE IsIndirection(h, w)
    <3>1. CanTrace(w) /\ w \in S
      BY <2>1, <1>3, ConstantFacts DEF IsIndirection, Before
    <3>2. CanTrace(h[w].flds[1]) => h[w].flds[1] \in S
      BY <2>1, <3>1 DEF IsIndirection, Closed, Followed
    <3>3. Before(h[w].flds[1])
      BY <2>1, <3>1, ConstantFacts DEF SnapGood, NodesOf, CanTrace
    <3> QED
      BY <2>1, <3>2, <3>3 DEF Step
  <2>2. CASE ~ IsIndirection(h, w)
    BY <2>2, <1>3 DEF Step
  <2> QED
    BY <2>1, <2>2
<1> DEFINE M == {n \in Nat : n <= 2 * N => Good(c[n])}
<1> HIDE DEF Good, h
<1>4. 0 \in M
  BY <1>2 DEF IsChain, Good
<1>5. ASSUME NEW n \in M PROVE n + 1 \in M
  <2> SUFFICES ASSUME n + 1 <= 2 * N PROVE Good(c[n + 1])
    OBVIOUS
  <2>1. n + 1 \in 1 .. 2 * N /\ (n + 1) - 1 = n /\ Good(c[n])
    BY <1>1
  <2>2. c[n + 1] = Step(h, c[(n + 1) - 1])
    BY <1>2, <2>1 DEF IsChain
  <2> QED
    BY <1>3, <2>1, <2>2
<1>6. Nat \subseteq M
  <2> HIDE DEF M
  <2>1. M \subseteq Nat
    BY DEF M
  <2> QED
    BY <1>4, <1>5, <2>1, SetInduction
<1>7. Good(c[2 * N])
  BY <1>1, <1>6
<1> QED
  BY <1>2, <1>7 DEF Good, h

\* What has been copied was reachable.
LiveInv == \A a \in Addr : IsCopied(a) => a \in Reachable

LInv == GInv /\ (phase # "mutator" => LiveInv)

(* The object that a slot leads to is copied; the slot is a root or a      *)
(* field of a copy, so the object is reachable like the original.          *)
LEMMA CopyLive ==
  ASSUME GInv, LiveInv, phase # "mutator", Copy, GInv'
  PROVE  LiveInv'
<1> PICK o : o = cur
  OBVIOUS
<1>0. IInv /\ GraphInv /\ CopyInv /\ SnapGood
  BY DEF GInv, GraphInv, CopyInv
<1>1. /\ UNCHANGED <<toSpace, at, snap>>
      /\ at # None /\ CanTrace(cur) /\ cur \in Addr /\ heap[cur].kind # "Ind"
      /\ toSpace \in {0, 1} /\ fromSpace = 1 - toSpace /\ heap \in [Addr -> Node]
  BY <1>0 DEF Copy, CanTrace, IInv, TypeOK, Space, fromSpace
<1>2. heap[cur] = snap.heap[cur]
  BY <1>0, <1>1 DEF CopyInv, Originals, NodesOf, CanTrace, IsCopied
<1>3. ASSUME NEW a \in Addr, IsCopied(a)', a # cur PROVE IsCopied(a)
  <2>1. /\ CanTrace(a) /\ a[1] # toSpace /\ snap.heap[a].kind # "Ind" /\ heap'[a].kind = "Ind"
        /\ a \in NodesOf(fromSpace)
    BY <1>1, <1>3 DEF IsCopied, CanTrace, fromSpace, NodesOf
  <2>2. heap'[a] = heap[a]
    BY <1>1, <1>3, <2>1 DEF Copy, Addr
  <2> QED
    BY <2>1, <2>2, <1>0 DEF CopyInv, Originals
<1>4. ASSUME NEW S \in SUBSET FromSpace, Closed(S) PROVE cur \in S
  <2>1. PICK v \in Val : OnTheWay(v, cur) /\ Before(v) /\ (CanTrace(v) => v \in S)
    <3>1. CASE at \in Root
      BY <3>1, <1>0, <1>4 DEF GraphInv, SlotRight, SnapGood, Closed
    <3>2. CASE at \in Addr \X Fields
      <4>1. at[1] \in Addr /\ at[2] \in Fields /\ Allocated(at[1]) /\ heap[at[1]].kind # "Raw"
        BY <3>2, <1>0 DEF IInv, Control, Queued
      <4>2. PICK b \in Addr : IsCopied(b) /\ CopyOf(b) = at[1]
        BY <4>1, <1>0 DEF CopyInv, OneToOne
      <4>3. /\ b \in S /\ b \in NodesOf(fromSpace)
            /\ snap.heap[b].kind # "Ind" /\ snap.heap[b].kind # "Raw"
        <5>1. b \in Reachable
          BY <4>2 DEF LiveInv
        <5> QED
          BY <5>1, <4>1, <4>2, <1>4 DEF Reachable, IsCopied, CanTrace, NodesOf
      <4> PICK v : v = snap.heap[b].flds[at[2]]
        OBVIOUS
      <4>4. Before(v) /\ OnTheWay(v, cur) /\ v \in Val
        BY <3>2, <4>1, <4>2, <4>3, <1>0, OldTarget DEF GraphInv, SlotRight, SnapGood
      <4>5. CanTrace(v) => v \in S
        BY <4>1, <4>3, <1>4 DEF Closed, Followed
      <4> QED
        BY <4>4, <4>5
    <3> QED
      BY <3>1, <3>2, <1>0, <1>1 DEF IInv, TypeOK, Slot
  <2>2. Before(cur) /\ Target(snap.heap, cur) = Target(snap.heap, v)
    BY <2>1, <1>0, <1>1, WayFrom
  <2>3. Target(snap.heap, cur) = cur
    BY <2>2, <1>0, <1>1, <1>2, OldTarget DEF IsIndirection
  <2>4. CanTrace(Target(snap.heap, v)) => Target(snap.heap, v) \in S
    BY <2>1, <1>0, <1>4, ChainClosed
  <2> QED
    BY <2>2, <2>3, <2>4, <1>1
<1>5. cur \in Reachable
  <2>1. cur \in FromSpace
    BY <1>1 DEF FromSpace, CanTrace, Addr
  <2> QED
    BY <1>4, <2>1 DEF Reachable
<1>6. Reachable' = Reachable
  BY <1>1 DEF Reachable, FromSpace, Closed, CanTrace, fromSpace
<1> QED
  BY <1>3, <1>5, <1>6 DEF LiveInv

(* No other step copies anything.                                          *)
LEMMA NextLive == LInv /\ [Next]_vars => LInv'
<1> SUFFICES ASSUME LInv, [Next]_vars PROVE LInv'
  OBVIOUS
<1>1. GInv /\ GInv' /\ IInv
  BY NextGraph DEF LInv, GInv
<1>2. ASSUME phase # "mutator", UNCHANGED <<toSpace, snap>>,
             \A a \in Addr : IsCopied(a)' => IsCopied(a)
      PROVE  LiveInv'
  <2>1. Reachable' = Reachable
    BY <1>2 DEF Reachable, FromSpace, Closed, CanTrace, fromSpace
  <2> QED
    BY <1>2, <2>1 DEF LInv, LiveInv
<1>3. CASE DoGC
  <2>1. ASSUME NEW a \in Addr PROVE ~ IsCopied(a)'
    <3>1. \A c \in Addr : ~ Allocated(c)'
      BY <1>3 DEF DoGC, Allocated, Addr
    <3> QED
      BY <3>1 DEF IsCopied
  <2> QED
    BY <2>1, <1>1 DEF LInv, LiveInv
<1>4. CASE Copy
  <2>1. phase # "mutator"
    BY <1>1, <1>4 DEF Copy, IInv, Control
  <2> QED
    BY <2>1, <1>1, <1>4, CopyLive DEF LInv
<1>5. CASE Mutator \/ EndGC
  BY <1>1, <1>5, ConstantFacts
  DEF LInv, Mutator, Alloc, Update, SetField, Load, MutatorStep, EndGC
<1>6. CASE StoreField
  <2>1. /\ phase # "mutator" /\ UNCHANGED <<toSpace, top, snap>>
        /\ at \in Addr \X Fields /\ Allocated(at[1]) /\ toSpace \in {0, 1}
        /\ heap' = [heap EXCEPT ![at[1]].flds[at[2]] = cur] /\ heap \in [Addr -> Node]
    BY <1>1, <1>6, ConstantFacts DEF StoreField, IInv, TypeOK, Space, Control, Queued, Slot
  <2>2. \A a \in Addr : heap'[a].kind = heap[a].kind
    BY <2>1 DEF Node
  <2>3. \A a \in Addr : a # at[1] => heap'[a] = heap[a]
    BY <2>1
  <2>4. ASSUME NEW a \in Addr, IsCopied(a)' PROVE IsCopied(a)
    <3>1. a # at[1]
      BY <2>1, <2>4 DEF IsCopied, CanTrace, Allocated, fromSpace
    <3>2. CopyOf(a)' = CopyOf(a)
      BY <3>1, <2>3 DEF CopyOf
    <3> QED
      BY <3>2, <2>1, <2>2, <2>4 DEF IsCopied, CanTrace, Allocated, fromSpace
  <2> QED
    BY <2>1, <2>4, <1>1, <1>2 DEF LInv
<1>7. CASE \/ (\E r \in Root : TakeRoot(r)) \/ EndRoots \/ PopWork \/ FollowInd \/ StoreRoot
           \/ UNCHANGED vars
  <2>1. UNCHANGED <<heap, toSpace, top, snap>>
    BY <1>7 DEF TakeRoot, EndRoots, PopWork, FollowInd, StoreRoot, vars, gcvars
  <2>2. \A a : IsCopied(a)' <=> IsCopied(a)
    BY <2>1, SameMemory
  <2>3. phase' # "mutator" => phase # "mutator"
    BY <1>1, <1>7, ConstantFacts
    DEF TakeRoot, EndRoots, PopWork, FollowInd, StoreRoot, vars, IInv, Control, Slot
  <2> QED
    BY <2>1, <2>2, <2>3, <1>1, <1>2 DEF LInv
<1> QED
  BY <1>3, <1>4, <1>5, <1>6, <1>7 DEF Next, Collector

(* At every moment of a collection the objects forwarded were reachable    *)
(* from the roots when it began, and to-space holds one object for each:   *)
(* no garbage is copied, nothing is copied twice or otherwise allocated.   *)
THEOREM CopiesOnce == Spec => []ExactlyTheForwarded
<1>1. ASSUME GInv, phase # "mutator" PROVE top = Cardinality(Forwarded)
  <2>1. GraphInv /\ IInv /\ toSpace \in Space /\ top \in 0 .. N /\ top \in Nat
    BY <1>1, ConstantFacts DEF GInv, IInv, TypeOK
  <2>2. \A a \in Forwarded : /\ a \in Addr /\ CopyOf(a) \in Addr /\ Allocated(CopyOf(a))
                             /\ \A b \in Forwarded : CopyOf(a) = CopyOf(b) => a = b
    BY <2>1, ForwardedCopied DEF GraphInv, CopyInv, OneToOne, IsCopied
  <2> DEFINE num == [a \in Forwarded |-> CopyOf(a)[2]]
  <2>3. num \in Bijection(Forwarded, 1 .. top)
    <3>1. ASSUME NEW a \in Forwarded
          PROVE  num[a] \in 1 .. top /\ CopyOf(a) = <<toSpace, num[a]>>
      BY <2>1, <2>2 DEF Allocated, Addr
    <3>2. num \in Injection(Forwarded, 1 .. top)
      <4>1. num \in [Forwarded -> 1 .. top]
        BY <3>1
      <4>2. \A a, b \in Forwarded : num[a] = num[b] => a = b
        BY <3>1, <2>2
      <4> HIDE DEF num
      <4> QED
        BY <4>1, <4>2 DEF Injection, IsInjective
    <3>3. ASSUME NEW i \in 1 .. top PROVE \E a \in Forwarded : num[a] = i
      <4>1. <<toSpace, i>> \in Addr /\ Allocated(<<toSpace, i>>)
        BY <2>1, ConstantFacts DEF Addr, Allocated
      <4>2. PICK a \in Addr : IsCopied(a) /\ CopyOf(a) = <<toSpace, i>>
        BY <4>1, <2>1 DEF GraphInv, CopyInv, OneToOne
      <4>3. a \in Forwarded
        BY <4>2, <2>1, ForwardedCopied
      <4> QED
        BY <4>2, <4>3
    <3> HIDE DEF num
    <3> QED
      BY <3>2, <3>3 DEF Bijection, Surjection, Injection
  <2>4. IsFiniteSet(Forwarded)
    BY AddrFinite, FS_Subset DEF Forwarded
  <2>5. ExistsBijection(Forwarded, 1 .. top)
    BY <2>3 DEF ExistsBijection
  <2>6. ExistsBijection(1 .. top, Forwarded)
    BY <2>5, Fun_ExistsBijSymmetric
  <2> QED
    BY <2>1, <2>6, FS_CountingElements
<1>2. ASSUME LInv, phase # "mutator" PROVE Forwarded \subseteq Reachable
  BY <1>2, ForwardedCopied DEF LInv, LiveInv, GInv
<1>3. LInv => ExactlyTheForwarded
  BY <1>1, <1>2 DEF ExactlyTheForwarded, LInv
<1>4. Init => LInv
  BY InitGraph DEF LInv, Init
<1> QED
  BY <1>3, <1>4, NextLive, PTL DEF Spec

-----------------------------------------------------------------------------
(* A collection ends: every step of it leaves less work, for every number  *)
(* of roots, objects and fields. The loop over the work list extends the   *)
(* list itself, and another loop follows indirections; the first half      *)
(* shows that a chain of indirections is followed in at most N steps, the  *)
(* second one sums up what each step does to the parts of WorkLeft.        *)

\* FollowInd would go on from w.
Hopping(w) == CanTrace(w) /\ heap[w].kind = "Ind"

\* The table of which Hops takes an entry: how many of the next n hops from w
\* are there to be made.
IsHops(c) ==
  /\ c \in [0 .. N -> [Val -> Nat]]
  /\ \A n \in 0 .. N : \A w \in Val :
       c[n][w] = IF n = 0 \/ ~ Hopping(w) THEN 0 ELSE 1 + c[n - 1][heap[w].flds[1]]

(* It goes on to a word.                                                   *)
LEMMA HopType ==
  ASSUME TypeOK, NEW w, Hopping(w)
  PROVE  w \in Addr /\ w \in Val /\ heap[w].flds[1] \in Val
BY NodeFields, ConstantFacts DEF Hopping, CanTrace, Val

(* The recursive function inside Hops is such a table.                     *)
LEMMA HopsTable ==
  ASSUME TypeOK
  PROVE  \E c : IsHops(c) /\ \A v \in Val : Hops(v) = c[N][v]
<1> DEFINE Row == [Val -> Nat]
           next(g) == [w \in Val |-> IF Hopping(w) THEN 1 + g[heap[w].flds[1]] ELSE 0]
           step == [g \in Row |-> next(g)]
           body(f) == [n \in 0 .. N |->
                         [w \in Val |-> IF n = 0 \/ ~ CanTrace(w) \/ heap[w].kind # "Ind" THEN 0
                                        ELSE 1 + f[n - 1][heap[w].flds[1]]]]
<1>1. step \in [Row -> Row] /\ [w \in Val |-> 0] \in Row /\ N \in Nat
  <2>1. ASSUME NEW g \in Row PROVE next(g) \in Row
    BY HopType
  <2> HIDE DEF next
  <2> QED
    BY <2>1, ConstantFacts
<1>2. PICK F : Iterates(F, Row, step, [w \in Val |-> 0], N)
  <2> HIDE DEF step, Row
  <2> QED
    BY <1>1, IterateExists
<1>3. /\ F \in [0 .. N -> Row] /\ \A w \in Val : F[0][w] = 0
      /\ \A n \in 1 .. N : \A w \in Val :
           F[n][w] = IF Hopping(w) THEN 1 + F[n - 1][heap[w].flds[1]] ELSE 0
  <2>1. F \in [0 .. N -> Row] /\ F[0] = [w \in Val |-> 0]
    BY <1>2 DEF Iterates
  <2>2. ASSUME NEW n \in 1 .. N PROVE F[n] = next(F[n - 1])
    <3>1. F[n] = step[F[n - 1]] /\ n - 1 \in 0 .. N
      <4> HIDE DEF step, Row
      <4> QED
        BY <1>1, <1>2 DEF Iterates
    <3>2. F[n - 1] \in Row
      BY <3>1, <2>1
    <3>3. step[F[n - 1]] = next(F[n - 1])
      <4> HIDE DEF next, Row
      <4> QED
        BY <3>2
    <3> HIDE DEF next, step
    <3> QED
      BY <3>1, <3>3
  <2>3. ASSUME NEW n \in 1 .. N, NEW w \in Val
        PROVE  F[n][w] = IF Hopping(w) THEN 1 + F[n - 1][heap[w].flds[1]] ELSE 0
    BY <2>2
  <2> QED
    BY <2>1, <2>3
<1>4. IsHops(F)
  <2>1. ASSUME NEW n \in 0 .. N, NEW w \in Val
        PROVE  F[n][w] = IF n = 0 \/ ~ Hopping(w) THEN 0 ELSE 1 + F[n - 1][heap[w].flds[1]]
    <3>1. n = 0 \/ n \in 1 .. N
      BY <1>1
    <3> QED
      BY <3>1, <1>3
  <2> QED
    BY <2>1, <1>3 DEF IsHops
<1>5. F = body(F)
  <2>1. \A n \in 0 .. N : F[n] = [w \in Val |-> F[n][w]]
    BY <1>3
  <2>2. F = [n \in 0 .. N |-> F[n]]
    BY <1>3
  <2>3. \A n \in 0 .. N, w \in Val :
          F[n][w] = IF n = 0 \/ ~ CanTrace(w) \/ heap[w].kind # "Ind" THEN 0
                    ELSE 1 + F[n - 1][heap[w].flds[1]]
    BY <1>4 DEF IsHops, Hopping
  <2>4. \A n \in 0 .. N :
          F[n] = [w \in Val |-> IF n = 0 \/ ~ CanTrace(w) \/ heap[w].kind # "Ind" THEN 0
                                ELSE 1 + F[n - 1][heap[w].flds[1]]]
    BY <2>1, <2>3
  <2> QED
    BY <2>2, <2>4
<1> DEFINE c == CHOOSE g : g = body(g)
<1>6. c = body(c)
  <2> HIDE DEF body
  <2> QED
    BY <1>5
<1>7. ASSUME NEW v \in Val PROVE Hops(v) = c[N][v]
  BY Zenon DEF Hops
<1>8. \A n \in 0 .. N, w \in Val :
        c[n][w] = IF n = 0 \/ ~ Hopping(w) THEN 0 ELSE 1 + c[n - 1][heap[w].flds[1]]
  <2> HIDE DEF c
  <2>1. ASSUME NEW n \in 0 .. N
        PROVE  c[n] = [w \in Val |-> IF n = 0 \/ ~ CanTrace(w) \/ heap[w].kind # "Ind" THEN 0
                                     ELSE 1 + c[n - 1][heap[w].flds[1]]]
    BY <1>6
  <2> HIDE <1>6
  <2> QED
    BY <2>1, ZenonT(60) DEF Hopping
<1> HIDE DEF c
<1>9. ASSUME NEW n \in Nat PROVE n <= N => \A w \in Val : c[n][w] = F[n][w]
  <2> DEFINE S == {m \in Nat : m <= N => \A w \in Val : c[m][w] = F[m][w]}
  <2>1. 0 \in S
    BY <1>1, <1>4, <1>8 DEF IsHops
  <2>2. ASSUME NEW m \in S PROVE m + 1 \in S
    <3> SUFFICES ASSUME m + 1 <= N, NEW w \in Val PROVE c[m + 1][w] = F[m + 1][w]
      OBVIOUS
    <3>1. m + 1 \in 0 .. N /\ m + 1 # 0 /\ (m + 1) - 1 = m /\ m <= N
      BY <1>1
    <3>2. \A u \in Val : c[m][u] = F[m][u]
      BY <3>1
    <3> QED
      BY <3>1, <3>2, <1>4, <1>8, HopType DEF IsHops
  <2>3. Nat \subseteq S
    <3> HIDE DEF S
    <3>1. S \subseteq Nat
      BY DEF S
    <3> QED
      BY <2>1, <2>2, <3>1, SetInduction
  <2> QED
    BY <2>3
<1>10. \A v \in Val : Hops(v) = F[N][v]
  BY <1>1, <1>7, <1>9
<1> QED
  BY <1>4, <1>10

(* At most n of n hops are made; one more counts only if all before did.   *)
LEMMA HopsBounds ==
  ASSUME TypeOK, NEW c, IsHops(c)
  PROVE  /\ \A n \in 0 .. N : \A w \in Val : c[n][w] \in 0 .. n
         /\ \A n \in 1 .. N : \A w \in Val : c[n][w] = c[n - 1][w] \/ c[n][w] = n
<1>1. N \in Nat
  BY ConstantFacts
<1>2. ASSUME NEW n \in Nat PROVE n <= N => \A w \in Val : c[n][w] \in 0 .. n
  <2> DEFINE S == {m \in Nat : m <= N => \A w \in Val : c[m][w] \in 0 .. m}
  <2>1. 0 \in S
    BY <1>1 DEF IsHops
  <2>2. ASSUME NEW m \in S PROVE m + 1 \in S
    <3> SUFFICES ASSUME m + 1 <= N, NEW w \in Val PROVE c[m + 1][w] \in 0 .. m + 1
      OBVIOUS
    <3>1. m + 1 \in 0 .. N /\ m + 1 # 0 /\ (m + 1) - 1 = m /\ m <= N
      BY <1>1
    <3>2. \A u \in Val : c[m][u] \in 0 .. m
      BY <3>1
    <3> QED
      BY <3>1, <3>2, HopType DEF IsHops
  <2>3. Nat \subseteq S
    <3> HIDE DEF S
    <3>1. S \subseteq Nat
      BY DEF S
    <3> QED
      BY <2>1, <2>2, <3>1, SetInduction
  <2> QED
    BY <2>3
<1>3. ASSUME NEW n \in Nat
      PROVE  n + 1 <= N => \A w \in Val : c[n + 1][w] = c[n][w] \/ c[n + 1][w] = n + 1
  <2> DEFINE S == {m \in Nat : m + 1 <= N =>
                     \A w \in Val : c[m + 1][w] = c[m][w] \/ c[m + 1][w] = m + 1}
  <2>1. 0 \in S
    <3> SUFFICES ASSUME 1 <= N, NEW w \in Val PROVE c[1][w] = c[0][w] \/ c[1][w] = 1
      OBVIOUS
    <3>1. c[0][w] = 0 /\ c[1][w] \in 0 .. 1
      BY <1>1, <1>2 DEF IsHops
    <3> QED
      BY <3>1
  <2>2. ASSUME NEW m \in S PROVE m + 1 \in S
    <3> SUFFICES ASSUME (m + 1) + 1 <= N, NEW w \in Val
                 PROVE  c[(m + 1) + 1][w] = c[m + 1][w] \/ c[(m + 1) + 1][w] = (m + 1) + 1
      OBVIOUS
    <3>1. /\ (m + 1) + 1 \in 0 .. N /\ (m + 1) + 1 # 0 /\ ((m + 1) + 1) - 1 = m + 1
          /\ m + 1 \in 0 .. N /\ m + 1 # 0 /\ (m + 1) - 1 = m /\ m \in 0 .. N /\ m + 1 <= N
      BY <1>1
    <3>2. \A u \in Val : c[m + 1][u] = c[m][u] \/ c[m + 1][u] = m + 1
      BY <3>1
    <3>3. CASE ~ Hopping(w)
      BY <3>1, <3>3 DEF IsHops
    <3>4. CASE Hopping(w)
      <4>1. heap[w].flds[1] \in Val
        BY <3>4, HopType
      <4>2. c[(m + 1) + 1][w] = 1 + c[m + 1][heap[w].flds[1]]
        BY <3>1, <3>4 DEF IsHops
      <4>3. c[m + 1][w] = 1 + c[m][heap[w].flds[1]]
        BY <3>1, <3>4 DEF IsHops
      <4> QED
        BY <4>1, <4>2, <4>3, <3>2, <3>1
    <3> QED
      BY <3>3, <3>4
  <2>3. Nat \subseteq S
    <3> HIDE DEF S
    <3>1. S \subseteq Nat
      BY DEF S
    <3> QED
      BY <2>1, <2>2, <3>1, SetInduction
  <2> QED
    BY <2>3
<1>4. ASSUME NEW n \in 1 .. N, NEW w \in Val PROVE c[n][w] = c[n - 1][w] \/ c[n][w] = n
  <2>1. n - 1 \in Nat /\ (n - 1) + 1 = n /\ n <= N
    BY <1>1
  <2> QED
    BY <2>1, <1>3
<1> QED
  BY <1>1, <1>2, <1>4

----------------------------------------------------------------------------
(* A chain of indirections among the objects of from-space visits no       *)
(* object twice, so that it is followed in at most N steps.                *)
LEMMA HopsEnd ==
  ASSUME IInv, GraphInv, NEW v, Hopping(v)
  PROVE  /\ heap[v].flds[1] \in Val
         /\ Hops(v) = 1 + Hops(heap[v].flds[1])
<1> DEFINE X == NodesOf(fromSpace)
           Next1(w) == IF Hopping(w) THEN heap[w].flds[1] ELSE w
           next == [w \in Val |-> Next1(w)]
           u1 == heap[v].flds[1]
<1>1. TypeOK /\ N \in Nat /\ v \in Val /\ u1 \in Val
  BY HopType, ConstantFacts DEF IInv
<1>2. PICK c : IsHops(c) /\ \A w \in Val : Hops(w) = c[N][w]
  BY <1>1, HopsTable
<1>3. N >= 1 /\ N \in 1 .. N /\ v \in X
  BY <1>1 DEF Hopping, CanTrace, Addr, NodesOf
<1>4. c[N][v] = 1 + c[N - 1][u1]
  BY <1>1, <1>2, <1>3 DEF IsHops
<1>5. c[N][u1] = c[N - 1][u1] \/ c[N][u1] = N
  BY <1>1, <1>2, <1>3, HopsBounds
<1>6. c[N][u1] # N
  <2> SUFFICES ASSUME c[N][u1] = N PROVE FALSE
    OBVIOUS
  <2>1. next \in [Val -> Val] /\ \A w \in Val : next[w] = Next1(w)
    BY <1>1, HopType
  <2>2. PICK u : Iterates(u, Val, next, v, N + 1)
    <3> HIDE DEF next
    <3> QED
      BY <1>1, <2>1, IterateExists
  <2>3. /\ u \in [0 .. N + 1 -> Val] /\ u[0] = v
        /\ \A i \in 1 .. N + 1 : i - 1 \in 0 .. N + 1 /\ u[i] = Next1(u[i - 1])
    <3>1. \A i \in 1 .. N + 1 : i - 1 \in 0 .. N + 1
      BY <1>1
    <3> HIDE DEF next, Next1
    <3> QED
      BY <2>1, <2>2, <3>1 DEF Iterates
  <2>4. u[1] = u1
    <3>1. 1 \in 1 .. N + 1 /\ 1 - 1 = 0
      BY <1>1
    <3> QED
      BY <2>3, <3>1
  <2> DEFINE S == {j \in Nat : j + 1 <= N => c[N - j][u[j + 1]] = N - j}
  <2>5. 0 \in S
    <3>1. N - 0 = N /\ 0 + 1 = 1
      BY <1>1
    <3> QED
      BY <2>4, <3>1
  <2>6. ASSUME NEW j \in S PROVE j + 1 \in S
    <3> SUFFICES ASSUME (j + 1) + 1 <= N PROVE c[N - (j + 1)][u[(j + 1) + 1]] = N - (j + 1)
      OBVIOUS
    <3>1. /\ j \in Nat /\ j + 1 <= N /\ N - j \in 0 .. N /\ N - j # 0
          /\ (N - j) - 1 = N - (j + 1) /\ N - (j + 1) \in Nat
          /\ N - (j + 1) \in 0 .. N
          /\ j + 1 \in 0 .. N + 1 /\ (j + 1) + 1 \in 1 .. N + 1 /\ ((j + 1) + 1) - 1 = j + 1
      BY <1>1
    <3>2. c[N - j][u[j + 1]] = N - j
      BY <3>1
    <3>3. u[j + 1] \in Val /\ u[(j + 1) + 1] = Next1(u[j + 1])
      BY <3>1, <2>3
    <3> PICK w : w = u[j + 1]
      OBVIOUS
    <3>4. c[N - j][w] = IF ~ Hopping(w) THEN 0 ELSE 1 + c[(N - j) - 1][heap[w].flds[1]]
      BY <3>1, <3>3, <1>2 DEF IsHops
    <3>5. Hopping(w)
      BY <3>1, <3>2, <3>4
    <3>6. heap[w].flds[1] \in Val /\ c[N - (j + 1)] \in [Val -> Nat]
      BY <3>1, <3>5, <1>1, <1>2, HopType DEF IsHops
    <3>7. N - j = 1 + c[N - (j + 1)][heap[w].flds[1]]
      BY <3>1, <3>2, <3>4, <3>5
    <3>8. c[N - (j + 1)][heap[w].flds[1]] = N - (j + 1)
      BY <3>1, <3>6, <3>7
    <3> QED
      BY <3>3, <3>5, <3>8
  <2>7. Nat \subseteq S
    <3> HIDE DEF S
    <3>1. S \subseteq Nat
      BY DEF S
    <3> QED
      BY <2>5, <2>6, <3>1, SetInduction
  <2>8. ASSUME NEW i \in 0 .. N PROVE Hopping(u[i]) /\ u[i] \in X
    <3>1. Hopping(u[i])
      <4>1. CASE i = 0
        BY <4>1, <2>3
      <4>2. CASE i # 0
        <5>1. i - 1 \in Nat /\ (i - 1) + 1 <= N /\ (i - 1) + 1 = i /\ N - (i - 1) \in 0 .. N
              /\ N - (i - 1) # 0
          BY <4>2, <1>1
        <5>2. c[N - (i - 1)][u[i]] # 0
          BY <5>1, <2>7
        <5>3. u[i] \in Val
          BY <2>3, <1>1
        <5> QED
          BY <5>1, <5>2, <5>3, <1>2 DEF IsHops
      <4> QED
        BY <4>1, <4>2
    <3> QED
      BY <3>1, <1>1, HopType DEF Hopping, CanTrace, NodesOf
  <2>9. PICK rank : Ranked(snap.heap, NodesOf(fromSpace), rank)
    BY DEF GraphInv, CopyInv, SnapGood
  <2>10. ASSUME NEW i \in 1 .. N PROVE rank[u[i]] < rank[u[i - 1]]
    <3>1. /\ i - 1 \in 0 .. N /\ i \in 0 .. N /\ i \in 1 .. N + 1
      BY <1>1
    <3> PICK w : w = u[i - 1]
      OBVIOUS
    <3>2. Hopping(w) /\ w \in X /\ w \in Addr /\ u[i] \in X
      BY <3>1, <2>8 DEF NodesOf
    <3>3. u[i] = heap[w].flds[1]
      BY <3>1, <3>2, <2>3
    <3>4. ~ IsCopied(w)
      BY <3>2, <3>3, <1>1 DEF IsCopied, CopyOf, Allocated, NodesOf, fromSpace, TypeOK, Space
    <3>5. heap[w] = snap.heap[w]
      BY <3>2, <3>4 DEF GraphInv, CopyInv, Originals
    <3> QED
      BY <3>2, <3>3, <3>5, <2>9 DEF Ranked, IsIndirection, Hopping
  <2>11. IsFiniteSet(X) /\ Cardinality(X) = N
    <3>1. fromSpace \in Space
      BY <1>1 DEF fromSpace, TypeOK, Space
    <3>2. IsFiniteSet(1 .. N) /\ Cardinality(1 .. N) = N
      BY <1>1, FS_Interval
    <3>0. PICK one, all : one = {fromSpace} /\ all = 1 .. N
      OBVIOUS
    <3>3. IsFiniteSet(one) /\ Cardinality(one) = 1 /\ IsFiniteSet(all) /\ Cardinality(all) = N
      BY <3>0, <3>2, FS_Singleton
    <3>4. X = one \X all
      BY <3>0, <3>1 DEF NodesOf, Addr
    <3>5. /\ IsFiniteSet(one \X all)
          /\ Cardinality(one \X all) = Cardinality(one) * Cardinality(all)
      BY <3>3, FS_Product
    <3> QED
      BY <3>3, <3>4, <3>5, <1>1
  <2> DEFINE d == [i \in 0 .. N |-> u[i]]
             ranks == [a \in X |-> rank[a]]
  <2>12. d \in [0 .. N -> X] /\ ranks \in [X -> Nat]
    BY <2>8, <2>9 DEF Ranked, NodesOf
  <2>13. \A i \in 1 .. N : ranks[d[i]] < ranks[d[i - 1]]
    <3>1. ASSUME NEW i \in 1 .. N PROVE ranks[d[i]] = rank[u[i]] /\ ranks[d[i - 1]] = rank[u[i - 1]]
      <4>1. i \in 0 .. N /\ i - 1 \in 0 .. N
        BY <1>1
      <4> QED
        BY <4>1, <2>8
    <3> HIDE DEF d, ranks
    <3> QED
      BY <3>1, <2>10
  <2>14. N < Cardinality(X)
    <3> HIDE DEF X, d, ranks
    <3> QED
      BY <1>1, <2>11, <2>12, <2>13, DescentBounded
  <2> QED
    BY <2>11, <2>14, <1>1
<1> QED
  BY <1>1, <1>2, <1>4, <1>5, <1>6

(* Hops counts up to N, and is 0 where nothing is followed ...             *)
LEMMA HopsNat ==
  ASSUME TypeOK, NEW v \in Val
  PROVE  Hops(v) \in 0 .. N /\ (~ Hopping(v) => Hops(v) = 0)
<1>1. PICK c : IsHops(c) /\ \A w \in Val : Hops(w) = c[N][w]
  BY HopsTable
<1>2. N \in Nat /\ N \in 0 .. N
  BY ConstantFacts
<1>3. c[N][v] \in 0 .. N
  BY <1>1, <1>2, HopsBounds
<1>4. ~ Hopping(v) => c[N][v] = 0
  BY <1>1, <1>2 DEF IsHops
<1> QED
  BY <1>1, <1>3, <1>4

(* ... said as one formula ...                                             *)
LEMMA HopsNatImplied == TypeOK => \A v \in Val : Hops(v) \in 0 .. N /\ (~ Hopping(v) => Hops(v) = 0)
BY HopsNat

(* ... that holds in the next state ...                                    *)
LEMMA HopsNatNext ==
  (TypeOK => \A v \in Val : Hops(v) \in 0 .. N /\ (~ Hopping(v) => Hops(v) = 0))'
BY HopsNatImplied, PTL

(* ... and does not change with memory as it is.                           *)
LEMMA HopsSame ==
  ASSUME heap' = heap, toSpace' = toSpace, NEW v
  PROVE  Hops(v)' = Hops(v)
BY ZenonT(60) DEF Hops, CanTrace, fromSpace

----------------------------------------------------------------------------
\* The parts of WorkLeft and their sum.
ToCopy   == {a \in Addr : CanTrace(a) /\ heap[a].kind \notin {"Free", "Ind"}}
Phases   == IF phase = "roots" THEN 2 ELSE 1
Fields2  == IF at \in Addr \X Fields THEN NF - at[2] ELSE 0
SlotHops == IF at # None THEN Hops(cur) + 1 ELSE 0

Sum(p, a, g, t, f, h) ==
  p + a * (PayloadWork + 1) + g * PayloadWork + t * SlotWork + f * SlotWork + h

WorkSum ==
  Sum(Phases, Cardinality(ToCopy), Cardinality(grey), Cardinality(todo \ {at}), Fields2, SlotHops)

(* What a slot and a payload count for.                                    *)
LEMMA WorkConstants == SlotWork \in Nat /\ PayloadWork \in Nat /\ PayloadWork = NF * SlotWork + 1
                       /\ SlotWork = N + 2 /\ NF \in Nat /\ NF >= 1 /\ N \in Nat
BY ConstantFacts DEF SlotWork, PayloadWork

(* The parts are numbers ...                                               *)
LEMMA WorkParts ==
  TypeOK /\ Control =>
    /\ Phases \in 1 .. 2 /\ Cardinality(ToCopy) \in Nat /\ IsFiniteSet(ToCopy)
    /\ Cardinality(grey) \in Nat /\ IsFiniteSet(grey)
    /\ Cardinality(todo \ {at}) \in Nat /\ IsFiniteSet(todo \ {at})
    /\ Fields2 \in Nat /\ SlotHops \in 0 .. N + 1
<1> SUFFICES ASSUME TypeOK, Control
             PROVE  /\ Phases \in 1 .. 2 /\ Cardinality(ToCopy) \in Nat /\ IsFiniteSet(ToCopy)
                    /\ Cardinality(grey) \in Nat /\ IsFiniteSet(grey)
                    /\ Cardinality(todo \ {at}) \in Nat /\ IsFiniteSet(todo \ {at})
                    /\ Fields2 \in Nat /\ SlotHops \in 0 .. N + 1
  OBVIOUS
<1>1. IsFiniteSet(ToCopy) /\ IsFiniteSet(grey) /\ IsFiniteSet(todo \ {at})
  <2>1. IsFiniteSet(ToCopy)
    BY AddrFinite, FS_Subset DEF ToCopy
  <2>2. IsFiniteSet(grey)
    BY AddrFinite, FS_Subset DEF TypeOK
  <2>3. IsFiniteSet(todo \ {at})
    <3>1. todo \ {at} \subseteq Root
      BY DEF TypeOK
    <3> QED
      BY <3>1, SemiSpaceAssumption, FS_Subset
  <2> QED
    BY <2>1, <2>2, <2>3
<1>2. Fields2 \in Nat
  <2>1. at \in Addr \X Fields => at[2] \in 1 .. NF
    BY DEF Fields
  <2> QED
    BY <2>1, ConstantFacts DEF Fields2
<1>3. SlotHops \in 0 .. N + 1
  <2>1. at # None => Hops(cur) \in 0 .. N
    BY HopsNat DEF Control
  <2> QED
    BY <2>1, ConstantFacts DEF SlotHops
<1> QED
  BY <1>1, <1>2, <1>3, FS_CardinalityType DEF Phases

(* ... in the next state too, and ...                                      *)
LEMMA WorkPartsNext ==
  (TypeOK /\ Control =>
    /\ Phases \in 1 .. 2 /\ Cardinality(ToCopy) \in Nat /\ IsFiniteSet(ToCopy)
    /\ Cardinality(grey) \in Nat /\ IsFiniteSet(grey)
    /\ Cardinality(todo \ {at}) \in Nat /\ IsFiniteSet(todo \ {at})
    /\ Fields2 \in Nat /\ SlotHops \in 0 .. N + 1)'
BY WorkParts, PTL

(* ... add up to WorkLeft.                                                 *)
LEMMA WorkLeftSum ==
  /\ phase # "mutator" => WorkLeft = WorkSum
  /\ phase' # "mutator" => WorkLeft' = WorkSum'
<1>1. 0 * SlotWork = 0
  BY WorkConstants
<1>2. phase # "mutator" => WorkLeft = WorkSum
  BY <1>1 DEF WorkLeft, WorkSum, Sum, ToCopy, Phases, Fields2, SlotHops
<1>3. phase' # "mutator" => WorkLeft' = WorkSum'
  BY <1>1 DEF WorkLeft, WorkSum, Sum, ToCopy, Phases, Fields2, SlotHops
<1> QED
  BY <1>2, <1>3

\* What a step does to the parts of the sum.
Shrinks(p, a, g, t, f, h, p2, a2, g2, t2, f2, h2) ==
  \/ p2 < p /\ a2 = a /\ g2 = g /\ t2 = t /\ f2 = f /\ h2 = h
  \/ p2 = p /\ a2 = a /\ g2 = g /\ t2 = t /\ f2 = f /\ h2 < h
  \/ p2 = p /\ a2 = a /\ g2 = g /\ t2 = t - 1 /\ f2 = f
  \/ p2 = p /\ a2 = a /\ g2 = g /\ t2 = t /\ f2 = f - 1
  \/ p2 = p /\ a2 = a /\ g2 = g - 1 /\ t2 = t /\ f = 0 /\ f2 = NF - 1
  \/ p2 = p /\ a2 = a - 1 /\ g2 \in {g, g + 1} /\ t2 = t /\ f2 = f /\ h2 = h

(* Then the sum shrinks.                                                   *)
LEMMA SumLess ==
  ASSUME NEW p \in 1 .. 2, NEW a \in Nat, NEW g \in Nat, NEW t \in Nat, NEW f \in Nat,
         NEW h \in 0 .. N + 1,
         NEW p2 \in 1 .. 2, NEW a2 \in Nat, NEW g2 \in Nat, NEW t2 \in Nat, NEW f2 \in Nat,
         NEW h2 \in 0 .. N + 1,
         Shrinks(p, a, g, t, f, h, p2, a2, g2, t2, f2, h2)
  PROVE  Sum(p, a, g, t, f, h) \in Nat /\ Sum(p2, a2, g2, t2, f2, h2) < Sum(p, a, g, t, f, h)
<1>0. PICK S \in Nat, P \in Nat : S = SlotWork /\ P = PayloadWork /\ S = N + 2 /\ P = NF * S + 1
  BY WorkConstants
<1>1. N \in Nat /\ NF \in Nat /\ NF >= 1
  BY WorkConstants
<1>2. \A x \in Int, y \in Nat : (x - 1) * y = x * y - y /\ (x + 1) * y = x * y + y
  OBVIOUS
<1>3. \A x, y \in Nat : x * y \in Nat
  OBVIOUS
<1>4. PICK aP, a2P, gP, g2P, tS, t2S, fS, f2S, nS \in Nat :
        /\ aP = a * (P + 1) /\ a2P = a2 * (P + 1) /\ gP = g * P /\ g2P = g2 * P
        /\ tS = t * S /\ t2S = t2 * S /\ fS = f * S /\ f2S = f2 * S /\ nS = NF * S
  BY <1>0, <1>1, <1>3
<1>5. /\ (a2 = a => a2P = aP) /\ (g2 = g => g2P = gP) /\ (t2 = t => t2S = tS) /\ (f2 = f => f2S = fS)
      /\ (a2 = a - 1 => a2P = aP - (P + 1)) /\ (g2 = g - 1 => g2P = gP - P) /\ (g2 = g + 1 => g2P = gP + P)
      /\ (t2 = t - 1 => t2S = tS - S) /\ (f2 = f - 1 => f2S = fS - S) /\ (f = 0 => fS = 0)
      /\ (f2 = NF - 1 => f2S = nS - S)
  BY <1>0, <1>1, <1>2, <1>4
<1>6. /\ Sum(p, a, g, t, f, h) = p + aP + gP + tS + fS + h
      /\ Sum(p2, a2, g2, t2, f2, h2) = p2 + a2P + g2P + t2S + f2S + h2
  BY <1>0, <1>4 DEF Sum
<1>7. p + aP + gP + tS + fS + h \in Nat
  BY <1>1
<1>8. p2 + a2P + g2P + t2S + f2S + h2 < p + aP + gP + tS + fS + h
  <2> HIDE DEF Sum
  <2>1. P = nS + 1
    BY <1>0, <1>4
  <2> HIDE <1>4, <1>0
  <2> QED
    BY <1>0, <1>1, <1>5, <2>1 DEF Shrinks
<1> QED
  BY <1>6, <1>7, <1>8

----------------------------------------------------------------------------
(* Each step of the collector, seen through the parts of the sum.          *)
LEMMA SumStep ==
  ASSUME IInv, IInv', phase # "mutator", phase' # "mutator",
         Shrinks(Phases, Cardinality(ToCopy), Cardinality(grey), Cardinality(todo \ {at}),
                 Fields2, SlotHops,
                 Phases', Cardinality(ToCopy)', Cardinality(grey)', Cardinality(todo \ {at})',
                 Fields2', SlotHops')
  PROVE  WorkLeft \in Nat /\ WorkLeft' < WorkLeft
<1>0. TypeOK /\ Control /\ TypeOK' /\ Control'
  BY DEF IInv
<1>1. PICK p \in 1 .. 2, a \in Nat, g \in Nat, t \in Nat, f \in Nat, h \in 0 .. N + 1 :
        /\ p = Phases /\ a = Cardinality(ToCopy) /\ g = Cardinality(grey)
        /\ t = Cardinality(todo \ {at}) /\ f = Fields2 /\ h = SlotHops
  BY <1>0, WorkParts
<1>2. PICK p2 \in 1 .. 2, a2 \in Nat, g2 \in Nat, t2 \in Nat, f2 \in Nat, h2 \in 0 .. N + 1 :
        /\ p2 = Phases' /\ a2 = Cardinality(ToCopy)' /\ g2 = Cardinality(grey)'
        /\ t2 = Cardinality(todo \ {at})' /\ f2 = Fields2' /\ h2 = SlotHops'
  BY <1>0, WorkPartsNext
<1>3. /\ WorkLeft = Sum(p, a, g, t, f, h) /\ WorkLeft' = Sum(p2, a2, g2, t2, f2, h2)
  BY <1>1, <1>2, WorkLeftSum DEF WorkSum
<1>4. Shrinks(p, a, g, t, f, h, p2, a2, g2, t2, f2, h2)
  BY <1>1, <1>2
<1>5. Sum(p, a, g, t, f, h) \in Nat /\ Sum(p2, a2, g2, t2, f2, h2) < Sum(p, a, g, t, f, h)
  BY <1>4, SumLess
<1> QED
  BY <1>3, <1>5

(* Objects are to be copied as before when memory stays as it is.          *)
LEMMA ToCopySame ==
  ASSUME heap' = heap, toSpace' = toSpace
  PROVE  ToCopy' = ToCopy
BY DEF ToCopy, CanTrace, fromSpace

(* A root left to trace becomes a slot with its hops.                      *)
LEMMA TakeRootWork ==
  ASSUME IInv, IInv', NEW r \in Root, TakeRoot(r)
  PROVE  WorkLeft \in Nat /\ WorkLeft' < WorkLeft
<1>1. /\ UNCHANGED <<heap, toSpace, phase, todo, grey>> /\ phase = "roots"
      /\ at = None /\ r \in todo /\ at' = r /\ todo \in SUBSET Root /\ IsFiniteSet(todo)
  BY SemiSpaceAssumption, FS_Subset DEF TakeRoot, IInv, TypeOK
<1>2. Phases' = Phases /\ ToCopy' = ToCopy
  BY <1>1, ToCopySame DEF Phases
<1>3. Cardinality(todo \ {at})' = Cardinality(todo \ {at}) - 1
  <2>1. todo \ {at} = todo
    BY <1>1, ConstantFacts DEF Slot
  <2>2. (todo \ {at})' = todo \ {r}
    BY <1>1
  <2> QED
    BY <2>1, <2>2, <1>1, FS_RemoveElement
<1>4. Fields2' = Fields2
  BY <1>1, ConstantFacts DEF Fields2, Slot
<1> QED
  BY <1>1, <1>2, <1>3, <1>4, SumStep DEF Shrinks

(* The phase changes.                                                      *)
LEMMA EndRootsWork ==
  ASSUME IInv, IInv', EndRoots
  PROVE  WorkLeft \in Nat /\ WorkLeft' < WorkLeft
<1>1. /\ UNCHANGED <<heap, toSpace, todo, grey, at, cur>>
      /\ phase = "roots" /\ phase' = "work" /\ at = None
  BY DEF EndRoots
<1>2. Phases' < Phases /\ ToCopy' = ToCopy
  BY <1>1, ToCopySame DEF Phases
<1>3. Fields2' = Fields2 /\ SlotHops' = SlotHops
  BY <1>1 DEF Fields2, SlotHops
<1> QED
  BY <1>1, <1>2, <1>3, SumStep DEF Shrinks

(* A queued payload becomes its first field and NF - 1 others.             *)
LEMMA PopWorkWork ==
  ASSUME IInv, IInv', PopWork
  PROVE  WorkLeft \in Nat /\ WorkLeft' < WorkLeft
<1>1. PICK a \in grey : at' = <<a, 1>> /\ grey' = grey \ {a}
  BY DEF PopWork
<1>2. /\ UNCHANGED <<heap, toSpace, phase, todo>> /\ phase = "work" /\ at = None
      /\ todo = {} /\ a \in Addr /\ grey \in SUBSET Addr /\ IsFiniteSet(grey)
  BY AddrFinite, FS_Subset DEF PopWork, IInv, TypeOK, Control
<1>3. Phases' = Phases /\ ToCopy' = ToCopy
  BY <1>2, ToCopySame DEF Phases
<1>4. Cardinality(grey)' = Cardinality(grey) - 1
  BY <1>1, <1>2, FS_RemoveElement
<1>5. (todo \ {at})' = todo \ {at}
  BY <1>2
<1>6. Fields2 = 0 /\ Fields2' = NF - 1
  BY <1>1, <1>2, ConstantFacts DEF Fields2, Slot
<1> QED
  BY <1>2, <1>3, <1>4, <1>5, <1>6, SumStep DEF Shrinks

(* One hop fewer.                                                          *)
LEMMA FollowIndWork ==
  ASSUME IInv, IInv', GraphInv, FollowInd
  PROVE  WorkLeft \in Nat /\ WorkLeft' < WorkLeft
<1>1. /\ UNCHANGED <<heap, toSpace, phase, todo, grey, at>> /\ at # None
      /\ Hopping(cur) /\ cur' = heap[cur].flds[1] /\ TypeOK
  BY DEF FollowInd, Hopping, IInv
<1>2. phase # "mutator"
  BY <1>1 DEF IInv, Control
<1>3. Phases' = Phases /\ ToCopy' = ToCopy /\ Fields2' = Fields2
  BY <1>1, ToCopySame DEF Phases, Fields2
<1>4. cur' \in Val /\ Hops(cur) = 1 + Hops(heap[cur].flds[1])
  BY <1>1, HopsEnd
<1>5. SlotHops' < SlotHops
  <2> PICK v : v = cur'
    OBVIOUS
  <2>1. Hops(v) \in Nat /\ Hops(cur) = 1 + Hops(v)
    BY <1>1, <1>4, HopsNat
  <2>2. Hops(v)' = Hops(v)
    BY <1>1, HopsSame
  <2>3. Hops(cur)' = Hops(v)'
    BY DEF Hops
  <2> QED
    BY <1>1, <2>1, <2>2, <2>3 DEF SlotHops
<1> QED
  BY <1>1, <1>2, <1>3, <1>5, SumStep DEF Shrinks

(* One object fewer to copy, one payload more in the queue at most.        *)
LEMMA CopyWork ==
  ASSUME IInv, IInv', GraphInv, Copy
  PROVE  WorkLeft \in Nat /\ WorkLeft' < WorkLeft
<1> USE ConstantFacts
<1> PICK new : new = <<toSpace, top + 1>>
  OBVIOUS
<1> PICK o : o = cur
  OBVIOUS
<1>1. /\ UNCHANGED <<toSpace, phase, todo, at>>
      /\ at # None /\ CanTrace(o) /\ o \in Addr /\ o[1] = fromSpace
      /\ fromSpace = 1 - toSpace /\ fromSpace # toSpace
      /\ toSpace \in {0, 1} /\ top \in Nat /\ heap \in [Addr -> Node]
      /\ top < N /\ heap[o].kind # "Ind"
  BY DEF Copy, CanTrace, fromSpace, IInv, TypeOK, Space
<1>2. /\ heap' = [heap EXCEPT ![new] = heap[o], ![o].kind = "Ind", ![o].flds[1] = new]
      /\ grey' = IF HasTraceableFields(heap[o].kind) THEN grey \cup {new} ELSE grey
      /\ cur' = new
  BY DEF Copy
<1>3. new \in Addr /\ new # o /\ new[1] = toSpace /\ new[2] = top + 1
  BY <1>1 DEF Addr, Space
<1>4. /\ heap'[new] = heap[o] /\ heap'[o].kind = "Ind"
      /\ \A a \in Addr : a # new /\ a # o => heap'[a] = heap[a]
  <2>1. heap[o] \in Node /\ heap[o].flds \in [Fields -> Val]
    BY <1>1, NodeFields DEF IInv
  <2> QED
    BY <2>1, <1>1, <1>2, <1>3 DEF Node
<1>5. phase # "mutator" /\ Phases' = Phases /\ Fields2' = Fields2
  BY <1>1 DEF IInv, Control, Phases, Fields2
<1>6. heap[o].kind # "Free"
  <2>1. \E v : OnTheWay(v, cur)
    <3>1. CASE at \in Root
      BY <3>1 DEF GraphInv, SlotRight
    <3>2. CASE at \in Addr \X Fields
      <4>1. at[1] \in Addr /\ Allocated(at[1])
        BY <3>2 DEF IInv, Control, Queued
      <4>2. PICK b \in Addr : IsCopied(b) /\ CopyOf(b) = at[1]
        BY <4>1 DEF GraphInv, CopyInv, OneToOne
      <4> QED
        BY <3>2, <4>2 DEF GraphInv, SlotRight
    <3> QED
      BY <3>1, <3>2, <1>1 DEF IInv, TypeOK, Slot
  <2>2. Before(cur)
    BY <2>1, <1>1, WayFrom DEF GraphInv
  <2>3. snap.heap[o].kind # "Free"
    BY <2>2, <1>1 DEF Before
  <2>4. heap[o] = snap.heap[o]
    BY <1>1 DEF IsCopied, GraphInv, CopyInv, Originals, NodesOf
  <2> QED
    BY <2>3, <2>4
<1>7. Cardinality(ToCopy)' = Cardinality(ToCopy) - 1
  <2>1. o \in ToCopy
    BY <1>1, <1>6 DEF ToCopy
  <2>2. \A v : CanTrace(v)' <=> CanTrace(v)
    BY <1>1 DEF CanTrace, fromSpace
  <2>3. ToCopy' = ToCopy \ {o}
    <3>1. ASSUME NEW a \in Addr PROVE a \in ToCopy' <=> a \in ToCopy \ {o}
      <4>1. CASE a = new
        BY <4>1, <2>2, <1>1, <1>3 DEF ToCopy, CanTrace
      <4>2. CASE a = o
        BY <4>2, <1>4 DEF ToCopy
      <4>3. CASE a # new /\ a # o
        BY <4>3, <2>2, <1>4 DEF ToCopy
      <4> QED
        BY <4>1, <4>2, <4>3
    <3> QED
      BY <3>1 DEF ToCopy
  <2>4. IsFiniteSet(ToCopy)
    BY WorkParts DEF IInv
  <2> QED
    BY <2>1, <2>3, <2>4, FS_RemoveElement
<1>8. Cardinality(grey)' \in {Cardinality(grey), Cardinality(grey) + 1}
  <2>1. IsFiniteSet(grey)
    BY WorkParts DEF IInv
  <2> QED
    BY <2>1, <1>2, FS_AddElement
<1>9. (todo \ {at})' = todo \ {at}
  BY <1>1
<1>10. SlotHops' = SlotHops
  <2>1. ~ Hopping(cur) /\ cur \in Val
    BY <1>1 DEF Hopping, Val
  <2>2. Hops(cur) = 0
    BY <2>1, HopsNat DEF IInv
  <2>3. ~ Hopping(new)'
    BY <1>1, <1>3 DEF Hopping, CanTrace, fromSpace
  <2>4. new \in Val
    BY <1>3 DEF Val
  <2>5. Hops(new)' = 0
    BY <2>3, <2>4, HopsNatNext DEF IInv
  <2>6. Hops(cur)' = Hops(new)'
    BY <1>2 DEF Hops
  <2> QED
    BY <2>2, <2>5, <2>6, <1>1 DEF SlotHops
<1> QED
  BY <1>1, <1>5, <1>7, <1>8, <1>9, <1>10, SumStep DEF Shrinks

(* The slot is done.                                                       *)
LEMMA StoreRootWork ==
  ASSUME IInv, IInv', StoreRoot
  PROVE  WorkLeft \in Nat /\ WorkLeft' < WorkLeft
<1>1. /\ UNCHANGED <<heap, toSpace, phase, grey>> /\ at \in Root /\ ~ CanTrace(cur)
      /\ todo' = todo \ {at} /\ at' = None /\ at # None /\ at \notin Addr \X Fields
      /\ None \notin Root /\ None \notin Addr \X Fields /\ todo \subseteq Root
  BY ConstantFacts DEF StoreRoot, Slot, IInv, TypeOK
<1>2. phase # "mutator" /\ cur \in Val /\ TypeOK
  BY <1>1 DEF IInv, Control
<1>3. Phases' = Phases /\ ToCopy' = ToCopy /\ Fields2' = Fields2
  BY <1>1, ToCopySame DEF Phases, Fields2
<1>4. (todo \ {at})' = todo \ {at}
  BY <1>1
<1>5. SlotHops' < SlotHops
  BY <1>1, <1>2, HopsNat DEF SlotHops, Hopping
<1> QED
  BY <1>1, <1>2, <1>3, <1>4, <1>5, SumStep DEF Shrinks

(* The slot is done, or the next field follows.                            *)
LEMMA StoreFieldWork ==
  ASSUME IInv, IInv', StoreField
  PROVE  WorkLeft \in Nat /\ WorkLeft' < WorkLeft
<1> USE ConstantFacts
<1>1. PICK a \in Addr, i \in Fields : at = <<a, i>>
  BY DEF StoreField
<1>2. /\ UNCHANGED <<toSpace, phase, todo, grey>>
      /\ at \in Addr \X Fields /\ at # None /\ at \notin Root
      /\ at[1] = a /\ at[2] = i /\ ~ CanTrace(cur) /\ i \in 1 .. NF
      /\ heap' = [heap EXCEPT ![a].flds[i] = cur]
      /\ \/ i < NF /\ at' = <<a, i + 1>>
         \/ ~ (i < NF) /\ at' = None
  BY <1>1 DEF StoreField, Slot, Fields
<1>3. /\ todo = {} /\ a[1] = toSpace /\ phase # "mutator" /\ cur \in Val /\ TypeOK
      /\ heap \in [Addr -> Node] /\ toSpace \in {0, 1}
  BY <1>2 DEF IInv, Control, Queued, Allocated, TypeOK, Space
<1>4. Phases' = Phases /\ (todo \ {at})' = todo \ {at}
  BY <1>2, <1>3 DEF Phases
<1>5. ToCopy' = ToCopy
  <2>1. \A v : CanTrace(v)' <=> CanTrace(v)
    BY <1>2 DEF CanTrace, fromSpace
  <2>2. \A b \in Addr : heap'[b].kind = heap[b].kind
    BY <1>2, <1>3 DEF Node
  <2> QED
    BY <2>1, <2>2 DEF ToCopy
<1>6. Fields2 = NF - i
  BY <1>2 DEF Fields2
<1>7. CASE i < NF
  <2>1. at' \in Addr \X Fields /\ at'[2] = i + 1
    BY <1>2, <1>7 DEF Fields
  <2>2. Fields2' = NF - (i + 1)
    BY <2>1 DEF Fields2
  <2>3. Fields2' = Fields2 - 1
    BY <2>2, <1>2, <1>6
  <2> QED
    BY <2>3, <1>2, <1>3, <1>4, <1>5, SumStep DEF Shrinks
<1>8. CASE ~ (i < NF)
  <2>1. at' = None /\ i = NF /\ None \notin Addr \X Fields
    BY <1>2, <1>8 DEF Slot
  <2>2. Fields2' = Fields2
    BY <2>1, <1>6 DEF Fields2
  <2>3. SlotHops' < SlotHops
    BY <2>1, <1>2, <1>3, HopsNat DEF SlotHops, Hopping
  <2> QED
    BY <2>2, <2>3, <1>2, <1>3, <1>4, <1>5, SumStep DEF Shrinks
<1> QED
  BY <1>7, <1>8

(* There was something left: the phase itself.                             *)
LEMMA EndGCWork ==
  ASSUME IInv, EndGC
  PROVE  WorkLeft \in Nat /\ WorkLeft' < WorkLeft
<1>1. phase = "work" /\ phase' = "mutator"
  BY DEF EndGC, TracingDone
<1>2. WorkLeft' = 0
  BY <1>1 DEF WorkLeft
<1>3. PICK p \in 1 .. 2, a \in Nat, g \in Nat, t \in Nat, f \in Nat, h \in 0 .. N + 1 :
        WorkLeft = Sum(p, a, g, t, f, h)
  BY <1>1, WorkParts, WorkLeftSum DEF IInv, WorkSum
<1>4. PICK S \in Nat, P \in Nat : S = SlotWork /\ P = PayloadWork
  BY WorkConstants
<1>5. N \in Nat /\ \A x, y \in Nat : x * y \in Nat
  BY ConstantFacts
<1>6. PICK aP, gP, tS, fS \in Nat : aP = a * (P + 1) /\ gP = g * P /\ tS = t * S /\ fS = f * S
  BY <1>4, <1>5
<1>7. Sum(p, a, g, t, f, h) = p + aP + gP + tS + fS + h
  BY <1>4, <1>6 DEF Sum
<1>8. p + aP + gP + tS + fS + h \in Nat /\ p + aP + gP + tS + fS + h > 0
  <2> HIDE <1>6, <1>3, <1>4
  <2> QED
    BY <1>5
<1> QED
  BY <1>2, <1>3, <1>7, <1>8

(* A collection, once begun, comes to its end: every step of it decreases  *)
(* a number, however the work list grows (mm_traceSupply_Buffer_Run).      *)
THEOREM CollectionEnds == Spec => CollectionAdvances
<1>1. ASSUME GInv, GInv', [Next]_vars, phase # "mutator", ~ UNCHANGED vars
      PROVE  WorkLeft \in Nat /\ WorkLeft' < WorkLeft
  <2>1. IInv /\ IInv' /\ GraphInv
    BY <1>1 DEF GInv
  <2>2. CASE Collector
    BY <2>1, <2>2, TakeRootWork, EndRootsWork, PopWorkWork, FollowIndWork, CopyWork,
       StoreRootWork, StoreFieldWork, EndGCWork DEF Collector
  <2>3. CASE Mutator \/ DoGC
    BY <2>3, <1>1 DEF Mutator, DoGC, Alloc, Update, SetField, Load, MutatorStep
  <2> QED
    BY <2>2, <2>3, <1>1 DEF Next
<1>2. GInv /\ GInv' /\ [Next]_vars =>
        [phase # "mutator" => WorkLeft \in Nat /\ WorkLeft' < WorkLeft]_vars
  BY <1>1
<1> QED
  BY <1>2, GraphInvariance, PTL DEF Spec, CollectionAdvances
=============================================================================
