---------------------------- MODULE WeakPtr_proofs ----------------------------
(***************************************************************************)
(* For any number of objects and weak pointers: no finalizer is run or     *)
(* handed out twice, whatever the order of explicit finalization,          *)
(* collections, finalizers that collect and the end of the program; what a *)
(* weak pointer gives is never stale, nor is the list that a collection    *)
(* starts with; and what a collection keeps has a live key.                *)
(*                                                                         *)
(* For the first, two mechanisms have to agree.  A weak pointer of the     *)
(* program keeps its value, and the finalizer field becomes a tombstone.   *)
(* One of the runtime has no value; what shows that it is done with is     *)
(* that key and finalizer are 0, which only the list shows, for it is      *)
(* never in the program's hands.                                           *)
(***************************************************************************)
EXTENDS WeakPtr, TLAPS

Pointer   == Obj \cup {None}
Finalizer == Obj \cup {None, NoFinalizer, BeingFinalized, CFinalizer}

Types ==
  /\ edges \in Graphs
  /\ roots \subseteq Node
  /\ wp \in [Wp -> [key : Pointer, val : Pointer, fin : Finalizer]]
  /\ unused \subseteq Wp
  /\ ptrList \subseteq Wp /\ ptrListNew \subseteq Wp /\ exitLeft \subseteq Wp
  /\ finQue \in Seq([wp : Wp, fin : Obj])
  /\ given \in [Wp -> Nat]
  /\ missed \in Nat

\* a weak pointer that is not made yet
Blank(w) == wp[w].key = None /\ wp[w].val = None /\ wp[w].fin = None /\ given[w] = 0

\* the finalizer has been given away at most once, and then a mark tells
Marked(w) ==
  /\ given[w] = 0 \/ (given[w] = 1 /\ wp[w].fin \in {None, BeingFinalized})
  /\ wp[w].val = None /\ given[w] = 1 => wp[w].key = None /\ wp[w].fin = None

\* those of the runtime have no value, and a C finalizer until it is run
Kinds(w) == IF wp[w].val = None THEN wp[w].fin \in {None, CFinalizer}
                                ELSE wp[w].fin \notin {None, CFinalizer}

\* a weak pointer in order, with the program or not
InOrder(w) ==
  /\ w \in unused => Blank(w)
  /\ Marked(w) /\ Kinds(w)
  /\ w \in roots => wp[w].val # None

\* the dead ones about to be finalized have keys: FindLive crashes otherwise
DeadHaveKeys == pc = "finalize" => \A w \in ptrList : wp[w].key # None

IInv == Types /\ (\A w \in Wp : InOrder(w)) /\ DeadHaveKeys

LEMMA ConstantFacts ==
  /\ Obj \cap Wp = {} /\ None \notin Node
  /\ Graphs \subseteq [Obj -> SUBSET Obj]
  /\ NoFinalizer \notin Node /\ BeingFinalized \notin Node /\ CFinalizer \notin Node
  /\ None \notin {NoFinalizer, BeingFinalized, CFinalizer}
  /\ CFinalizer \notin {NoFinalizer, BeingFinalized} /\ NoFinalizer # BeingFinalized
BY WeakPtrAssumption

----------------------------------------------------------------------------
(* What each of the ways to finalize does to the weak pointer.             *)

\* One that a step changes nothing of.
LEMMA OtherStep ==
  ASSUME NEW v \in Wp, InOrder(v), wp'[v] = wp[v], given'[v] = given[v],
         v \in unused' => v \in unused, v \in roots' => v \in roots
  PROVE  InOrder(v)'
<1>1. v \in unused' => Blank(v)'
  BY DEF InOrder, Blank
<1>2. Marked(v)'
  BY DEF InOrder, Marked
<1>3. Kinds(v)'
  BY DEF InOrder, Kinds
<1>4. v \in roots' => (wp[v].val # None)'
  BY DEF InOrder
<1> QED
  BY <1>1, <1>2, <1>3, <1>4 DEF InOrder

\* A step that leaves the weak pointers alone, and those in unused and with
\* the program too, but for objects.
LEMMA QuietStep ==
  ASSUME IInv, UNCHANGED <<wp, given, unused>>, roots' \subseteq roots \cup Obj
  PROVE  \A w \in Wp : InOrder(w)'
<1> SUFFICES ASSUME NEW w \in Wp PROVE InOrder(w)'
  OBVIOUS
<1>1. InOrder(w)
  BY DEF IInv
<1>2. w \in roots' => w \in roots
  BY ConstantFacts
<1> QED
  BY <1>1, <1>2, OtherStep

\* The returned finalizer is an object.
LEMMA ReturnedType ==
  ASSUME Types, NEW w \in Wp, Kinds(w), wp[w].val # None, Returned(w) # None
  PROVE  Returned(w) \in Obj
BY ConstantFacts DEF Types, Kinds, Returned, Finalizer

LEMMA TombstoneStep ==
  ASSUME IInv, NEW w \in Wp, wp[w].val # None,
         wp' = Tombstoned(w), given' = Counted(w), unused' = unused,
         roots' \subseteq roots \cup Obj
  PROVE  /\ \A v \in Wp : InOrder(v)'
         /\ wp' \in [Wp -> [key : Pointer, val : Pointer, fin : Finalizer]]
         /\ given' \in [Wp -> Nat]
         /\ \A v \in Wp : wp'[v].key = wp[v].key
<1> USE ConstantFacts DEF IInv, Types
<1>1. /\ wp'[w] = [wp[w] EXCEPT !.fin = BeingFinalized]
      /\ \A v \in Wp : v # w => wp'[v] = wp[v]
      /\ wp' \in [Wp -> [key : Pointer, val : Pointer, fin : Finalizer]]
  <2>1. wp[w] \in [key : Pointer, val : Pointer, fin : Finalizer]
    OBVIOUS
  <2>2. [wp[w] EXCEPT !.fin = BeingFinalized] \in [key : Pointer, val : Pointer, fin : Finalizer]
    BY <2>1 DEF Finalizer
  <2>3. wp' = [wp EXCEPT ![w] = [wp[w] EXCEPT !.fin = BeingFinalized]]
    BY DEF Tombstoned
  <2> QED
    BY <2>2, <2>3
<1>2. /\ given'[w] = IF Returned(w) = None THEN given[w] ELSE given[w] + 1
      /\ \A v \in Wp : v # w => given'[v] = given[v]
      /\ given' \in [Wp -> Nat]
  BY DEF Counted
<1>3. wp'[w].fin = BeingFinalized /\ wp'[w].val = wp[w].val /\ wp'[w].key = wp[w].key
  BY <1>1
<1>4. InOrder(w)'
  <2>1. w \notin unused /\ Kinds(w) /\ Marked(w)
    BY DEF InOrder, Blank
  <2>2. given'[w] \in {0, 1}
    BY <1>2, <2>1 DEF Marked, Kinds, Returned
  <2> QED
    <3>1. Marked(w)'
      BY <1>3, <2>2 DEF Marked
    <3>2. Kinds(w)'
      BY <1>3 DEF Kinds
    <3> QED
      BY <1>3, <2>1, <3>1, <3>2 DEF InOrder
<1>5. ASSUME NEW v \in Wp, v # w PROVE InOrder(v)'
  <2>1. InOrder(v) /\ (v \in roots' => v \in roots)
    OBVIOUS
  <2> QED
    BY <1>1, <1>2, <1>5, <2>1, OtherStep
<1> QED
  BY <1>1, <1>2, <1>3, <1>4, <1>5

LEMMA FreedStep ==
  ASSUME IInv, NEW w \in Wp, wp[w].val = None, Freed(w),
         wp[w].key # None \/ wp[w].fin # None,
         UNCHANGED <<unused, roots>>
  PROVE  /\ \A v \in Wp : InOrder(v)'
         /\ wp' \in [Wp -> [key : Pointer, val : Pointer, fin : Finalizer]]
         /\ given' \in [Wp -> Nat]
         /\ \A v \in Wp : v # w => wp'[v].key = wp[v].key
<1> USE ConstantFacts DEF IInv, Types
<1>1. /\ wp'[w].key = None /\ wp'[w].fin = None /\ wp'[w].val = wp[w].val
      /\ \A v \in Wp : v # w => wp'[v] = wp[v]
      /\ wp' \in [Wp -> [key : Pointer, val : Pointer, fin : Finalizer]]
  <2> DEFINE done == [wp[w] EXCEPT !.key = None, !.fin = None]
  <2>1. wp[w] \in [key : Pointer, val : Pointer, fin : Finalizer]
    OBVIOUS
  <2>2. done \in [key : Pointer, val : Pointer, fin : Finalizer]
    BY <2>1 DEF Finalizer, Pointer
  <2>3. done.key = None /\ done.fin = None /\ done.val = wp[w].val
    BY <2>1
  <2>4. wp' = [wp EXCEPT ![w] = done]
    BY DEF Freed
  <2> HIDE DEF done
  <2> QED
    BY <2>2, <2>3, <2>4
<1>2. /\ given'[w] = given[w] + 1
      /\ \A v \in Wp : v # w => given'[v] = given[v]
      /\ given' \in [Wp -> Nat]
  BY DEF Freed
<1>3. given[w] = 0 /\ w \notin unused /\ w \notin roots
  BY DEF InOrder, Marked, Blank
<1>4. InOrder(w)'
  <2>1. Marked(w)'
    BY <1>1, <1>2, <1>3 DEF Marked
  <2>2. Kinds(w)'
    BY <1>1 DEF Kinds
  <2> QED
    BY <1>3, <2>1, <2>2 DEF InOrder
<1>5. ASSUME NEW v \in Wp, v # w PROVE InOrder(v)'
  <2>1. InOrder(v)
    OBVIOUS
  <2> QED
    BY <1>1, <1>2, <1>5, <2>1, OtherStep
<1> QED
  BY <1>1, <1>2, <1>4, <1>5

LEMMA MakeStep ==
  ASSUME IInv, NEW w \in Wp, NEW key \in Obj, NEW val \in Pointer, NEW fin \in Finalizer,
         Make(w, key, val, fin),
         IF val = None THEN fin = CFinalizer /\ roots' = roots
                       ELSE fin \in Obj \cup {NoFinalizer} /\ roots' = roots \cup {w}
  PROVE  IInv'
<1> USE ConstantFacts DEF IInv, Types, Make, quevars
<1>1. /\ wp'[w] = [key |-> key, val |-> val, fin |-> fin]
      /\ \A v \in Wp : v # w => wp'[v] = wp[v]
      /\ wp' \in [Wp -> [key : Pointer, val : Pointer, fin : Finalizer]]
  BY DEF Pointer
<1>2. ptrList' \subseteq Wp /\ exitLeft' \subseteq Wp
  BY DEF AddToList
<1>3. Types'
  BY <1>1, <1>2 DEF Node, gcvars
<1>4. InOrder(w)'
  <2>1. given[w] = 0 /\ given'[w] = 0 /\ w \notin unused' /\ (val = None => w \notin roots)
    BY DEF InOrder, Blank
  <2>2. wp[w]'.key = key /\ wp[w]'.val = val /\ wp[w]'.fin = fin
    BY <1>1
  <2>3. Marked(w)'
    BY <1>1, <2>1 DEF Marked
  <2>4. Kinds(w)'
    BY <2>2 DEF Kinds, Node
  <2> QED
    BY <2>1, <2>2, <2>3, <2>4 DEF InOrder
<1>5. ASSUME NEW v \in Wp, v # w PROVE InOrder(v)'
  <2>1. InOrder(v) /\ given' = given
    OBVIOUS
  <2>2. (v \in roots' => v \in roots) /\ (v \in unused' => v \in unused)
    BY <1>5
  <2> QED
    BY <1>1, <1>5, <2>1, <2>2, OtherStep
<1>6. DeadHaveKeys'
  BY DEF DeadHaveKeys
<1> QED
  BY <1>3, <1>4, <1>5, <1>6

----------------------------------------------------------------------------
LEMMA MutatorStep ==
  ASSUME IInv, Mutator
  PROVE  IInv'
<1> USE ConstantFacts
<1>1. ASSUME NEW n \in Node, Drop(n) PROVE IInv'
  <2>1. UNCHANGED <<wp, given, unused>> /\ roots' \subseteq roots \cup Obj
    BY <1>1 DEF Drop
  <2>2. Types' /\ DeadHaveKeys'
    BY <1>1 DEF Drop, Running, gcvars, exitvars, quevars, IInv, Types, DeadHaveKeys
  <2> QED
    BY <2>1, <2>2, QuietStep DEF IInv
<1>2. ASSUME NEW n \in Obj, NEW m \in Obj, Load(n, m) PROVE IInv'
  <2>1. UNCHANGED <<wp, given, unused>> /\ roots' \subseteq roots \cup Obj
    BY <1>2 DEF Load
  <2>2. Types' /\ DeadHaveKeys'
    BY <1>2 DEF Load, Running, gcvars, exitvars, quevars, IInv, Types, DeadHaveKeys, Node
  <2> QED
    BY <2>1, <2>2, QuietStep DEF IInv
<1>3. ASSUME NEW w \in Wp, DerefWeakPtr(w) PROVE IInv'
  <2>1. Deref(w) \in Obj
    BY <1>3 DEF DerefWeakPtr, Deref, IInv, Types, Pointer
  <2>2. UNCHANGED <<wp, given, unused>> /\ roots' \subseteq roots \cup Obj
    BY <1>3, <2>1 DEF DerefWeakPtr
  <2>3. Types' /\ DeadHaveKeys'
    BY <1>3, <2>1 DEF DerefWeakPtr, Running, gcvars, exitvars, quevars, IInv, Types, DeadHaveKeys, Node
  <2> QED
    BY <2>2, <2>3, QuietStep DEF IInv
<1>4. ASSUME NEW w \in Wp, FinalizeWeakPtr(w) PROVE IInv'
  <2>1. wp[w].val # None /\ Kinds(w)
    BY <1>4 DEF FinalizeWeakPtr, IInv, InOrder
  <2>2. roots' \subseteq roots \cup Obj
    BY <1>4, <2>1, ReturnedType DEF FinalizeWeakPtr, IInv
  <2>3. /\ \A v \in Wp : InOrder(v)'
        /\ wp' \in [Wp -> [key : Pointer, val : Pointer, fin : Finalizer]]
        /\ given' \in [Wp -> Nat]
    BY <1>4, <2>1, <2>2, TombstoneStep DEF FinalizeWeakPtr
  <2>4. Types' /\ DeadHaveKeys'
    BY <1>4, <2>2, <2>3
       DEF FinalizeWeakPtr, Running, gcvars, exitvars, quevars, IInv, Types, DeadHaveKeys, Node
  <2> QED
    BY <2>3, <2>4 DEF IInv
<1>5. ASSUME NEW w \in Wp, NEW key \in Obj, RegisterFinalization(w, key) PROVE IInv'
  BY <1>5, MakeStep DEF RegisterFinalization, Pointer, Finalizer
<1>6. ASSUME NEW w \in Wp, NEW key \in Obj, NEW val \in Obj, NEW fin \in Obj \cup {NoFinalizer},
             NewWeakPtr(w, key, val, fin)
      PROVE  IInv'
  BY <1>6, MakeStep DEF NewWeakPtr, Pointer, Finalizer, Node
<1> QED
  BY <1>1, <1>2, <1>3, <1>4, <1>5, <1>6 DEF Mutator

LEMMA CollectorStep ==
  ASSUME IInv, StartGC \/ Collector
  PROVE  IInv'
<1> USE ConstantFacts
<1>1. CASE StartGC
  <2>1. UNCHANGED <<wp, given, unused, roots>>
    BY <1>1 DEF StartGC
  <2>2. Types' /\ DeadHaveKeys'
    BY <1>1 DEF StartGC, exitvars, quevars, IInv, Types, DeadHaveKeys
  <2> QED
    BY <2>1, <2>2, QuietStep DEF IInv
<1>2. CASE FindLive
  <2>1. UNCHANGED <<wp, given, unused, roots>>
    BY <1>2 DEF FindLive
  <2>2. Types' /\ DeadHaveKeys'
    BY <1>2 DEF FindLive, quevars, IInv, Types, DeadHaveKeys
  <2> QED
    BY <2>1, <2>2, QuietStep DEF IInv
<1>3. ASSUME NEW w \in Wp, FinalizeDead(w) PROVE IInv'
  <2> USE <1>3 DEF FinalizeDead
  <2>1. w \in ptrList /\ wp[w].key # None /\ \A v \in ptrList : v \in Wp /\ wp[v].key # None
    BY DEF IInv, DeadHaveKeys, Types
  <2>2. CASE wp[w].val = None
    <3>1. /\ \A v \in Wp : InOrder(v)'
          /\ wp' \in [Wp -> [key : Pointer, val : Pointer, fin : Finalizer]]
          /\ given' \in [Wp -> Nat]
          /\ \A v \in Wp : v # w => wp'[v].key = wp[v].key
      BY <2>1, <2>2, FreedStep
    <3>2. Types' /\ DeadHaveKeys'
      BY <2>1, <2>2, <3>1 DEF exitvars, quevars, IInv, Types, DeadHaveKeys
    <3> QED
      BY <3>1, <3>2 DEF IInv
  <2>3. CASE wp[w].val # None
    <3>1. Kinds(w)
      BY DEF IInv, InOrder
    <3>2. /\ \A v \in Wp : InOrder(v)'
          /\ wp' \in [Wp -> [key : Pointer, val : Pointer, fin : Finalizer]]
          /\ given' \in [Wp -> Nat]
          /\ \A v \in Wp : wp'[v].key = wp[v].key
      BY <2>3, TombstoneStep
    <3>3. finQue' \in Seq([wp : Wp, fin : Obj])
      <4>1. CASE Returned(w) = None
        BY <2>3, <4>1 DEF IInv, Types
      <4>2. CASE Returned(w) # None
        <5> DEFINE S == [wp : Wp, fin : Obj]
                   q == [wp |-> w, fin |-> Returned(w)]
        <5>1. q \in S
          BY <2>3, <3>1, <4>2, ReturnedType DEF IInv
        <5>2. finQue \in Seq(S)
          BY DEF IInv, Types
        <5>3. finQue' = Append(finQue, q)
          BY <2>3, <4>2
        <5> HIDE DEF FinalizeDead, q, S
        <5>4. finQue' \in Seq(S)
          BY <5>1, <5>2, <5>3
        <5> QED
          BY <5>4 DEF S
      <4> QED
        BY <4>1, <4>2
    <3>4. Types' /\ DeadHaveKeys'
      BY <2>1, <2>3, <3>2, <3>3 DEF exitvars, quevars, IInv, Types, DeadHaveKeys
    <3> QED
      BY <3>2, <3>4 DEF IInv
  <2> QED
    BY <2>2, <2>3
<1>4. CASE EndGC
  <2>1. UNCHANGED <<wp, given, unused, roots>>
    BY <1>4 DEF EndGC
  <2>2. Types' /\ DeadHaveKeys'
    BY <1>4 DEF EndGC, quevars, IInv, Types, DeadHaveKeys
  <2> QED
    BY <2>1, <2>2, QuietStep DEF IInv
<1> QED
  BY <1>1, <1>2, <1>3, <1>4 DEF Collector

LEMMA FinalizersStep ==
  ASSUME IInv, Finalizers
  PROVE  IInv'
<1> USE ConstantFacts
<1>1. CASE RunFinalizer
  <2>1. Head(finQue).fin \in Obj /\ Tail(finQue) \in Seq([wp : Wp, fin : Obj])
    <3> DEFINE S == [wp : Wp, fin : Obj]
    <3>1. finQue \in Seq(S) /\ finQue # <<>>
      BY <1>1 DEF RunFinalizer, IInv, Types
    <3>2. \A q \in S : q.fin \in Obj
      OBVIOUS
    <3> HIDE DEF S
    <3>3. Head(finQue) \in S /\ Tail(finQue) \in Seq(S)
      BY <3>1
    <3> QED
      BY <3>2, <3>3 DEF S
  <2>2. UNCHANGED <<wp, given, unused>> /\ roots' \subseteq roots \cup Obj
    BY <1>1, <2>1 DEF RunFinalizer
  <2>3. Types' /\ DeadHaveKeys'
    BY <1>1, <2>1 DEF RunFinalizer, gcvars, exitvars, quevars, IInv, Types, DeadHaveKeys, Node
  <2> QED
    BY <2>2, <2>3, QuietStep DEF IInv
<1>2. CASE EndFinalizer \/ EndPost
  <2>1. UNCHANGED <<wp, given, unused, roots>>
    BY <1>2 DEF EndFinalizer, EndPost, heapvars
  <2>2. Types' /\ DeadHaveKeys'
    BY <1>2 DEF EndFinalizer, EndPost, heapvars, gcvars, exitvars, quevars, IInv, Types, DeadHaveKeys
  <2> QED
    BY <2>1, <2>2, QuietStep DEF IInv
<1> QED
  BY <1>1, <1>2 DEF Finalizers

LEMMA AtExitStep ==
  ASSUME IInv, AtExit
  PROVE  IInv'
<1> USE ConstantFacts
<1>1. CASE Exit \/ EndExitFinalizer \/ EndExit
  <2>1. UNCHANGED <<wp, given, unused, roots>>
    BY <1>1 DEF Exit, EndExitFinalizer, EndExit, heapvars
  <2>2. Types' /\ DeadHaveKeys'
    BY <1>1 DEF Exit, EndExitFinalizer, EndExit, heapvars, gcvars, exitvars, quevars,
                IInv, Types, DeadHaveKeys
  <2> QED
    BY <2>1, <2>2, QuietStep DEF IInv
<1>2. ASSUME NEW w \in Wp, ExitFinalize(w) PROVE IInv'
  <2> USE <1>2 DEF ExitFinalize
  <2>1. /\ UNCHANGED <<edges, unused, ptrList, ptrListNew, finQue, missed>>
        /\ exitLeft' = exitLeft \ {w} /\ pc = "exit"
    BY DEF gcvars, quevars
  <2>2. CASE UNCHANGED <<roots, wp, given>> /\ pc' = "crash"
    <3>1. Types' /\ DeadHaveKeys'
      BY <2>1, <2>2 DEF IInv, Types, DeadHaveKeys
    <3> QED
      BY <2>1, <2>2, <3>1, QuietStep DEF IInv
  <2>3. CASE wp[w].val = None /\ wp[w].fin # None /\ Freed(w) /\ UNCHANGED <<roots, pc>>
    <3>1. /\ \A v \in Wp : InOrder(v)'
          /\ wp' \in [Wp -> [key : Pointer, val : Pointer, fin : Finalizer]]
          /\ given' \in [Wp -> Nat]
      BY <2>1, <2>3, FreedStep
    <3> QED
      BY <2>1, <2>3, <3>1 DEF IInv, Types, DeadHaveKeys
  <2>4. CASE /\ wp[w].val # None /\ wp' = Tombstoned(w) /\ given' = Counted(w)
             /\ roots' = roots \cup ({Returned(w)} \ {None})
             /\ pc' \in {"exit", "run"}
    <3>1. Kinds(w)
      BY DEF IInv, InOrder
    <3>2. roots' \subseteq roots \cup Obj
      BY <2>4, <3>1, ReturnedType DEF IInv
    <3>3. /\ \A v \in Wp : InOrder(v)'
          /\ wp' \in [Wp -> [key : Pointer, val : Pointer, fin : Finalizer]]
          /\ given' \in [Wp -> Nat]
      BY <2>1, <2>4, <3>2, TombstoneStep
    <3> QED
      BY <2>1, <2>4, <3>2, <3>3 DEF IInv, Types, DeadHaveKeys, Node
  <2> QED
    BY <2>2, <2>3, <2>4
<1> QED
  BY <1>1, <1>2 DEF AtExit

----------------------------------------------------------------------------
LEMMA InitInvariant == Init => IInv
<1> SUFFICES ASSUME Init PROVE IInv
  OBVIOUS
<1>1. Types /\ DeadHaveKeys
  BY DEF Init, Types, DeadHaveKeys, Pointer, Finalizer, Node
<1>2. ASSUME NEW w \in Wp PROVE InOrder(w)
  BY <1>2, ConstantFacts DEF Init, InOrder, Blank, Marked, Kinds
<1> QED
  BY <1>1, <1>2 DEF IInv

LEMMA NextInvariant == IInv /\ [Next]_vars => IInv'
<1> SUFFICES ASSUME IInv, [Next]_vars PROVE IInv'
  OBVIOUS
<1>1. CASE Next
  BY <1>1, MutatorStep, CollectorStep, FinalizersStep, AtExitStep DEF Next
<1>2. CASE UNCHANGED vars
  <2>1. UNCHANGED <<wp, given, unused, roots>>
    BY <1>2 DEF vars, heapvars
  <2>2. Types' /\ DeadHaveKeys'
    BY <1>2 DEF vars, quevars, heapvars, gcvars, exitvars, IInv, Types, DeadHaveKeys
  <2> QED
    BY <2>1, <2>2, QuietStep DEF IInv
<1> QED
  BY <1>1, <1>2

LEMMA Invariance == Spec => []IInv
BY InitInvariant, NextInvariant, PTL DEF Spec

(* No finalizer is run or handed out twice, by whatever combination of     *)
(* primFinalizeWeakPtr, collections and mm_plan_SS_Exit.                   *)
THEOREM NeverFinalizedTwice == Spec => []FinalizedOnce
<1>1. IInv => FinalizedOnce
  BY DEF IInv, Types, InOrder, Marked, FinalizedOnce
<1> QED
  BY <1>1, Invariance, PTL

----------------------------------------------------------------------------
(* Which space addresses are of.  Between collections everything that the  *)
(* next one starts from is in the space in use; during one it is among     *)
(* what has been copied.                                                   *)
Outside == pc \in {"run", "post", "exit"}
Inside  == pc \in {"find", "finalize"}

\* S has what the program holds and what waits in the queue
Covers(S) ==
  /\ roots \subseteq S
  /\ \A q \in Queued : q.wp \in current /\ Parts(q.wp) \cup {q.fin} \subseteq S

UpToDate(W, S) == \A w \in W : w \in current /\ Parts(w) \subseteq S

\* a weak pointer that can be dereferenced is one the collector knows of
Listed == \A w \in Wp : Deref(w) # None => w \in ptrList \cup ptrListNew

SpaceInv ==
  /\ here \subseteq Node /\ copied \subseteq Node
  /\ Listed /\ ptrList \cap ptrListNew = {}
  /\ Outside => /\ ptrListNew = {}
                /\ Covers(here) /\ UpToDate(ptrList, here) /\ Closed(here)
  /\ Inside => Covers(copied) /\ UpToDate(ptrListNew, copied)

\* What is copied before the search for live weak pointers is over has to be
\* kept, and so has what a listed weak pointer with a live key refers to.
LiveInv ==
  /\ pc = "find" =>
       /\ copied \subseteq live
       /\ \A w \in ptrList \cup ptrListNew : wp[w].key \in live => Parts(w) \subseteq live
  /\ Inside => \A w \in ptrListNew : wp[w].key \in live

LEMMA ReachFacts ==
  ASSUME Types, NEW S, S \subseteq Node
  PROVE  /\ S \subseteq Reach(S) /\ Reach(S) \subseteq Node /\ Closed(Reach(S))
         /\ \A T \in SUBSET Node : S \subseteq T /\ Closed(T) => Reach(S) \subseteq T
<1>1. \A o \in Obj : edges[o] \subseteq Node
  BY ConstantFacts DEF Types, Node
<1>2. Closed(Reach(S))
  <2> SUFFICES ASSUME NEW o \in Reach(S), o \in Obj, NEW m \in edges[o]
               PROVE  m \in Reach(S)
    BY DEF Closed
  <2>1. m \in Node
    BY <1>1
  <2>2. ASSUME NEW T \in SUBSET Node, S \subseteq T, Closed(T) PROVE m \in T
    <3>1. o \in T
      BY <2>2 DEF Reach
    <3> QED
      BY <2>2, <3>1 DEF Closed
  <2> QED
    BY <2>1, <2>2 DEF Reach
<1> QED
  BY <1>2 DEF Reach

\* The queue, and what it refers to.
LEMMA QueueFacts ==
  ASSUME Types
  PROVE  /\ \A q \in Queued : q.wp \in Wp /\ q.fin \in Obj
         /\ QueuedParts \subseteq Node
         /\ \A q \in Visited : q \in Queued /\ Parts(q.wp) \cup {q.fin} \subseteq QueuedParts
<1> DEFINE S == [wp : Wp, fin : Obj]
<1>1. finQue \in Seq(S)
  BY DEF Types
<1>2. \A q \in S : q.wp \in Wp /\ q.fin \in Obj
  OBVIOUS
<1>3. \A q \in Queued : q \in S
  <2> HIDE DEF S
  <2> QED
    BY <1>1 DEF Queued, Types
<1> QED
  BY <1>2, <1>3 DEF QueuedParts, Visited, Parts, Node

\* Finalizing a weak pointer leaves less of it.
LEMMA PartsStep ==
  ASSUME NEW v \in Wp, wp'[v].key \in {wp[v].key, None}, wp'[v].val = wp[v].val,
         wp'[v].fin \in {wp[v].fin, None, BeingFinalized}
  PROVE  Parts(v)' \subseteq Parts(v) /\ (Deref(v)' # None => Deref(v) # None)
BY ConstantFacts DEF Parts, Deref

LEMMA TombstoneParts ==
  ASSUME Types, NEW w \in Wp, wp' = Tombstoned(w)
  PROVE  /\ \A v \in Wp : Parts(v)' \subseteq Parts(v) /\ (Deref(v)' # None => Deref(v) # None)
         /\ Deref(w)' = None
<1>1. \A v \in Wp : /\ wp'[v].key = wp[v].key /\ wp'[v].val = wp[v].val
                    /\ wp'[v].fin = IF v = w THEN BeingFinalized ELSE wp[v].fin
  <2>1. wp \in [Wp -> [key : Pointer, val : Pointer, fin : Finalizer]]
    BY DEF Types
  <2>2. wp' = [wp EXCEPT ![w] = [wp[w] EXCEPT !.fin = BeingFinalized]]
    BY DEF Tombstoned
  <2>3. wp[w] \in [key : Pointer, val : Pointer, fin : Finalizer]
    BY <2>1
  <2>4. /\ [wp[w] EXCEPT !.fin = BeingFinalized].fin = BeingFinalized
        /\ [wp[w] EXCEPT !.fin = BeingFinalized].val = wp[w].val
        /\ [wp[w] EXCEPT !.fin = BeingFinalized].key = wp[w].key
    BY <2>3
  <2> QED
    BY <2>1, <2>2, <2>4
<1> QED
  BY <1>1, PartsStep DEF Deref

LEMMA FreedParts ==
  ASSUME Types, NEW w \in Wp, Freed(w)
  PROVE  /\ \A v \in Wp : Parts(v)' \subseteq Parts(v) /\ (Deref(v)' # None => Deref(v) # None)
         /\ Deref(w)' = None
<1>1. \A v \in Wp : /\ wp'[v].key = IF v = w THEN None ELSE wp[v].key
                    /\ wp'[v].val = wp[v].val
                    /\ wp'[v].fin = IF v = w THEN None ELSE wp[v].fin
  <2> DEFINE done == [wp[w] EXCEPT !.key = None, !.fin = None]
  <2>1. wp \in [Wp -> [key : Pointer, val : Pointer, fin : Finalizer]]
    BY DEF Types
  <2>2. wp[w] \in [key : Pointer, val : Pointer, fin : Finalizer]
    BY <2>1
  <2>3. done.key = None /\ done.fin = None /\ done.val = wp[w].val
    BY <2>2
  <2>4. wp' = [wp EXCEPT ![w] = done]
    BY DEF Freed
  <2> HIDE DEF done
  <2> QED
    BY <2>1, <2>3, <2>4
<1> QED
  BY <1>1, PartsStep DEF Deref

\* What is kept contains what is traced from the roots.
LEMMA LiveFacts ==
  ASSUME Types, roots \subseteq Node
  PROVE  /\ Reach(roots \cup QueuedParts) \subseteq Live
         /\ \A w \in ptrList : wp[w].key \in Live => Parts(w) \subseteq Live
<1>1. Reach(roots \cup QueuedParts) \subseteq Live
  BY DEF Reach, Live, Kept
<1>2. ASSUME NEW w \in ptrList, wp[w].key \in Live, NEW n \in Parts(w) PROVE n \in Live
  <2>1. n \in Node
    BY DEF Parts
  <2>2. ASSUME NEW T \in SUBSET Node, Kept(T) PROVE n \in T
    <3>1. wp[w].key \in T
      BY <1>2, <2>2 DEF Live
    <3> QED
      BY <2>2, <3>1 DEF Kept
  <2> QED
    BY <2>1, <2>2 DEF Live
<1> QED
  BY <1>1, <1>2

\* The parts of a weak pointer that can be dereferenced, or finalized.
LEMMA DerefFacts ==
  ASSUME IInv, SpaceInv, Outside, NEW w \in Wp, wp[w].val # None
  PROVE  /\ Deref(w) # None => w \in current /\ Deref(w) \in here
         /\ Returned(w) # None => Returned(w) \in here
<1>1. wp[w].val \in Obj /\ Kinds(w)
  BY DEF IInv, Types, InOrder, Pointer
<1>2. ASSUME Deref(w) # None PROVE w \in current /\ Parts(w) \subseteq here
  BY <1>2 DEF SpaceInv, Listed, UpToDate
<1>3. Returned(w) # None => Returned(w) = wp[w].fin /\ wp[w].fin \in Node /\ Deref(w) # None
  <2>1. Returned(w) # None => Returned(w) \in Obj
    BY <1>1, ReturnedType DEF IInv
  <2> QED
    BY <1>1, <2>1, ConstantFacts DEF Returned, Deref, Node
<1>4. Deref(w) # None => Deref(w) = wp[w].val
  BY DEF Deref
<1> QED
  BY <1>1, <1>2, <1>3, <1>4 DEF Parts, Node

\* A step outside collections that makes nothing new.
LEMMA OutsideStep ==
  ASSUME Types, SpaceInv, Outside, ~ Inside',
         UNCHANGED <<edges, here, current, ptrList, ptrListNew, copied>>,
         Queued' \subseteq Queued, roots' \subseteq here,
         \A v \in Wp : Parts(v)' \subseteq Parts(v) /\ (Deref(v)' # None => Deref(v) # None)
  PROVE  SpaceInv' /\ LiveInv'
<1>1. Listed'
  BY DEF SpaceInv, Listed
<1>2. Covers(here)'
  <2>1. \A q \in Queued' : q.wp \in Wp /\ q.wp \in current /\ Parts(q.wp) \cup {q.fin} \subseteq here
    BY QueueFacts DEF SpaceInv, Covers
  <2> QED
    BY <2>1 DEF Covers
<1>3. UpToDate(ptrList, here)'
  BY DEF SpaceInv, UpToDate, Types
<1>4. Closed(here)'
  BY DEF SpaceInv, Closed
<1>5. SpaceInv'
  BY <1>1, <1>2, <1>3, <1>4 DEF SpaceInv
<1>6. LiveInv'
  BY DEF LiveInv, Inside
<1> QED
  BY <1>5, <1>6

\* The same when the weak pointers are left alone.
LEMMA OutsideQuiet ==
  ASSUME Types, SpaceInv, Outside, ~ Inside',
         UNCHANGED <<edges, here, current, wp, ptrList, ptrListNew, copied>>,
         Queued' \subseteq Queued, roots' \subseteq here
  PROVE  SpaceInv' /\ LiveInv'
<1>1. \A v \in Wp : Parts(v)' = Parts(v) /\ Deref(v)' = Deref(v)
  BY DEF Parts, Deref
<1> QED
  BY <1>1, OutsideStep

LEMMA MakeSpace ==
  ASSUME IInv, SpaceInv, NEW w \in Wp, NEW key \in roots \cap Obj,
         NEW val \in (roots \cap Obj) \cup {None},
         NEW fin \in (roots \cap Obj) \cup {NoFinalizer, CFinalizer},
         Make(w, key, val, fin), roots' \subseteq roots \cup {w}
  PROVE  SpaceInv' /\ LiveInv'
<1> USE ConstantFacts
<1>1. /\ pc = "run" /\ pc' = "run" /\ UNCHANGED <<edges, copied, ptrListNew, finQue, missed>>
      /\ here' = here \cup {w} /\ current' = current \cup {w} /\ ptrList' = ptrList \cup {w}
      /\ roots \subseteq here /\ Types /\ ptrListNew = {}
  BY DEF Make, AddToList, gcvars, quevars, IInv, SpaceInv, Covers, Outside
<1>2. \A v \in Wp : wp'[v] = IF v = w THEN [key |-> key, val |-> val, fin |-> fin] ELSE wp[v]
  BY DEF Make, IInv, Types
<1>3. Parts(w)' \subseteq here'
  BY <1>1, <1>2 DEF Parts, Node
<1>4. \A v \in Wp : v # w => Parts(v)' = Parts(v) /\ Deref(v)' = Deref(v)
  BY <1>2 DEF Parts, Deref
<1>5. Listed'
  BY <1>1, <1>4 DEF SpaceInv, Listed
<1>6. Covers(here)'
  <2>1. \A q \in Queued : q.wp \in Wp /\ q.wp \in current /\ Parts(q.wp) \cup {q.fin} \subseteq here
    BY <1>1, QueueFacts DEF SpaceInv, Covers, Outside
  <2>2. Queued' = Queued
    BY <1>1 DEF Queued
  <2> QED
    BY <1>1, <1>3, <1>4, <2>1, <2>2 DEF Covers
<1>7. UpToDate(ptrList, here)'
  BY <1>1, <1>3, <1>4 DEF SpaceInv, UpToDate, Types, Outside
<1>8. Closed(here)'
  BY <1>1 DEF SpaceInv, Closed, Outside
<1>9. SpaceInv'
  BY <1>1, <1>5, <1>6, <1>7, <1>8 DEF SpaceInv, Inside, Node
<1> QED
  BY <1>1, <1>9 DEF LiveInv, Inside

LEMMA MutatorSpace ==
  ASSUME IInv, SpaceInv, Mutator
  PROVE  SpaceInv' /\ LiveInv'
<1> USE ConstantFacts
<1>1. Types /\ \A w \in Wp : InOrder(w)
  BY DEF IInv
<1>2. pc = "run" => /\ roots \subseteq here /\ Outside /\ Closed(here)
  BY DEF SpaceInv, Covers, Outside
<1>3. ASSUME NEW n \in Node, Drop(n) PROVE SpaceInv' /\ LiveInv'
  BY <1>1, <1>2, <1>3, OutsideQuiet DEF Drop, Running, gcvars, quevars, Queued, Inside
<1>4. ASSUME NEW n \in Obj, NEW m \in Obj, Load(n, m) PROVE SpaceInv' /\ LiveInv'
  <2>1. m \in here
    BY <1>2, <1>4 DEF Load, Running, Closed
  <2> QED
    BY <1>1, <1>2, <1>4, <2>1, OutsideQuiet DEF Load, Running, gcvars, quevars, Queued, Inside
<1>5. ASSUME NEW w \in Wp, DerefWeakPtr(w) PROVE SpaceInv' /\ LiveInv'
  <2>1. Deref(w) \in here
    BY <1>1, <1>2, <1>5, DerefFacts DEF DerefWeakPtr, Running, Deref
  <2> QED
    BY <1>1, <1>2, <1>5, <2>1, OutsideQuiet DEF DerefWeakPtr, Running, gcvars, quevars, Queued, Inside
<1>6. ASSUME NEW w \in Wp, FinalizeWeakPtr(w) PROVE SpaceInv' /\ LiveInv'
  <2>1. roots' \subseteq here
    BY <1>1, <1>2, <1>6, DerefFacts DEF FinalizeWeakPtr, Running, InOrder
  <2>2. \A v \in Wp : Parts(v)' \subseteq Parts(v) /\ (Deref(v)' # None => Deref(v) # None)
    BY <1>1, <1>6, TombstoneParts DEF FinalizeWeakPtr
  <2> QED
    BY <1>1, <1>2, <1>6, <2>1, <2>2, OutsideStep
       DEF FinalizeWeakPtr, Running, gcvars, quevars, Queued, Inside
<1>7. ASSUME NEW w \in Wp, NEW key \in Obj, RegisterFinalization(w, key)
      PROVE SpaceInv' /\ LiveInv'
  BY <1>7, MakeSpace DEF RegisterFinalization
<1>8. ASSUME NEW w \in Wp, NEW key \in Obj, NEW val \in Obj, NEW fin \in Obj \cup {NoFinalizer},
             NewWeakPtr(w, key, val, fin)
      PROVE  SpaceInv' /\ LiveInv'
  BY <1>8, MakeSpace DEF NewWeakPtr
<1> QED
  BY <1>3, <1>4, <1>5, <1>6, <1>7, <1>8 DEF Mutator

LEMMA StartSpace ==
  ASSUME IInv, SpaceInv, StartGC
  PROVE  SpaceInv' /\ LiveInv'
<1>1. /\ Types /\ pc = "run" /\ pc' = "find" /\ copied' = Reach(roots \cup QueuedParts)
      /\ current' = {q.wp : q \in Visited} /\ ptrListNew' = {} /\ live' = Live
      /\ missed' = IF headOff = PageElts THEN Len(finQue) ELSE missed
      /\ UNCHANGED <<edges, roots, here, wp, ptrList, finQue>>
      /\ roots \subseteq Node /\ ptrListNew = {}
  BY DEF IInv, Types, StartGC, SpaceInv, Outside
<1>2. Queued' = Visited /\ \A v : Parts(v)' = Parts(v) /\ Deref(v)' = Deref(v)
  <2>1. Len(finQue) \in Nat
    <3> DEFINE S == [wp : Wp, fin : Obj]
    <3>1. finQue \in Seq(S)
      BY <1>1 DEF Types
    <3> QED
      BY <3>1
  <2>2. Queued' = Visited
    BY <1>1, <2>1 DEF Queued, Visited
  <2> QED
    BY <1>1, <2>2 DEF Parts, Deref
<1>3. roots \cup QueuedParts \subseteq copied' /\ copied' \subseteq Node
  BY <1>1, QueueFacts, ReachFacts
<1>4. Covers(copied)'
  BY <1>1, <1>2, <1>3, QueueFacts DEF Covers
<1>5. SpaceInv'
  BY <1>1, <1>2, <1>3, <1>4 DEF SpaceInv, Listed, UpToDate, Outside, Inside
<1>6. LiveInv'
  BY <1>1, <1>2, LiveFacts DEF LiveInv
<1> QED
  BY <1>5, <1>6

LEMMA FindSpace ==
  ASSUME IInv, SpaceInv, LiveInv, FindLive
  PROVE  SpaceInv' /\ LiveInv'
<1> DEFINE alive == {w \in ptrList : wp[w].key \in copied}
<1>1. /\ pc = "find" /\ Types /\ UNCHANGED <<edges, roots, here, wp, finQue, missed, live>>
      /\ Queued' = Queued /\ \A v : Parts(v)' = Parts(v) /\ Deref(v)' = Deref(v)
  BY DEF FindLive, quevars, IInv, Queued, Parts, Deref
<1>2. CASE pc' = "crash" /\ UNCHANGED <<ptrList, ptrListNew, copied, current>>
  BY <1>1, <1>2 DEF SpaceInv, LiveInv, Listed, Inside, Outside
<1>3. CASE /\ ptrListNew' = ptrListNew \cup alive /\ ptrList' = ptrList \ alive
           /\ copied' = Traced(alive) /\ current' = current \cup alive
           /\ pc' \in {"find", "finalize"}
  <2>1. copied' \subseteq Node /\ copied \subseteq copied'
    BY <1>3 DEF Traced, Parts, SpaceInv
  <2>2. \A w \in alive : Parts(w) \subseteq copied'
    BY <1>3 DEF Traced
  <2>3. Listed' /\ (ptrList \cap ptrListNew = {})'
    BY <1>1, <1>3 DEF SpaceInv, Listed
  <2>4. Covers(copied)' /\ UpToDate(ptrListNew, copied)'
    BY <1>1, <1>3, <2>1, <2>2 DEF SpaceInv, Covers, UpToDate, Inside
  <2>5. \A w \in alive : wp[w].key \in live /\ Parts(w) \subseteq live
    BY <1>1 DEF LiveInv
  <2>6. copied' \subseteq live
    BY <1>1, <1>3, <2>5 DEF Traced, LiveInv
  <2>7. LiveInv'
    BY <1>1, <1>3, <2>5, <2>6 DEF LiveInv, Inside
  <2> QED
    BY <1>1, <1>3, <2>1, <2>3, <2>4, <2>7 DEF SpaceInv, Outside
<1> QED
  BY <1>2, <1>3 DEF FindLive

LEMMA FinalizeSpace ==
  ASSUME IInv, SpaceInv, LiveInv, NEW w \in Wp, FinalizeDead(w)
  PROVE  SpaceInv' /\ LiveInv'
<1>1. /\ pc = "finalize" /\ pc' = "finalize" /\ Types /\ w \in ptrList /\ ptrList' = ptrList \ {w}
      /\ UNCHANGED <<edges, roots, here, ptrListNew, live, missed>>
      /\ Covers(copied) /\ UpToDate(ptrListNew, copied) /\ copied \subseteq Node
      /\ ptrListNew \subseteq Wp /\ w \notin ptrListNew
  BY DEF FinalizeDead, IInv, SpaceInv, Inside, Types
<1>2. /\ \A v \in Wp : Parts(v)' \subseteq Parts(v) /\ (Deref(v)' # None => Deref(v) # None)
      /\ Deref(w)' = None
  BY <1>1, TombstoneParts, FreedParts DEF FinalizeDead
<1>3. \A v \in Wp : v # w => wp'[v] = wp[v]
  BY <1>1 DEF FinalizeDead, Freed, Tombstoned, Types
<1>4. copied \subseteq copied' /\ current \subseteq current' /\ copied' \subseteq Node
  <2>1. wp[w].val # None => Returned(w) = None \/ Returned(w) \in Obj
    BY <1>1, ReturnedType DEF IInv, InOrder
  <2> QED
    BY <1>1, <2>1 DEF FinalizeDead, Traced, Parts, Node
<1>5. Covers(copied)'
  <2>1. ASSUME NEW q \in Queued'
        PROVE  q.wp \in current' /\ Parts(q.wp)' \cup {q.fin} \subseteq copied'
    <3>1. CASE q \in Queued
      <4>1. q.wp \in Wp /\ q.wp \in current /\ Parts(q.wp) \cup {q.fin} \subseteq copied
        BY <1>1, <3>1, QueueFacts DEF Covers
      <4> QED
        BY <4>1, <1>2, <1>4
    <3>2. CASE q \notin Queued
      <4>1. finQue' # finQue
        BY <1>1, <3>2 DEF Queued
      <4>2. /\ finQue' = Append(finQue, [wp |-> w, fin |-> Returned(w)])
            /\ copied' = Traced({w}) \cup {Returned(w)} /\ current' = current \cup {w}
        BY <4>1 DEF FinalizeDead
      <4>3. q = [wp |-> w, fin |-> Returned(w)]
        BY <3>2, <4>2, <1>1 DEF Queued, Types
      <4> QED
        BY <4>2, <4>3, <1>2 DEF Traced
    <3> QED
      BY <3>1, <3>2
  <2> QED
    BY <1>1, <1>4, <2>1 DEF Covers
<1>6. UpToDate(ptrListNew, copied)'
  BY <1>1, <1>2, <1>4 DEF UpToDate
<1>7. Listed'
  BY <1>1, <1>2 DEF SpaceInv, Listed
<1>8. LiveInv'
  BY <1>1, <1>3 DEF LiveInv, Inside
<1> QED
  BY <1>1, <1>4, <1>5, <1>6, <1>7, <1>8 DEF SpaceInv, Outside

LEMMA EndSpace ==
  ASSUME IInv, SpaceInv, EndGC
  PROVE  SpaceInv' /\ LiveInv'
<1>1. /\ pc = "finalize" /\ pc' \in {"run", "post"} /\ Types /\ ptrList = {}
      /\ ptrList' = ptrListNew /\ ptrListNew' = {} /\ copied' = {} /\ here' = Reach(copied)
      /\ UNCHANGED <<edges, roots, wp, current, finQue, missed>>
      /\ Covers(copied) /\ UpToDate(ptrListNew, copied) /\ copied \subseteq Node
      /\ Listed
  BY DEF EndGC, quevars, IInv, SpaceInv, Inside
<1>2. Queued' = Queued /\ \A v : Parts(v)' = Parts(v) /\ Deref(v)' = Deref(v)
  BY <1>1 DEF Queued, Parts, Deref
<1>3. copied \subseteq here' /\ here' \subseteq Node /\ Closed(here)'
  <2>1. Closed(Reach(copied))
    BY <1>1, ReachFacts
  <2> QED
    BY <1>1, <2>1, ReachFacts DEF Closed
<1>4. Covers(here)' /\ UpToDate(ptrList, here)' /\ Listed'
  BY <1>1, <1>2, <1>3 DEF Covers, UpToDate, Listed
<1> QED
  BY <1>1, <1>3, <1>4 DEF SpaceInv, LiveInv, Inside

LEMMA FinalizersSpace ==
  ASSUME IInv, SpaceInv, Finalizers
  PROVE  SpaceInv' /\ LiveInv'
<1>1. Types /\ (pc \in {"run", "post"} => Outside /\ Covers(here))
  BY DEF IInv, SpaceInv, Outside
<1>2. CASE RunFinalizer
  <2> DEFINE S == [wp : Wp, fin : Obj]
  <2>1. finQue \in Seq(S) /\ finQue # <<>>
    BY <1>1, <1>2 DEF RunFinalizer, Types
  <2>2. (missed = 0 => Head(finQue) \in Queued) /\ Queued' \subseteq Queued
    <3>1. /\ Len(finQue) \in Nat /\ Len(finQue) >= 1 /\ Head(finQue) = finQue[1]
          /\ missed \in Nat
      BY <1>1, <2>1 DEF Types
    <3>2. /\ finQue' = Tail(finQue) /\ Len(finQue') = Len(finQue) - 1
          /\ \A i \in 1 .. Len(finQue') : finQue'[i] = finQue[i + 1]
      BY <1>2, <2>1 DEF RunFinalizer
    <3>3. missed = 0 => Head(finQue) \in Queued
      BY <3>1 DEF Queued
    <3>4. missed' \in Nat /\ missed <= missed' + 1
      BY <1>2, <3>1 DEF RunFinalizer
    <3>5. ASSUME NEW i \in missed' + 1 .. Len(finQue') PROVE finQue'[i] \in Queued
      <4>1. i \in 1 .. Len(finQue') /\ i + 1 \in missed + 1 .. Len(finQue)
        <5> DEFINE l == Len(finQue)
                   k == Len(finQue')
                   m == missed'
        <5>1. l \in Nat /\ k = l - 1 /\ m \in Nat /\ missed \in Nat /\ missed <= m + 1
          BY <3>1, <3>2, <3>4
        <5>2. i \in m + 1 .. k
          OBVIOUS
        <5> HIDE DEF l, k, m
        <5>3. i \in 1 .. k /\ i + 1 \in missed + 1 .. l
          BY <5>1, <5>2
        <5> QED
          BY <5>3 DEF l, k
      <4> QED
        BY <3>2, <4>1 DEF Queued
    <3> QED
      BY <3>3, <3>5 DEF Queued
  <2>3. roots' \subseteq here
    <3>1. roots \subseteq here /\ \A q \in Queued : q.fin \in here
      BY <1>1, <1>2 DEF RunFinalizer, Covers
    <3>2. missed > 0 \/ missed = 0
      BY <1>1 DEF Types
    <3>3. CASE missed > 0
      BY <1>2, <3>1, <3>3 DEF RunFinalizer
    <3>4. CASE missed = 0
      BY <1>2, <2>2, <3>1, <3>4 DEF RunFinalizer
    <3> QED
      BY <3>2, <3>3, <3>4
  <2> QED
    BY <1>1, <1>2, <2>2, <2>3, OutsideQuiet DEF RunFinalizer, gcvars, Inside
<1>3. CASE EndFinalizer \/ EndPost
  BY <1>1, <1>3, OutsideQuiet
     DEF EndFinalizer, EndPost, heapvars, gcvars, quevars, Inside, Covers, Queued
<1> QED
  BY <1>2, <1>3 DEF Finalizers

LEMMA AtExitSpace ==
  ASSUME IInv, SpaceInv, AtExit
  PROVE  SpaceInv' /\ LiveInv'
<1>1. Types /\ (pc \in {"run", "exit"} => Outside /\ Covers(here))
  BY DEF IInv, SpaceInv, Outside
<1>2. CASE Exit \/ EndExitFinalizer \/ EndExit
  BY <1>1, <1>2, OutsideQuiet
     DEF Exit, EndExitFinalizer, EndExit, heapvars, gcvars, quevars, Inside, Covers, Queued
<1>3. ASSUME NEW w \in Wp, ExitFinalize(w) PROVE SpaceInv' /\ LiveInv'
  <2>1. /\ pc = "exit" /\ Outside /\ Covers(here) /\ ~ Inside' /\ Queued' = Queued
        /\ UNCHANGED <<edges, here, current, ptrList, ptrListNew, copied>>
    BY <1>1, <1>3 DEF ExitFinalize, gcvars, quevars, Inside, Queued
  <2>2. CASE UNCHANGED <<roots, wp>>
    BY <1>1, <2>1, <2>2, OutsideQuiet DEF Covers
  <2>3. CASE Freed(w) /\ UNCHANGED roots
    BY <1>1, <2>1, <2>3, FreedParts, OutsideStep DEF Covers
  <2>4. CASE /\ wp[w].val # None /\ wp' = Tombstoned(w)
             /\ roots' = roots \cup ({Returned(w)} \ {None})
    BY <1>1, <2>1, <2>4, TombstoneParts, DerefFacts, OutsideStep DEF Covers
  <2> QED
    BY <1>3, <2>2, <2>3, <2>4 DEF ExitFinalize
<1> QED
  BY <1>2, <1>3 DEF AtExit

LEMMA InitSpace == Init => SpaceInv /\ LiveInv
<1> SUFFICES ASSUME Init PROVE SpaceInv /\ LiveInv
  OBVIOUS
<1>1. Queued = {}
  BY DEF Init, Queued
<1>2. \A w \in Wp : Deref(w) = None
  BY DEF Init, Deref
<1>3. Closed(here)
  BY ConstantFacts DEF Init, Closed
<1> QED
  BY <1>1, <1>2, <1>3 DEF Init, SpaceInv, LiveInv, Listed, Covers, UpToDate, Inside, Node

LEMMA NextSpace == IInv /\ SpaceInv /\ LiveInv /\ [Next]_vars => SpaceInv' /\ LiveInv'
<1> SUFFICES ASSUME IInv, SpaceInv, LiveInv, [Next]_vars PROVE SpaceInv' /\ LiveInv'
  OBVIOUS
<1>1. CASE Next
  BY <1>1, MutatorSpace, StartSpace, FindSpace, FinalizeSpace, EndSpace,
     FinalizersSpace, AtExitSpace DEF Next, Collector
<1>2. CASE UNCHANGED vars
  <2>1. UNCHANGED <<edges, roots, here, wp, current, ptrList, ptrListNew, finQue, missed,
                   copied, live, pc>>
    BY <1>2 DEF vars, quevars, heapvars, gcvars
  <2>2. Queued' = Queued /\ \A v : Parts(v)' = Parts(v) /\ Deref(v)' = Deref(v)
    BY <2>1 DEF Queued, Parts, Deref
  <2> QED
    BY <2>1, <2>2 DEF SpaceInv, LiveInv, Listed, Covers, UpToDate, Closed, Inside, Outside
<1> QED
  BY <1>1, <1>2

\* Finalizers wait while the program runs only where one of them is running:
\* mm_collector_SS_CollectPost empties the queue.
Idle ==
  /\ missed <= Len(finQue)
  /\ ~ post => missed = 0 /\ (pc \in {"run", "post", "exit"} => finQue = <<>>)
  /\ pc = "post" => post

LEMMA NextIdle == IInv /\ Idle /\ [Next]_vars => Idle'
<1> SUFFICES ASSUME IInv, Idle, [Next]_vars PROVE Idle'
  OBVIOUS
<1> DEFINE S == [wp : Wp, fin : Obj]
<1>1. finQue \in Seq(S) /\ missed \in Nat
  BY DEF IInv, Types
<1>2. CASE Mutator
  BY <1>2 DEF Mutator, Load, Drop, DerefWeakPtr, FinalizeWeakPtr, RegisterFinalization,
              NewWeakPtr, Make, Running, quevars, Idle
<1>3. CASE StartGC
  BY <1>1, <1>3 DEF StartGC, Idle
<1>4. CASE FindLive \/ EndGC
  BY <1>4 DEF FindLive, EndGC, quevars, Idle
<1>5. ASSUME NEW w \in Wp, FinalizeDead(w) PROVE Idle'
  <2>1. UNCHANGED <<pc, post, missed>> /\ pc = "finalize"
    BY <1>5 DEF FinalizeDead
  <2>2. Len(finQue) \in Nat /\ Len(finQue') \in {Len(finQue), Len(finQue) + 1}
    <3>1. \/ finQue' = finQue
          \/ finQue' = Append(finQue, [wp |-> w, fin |-> Returned(w)])
      BY <1>5 DEF FinalizeDead
    <3> QED
      BY <1>1, <3>1
  <2> QED
    BY <1>1, <2>1, <2>2 DEF Idle
<1>6. CASE RunFinalizer
  <2>1. Len(finQue) \in Nat /\ Len(finQue) > 0 /\ Len(finQue') = Len(finQue) - 1
    BY <1>1, <1>6 DEF RunFinalizer
  <2>2. post /\ post' = post /\ pc' # "post"
    BY <1>6 DEF RunFinalizer, Idle
  <2> QED
    BY <1>1, <1>6, <2>1, <2>2 DEF RunFinalizer, Idle
<1>7. CASE EndFinalizer \/ EndPost
  BY <1>1, <1>7 DEF EndFinalizer, EndPost, quevars, Idle
<1>8. CASE AtExit
  BY <1>8 DEF AtExit, Exit, ExitFinalize, EndExitFinalizer, EndExit, quevars, Idle
<1>9. CASE UNCHANGED vars
  BY <1>9 DEF vars, quevars, Idle
<1> QED
  BY <1>2, <1>3, <1>4, <1>5, <1>6, <1>7, <1>8, <1>9 DEF Next, Collector, Finalizers

LEMMA SpaceInvariance == Spec => [](IInv /\ SpaceInv /\ LiveInv /\ Idle)
<1>1. Init => IInv /\ SpaceInv /\ LiveInv /\ Idle
  BY InitInvariant, InitSpace DEF Init, Idle
<1>2. /\ IInv /\ SpaceInv /\ LiveInv /\ Idle /\ [Next]_vars
      => (IInv /\ SpaceInv /\ LiveInv /\ Idle)'
  BY NextInvariant, NextSpace, NextIdle
<1> QED
  BY <1>1, <1>2, PTL DEF Spec

(* What mm_weakPtr_List_DerefWeakPtr yields is an object of the space in   *)
(* use, for no weak pointer that left the list is without tombstone.       *)
THEOREM DereferencedCurrent == Spec => []DerefCurrent
<1>1. IInv /\ SpaceInv => DerefCurrent
  BY DerefFacts DEF DerefCurrent, Outside, Deref
<1> QED
  BY <1>1, SpaceInvariance, PTL

(* What the next collection starts from, roots, listed weak pointers and   *)
(* finalizers that wait, is in the space in use, but for the finalizers    *)
(* that the iterator of mm_traceSupply_WeakPtrFinalizeQue_Run missed; and  *)
(* it misses some only while one of the queue is running.                  *)
THEOREM StartsCurrent == Spec => []AdminCurrent
<1>1. SpaceInv /\ Idle /\ IInv => AdminCurrent
  BY DEF SpaceInv, AdminCurrent, Idle, IInv, Types, Outside, Covers, UpToDate
<1> QED
  BY <1>1, SpaceInvariance, PTL

(* The weak pointers that mm_weakPtr_List_FindLiveObjects keeps have keys  *)
(* that live without them.                                                 *)
THEOREM KeptHaveLiveKeys == Spec => []DeadKeyFound
<1>1. LiveInv => DeadKeyFound
  BY DEF LiveInv, DeadKeyFound, Inside
<1> QED
  BY <1>1, SpaceInvariance, PTL
=============================================================================
