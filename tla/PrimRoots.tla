------------------------------- MODULE PrimRoots -------------------------------
(* Primitives and the objects they hold in C variables.                        *)
(*                                                                             *)
(* An allocation may collect, and a collection moves objects.  The collector   *)
(* knows the C variables that were entered in a group of local roots           *)
(* (mm/roots.ch) and adapts those; every other C variable then holds the       *)
(* address of an object that is gone.  gb_eval runs the interpreter, which     *)
(* allocates, calls other primitives and may come back with an exception.  And *)
(* a collection that is over runs the finalizers it queued, with gb_runIO, in  *)
(* the allocation that brought it about, before this is tried again.           *)
(* What each primitive does is in PrimCode; here it is done.                   *)
EXTENDS PrimCode, SequencesExt, FiniteSets

CONSTANTS Prims,           \* the primitives that the program calls
          MaxNested,       \* bound: evaluations in progress inside each other
          FinalizerPrims,  \* bound: primitives called while a finalizer is run
          FinalizerDepth   \* bound: C functions in progress when one is run

ASSUME NestedAssumption    == MaxNested \in Nat
ASSUME FinalizerAssumption == FinalizerPrims \subseteq Prims /\ FinalizerDepth \in Nat

VARIABLES frames,     \* the C functions in progress, the innermost one last
          lclRoots,   \* mm_LclRoots, the innermost group last
          heap,       \* the fields of each object
          room,       \* words that are allocated without a collection for sure
          thrown      \* gb_ThrownException

vars == <<frames, lclRoots, heap, room, thrown>>

--------------------------------------------------------------------------------
(* The machine.  A frame of a C function: the steps still to do, the values of *)
(* its variables, the groups it is in, as the length of the chain of groups at *)
(* each entry, the caller's variable for the result ("" when the interpreter   *)
(* called), and while gb_eval runs on its behalf the variable that waits, the  *)
(* object under evaluation, and the number of objects there were.  In the      *)
(* place of a variable, the first of these stands for mm_plan_SS_DoGC, which   *)
(* calls gb_runIO and which an allocation waits for; the other for the end of  *)
(* the program, where the finalizers that are left are run.                    *)
CollectPost == "mm_collector_SS_CollectPost"
AtExit      == "mm_weakPtr_List_FinalizAlleWeakPtr"
Finalizers  == {CollectPost, AtExit}
Outside     == {""} \cup Finalizers     \* no variable of a C function

NotWaiting == [x |-> "", obj |-> Word, height |-> Len(InitialHeap)]

Frame(entry, args, ret) ==
  [ todo |-> entry.body, vars |-> [v \in ToSet(entry.params) |->
                                     args[CHOOSE i \in DOMAIN args : entry.params[i] = v]],
    groups |-> <<>>, ret |-> ret, wait |-> NotWaiting ]

Depth   == Len(frames)
Running == Depth > 0 /\ Last(frames).wait.x = ""
InPost  == Depth > 0 /\ Last(frames).wait.x = CollectPost
InEval  == ~ Running /\ ~ InPost     \* the interpreter runs
Step    == Head(Last(frames).todo)
At(op)  == Running /\ Step.op = op

Globals == [gb_Nil |-> NilObj, gb_Nothing |-> NothingObj, onStack |-> Thunk]

VarOf(f, v) == IF v \in DOMAIN Globals THEN Globals[v]
               ELSE IF v = Thrown THEN thrown
               ELSE IF v \in DOMAIN f.vars THEN f.vars[v] ELSE Junk

Operand(v) == LET x == VarOf(Last(frames), v[1])
              IN  CASE v = <<>> -> Word
                    [] Len(v) = 1 -> x
                    [] OTHER -> IF x > 0 /\ v[2] \in DOMAIN heap[x] THEN heap[x][v[2]] ELSE Junk
Operands(vs) == [i \in DOMAIN vs |-> Operand(vs[i])]

Assign(f, x, val) == [f EXCEPT !.vars = [v \in {x} \cup DOMAIN f.vars |->
                                           IF v = x THEN val ELSE f.vars[v]]]
Advance(f) == [f EXCEPT !.todo = Tail(f.todo)]
Zeroed(u, vs) == [v \in vs \cup DOMAIN u |-> IF v \in vs THEN Word ELSE u[v]]
WithTop(f) == [frames EXCEPT ![Depth] = f]
This       == Advance(Last(frames))

(* The collector sees the variables in the chain of groups, and no others.     *)
BugRegistered(d, v) ==                       \* in the innermost group
  lclRoots # <<>> /\ <<d, v>> \in Last(lclRoots).ones
Registered(d, v) == \E i \in DOMAIN lclRoots : <<d, v>> \in lclRoots[i].ones
Collected(fs) ==
  [d \in DOMAIN fs |->
     [fs[d] EXCEPT !.vars =
        [v \in DOMAIN fs[d].vars |->
           IF fs[d].vars[v] > 0 /\ ~ Registered(d, v) THEN Stale ELSE fs[d].vars[v]]]]
MayMove(x) == IF x # Word THEN Stale ELSE x     \* what is no root at all

--------------------------------------------------------------------------------
Init == /\ frames = <<>>
        /\ lclRoots = <<>>
        /\ heap = InitialHeap
        /\ room = 0
        /\ thrown = Word

EnterGrp ==
  /\ At("enter")
  /\ frames' = WithTop([This EXCEPT !.groups = Append(@, Len(lclRoots))])
  /\ lclRoots' = Append(lclRoots, [frame |-> Depth, ones |-> {}])
  /\ UNCHANGED <<heap, room, thrown>>

LeaveGrp ==
  /\ At("leave")
  /\ frames' = WithTop([This EXCEPT !.groups = Front(@)])
  /\ lclRoots' = SubSeq(lclRoots, 1, Last(This.groups))
  /\ UNCHANGED <<heap, room, thrown>>

(* Into the innermost group there is, whoever entered it.                      *)
EnterOnes(vs) == lclRoots' = [lclRoots EXCEPT ![Len(lclRoots)].ones = @ \cup ({Depth} \X vs)]

EnterOne ==
  /\ At("root")
  /\ frames' = WithTop(This)
  /\ EnterOnes(Step.vs)
  /\ UNCHANGED <<heap, room, thrown>>

BugEnterOneZeroed ==                         \* does not zero
  /\ At("rootz")
  /\ frames' = WithTop(This)
  /\ EnterOnes(Step.vs)
  /\ UNCHANGED <<heap, room, thrown>>

EnterOneZeroed ==
  /\ At("rootz")
  /\ frames' = WithTop([This EXCEPT !.vars = Zeroed(@, Step.vs)])
  /\ EnterOnes(Step.vs)
  /\ UNCHANGED <<heap, room, thrown>>

(* The new object is in the variable after a collection, not before; n is the  *)
(* number of objects there are.                                                *)
NewObjectIn(fs, x, n) == [fs EXCEPT ![Depth] = Assign(@, x, n + 1)]

(* Allocation and mm_itf_allocEnsure, when there is room.                      *)
Alloc ==
  /\ At("alloc")
  /\ frames' = NewObjectIn(WithTop(This), Step.x, Len(heap))
  /\ heap' = Append(heap, <<>>)
  /\ room' = IF room >= Step.n THEN room - Step.n ELSE 0
  /\ UNCHANGED <<lclRoots, thrown>>

Ensure ==
  /\ At("ensure")
  /\ frames' = WithTop(This)
  /\ room' = Step.n
  /\ UNCHANGED <<lclRoots, heap, thrown>>

(* When there may be none: a collection, up to where it runs the finalizers.   *)
Collect ==
  /\ At("alloc") \/ At("ensure")
  /\ room < Step.n
  /\ frames' = Collected(WithTop([Last(frames) EXCEPT !.wait =
                 [x |-> CollectPost, obj |-> Word, height |-> Len(heap)]]))
  /\ thrown' = MayMove(thrown)
  /\ room' = 0
  /\ UNCHANGED <<lclRoots, heap>>

AllocEnsured ==
  /\ At("alloce")
  /\ frames' = NewObjectIn(WithTop(This), Step.x, Len(heap))
  /\ heap' = Append(heap, <<>>)
  /\ room' = room - Step.n
  /\ UNCHANGED <<lclRoots, thrown>>

FillNode ==
  /\ At("fill")
  /\ frames' = WithTop(This)
  /\ heap' = LET x == VarOf(This, Step.x)
             IN  IF x > 0 THEN [heap EXCEPT ![x] = Operands(Step.flds)] ELSE heap
  /\ UNCHANGED <<lclRoots, room, thrown>>

AssignVar ==
  /\ At("set")
  /\ frames' = WithTop(Assign(This, Step.x, Operand(Step.v)))
  /\ UNCHANGED <<lclRoots, heap, room, thrown>>

UseVars ==
  /\ At("use")
  /\ frames' = WithTop(This)
  /\ UNCHANGED <<lclRoots, heap, room, thrown>>

Branch ==
  /\ At("either")
  /\ \E alt \in Step.alts : frames' = WithTop([This EXCEPT !.todo = alt \o @])
  /\ UNCHANGED <<lclRoots, heap, room, thrown>>

(* The loop over a list ends at its end, or at the number of cells asked for.  *)
Loop ==
  /\ At("while")
  /\ frames' \in {WithTop(This)} \cup
       (IF VarOf(This, Step.v) = NilObj THEN {}
        ELSE {WithTop([This EXCEPT !.todo = Step.body \o <<Step>> \o @])})
  /\ UNCHANGED <<lclRoots, heap, room, thrown>>

CallC ==
  /\ At("call")
  /\ \E e \in Helpers : e.p = Step.p /\
       frames' = Append(WithTop(This), Frame(e, Operands(Step.args), Step.x))
  /\ UNCHANGED <<lclRoots, heap, room, thrown>>

BugPassExcWith ==                            \* does not leave the group
  /\ At("passexc")
  /\ frames' = WithTop(IF thrown = Word THEN This
                       ELSE [This EXCEPT !.todo = <<Return(<<Thrown>>)>>])
  /\ UNCHANGED <<lclRoots, heap, room, thrown>>

PassExcWith ==
  /\ At("passexc")
  /\ frames' = WithTop(
       IF thrown = Word THEN This
       ELSE [This EXCEPT !.todo = (IF Step.leave THEN <<GCSafeLeave>> ELSE <<>>)
                                  \o <<Return(<<Thrown>>)>>])
  /\ UNCHANGED <<lclRoots, heap, room, thrown>>

SetThrown ==
  /\ At("throw")
  /\ frames' = WithTop(This)
  /\ thrown' = Operand(Step.v)
  /\ UNCHANGED <<lclRoots, heap, room>>

(* gb_runIO does not look for an exception: see Escaped.                       *)
ReturnC ==
  /\ At("return")
  /\ This.ret \in Finalizers => thrown = Word
  /\ frames' = IF This.ret \in Outside THEN Front(frames)
               ELSE [Front(frames) EXCEPT ![Depth - 1] = Assign(@, This.ret, Operand(Step.v))]
  /\ UNCHANGED <<lclRoots, heap, room, thrown>>

Eval ==
  /\ At("eval")
  /\ frames' = WithTop([This EXCEPT !.wait =
                          [x |-> Step.x, obj |-> Operand(Step.v), height |-> Len(heap)]])
  /\ UNCHANGED <<lclRoots, heap, room, thrown>>

--------------------------------------------------------------------------------
(* The interpreter, from main or from gb_eval.  It allocates and calls         *)
(* primitives, of which it keeps nothing here; what it takes itself is on its  *)
(* stack, where the collector finds it.                                        *)
Nested == Cardinality({d \in DOMAIN frames : frames[d].wait.x \notin Outside})
Kept   == SubSeq(heap, 1, IF Depth = 0 THEN Len(InitialHeap) ELSE Last(frames).wait.height)

InterpAlloc ==
  /\ InEval /\ thrown = Word
  /\ frames' = Collected(frames)
  /\ thrown' = MayMove(thrown)
  /\ heap' = Kept
  /\ room' = 0
  /\ UNCHANGED lclRoots

InFinalizer == \E d \in DOMAIN frames : frames[d].ret \in Finalizers
Callable    == {e \in Primitives : e.p \in IF InFinalizer THEN FinalizerPrims ELSE Prims}

BugInterpCall ==                             \* does not look for an exception
  /\ InEval
  /\ Nested <= MaxNested
  /\ \E e \in Callable : frames' = Append(frames, Frame(e, e.args, ""))
  /\ heap' = Kept
  /\ room' = 0
  /\ UNCHANGED <<lclRoots, thrown>>

InterpCall ==
  /\ InEval /\ thrown = Word
  /\ Nested <= MaxNested
  /\ \E e \in Callable : frames' = Append(frames, Frame(e, e.args, ""))
  /\ heap' = Kept
  /\ room' = 0
  /\ UNCHANGED <<lclRoots, thrown>>

(* GB_InsExt_ResetThrownException, in the code that calls a handler.           *)
ResetThrownException ==
  /\ InEval /\ thrown # Word
  /\ thrown' = Word
  /\ heap' = Kept
  /\ room' = 0
  /\ UNCHANGED <<frames, lclRoots>>

(* The value, which takes the place of the thunk.                              *)
EvalDone(val) ==
  /\ Depth > 0 /\ InEval
  /\ frames' = WithTop([Assign(Last(frames), Last(frames).wait.x, val) EXCEPT !.wait = NotWaiting])
  /\ room' = 0
  /\ UNCHANGED <<lclRoots, thrown>>

EvalReturns == thrown = Word /\ EvalDone(Last(frames).wait.obj) /\ heap' = Kept

(* The handler is further out: gb_evalTos puts the exception on the stack.     *)
EvalThrows == thrown # Word /\ EvalDone(thrown) /\ UNCHANGED heap

--------------------------------------------------------------------------------
(* Finalizers.                                                                 *)
RunIOFor(who) ==
  /\ Nested <= MaxNested /\ Depth <= FinalizerDepth
  /\ frames' = Append(frames, Frame(RunIO, RunIO.args, who))
  /\ heap' = Kept
  /\ room' = 0
  /\ UNCHANGED <<lclRoots, thrown>>

(* A collection runs a queued finalizer, in the allocation of a C function or  *)
(* of the interpreter, unless it happens inside a finalizer that is run so:    *)
(* MM_PLAN_SS_GCPROGRESS_POSTCOLLECTING.                                       *)
RunFinalizer ==
  /\ InPost \/ (InEval /\ thrown = Word)
  /\ \A d \in DOMAIN frames : frames[d].ret # CollectPost
  /\ RunIOFor(CollectPost)

FinalizAlleWeakPtr == Depth = 0 /\ thrown = Word /\ RunIOFor(AtExit)

(* The queue is empty; the allocation is tried again.  Another collection, if  *)
(* there is no room still, would find everything as this one left it.          *)
Awake == [This EXCEPT !.wait = NotWaiting]

AllocAfterGC ==
  /\ InPost /\ Step.op = "alloc"
  /\ frames' = NewObjectIn(WithTop(Awake), Step.x, Len(Kept))
  /\ heap' = Append(Kept, <<>>)
  /\ room' = 0
  /\ UNCHANGED <<lclRoots, thrown>>

BugEnsureAfterGC ==                          \* does not look again after a collection
  /\ InPost /\ Step.op = "ensure"
  /\ frames' = WithTop(Awake)
  /\ heap' = Kept
  /\ room' = 0
  /\ UNCHANGED <<lclRoots, thrown>>

EnsureAfterGC ==
  /\ InPost /\ Step.op = "ensure"
  /\ frames' = WithTop(Awake)
  /\ heap' = Kept
  /\ room' = Step.n
  /\ UNCHANGED <<lclRoots, thrown>>

(* An exception leaves a finalizer.  gb_intl_throwException has unwound the    *)
(* stack to a handler below the allocation that runs the finalizer, or there   *)
(* is none and the program ends; in the first case the C functions go on all   *)
(* the same, with gb_ThrownException set and the stack of something else.      *)
(* What that leads to is not modelled: the invariants below are about the      *)
(* program as long as it has not happened.                                     *)
Escaped ==
  /\ At("return") /\ This.ret \in Finalizers /\ thrown # Word
  /\ UNCHANGED vars

Next == \/ EnterGrp \/ LeaveGrp \/ EnterOne \/ EnterOneZeroed
        \/ Alloc \/ Ensure \/ Collect \/ AllocEnsured \/ FillNode
        \/ AssignVar \/ UseVars \/ Branch \/ Loop
        \/ CallC \/ PassExcWith \/ SetThrown \/ ReturnC \/ Eval
        \/ InterpAlloc \/ InterpCall \/ ResetThrownException \/ EvalReturns \/ EvalThrows
        \/ RunFinalizer \/ FinalizAlleWeakPtr \/ AllocAfterGC \/ EnsureAfterGC \/ Escaped

Spec == Init /\ [][Next]_vars

--------------------------------------------------------------------------------
\* The variables a step reads
Reads(s) ==
  CASE s.op = "fill"             -> {<<s.x>>} \cup ToSet(s.flds)
    [] s.op = "use"              -> {<<v>> : v \in s.vs}
    [] s.op = "while"            -> {<<s.v>>}
    [] s.op = "call"             -> ToSet(s.args)
    [] s.op \in {"set", "eval", "throw", "return"} -> {s.v}
    [] OTHER                     -> {}

(* No primitive uses an object it kept in a C variable over a collection that  *)
(* did not know of the variable, nor a variable or field that was never set.   *)
(* The collection may be in its own allocation, in a C function it calls, or   *)
(* in whatever the interpreter does when it evaluates: mm/roots.ch asks for    *)
(* the variable to be entered in a group of local roots before that.           *)
LocalsCurrent == Running => \A v \in Reads(Step) : Operand(v) \notin {Stale, Junk}

(* What the collector follows and adapts is always in order: a location on the *)
(* chain of groups belongs to a C function that is still in progress, and      *)
(* holds an object or a word, from the moment it is entered on; so does every  *)
(* field of a node that is filled.                                             *)
RootsValid ==
  /\ \A i \in DOMAIN lclRoots : \A dv \in lclRoots[i].ones :
       /\ dv[1] <= Depth
       /\ VarOf(frames[dv[1]], dv[2]) \notin {Stale, Junk}
  /\ \A x \in DOMAIN heap : ToSet(heap[x]) \cap {Stale, Junk} = {}

(* Every group is left on every way out, the exceptions passed on included:    *)
(* the groups there are were entered by C functions that are still in progress *)
(* and mean to leave them, and the chain is empty when none is.                *)
GroupsBalanced ==
  /\ \A i \in DOMAIN lclRoots : \E d \in DOMAIN frames :
       lclRoots[i].frame = d /\ i - 1 \in ToSet(frames[d].groups)
  /\ \A d \in DOMAIN frames : \A g \in ToSet(frames[d].groups) :
       g + 1 \in DOMAIN lclRoots /\ lclRoots[g + 1].frame = d

(* An allocation that is not to collect finds the words that were ensured.     *)
EnsuredSuffices == At("alloce") => Step.n <= room

(* The exception that gb_ThrownException refers to, which is no root, is still *)
(* where it was when the exception is taken by a handler or passed on: also    *)
(* when one is thrown inside a finalizer, run in the midst of an allocation,   *)
(* and taken there.  One that leaves the finalizer is past Escaped.            *)
ThrownCurrent == thrown # Stale
=============================================================================
