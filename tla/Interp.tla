------------------------------- MODULE Interp -------------------------------
(***************************************************************************)
(* The bytecode interpreter of the runtime, bc/interpreter.cc: a stack     *)
(* machine that evaluates a graph of nodes lazily.  The stack grows upward *)
(* here, so its top is stk[Len(stk)]; bp is the place of the saved bp of   *)
(* the innermost frame, 0 for NULL, and the word below it is the address   *)
(* that frame returns to.  Before every such address the code holds a call *)
(* info, whose kind tells what the frame is.  Byte encodings, operand      *)
(* sizes and tracing are left out; the moving collector is not composed,   *)
(* as every word of the stack and of a live node is a root of it.          *)
(***************************************************************************)
EXTENDS Integers, Sequences, SequencesExt

CONSTANTS
  UserCode,     \* the code of the program: a label gives a sequence of instructions
  Heaps,        \* the initial heaps: sequences of nodes, a node's place its address
  Main,         \* the node the program is
  StackNeed,    \* the words any function may need on the stack (szStack)
  StackLimit,   \* words of the stack, the spare part not counted
  StackSpare,   \* words of the spare part (STACKSIZE_SPARE_UNUSED)
  HeapLimit     \* bound of the model: nodes in the heap

ASSUME SizesAssumption ==
  /\ {StackNeed, StackLimit, StackSpare, HeapLimit} \subseteq Nat
  /\ StackNeed < StackLimit
  /\ Heaps # {}

VARIABLES
  heap,      \* the nodes
  stk,       \* the stack of words
  bp,        \* place of the saved bp of the innermost frame
  pc,        \* the next instruction, [lbl, ix]
  at,        \* where in the loop: fetch, or the labels InsEvalEntry, InsApplyEntry, interpretIsDone
  cstk,      \* the C calls that wait for a nested loop, innermost last
  thrown,    \* gb_ThrownException, Null when there is none
  wrappers,  \* gb_ThrownException_NrOfEvalWrappers
  status     \* "run", or how the program ended

vars == <<heap, stk, bp, pc, at, cstk, thrown, wrappers, status>>

-----------------------------------------------------------------------------
(* Words and nodes *)

Ptr(n)   == [k |-> "ptr", v |-> n]
Int0(i)  == [k |-> "int", v |-> i]
Raw(i)   == [k |-> "raw", v |-> i]
Link(b)  == [k |-> "bp",  v |-> b]
Loc(l)   == [k |-> "pc",  v |-> [lbl |-> l, ix |-> 1]]
At(p)    == [k |-> "pc",  v |-> p]
CFun(f)  == [k |-> "cfun", v |-> f]
Null     == Raw(0)

IsPtr(w) == w.k = "ptr"
Node(ev, cat, tag, flds) == [ev |-> ev, cat |-> cat, tag |-> tag, flds |-> flds]
Fun(l, args)  == Node("yes", "Fun", 0, <<Loc(l)>> \o args)
CThunk(f, args) == Node("yes", "CFun", 0, <<CFun(f)>> \o args)
App(f, args)  == Node("yes", "App", 0, <<f>> \o args)
PAp(l, miss, args) == Node("no", "PAp", miss, <<Loc(l)>> \o args)
Con(tag, args) == Node("no", "Con", tag, args)

IsInd(h, w) == IsPtr(w) /\ h[w.v].cat = "Ind"
(* along indirections, a circle of them is left after as many steps as nodes *)
FollowObject(h, w) ==
  LET f[k \in 0..Len(h), n \in 1..Len(h)] ==
        CASE k = 0 \/ h[n].cat # "Ind"  -> Ptr(n)
          [] IsPtr(h[n].flds[1])        -> f[k-1, h[n].flds[1].v]
          [] OTHER                      -> h[n].flds[1]
  IN  IF IsPtr(w) THEN f[Len(h), w.v] ELSE w

BugUpdInd(h, n, x) ==
  [h EXCEPT ![n] = Node("yes", "Ind", 0, Append(Front(@.flds), x))]

(* the node becomes an indirection to x; its other fields stay what they are *)
UpdInd(h, n, x) ==
  [h EXCEPT ![n] = Node("yes", "Ind", 0, [@.flds EXCEPT ![1] = x])]

(* the node becomes a copy of node t when that fits, else an indirection *)
UpdTmp(h, n, t) ==
  IF Len(h[t].flds) <= Len(h[n].flds) THEN [h EXCEPT ![n] = h[t]]
  ELSE UpdInd(h, n, Ptr(t))

-----------------------------------------------------------------------------
(* Code.  Internal chunks of bytecode are the continuations frames return  *)
(* to; EntryKind is the call info that stands before their first byte.     *)

Ins(op) == [op |-> op]
InsCI(op, ci) == [op |-> op, ci |-> ci]
RetCall(mine, surr) == [op |-> "retcall", mine |-> mine, surr |-> surr]

InternalCode ==
  [ Eval       |-> << InsCI("eval", "EvalTopWrap"), Ins("halt") >>,
    AfterEval  |-> << Ins("evupdcont") >>,
    AfterTailEval |-> << Ins("tailevalcont") >>,
    AfterAppFun |-> << InsCI("evappcont", "EvAppFunEvCont"), Ins("evupdcont") >>,
    AfterTooMany |-> << Ins("papplycont") >>,
    ExcEvalValue |-> << InsCI("eval", "EvalWrap"), RetCall(1, 2) >>,
    ExcNormalReturn |-> << RetCall(1, 3) >>,
    ExcThrowReturn |-> << Ins("resetexc"), [op |-> "ldi", w |-> Raw(1)],
                          [op |-> "lds", n |-> 6], InsCI("eval", "EvalWrap"),
                          InsCI("apply", "Apply"), RetCall(1, 3) >> ]
EntryKind ==
  [ AfterEval |-> "EvCont", AfterTailEval |-> "TailEvalCont", AfterAppFun |-> "EvAppFunCont",
    AfterTooMany |-> "PApCont", ExcEvalValue |-> "Call", ExcNormalReturn |-> "Hdlr",
    ExcThrowReturn |-> "Call" ]

Code(l) == IF l \in DOMAIN InternalCode THEN InternalCode[l] ELSE UserCode[l]
I == Code(pc.lbl)[pc.ix]
After(p) == [p EXCEPT !.ix = @ + 1]

(* the kind of the call info before the return address of the frame at b *)
Kind(s, b) == LET r == s[b-1].v IN
  IF r.ix = 1 THEN EntryKind[r.lbl] ELSE Code(r.lbl)[r.ix - 1].ci

Caller(s, b) == s[b].v

-----------------------------------------------------------------------------
(* Stack *)

Top(i) == stk[Len(stk) - i]
Drop(s, n) == SubSeq(s, 1, Len(s) - n)
TopN(s, n) == SubSeq(s, Len(s) - n + 1, Len(s))
SetTop(s, w) == [s EXCEPT ![Len(s)] = w]
BPLink(s, ret, b) == s \o << At(ret), Link(b) >>
(* the first argument ends on top *)
BugPushNodeArgs(s, n) == s \o Tail(heap[n].flds)
PushNodeArgs(s, n) == s \o Reverse(Tail(heap[n].flds))
HasRoom(s) == Len(s) + StackNeed <= StackLimit
Overruns(s) == Len(s) >= StackLimit + StackSpare

-----------------------------------------------------------------------------
Init ==
  /\ heap \in Heaps
  /\ stk = << Ptr(Main) >> /\ bp = 0
  /\ pc = [lbl |-> "Eval", ix |-> 1] /\ at = "fetch"
  /\ cstk = <<>> /\ thrown = Null /\ wrappers = 0 /\ status = "run"

Doing(op) == status = "run" /\ at = "fetch" /\ I.op = op
Label(l) == status = "run" /\ at = l

exc == <<cstk, thrown, wrappers>>
Ends(how) == status' = how /\ UNCHANGED <<heap, stk, bp, pc, at, exc>>
Sets(s) == stk' = s /\ pc' = After(pc) /\ UNCHANGED <<heap, bp, at, exc, status>>

-----------------------------------------------------------------------------
(* Loads, tags and operators *)

LdImm == Doing("ldi") /\ Sets(Append(stk, I.w))
LdTos == Doing("lds") /\ Sets(Append(stk, Top(I.n)))
LdNodeTag ==
  /\ Doing("lnt")
  /\ IF IsPtr(Top(0)) THEN Sets(Append(stk, Int0(heap[Top(0).v].tag))) ELSE Ends("wrong")
OpAdd == Doing("add") /\ Sets(SetTop(stk, Int0(Top(0).v + I.w.v)))

-----------------------------------------------------------------------------
(* Calls, returns and case *)

Enter(s, b, dst, ret) ==
  LET t == BPLink(s, ret, b) IN
  IF HasRoom(t)
    THEN /\ stk' = t /\ bp' = Len(t) /\ pc' = dst /\ at' = "fetch"
         /\ UNCHANGED <<heap, exc, status>>
    ELSE Ends("stackspace")

CallFunBc == Doing("call") /\ Enter(Drop(stk, 1), bp, Top(0).v, After(pc))

RetCallIns ==
  /\ Doing("retcall")
  /\ stk' = SubSeq(stk, 1, bp - 2 - I.surr) \o TopN(stk, I.mine)
  /\ pc' = stk[bp-1].v /\ bp' = Caller(stk, bp)
  /\ UNCHANGED <<heap, at, exc, status>>

TailCall ==
  /\ Doing("tailcall")
  /\ LET s == SubSeq(stk, 1, bp - 2 - I.surr) \o TopN(Drop(stk, 1), I.mine)
     IN  stk' = s \o << stk[bp-1], stk[bp] >> /\ bp' = Len(s) + 2
  /\ pc' = Top(0).v
  /\ UNCHANGED <<heap, at, exc, status>>

CaseCall ==
  /\ Doing("casecall")
  /\ stk' = Drop(stk, 1) /\ pc' = I.alts[Top(0).v + 1].v
  /\ UNCHANGED <<heap, bp, at, exc, status>>

RetCase ==
  /\ Doing("retcase")
  /\ stk' = Drop(stk, I.surr) \o TopN(stk, I.mine) /\ pc' = I.dst.v
  /\ UNCHANGED <<heap, bp, at, exc, status>>

-----------------------------------------------------------------------------
(* Evaluation *)

EvalIns ==
  /\ Doing("eval")
  /\ at' = "eval" /\ pc' = After(pc)
  /\ UNCHANGED <<heap, stk, bp, exc, status>>

Thunk(cat) ==
  /\ Label("eval") /\ IsPtr(Top(0))
  /\ heap[Top(0).v].ev = "yes" /\ heap[Top(0).v].cat = cat

BugBlackHoled(h, n) == h
BlackHoled(h, n) == [h EXCEPT ![n].ev = "blh"]

EvalValue ==
  /\ Label("eval") /\ (IsPtr(Top(0)) => heap[Top(0).v].ev = "no")
  /\ at' = "fetch"
  /\ UNCHANGED <<heap, stk, bp, pc, exc, status>>

EvalFun ==
  /\ Thunk("Fun")
  /\ LET n == Top(0).v
         s == BPLink(stk, pc, bp)
         t == PushNodeArgs(s, n)
         u == BPLink(t, [lbl |-> "AfterEval", ix |-> 1], Len(s))
     IN IF HasRoom(t)
          THEN /\ stk' = u /\ bp' = Len(u) /\ pc' = heap[n].flds[1].v
               /\ heap' = BlackHoled(heap, n) /\ at' = "fetch"
               /\ UNCHANGED <<exc, status>>
          ELSE Ends("stackspace")

(* an application is not marked, and the stack is not checked *)
EvalApp ==
  /\ Thunk("App")
  /\ LET s == BPLink(stk, pc, bp) IN
     IF Overruns(s) THEN Ends("overrun")
     ELSE /\ stk' = Append(s, heap[Top(0).v].flds[1]) /\ bp' = Len(s)
          /\ pc' = [lbl |-> "AfterAppFun", ix |-> 1]
          /\ UNCHANGED <<heap, at, exc, status>>

(* goes on with the indirection on top of the stack *)
BugEvalInd == Thunk("Ind") /\ UNCHANGED vars
EvalInd ==
  /\ Thunk("Ind")
  /\ LET x == FollowObject(heap, Top(0)) IN
     IF IsInd(heap, x) THEN Ends("loop")
     ELSE stk' = SetTop(stk, x) /\ UNCHANGED <<heap, bp, pc, at, exc, status>>

EvalBlackHole ==
  /\ Label("eval") /\ IsPtr(Top(0)) /\ heap[Top(0).v].ev = "blh"
  /\ Ends("black hole")

EvalUpdCont ==
  /\ Doing("evupdcont")
  /\ LET x == Top(0)
         s == SubSeq(stk, 1, bp - 2)
     IN  /\ heap' = UpdInd(heap, s[Len(s)].v, x)
         /\ stk' = SetTop(s, x)
  /\ pc' = stk[bp-1].v /\ bp' = Caller(stk, bp)
  /\ UNCHANGED <<at, exc, status>>

(* the function of an application has been evaluated: apply it *)
EvalApplyCont ==
  /\ Doing("evappcont")
  /\ LET n == Top(3).v IN
     stk' = PushNodeArgs(Drop(stk, 1), n) \o << Raw(Len(heap[n].flds) - 1), Top(0) >>
  /\ at' = "apply" /\ pc' = After(pc)
  /\ UNCHANGED <<heap, bp, exc, status>>

PApplyCont ==
  /\ Doing("papplycont")
  /\ stk' = SetTop(Drop(stk, 1), Top(0)) /\ pc' = Top(1).v /\ at' = "apply"
  /\ UNCHANGED <<heap, bp, exc, status>>

-----------------------------------------------------------------------------
(* Application *)

ApplyIns ==
  /\ Doing("apply")
  /\ at' = "apply" /\ pc' = After(pc)
  /\ UNCHANGED <<heap, stk, bp, exc, status>>

IsPAp(w) == IsPtr(w) /\ heap[w.v].cat = "PAp"

(* the words below function and number of arguments, with the arguments the
   function lacks on top and, below them, what a further apply needs *)
KeepLeftOver(n, nArgs) ==
  LET miss == heap[n].tag
      args == TopN(Drop(stk, 2), miss)
  IN  Drop(stk, 2 + miss) \o << Raw(nArgs - miss), At(pc) >> \o args

ApplyTooMany ==
  /\ Label("apply") /\ IsPAp(Top(0)) /\ Top(1).v > heap[Top(0).v].tag
  /\ LET n == Top(0).v
         s == BPLink(PushNodeArgs(KeepLeftOver(n, Top(1).v), n),
                     [lbl |-> "AfterTooMany", ix |-> 1], bp)
     IN  IF Overruns(s) THEN Ends("overrun")
         ELSE /\ stk' = s /\ bp' = Len(s) /\ pc' = heap[n].flds[1].v
              /\ at' = "fetch" /\ UNCHANGED <<heap, exc, status>>

ApplyExact ==
  /\ Label("apply") /\ IsPAp(Top(0)) /\ Top(1).v = heap[Top(0).v].tag
  /\ LET n == Top(0).v IN
     Enter(PushNodeArgs(Drop(stk, 2), n), bp, heap[n].flds[1].v, pc)

ApplyTooFew ==
  /\ Label("apply") /\ IsPAp(Top(0)) /\ Top(1).v < heap[Top(0).v].tag
  /\ Len(heap) < HeapLimit
  /\ LET n == heap[Top(0).v]
         k == Top(1).v
         s == Drop(stk, 2)
     IN  /\ heap' = Append(heap, Node("no", "PAp", n.tag - k, n.flds \o Reverse(TopN(s, k))))
         /\ stk' = Append(Drop(s, k), Ptr(Len(heap) + 1))
  /\ at' = "fetch" /\ UNCHANGED <<bp, pc, exc, status>>

ApplyWrong == Label("apply") /\ ~IsPAp(Top(0)) /\ Ends("wrong")

TailApply ==
  /\ Doing("tailapply")
  /\ stk' = SubSeq(stk, 1, bp - 2 - I.surr) \o TopN(stk, I.mine)
  /\ pc' = stk[bp-1].v /\ bp' = Caller(stk, bp) /\ at' = "apply"
  /\ UNCHANGED <<heap, exc, status>>

-----------------------------------------------------------------------------
(* Tail evaluation: the frame of the function becomes one that waits for the
   value.  When the function itself was entered to evaluate what such a frame
   waits for, that frame serves again: its node refers to the new one. *)

TailEvalAgain ==
  /\ Kind(stk, bp) = "EvCont"
  /\ Caller(stk, bp) # 0
  /\ Kind(stk, Caller(stk, bp)) = "TailEvalCont"

TailEval ==
  /\ Doing("taileval")
  /\ pc' = [lbl |-> "AfterTailEval", ix |-> 1] /\ at' = "eval"
  /\ \/ /\ TailEvalAgain
        /\ LET b == Caller(stk, Caller(stk, bp)) IN
           /\ bp' = b
           /\ heap' = UpdInd(heap, stk[b+2].v, Top(0))
           /\ stk' = SetTop(SubSeq(stk, 1, b + 2), Top(0))
     \/ /\ ~TailEvalAgain
        /\ stk' = SubSeq(stk, 1, bp) \o << Raw(I.surr), Top(0) >>
        /\ UNCHANGED <<heap, bp>>
  /\ UNCHANGED <<exc, status>>

TailEvalCont ==
  /\ Doing("tailevalcont")
  /\ stk' = Append(SubSeq(stk, 1, bp - 2 - Top(1).v), Top(0))
  /\ pc' = stk[bp-1].v /\ bp' = Caller(stk, bp)
  /\ UNCHANGED <<heap, at, exc, status>>

-----------------------------------------------------------------------------
(* Nodes *)

AllocStore ==
  /\ Doing("alloc") /\ Len(heap) < HeapLimit
  /\ heap' = Append(heap, [I.hdr EXCEPT !.flds = Reverse(TopN(stk, I.n))])
  /\ stk' = Append(Drop(stk, I.n), Ptr(Len(heap) + 1))
  /\ pc' = After(pc) /\ UNCHANGED <<bp, at, exc, status>>

Fetch ==
  /\ Doing("fetch")
  /\ Sets(Drop(stk, 1) \o Reverse(heap[Top(0).v].flds))

FetchUpdate ==
  /\ Doing("fetchupd")
  /\ heap' = UpdInd(heap, Top(1).v, FollowObject(heap, Top(0)))
  /\ stk' = Drop(stk, 2)
  /\ pc' = After(pc) /\ UNCHANGED <<bp, at, exc, status>>

-----------------------------------------------------------------------------
(* C functions.  A C call c is made by callc, with a frame of its own, or by
   evaluating a CFun node, without.  GB_CallC_Code_Postamble takes the frame
   at bp away, which after an exception is the one of the handler. *)

Postamble(res, s, b) ==
  LET nargs == s[b-2].v IN
  /\ stk' = Append(SubSeq(s, 1, b - 3 - nargs), res)
  /\ pc' = s[b-1].v /\ bp' = s[b].v

FrameAt(s, b) ==
  b > 2 /\ b <= Len(s) /\ s[b].k = "bp" /\ s[b-1].k = "pc" /\ s[b-2].k = "raw"

(* the postamble takes away a frame; where there is none, which a C function
   called from a loop left by an exception finds, it jumps to anywhere *)
Returns(res, s, b, h) ==
  IF FrameAt(s, b)
    THEN Postamble(res, s, b) /\ at' = "fetch" /\ heap' = h /\ UNCHANGED status
    ELSE status' = "crash" /\ UNCHANGED <<heap, stk, bp, pc, at>>

(* a C function returns while exception t passes w nested loops: the loop that
   called it is left, or is the one that the handler runs in *)
PassesExc(res, s, b, h, t, w) ==
  /\ thrown' = t /\ wrappers' = w
  /\ \/ w > 0 /\ at' = "leave" /\ stk' = s /\ bp' = b /\ heap' = h /\ UNCHANGED <<pc, status>>
     \/ w = 0 /\ Returns(res, s, b, h)

(* frames from b up to the first handler; 0 when there is none *)
HandlerFrom(s, b) ==
  LET f[p \in 0..Len(s)] == IF p = 0 \/ Kind(s, p) = "Hdlr" THEN p ELSE f[Caller(s, p)]
  IN  f[b]
Unwound(s, b) ==
  LET f[p \in 0..Len(s)] ==
        IF p = 0 \/ Kind(s, p) = "Hdlr" THEN <<>> ELSE <<p>> \o f[Caller(s, p)]
  IN  f[b]
Patches(s, p) ==
  /\ Kind(s, p) = "EvCont" /\ Caller(s, p) # 0
  /\ Kind(s, Caller(s, p)) \in {"Eval", "EvalWrap", "EvalTopWrap"}
UnderEval(s, p) == s[Caller(s, p) - 2].v

(* nodes under evaluation in unwound frames become the throwing thunk *)
Patched(h, s, b, e) ==
  LET ps == SelectSeq(Unwound(s, b), LAMBDA p : Patches(s, p))
      t  == Len(h) + 1
      h1 == Append(h, CThunk("throw", <<e>>))
  IN  IF ps = <<>> THEN h
      ELSE FoldLeft(LAMBDA g, p : UpdTmp(g, UnderEval(s, p), t), h1, ps)

NrOfEvalWrappers(s, b) ==
  Len(SelectSeq(Unwound(s, b), LAMBDA p : Kind(s, p) = "EvalTopWrap"))

Throw(e, s, b, h) ==
  LET p  == HandlerFrom(s, b)
      h1 == Patched(h, s, b, e)
      s1 == [SubSeq(s, 1, p) EXCEPT ![p-1] = Loc("ExcThrowReturn")]
      t  == Ptr(Len(h1) + 1)
      w  == NrOfEvalWrappers(s, b)
  IN  IF p = 0 THEN Ends("uncaught")
      ELSE PassesExc(t, s1, p, Append(h1, Con(0, <<e>>)), t, w) /\ UNCHANGED cstk

Catch(e, hdl, s, b) ==
  LET s1 == BPLink(s \o << e, Raw(1) >>, [lbl |-> "ExcNormalReturn", ix |-> 1], b)
      s2 == BPLink(s1 \o << hdl, e, Raw(2) >>, [lbl |-> "ExcEvalValue", ix |-> 1], Len(s1))
  IN  Returns(e, s2, Len(s2), heap) /\ UNCHANGED exc

(* a primitive that evaluates its argument (gb_eval), as primByteArrayLength *)
Force(c, x, s, b, h) ==
  /\ stk' = Append(s, x) /\ bp' = b /\ heap' = h
  /\ pc' = [lbl |-> "Eval", ix |-> 1] /\ at' = "fetch"
  /\ cstk' = Append(cstk, c) /\ wrappers' = 0
  /\ UNCHANGED <<thrown, status>>

CallC ==
  /\ Doing("callc")
  /\ LET s == BPLink(SetTop(stk, Raw(I.n)), After(pc), bp)
         c == [site |-> "callc"]
     IN  \/ Top(0) = CFun("throw") /\ Throw(Top(1), s, Len(s), heap)
         \/ Top(0) = CFun("catch") /\ Catch(Top(1), Top(2), s, Len(s))
         \/ Top(0) = CFun("force") /\ Force(c, Top(1), s, Len(s), heap)

EvalCFun ==
  /\ Thunk("CFun")
  /\ LET n == Top(0).v
         c == [site |-> "cfun", node |-> n, ret |-> pc]
         h == BlackHoled(heap, n)
         f == heap[n].flds
     IN  \/ f[1] = CFun("throw") /\ Throw(f[2], stk, bp, h)
         \/ f[1] = CFun("force") /\ Force(c, f[2], stk, bp, h)

-----------------------------------------------------------------------------
(* The end of a loop: gb_evalTos and gb_eval return to the C function *)

HaltMain == Doing("halt") /\ cstk = <<>> /\ Ends("done")

HaltNested ==
  /\ Doing("halt") /\ cstk # <<>>
  /\ LET c == Last(cstk)
         s == Drop(stk, 1)
     IN  IF c.site = "callc" THEN Returns(Top(0), s, bp, heap)
         ELSE /\ heap' = UpdInd(heap, c.node, Top(0)) /\ stk' = SetTop(s, Top(0))
              /\ pc' = c.ret /\ at' = "fetch" /\ UNCHANGED <<bp, status>>
  /\ cstk' = Front(cstk) /\ UNCHANGED <<thrown, wrappers>>

(* a loop left by an exception: gb_evalTos stores it on top of the stack *)
LeaveLoop ==
  /\ Label("leave") /\ cstk # <<>>
  /\ PassesExc(thrown, Drop(SetTop(stk, thrown), 1), bp, heap, thrown, wrappers - 1)
  /\ cstk' = Front(cstk)

ResetThrownException ==
  /\ Doing("resetexc")
  /\ thrown' = Null /\ wrappers' = 0 /\ pc' = After(pc)
  /\ UNCHANGED <<heap, stk, bp, at, cstk, status>>

-----------------------------------------------------------------------------
Next ==
  \/ LdImm \/ LdTos \/ LdNodeTag \/ OpAdd
  \/ CallFunBc \/ RetCallIns \/ TailCall \/ CaseCall \/ RetCase
  \/ EvalIns \/ EvalValue \/ EvalFun \/ EvalApp \/ EvalInd \/ EvalBlackHole
  \/ EvalUpdCont \/ EvalApplyCont \/ PApplyCont
  \/ ApplyIns \/ ApplyTooMany \/ ApplyExact \/ ApplyTooFew \/ ApplyWrong
  \/ TailApply \/ TailEval \/ TailEvalCont
  \/ AllocStore \/ Fetch \/ FetchUpdate
  \/ CallC \/ EvalCFun \/ HaltMain \/ HaltNested \/ LeaveLoop \/ ResetThrownException

(* the loop of the interpreter goes on until it halts or panics *)
Spec == Init /\ [][Next]_vars /\ WF_vars(Next)
=============================================================================
