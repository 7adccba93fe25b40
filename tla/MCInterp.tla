------------------------------ MODULE MCInterp ------------------------------
(***************************************************************************)
(* A library of functions compiled as the code generator does, all         *)
(* programs of three thunks over it, and the meaning of a program as a     *)
(* lazy functional language gives it, to compare the machine with.         *)
(***************************************************************************)
EXTENDS StackTrace, FiniteSets

CONSTANT Fuel      \* bound of the reference: depth of evaluation taken for infinite

VARIABLES
  den,             \* the meaning of every node of the initial heap
  raised           \* an exception has been thrown

lds(n) == [op |-> "lds", n |-> n]
ldi(w) == [op |-> "ldi", w |-> w]
eval == InsCI("eval", "Eval")
taileval(surr) == [op |-> "taileval", surr |-> surr]
callc(f, n) == << ldi(CFun(f)), [op |-> "callc", n |-> n, ci |-> "CCall"], RetCall(1, n) >>

MCCode ==
  [ id1     |-> << lds(2), taileval(1) >>,
    strict1 |-> << lds(2), eval, RetCall(1, 1) >>,
    call1   |-> << lds(2), ldi(Loc("strict1")), InsCI("call", "Call"), RetCall(1, 1) >>,
    tcall1  |-> << lds(2), ldi(Loc("id1")), [op |-> "tailcall", mine |-> 1, surr |-> 1] >>,
    mk1     |-> << lds(2), ldi(Loc("strict1")),
                   [op |-> "alloc", n |-> 2, hdr |-> Node("yes", "Fun", 0, <<>>)], taileval(1) >>,
    seq2    |-> << lds(2), eval, lds(4), taileval(2) >>,
    ap2     |-> << lds(3), ldi(Raw(1)), lds(4), eval,
                   [op |-> "tailapply", mine |-> 3, surr |-> 2] >>,
    apnt2   |-> << lds(3), ldi(Raw(1)), lds(4), eval, InsCI("apply", "Apply"), RetCall(1, 2) >>,
    case1   |-> << lds(2), eval, Ins("lnt"), [op |-> "casecall", alts |->
                   <<Loc("caseCon"), Loc("caseOther"), Loc("caseOther")>>] >>,
    caseCon |-> << Ins("fetch"), eval, lds(0), [op |-> "retcase", mine |-> 1, surr |-> 2,
                   dst |-> Loc("caseOther")] >>,
    caseOther |-> << RetCall(1, 1) >>,
    rec0    |-> << ldi(Loc("loop0")), [op |-> "alloc", n |-> 1, hdr |-> Node("yes", "Fun", 0, <<>>)],
                   ldi(Int0(3)), [op |-> "alloc", n |-> 1, hdr |-> Node("no", "Con", 0, <<>>)],
                   lds(1), lds(1), Ins("fetchupd"), lds(1), taileval(0) >>,
    three0  |-> << ldi(Int0(1)), [op |-> "add", w |-> Int0(2)], RetCall(1, 0) >>,
    loop0   |-> << ldi(Loc("loop0")), InsCI("call", "Call"), RetCall(1, 0) >>,
    throw1  |-> << lds(2) >> \o callc("throw", 1),
    force1  |-> << lds(2) >> \o callc("force", 1),
    catch2  |-> << lds(3), lds(3) >> \o callc("catch", 2),
    nine1   |-> << ldi(Int0(9)), RetCall(1, 1) >>,
    eight1  |-> << ldi(Int0(8)), RetCall(1, 1) >>,
    again2  |-> << lds(2), taileval(2) >> ]

-----------------------------------------------------------------------------
(* Programs: nodes 4 and up are the same in all of them *)

K == 3
Nine == Ptr(4)   Eight == Ptr(5)   IdF == Ptr(6)   SeqF == Ptr(7)   Box == Ptr(8)
Again(n) == Ptr(7 + n)   Raise == Ptr(11)   Raised == Ptr(12)
Fixed == << PAp("nine1", 1, <<>>), PAp("eight1", 1, <<>>), PAp("id1", 1, <<>>),
            PAp("seq2", 2, <<>>), Con(0, <<Int0(3)>>),
            PAp("again2", 1, <<Ptr(2)>>), PAp("again2", 1, <<Ptr(3)>>),
            Fun("throw1", <<Int0(5)>>), CThunk("throw", <<Int0(5)>>) >>

T(n) == Ptr(n)
Strict(x) == { Fun(l, <<x>>) : l \in {"id1", "strict1", "mk1", "case1", "force1"} }
             \cup { CThunk("force", <<x>>), App(IdF, <<x>>), App(x, <<Int0(3)>>) }
Pairs(x, y) == { Fun("seq2", <<x, y>>), Fun("ap2", <<x, y>>), Fun("apnt2", <<x, y>>),
                 App(SeqF, <<x, y>>), App(IdF, <<x, y>>), App(x, <<x, y>>) }

Thunks3 ==
  { Fun("id1", <<T(3)>>), Fun("strict1", <<T(3)>>), Fun("id1", <<Box>>), Fun("throw1", <<Int0(5)>>),
    CThunk("throw", <<Int0(5)>>), Fun("three0", <<>>), Fun("loop0", <<>>), Fun("rec0", <<>>),
    App(T(3), <<Int0(3)>>), App(SeqF, <<Int0(3)>>), Fun("strict1", <<IdF>>),
    Fun("force1", <<Raise>>), Fun("id1", <<Raised>>) }
Thunks2 ==
  Strict(T(3)) \cup Pairs(T(3), T(3))
  \cup { Fun("call1", <<T(3)>>), Fun("tcall1", <<T(3)>>), Fun("catch2", <<T(3), Nine>>),
         App(SeqF, <<T(3)>>), Fun("id1", <<T(1)>>) }
Thunks1 ==
  Strict(T(2)) \cup Pairs(T(2), T(3))
  \cup { Fun("catch2", <<T(2), h>>) : h \in {Eight, Again(2), Again(3), T(3)} }

AllPrograms == { <<a, b, c>> \o Fixed : a \in Thunks1, b \in Thunks2, c \in Thunks3 }
Holds(h, f) == \E n \in 1..K : h[n].flds[1] \in f
Forces  == {CFun("force"), Loc("force1")}

(* In the programs of RethrowPrograms a primitive evaluates a node that an
   exception has turned into a throwing one; see HandlerReached. *)
RethrowPrograms == { h \in AllPrograms : Holds(h, Forces) /\ Holds(h, {CFun("throw")}) }
Programs == AllPrograms \ RethrowPrograms

-----------------------------------------------------------------------------
(* The reference: the outcome of a word is a value, exc, bot or wrong.  The
   values are the forms the machine's results are compared with. *)

Val(w) == [o |-> "val", w |-> w]
Other(o) == [o |-> o, w |-> Null]
PApVal(l, miss, args) == [o |-> "pap", w |-> [l |-> l, miss |-> miss, args |-> args]]
ConVal(n) == [o |-> "con", w |-> n]

RECURSIVE Meaning(_, _, _), CallMeaning(_, _, _, _), ApplyMeaning(_, _, _, _)

Meaning(h, w, k) ==
  IF k = 0 THEN Other("bot")
  ELSE IF ~IsPtr(w) THEN Val(w)
  ELSE LET n == h[w.v]
           f == n.flds[1]
           args == Tail(n.flds)
       IN CASE n.cat = "Con" -> ConVal(n)
            [] n.cat = "PAp" -> PApVal(f.v.lbl, n.tag, args)
            [] n.cat = "Fun" -> CallMeaning(h, f.v.lbl, args, k - 1)
            [] n.cat = "CFun" -> CallMeaning(h, IF f.v = "throw" THEN "throw1" ELSE "force1", args, k - 1)
            [] n.cat = "App" -> ApplyMeaning(h, Meaning(h, f, k - 1), args, k - 1)

CallMeaning(h, l, a, k) ==
  LET M(w) == Meaning(h, w, k) IN
  CASE l \in {"id1", "strict1", "call1", "tcall1", "mk1", "force1", "again2"} -> M(a[1])
    [] l = "seq2" -> LET r == M(a[1]) IN IF r.o \in {"exc", "bot", "wrong"} THEN r ELSE M(a[2])
    [] l \in {"ap2", "apnt2"} -> ApplyMeaning(h, M(a[1]), <<a[2]>>, k)
    [] l = "case1" -> LET r == M(a[1]) IN
         IF r.o = "con" THEN M(r.w.flds[1]) ELSE IF r.o \in {"exc", "bot"} THEN r ELSE Other("wrong")
    [] l = "rec0" -> ConVal(Con(0, <<Int0(3)>>))
    [] l = "three0" -> Val(Int0(3))
    [] l = "nine1" -> Val(Int0(9))
    [] l = "eight1" -> Val(Int0(8))
    [] l = "loop0" -> Other("bot")
    [] l = "throw1" -> Other("exc")
    [] l = "catch2" -> LET r == M(a[1]) IN
         IF r.o = "exc" THEN ApplyMeaning(h, M(a[2]), <<Int0(5)>>, k) ELSE r

ApplyMeaning(h, f, a, k) ==
  IF f.o \in {"exc", "bot", "wrong"} THEN f
  ELSE IF f.o # "pap" THEN Other("wrong")
  ELSE IF Len(a) < f.w.miss THEN PApVal(f.w.l, f.w.miss - Len(a), f.w.args \o a)
  ELSE LET r == CallMeaning(h, f.w.l, f.w.args \o SubSeq(a, 1, f.w.miss), k)
           rest == SubSeq(a, f.w.miss + 1, Len(a))
       IN IF rest = <<>> THEN r ELSE ApplyMeaning(h, r, rest, k)

(* what a result of the machine is to be *)
Matches(d, w) ==
  \/ d.o = "val" /\ w = d.w
  \/ d.o = "con" /\ IsPtr(w) /\ heap[w.v].cat = "Con" /\ heap[w.v].flds = d.w.flds
  \/ d.o = "pap" /\ IsPAp(w) /\ heap[w.v].tag = d.w.miss /\ heap[w.v].flds = <<Loc(d.w.l)>> \o d.w.args

-----------------------------------------------------------------------------
MCInit == Init /\ den = [n \in 1..Len(heap) |-> Meaning(heap, Ptr(n), Fuel)] /\ raised = FALSE
Finished == status # "run" /\ UNCHANGED <<vars, den, raised>>
Step == Next /\ UNCHANGED den /\ raised' = (raised \/ thrown' # Null)
MCNext == Step \/ Finished
MCSpec == MCInit /\ [][MCNext]_<<vars, den, raised>> /\ WF_<<vars, den, raised>>(Step)

-----------------------------------------------------------------------------
(* Whatever way evaluation, application, tail calls and exceptions take
   through the stack, the program ends as its meaning says: with its value,
   with an uncaught exception, or, if it has no value, in one of the ways an
   endless evaluation is noticed.  After an exception "black hole" is also
   possible: the nodes under evaluation that it passed stay marked. *)
ResultCorrect ==
  den[Main].o # "wrong" =>
    /\ status = "done" => Matches(den[Main], Top(0))
    /\ status = "uncaught" => den[Main].o = "exc"
    /\ status \in {"loop", "stackspace", "overrun"} => den[Main].o = "bot"
    /\ status = "black hole" => den[Main].o = "bot" \/ raised
    /\ status # "wrong"

(* Updates keep the meaning of every node of the program: one that has become
   a value, directly or through indirections, has become its own value, and
   one that was made to throw is one whose meaning is the exception. *)
NodesKeepMeaning ==
  \A n \in DOMAIN den :
    LET w == FollowObject(heap, Ptr(n)) IN
    den[n].o \notin {"wrong", "bot"} /\ ~IsInd(heap, w) =>
      /\ ~IsPtr(w) \/ heap[w.v].ev = "no" => Matches(den[n], w)
      /\ IsPtr(w) /\ heap[w.v].flds[1] = CFun("throw") => den[n].o = "exc"

(* Between two instructions the saved frame pointers lead through all frames
   to the end of the chain.  Exactly the nodes that a frame or a C function is
   to update, or the code it has just returned to, are marked black hole, each
   by one of them; after an exception some marked nodes are left over. *)
FramesLinked ==
  status = "run" /\ at # "leave" =>
    LET all == { p \in 1..Len(stk) : stk[p].k = "bp" }
        ups == { p \in all : Kind(stk, p) = "EvCont" }
        cs  == { i \in 1..Len(cstk) : cstk[i].site = "cfun" }
        now == IF pc = [lbl |-> "AfterEval", ix |-> 1] THEN {bp} ELSE {}
        upd == { UnderEval(stk, p) : p \in ups } \cup { stk[p-2].v : p \in now }
               \cup { cstk[i].node : i \in cs }
        blh == { n \in 1..Len(heap) : heap[n].ev = "blh" }
    IN  /\ \A p \in all : stk[p-1].k = "pc" /\ Caller(stk, p) \in all \cup {0}
        /\ { Caller(stk, p) : p \in all } \cup {bp} = all \cup {0} \/ all = {}
        /\ Cardinality({ Caller(stk, p) : p \in all }) = Cardinality(all)
        /\ upd \subseteq blh
        /\ ~raised => upd = blh
        /\ ~raised => Cardinality(upd) = Cardinality(ups) + Cardinality(cs) + Cardinality(now)

(* A program that has a value or an exception as its meaning comes to an end:
   the loop does not go round in circles. *)
Terminates == den[Main].o \notin {"wrong", "bot"} => <>(status # "run")

(* An exception leads to the code that calls the innermost handler, and a
   primitive that evaluates its argument passes it on. *)
HandlerReached == status # "crash"
=============================================================================
