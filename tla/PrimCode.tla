-------------------------------- MODULE PrimCode --------------------------------
(* The C functions of primitives, as far as objects in C variables go.          *)
(*                                                                             *)
(* A function is a sequence of steps, the ones that bear on this: it enters    *)
(* and leaves groups of local roots, registers variables, allocates, fills,    *)
(* reads and writes nodes, evaluates, calls, and passes exceptions on.  What   *)
(* the tests in the code depend on outside the heap (files, digits, the length *)
(* asked for) is a choice.  The code modelled is that of the byte code backend *)
(* with the memory manager and the LTM library, at the last variant (99).      *)
EXTENDS Integers, Sequences

CONSTANT Digits       \* words of a node with a big number in it

ASSUME DigitsAssumption == Digits \in Nat \ {0}

--------------------------------------------------------------------------------
(* Values: an object, or one of these.                                         *)
Word  == 0            \* NULL, a number, a pointer to something that stays put
Stale == -1           \* the address of an object that has been moved since
Junk  == -2           \* a variable that has not been given a value yet

(* What the program has got when it calls a primitive.                         *)
NilObj     == 1       \* gb_Nil
NothingObj == 2       \* gb_Nothing
Thunk      == 3
List       == 4       \* a string of one character
Chan       == 5
Handle     == 6
Pair       == 7
Just       == 8
InitialHeap == << <<>>, <<>>, <<>>, <<Thunk, NilObj>>, <<List>>, <<Chan>>,
                  <<Thunk, Thunk>>, <<Thunk>> >>

Thrown == "gb_ThrownException"

--------------------------------------------------------------------------------
(* Steps.  An operand is a word, <<>>, a variable, <<v>>, or a field of the    *)
(* node that a variable refers to, <<v, i>>.                                   *)
GCSafeEnter        == [op |-> "enter"]
GCSafeLeave        == [op |-> "leave"]
GCSafe(vs)         == [op |-> "root", vs |-> vs]
GCSafeZeroed(vs)   == [op |-> "rootz", vs |-> vs]
NodeAlloc(x, n)    == [op |-> "alloc", x |-> x, n |-> n]
AllocEnsure(n)     == [op |-> "ensure", n |-> n]
NodeAllocEnsured(x, n) == [op |-> "alloce", x |-> x, n |-> n]
Fill(x, flds)      == [op |-> "fill", x |-> x, flds |-> flds]
Set(x, v)          == [op |-> "set", x |-> x, v |-> v]
Use(vs)            == [op |-> "use", vs |-> vs]
EvalIn(x, v)       == [op |-> "eval", x |-> x, v |-> v]
Call(x, p, args)   == [op |-> "call", x |-> x, p |-> p, args |-> args]
PassExc(leave)     == [op |-> "passexc", leave |-> leave]
Either(alts)       == [op |-> "either", alts |-> alts]
WhileCons(v, body) == [op |-> "while", v |-> v, body |-> body]
Throw(v)           == [op |-> "throw", v |-> v]
Return(v)          == [op |-> "return", v |-> v]

AllocSlack == 4       \* words that GB_AllocEnsure_Bytes adds to what is asked for

(* The macros that the primitives are written in.                              *)
MkConNode(x, flds)        == <<NodeAlloc(x, Len(flds) + 1), Fill(x, flds)>>
MkConNodeEnsured(x, flds) == <<NodeAllocEnsured(x, Len(flds) + 1), Fill(x, flds)>>
MkCFunNode(x, args)       == <<NodeAlloc(x, Len(args) + 2), Fill(x, <<<<>>>> \o args)>>
EvalPass(x, v, leave)     == <<EvalIn(x, v), PassExc(leave)>>
CallPass(p, args)         == <<Call("ignored", p, args), PassExc(TRUE)>>
TailCall(p, args)         == <<Call("res", p, args), Return(<<"res">>)>>

RegisterFinalizer(x) ==
  << GCSafeEnter, GCSafe({x}),
     Call("ignored", "NewWeakPtr", << <<x>>, <<>>, <<>> >>), GCSafeLeave >>
NodeAllocByteArray(x) ==
  <<NodeAlloc(x, 3), Fill(x, << <<>>, <<>> >>)>> \o RegisterFinalizer(x)
NodeAllocChan(x) ==
  <<NodeAlloc(x, 4), Fill(x, << <<>> >>)>> \o RegisterFinalizer(x)

LTMInteger_Op2_In2(z1, z2, extra) ==
  << GCSafeEnter, GCSafe({"x", "y"}), AllocEnsure(2 * Digits + extra + AllocSlack),
     NodeAllocEnsured(z1, Digits), Fill(z1, <<>>),
     NodeAllocEnsured(z2, Digits), Fill(z2, <<>>), Use({"x", "y", z1, z2}),
     GCSafeLeave >>

--------------------------------------------------------------------------------
(* Helpers of primitives.                                                      *)
C_NewWeakPtr ==
  << GCSafeEnter, GCSafe({"key", "val", "finalizer"}), NodeAlloc("ptr", 4),
     GCSafeLeave, Use({"key"}), Fill("ptr", << <<>> >>), Return(<<"ptr">>) >>

(* Evaluating the cell the loop ends at, though it may be left as it is, adds  *)
(* to what may happen.                                                         *)
C_listForceEval2 ==
  <<GCSafeEnter, GCSafe({"n"})>> \o EvalPass("n", <<"n">>, TRUE)
  \o << WhileCons("n", <<Set("n", <<"n", 2>>)>> \o EvalPass("n", <<"n">>, TRUE)),
        GCSafeLeave, Return(<<"n">>) >>

C_copyCStringFromEvalString ==
  << GCSafeEnter, GCSafe({"n"}),
     WhileCons("n", EvalPass("xx", <<"n", 1>>, TRUE) \o <<Set("n", <<"n", 2>>)>>),
     GCSafeLeave, Return(<<>>) >>

C_primCStringToString1Char ==
  << GCSafeEnter, GCSafeZeroed({"n", "n2"}),
     Either({ MkCFunNode("n2", << <<>>, <<>> >>) \o MkConNode("n", << <<>>, <<"n2">> >>),
              <<Set("n", <<"gb_Nil">>)>> }),
     GCSafeLeave, Return(<<"n">>) >>

C_primByteArrayToString1Char ==
  << Use({"mn"}), GCSafeEnter, GCSafe({"mn"}), GCSafeZeroed({"n", "n2"}), Use({"mn"}),
     Either({ MkCFunNode("n2", << <<"mn">>, <<>> >>) \o MkConNode("n", << <<>>, <<"n2">> >>),
              <<Set("n", <<"gb_Nil">>)>> }),
     GCSafeLeave, Return(<<"n">>) >>

--------------------------------------------------------------------------------
(* Exceptions of primitives.                                                   *)
OneFrame ==      \* of the walk over the stack to the handler
  << Either({ <<>>, MkCFunNode("thrownExc", << <<"exc">> >>) \o <<Use({"thrownExc"})>> }),
     Either({ <<>>,
       <<GCSafeEnter, GCSafeZeroed({"n1", "n2", "n3"})>>
       \o MkCFunNode("n1", << <<>> >>) \o MkConNode("n2", << <<>>, <<"n1">> >>)
       \o <<Set("n3", <<"reifiedBackTrace">>)>>
       \o MkConNode("reifiedBackTrace", << <<"n2">>, <<"n3">> >>) \o <<GCSafeLeave>> }),
     Either({ <<>>, <<Set("explicitStackTrace", <<"onStack">>)>> }) >>

C_throwException ==
  << GCSafeEnter, GCSafe({"exc"}),
     GCSafeZeroed({"thrownExc", "reifiedBackTrace", "explicitStackTrace"}),
     Set("reifiedBackTrace", <<"gb_Nil">>), Set("explicitStackTrace", <<"gb_Nil">>) >>
  \o OneFrame \o OneFrame
  \o MkConNode("thrownExc",
               << <<"exc">>, <<"reifiedBackTrace">>, <<"explicitStackTrace">> >>)
  \o << GCSafeLeave, Throw(<<"thrownExc">>), Return(<<"thrownExc">>) >>

C_throwIOErrorFromPrim ==
  << GCSafeEnter, GCSafe({"ioe_handle", "ioe_filename"}),
     GCSafeZeroed({"ioe_location", "ioe_description", "ioe", "exc"}),
     Set("ioe_location", <<"gb_Nil">>),
     Call("ioe_description", "CStringToString1Char", <<>>) >>
  \o MkConNode("ioe", << <<"ioe_handle">>, <<>>, <<"ioe_location">>,
                         <<"ioe_description">>, <<"ioe_filename">> >>)
  \o MkConNode("exc", << <<"ioe">> >>)
  \o <<GCSafeLeave>> \o TailCall("throwException", << <<"exc">> >>)

C_throwChanInteractionException ==
  << GCSafeEnter, GCSafe({"chan"}), GCSafeZeroed({"ioe_handle", "ioe_filename"}) >>
  \o MkConNode("ioe_filename", << <<"chan", 1>> >>)
  \o MkConNode("ioe_handle", << <<"chan">> >>)
  \o <<GCSafeLeave>>
  \o TailCall("throwIOErrorFromPrim", << <<"ioe_handle">>, <<"ioe_filename">> >>)

C_getChanEOFOrThrowExc ==
  << Use({"chan"}),
     Either({ TailCall("throwChanInteractionException", << <<"chan">> >>),
              <<Return(<<>>)>> }) >>

C_ChanGetChar ==
  <<Use({"chan"}), GCSafeEnter, GCSafe({"chan"})>>
  \o CallPass("getChanEOFOrThrowExc", << <<"chan">> >>)
  \o << Either({ <<>>, CallPass("getChanEOFOrThrowExc", << <<"chan">> >>),
                 <<Use({"chan"})>> }),
        GCSafeLeave, Return(<<>>) >>

C_ThrowWriteChanError ==
  << GCSafeEnter, GCSafe({"chan"}), GCSafeZeroed({"ioe_handle", "ioe_filename"}) >>
  \o MkConNode("ioe_handle", << <<"chan">> >>)
  \o MkConNode("ioe_filename", << <<"chan", 1>> >>)
  \o <<GCSafeLeave>>
  \o TailCall("throwIOErrorFromPrim", << <<"ioe_handle">>, <<"ioe_filename">> >>)

--------------------------------------------------------------------------------
(* Primitives.                                                                 *)
P_primNewMutVar ==
  <<GCSafeEnter, GCSafe({"init", "state"}), GCSafeZeroed({"mutVar"})>>
  \o MkConNode("mutVar", << <<"init">> >>)
  \o MkConNode("res", << <<"state">>, <<"mutVar">> >>)
  \o <<GCSafeLeave, Return(<<"res">>)>>

P_primReadMutVar ==
  <<GCSafeEnter, GCSafe({"mutVar", "state"})>>
  \o MkConNode("res", << <<"state">>, <<"mutVar", 1>> >>)
  \o <<GCSafeLeave, Return(<<"res">>)>>

P_primNewArray == MkConNode("array", << <<"initVal">>, <<"initVal">> >>)
                  \o <<Return(<<"array">>)>>

P_primMakeWeakPtr == TailCall("NewWeakPtr", << <<"key">>, <<"val">>, <<"finalizer">> >>)

(* primDeRefWeakPtr and primFinalizeWeakPtr: the value, or the finalizer, or   *)
(* neither.                                                                    *)
P_primDeRefWeakPtr ==
  << GCSafeEnter, GCSafe({"wp"}), Set("wp", <<"wp", 1>>),
     Either({ <<Set("wpDeref", <<"gb_Nothing">>)>>, MkConNode("wpDeref", << <<"wp">> >>) }),
     GCSafeLeave, Return(<<"wpDeref">>) >>

P_primRationalToDouble ==
  <<GCSafeEnter, GCSafe({"nr"}), GCSafeZeroed({"numerator", "divisor"})>>
  \o EvalPass("numerator", <<"nr", 1>>, TRUE) \o EvalPass("divisor", <<"nr", 2>>, TRUE)
  \o <<GCSafeLeave, Use({"numerator", "divisor"}), Return(<<>>)>>

(* primAddInteger and the other operations with one result.                    *)
P_primAddInteger ==
  << GCSafeEnter, GCSafe({"x", "y"}), AllocEnsure(Digits + AllocSlack),
     NodeAllocEnsured("z", Digits), Fill("z", <<>>), Use({"x", "y", "z"}),
     GCSafeLeave, Return(<<"z">>) >>

P_primQuotRemInteger ==
  LTMInteger_Op2_In2("n1", "n2", 3) \o MkConNode("n", << <<"n1">>, <<"n2">> >>)
  \o MkConNodeEnsured("n", << <<"n1">>, <<"n2">> >>) \o <<Return(<<"n">>)>>

P_primDivModInteger ==
  LTMInteger_Op2_In2("n1", "n2", 3) \o <<Use({"x", "y", "n1", "n2"})>>
  \o MkConNode("n", << <<"n1">>, <<"n2">> >>) \o <<Return(<<"n">>)>>

P_primDecodeDouble ==
  << GCSafeEnter, GCSafeZeroed({"n", "ni"}), NodeAlloc("ni", Digits), Fill("ni", <<>>) >>
  \o MkConNode("n", << <<"ni">>, <<>> >>) \o <<GCSafeLeave, Return(<<"n">>)>>

(* primShowInteger; primShowInt, primShowFloat and primShowDouble take a       *)
(* number that is no object.                                                   *)
P_primShowInteger ==
  <<Use({"integerNd"})>> \o NodeAllocByteArray("n") \o <<Use({"n"})>>
  \o TailCall("primByteArrayToString1Char", << <<"n">> >>)

P_primByteArrayToString ==
  EvalPass("n", <<"a">>, FALSE) \o TailCall("primByteArrayToString1Char", << <<"n">> >>)

P_primStringToByteArray ==
  <<GCSafeEnter, GCSafe({"n"}), GCSafeZeroed({"n2"})>>
  \o CallPass("listForceEval2", << <<"n">> >>) \o NodeAllocByteArray("n2")
  \o << Use({"n2"}),
        WhileCons("n", EvalPass("xx", <<"n", 1>>, TRUE) \o <<Set("n", <<"n", 2>>)>>),
        GCSafeLeave, Return(<<"n2">>) >>

P_primTraceStringExit ==
  <<GCSafeEnter, GCSafe({"n"})>> \o CallPass("listForceEval2", << <<"n">> >>)
  \o <<WhileCons("n", <<Set("n", <<"n", 2>>)>>), GCSafeLeave, Return(<<"n">>)>>

P_primHGetContents ==
  << Set("chan", <<"handle", 1>>), GCSafeEnter, GCSafe({"chan", "handle"}),
     GCSafeZeroed({"n", "res"}) >>
  \o CallPass("ChanGetChar", << <<"chan">> >>)
  \o << Either({ <<Set("res", <<"gb_Nil">>)>>,
                 <<GCSafeLeave>>
                 \o TailCall("throwChanInteractionException", << <<"chan">> >>),
                 MkCFunNode("n", << <<"handle">> >>)
                 \o MkConNode("res", << <<>>, <<"n">> >>) }),
        GCSafeLeave, Return(<<"res">>) >>

P_primHGetChar ==
  <<Set("chan", <<"handle", 1>>), Call("ignored", "ChanGetChar", << <<"chan">> >>),
    PassExc(FALSE), Return(<<>>)>>

(* primHPutChar and primHPutByteArray.                                         *)
P_primHPutChar ==
  << Set("chan", <<"handle", 1>>), Use({"chan"}),
     Either({ <<>>, << Call("ignored", "ThrowWriteChanError", << <<"chan">> >>),
                       PassExc(FALSE) >> }),
     Return(<<>>) >>

P_primOpenFileOrStd ==
  <<GCSafeEnter, GCSafe({"nmNd", "mbHandleNr"}), GCSafeZeroed({"chan", "mbHandleNrFromJust"})>>
  \o CallPass("listForceEval2", << <<"nmNd">> >>)
  \o CallPass("copyCStringFromEvalString", << <<"nmNd">> >>)
  \o EvalPass("mbHandleNr", <<"mbHandleNr">>, TRUE)
  \o << Either({ <<>>, EvalPass("mbHandleNrFromJust", <<"mbHandleNr", 1>>, TRUE) }),
        Either({ <<>>,
          <<GCSafeZeroed({"ioe_handle", "ioe_filename"}),
            Set("ioe_handle", <<"gb_Nothing">>)>>
          \o MkConNode("ioe_filename", << <<"nmNd">> >>) \o <<GCSafeLeave>>
          \o TailCall("throwIOErrorFromPrim", << <<"ioe_handle">>, <<"ioe_filename">> >>) }) >>
  \o NodeAllocChan("chan") \o <<Fill("chan", << <<"nmNd">> >>)>>
  \o MkConNode("handle", << <<"chan">> >>) \o <<GCSafeLeave, Return(<<"handle">>)>>

P_primThrowException == TailCall("throwException", << <<"exc">> >>)

(* gb_runIO, for a finalizer.                                                  *)
P_runIO ==
  <<GCSafeEnter, GCSafe({"io"}), GCSafeZeroed({"runIO"})>>
  \o MkConNode("runIO", << <<"io">>, <<>> >>)     \* GB_MkAppNode1In
  \o <<GCSafeLeave, EvalIn("ignored", <<"runIO">>), Return(<<>>)>>

--------------------------------------------------------------------------------
(* What the interpreter calls, with which objects.                             *)
Entry(p, params, args, body) == [p |-> p, params |-> params, args |-> args, body |-> body]

Primitives ==
  { Entry("primNewMutVar", <<"init", "state">>, <<Thunk, Pair>>, P_primNewMutVar),
    Entry("primReadMutVar", <<"mutVar", "state">>, <<Pair, Thunk>>, P_primReadMutVar),
    Entry("primNewArray", <<"initVal">>, <<Thunk>>, P_primNewArray),
    Entry("primMakeWeakPtr", <<"key", "val", "finalizer">>, <<Thunk, Pair, Just>>,
          P_primMakeWeakPtr),
    Entry("primDeRefWeakPtr", <<"wp">>, <<Pair>>, P_primDeRefWeakPtr),
    Entry("primRationalToDouble", <<"nr">>, <<Pair>>, P_primRationalToDouble),
    Entry("primAddInteger", <<"x", "y">>, <<Thunk, Thunk>>, P_primAddInteger),
    Entry("primQuotRemInteger", <<"x", "y">>, <<Thunk, Thunk>>, P_primQuotRemInteger),
    Entry("primDivModInteger", <<"x", "y">>, <<Thunk, Thunk>>, P_primDivModInteger),
    Entry("primDecodeDouble", <<>>, <<>>, P_primDecodeDouble),
    Entry("primShowInteger", <<"integerNd">>, <<Thunk>>, P_primShowInteger),
    Entry("primByteArrayToString", <<"a">>, <<Thunk>>, P_primByteArrayToString),
    Entry("primStringToByteArray", <<"n">>, <<List>>, P_primStringToByteArray),
    Entry("primTraceStringExit", <<"n">>, <<List>>, P_primTraceStringExit),
    Entry("primHGetContents", <<"handle">>, <<Handle>>, P_primHGetContents),
    Entry("primHGetChar", <<"handle">>, <<Handle>>, P_primHGetChar),
    Entry("primHPutChar", <<"handle">>, <<Handle>>, P_primHPutChar),
    Entry("primOpenFileOrStd", <<"nmNd", "mbHandleNr">>, <<List, Just>>, P_primOpenFileOrStd),
    Entry("primThrowException", <<"exc">>, <<Thunk>>, P_primThrowException) }

(* What the collector calls, and the end of the program.                       *)
RunIO == Entry("runIO", <<"io">>, <<Thunk>>, P_runIO)

(* The C functions that primitives call.                                       *)
Helpers ==
  { Entry("NewWeakPtr", <<"key", "val", "finalizer">>, <<>>, C_NewWeakPtr),
    Entry("listForceEval2", <<"n">>, <<>>, C_listForceEval2),
    Entry("copyCStringFromEvalString", <<"n">>, <<>>, C_copyCStringFromEvalString),
    Entry("CStringToString1Char", <<>>, <<>>, C_primCStringToString1Char),
    Entry("primByteArrayToString1Char", <<"mn">>, <<>>, C_primByteArrayToString1Char),
    Entry("throwException", <<"exc">>, <<>>, C_throwException),
    Entry("throwIOErrorFromPrim", <<"ioe_handle", "ioe_filename">>, <<>>,
          C_throwIOErrorFromPrim),
    Entry("throwChanInteractionException", <<"chan">>, <<>>,
          C_throwChanInteractionException),
    Entry("getChanEOFOrThrowExc", <<"chan">>, <<>>, C_getChanEOFOrThrowExc),
    Entry("ChanGetChar", <<"chan">>, <<>>, C_ChanGetChar),
    Entry("ThrowWriteChanError", <<"chan">>, <<>>, C_ThrowWriteChanError) }
=============================================================================
