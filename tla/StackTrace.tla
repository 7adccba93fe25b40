----------------------------- MODULE StackTrace -----------------------------
(***************************************************************************)
(* What the collector makes of the stack of the interpreter:               *)
(* mm_traceSupply_GBStack_Run4, mm/gbm/gbtracesupstack.cc.  The result is  *)
(* the places it visits, in order.  A visit replaces the word there by     *)
(* what mm_Trace_TraceObject makes of it, so a place missed keeps a        *)
(* pointer into memory that is given up, a place visited twice has a copy  *)
(* copied again, and a saved bp or return address is no root at all.       *)
(*                                                                         *)
(* Stack descriptions (GCStackInfo) only take words off that the compiler  *)
(* knows to be dead; they are left out, every area is visited as a whole.  *)
(***************************************************************************)
EXTENDS Interp

(* mm_traceSupply_GBStack_RunStack over the words above place high, which the
   stack grows away from, down to place low *)
RunStack(high, low) == [i \in 1..low - high |-> low + 1 - i]

(* the last area, the one above RET0 and LINK0, is not visited *)
BugRunAreas(s, b) ==
  LET areas[p \in 0..Len(s)] ==
        IF Caller(s, p) = 0 THEN <<>>
        ELSE RunStack(Caller(s, p), p - 2) \o areas[Caller(s, p)]
  IN  areas[b]

(* the areas between a frame and the one it was called from, innermost first *)
RunAreas(s, b) ==
  LET areas[p \in 0..Len(s)] ==
        IF Caller(s, p) = 0 THEN RunStack(0, p - 2)
        ELSE RunStack(Caller(s, p), p - 2) \o areas[Caller(s, p)]
  IN  areas[b]

Run4(s, b) == RunStack(b, Len(s)) \o RunAreas(s, b)

-----------------------------------------------------------------------------
IsLinkage(p) == stk[p].k = "bp" \/ (p < Len(stk) /\ stk[p+1].k = "bp")

(* Wherever a collection may come, between any two instructions, in code that
   a frame belongs to, it visits each word of the stack once, except saved
   frame pointers and return addresses, which it does not visit. *)
StackTraced ==
  status = "run" /\ at # "leave" /\ bp # 0 =>
    LET visited == Run4(stk, bp) IN
    /\ ToSet(visited) = { p \in 1..Len(stk) : ~IsLinkage(p) }
    /\ IsInjective(visited)
=============================================================================
