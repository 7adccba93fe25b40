---------------------------- MODULE PrimRoots_proofs ----------------------------
(* Proofs about the machine that primitives run on: code that obeys the        *)
(* discipline never uses a stale variable, leaves its groups of roots, and     *)
(* finds the words it ensured, with any number of evaluations in progress      *)
(* inside each other.                                                          *)
(*                                                                             *)
(* The argument: every C function in progress is at a place of the walk, and   *)
(* what is known there is true.  A function that waits, for one it called, for *)
(* an evaluation, or for a collection that runs finalizers, is at the place    *)
(* where it does so, and what is known after a collection is true of it; so no *)
(* step of another function, of the collector or of the interpreter can make   *)
(* it false.                                                                   *)
EXTENDS PrimDiscipline, SequenceTheorems, TLAPS

--------------------------------------------------------------------------------
(* The inductive invariant                                                     *)

\* The value x of a variable is as known
Holds(x, a) ==
  /\ a = Valid => x \in Nat
  /\ a = New => x \in Nat /\ x > Old
  /\ a \in Word .. Old => x = a
Fits(u, env) == /\ DOMAIN u = DOMAIN env
                /\ \A v \in DOMAIN env : Holds(u[v], env[v])

IsSeq(s)   == \E S : s \in Seq(S)
IsFrame(f) == DOMAIN f = {"todo", "vars", "groups", "ret", "wait"}

Waits(d)      == frames[d].wait.x # ""
Collecting(d) == frames[d].wait.x = CollectPost

\* Whom the function at depth d returns to.
Answers(d) == /\ frames[d].ret \in Outside <=> d = 1 \/ (d > 1 /\ Waits(d - 1))
              /\ d > 1 /\ Collecting(d - 1) => frames[d].ret = CollectPost
StackInv == /\ IsSeq(frames)
            /\ \A d \in 1 .. Depth : IsFrame(frames[d])
            /\ \A d \in 1 .. Depth : Answers(d)

(* The function at depth d is at place p; or it waits at p.                    *)
AtPlace(d, p) ==
  /\ frames[d].todo = p.todo
  /\ Fits(frames[d].vars, p.env)
  /\ p.exc <=> thrown # Word
  /\ p.room <= room
Pending(d, p) ==
  /\ frames[d].todo = Tail(p.todo)
  /\ Fits(frames[d].vars, AfterGC(p).env)
Evaluates(d, p) ==
  /\ Pending(d, p)
  /\ Now(p).op = "eval"
  /\ frames[d].wait.x = Now(p).x
  /\ Holds(frames[d].wait.obj, Known(p, Now(p).v))
Collects(d, p) ==
  /\ frames[d].todo = p.todo
  /\ Fits(frames[d].vars, AfterGC(p).env)
  /\ Now(p).op \in {"alloc", "ensure"} /\ p.room < Now(p).n
  /\ Collecting(d)
Suspended(d, p) == Evaluates(d, p) \/ Collects(d, p)
CallsNext(d, p, q) ==
  /\ Pending(d, p)
  /\ Now(p).op = "call"
  /\ frames[d + 1].ret = Now(p).x
  /\ q.silent <=> Now(p).p \in Silent

CodeInv(ps) ==
  \A d \in 1 .. Depth :
    /\ Waits(d) => Suspended(d, ps[d])
    /\ ~ Waits(d) /\ d < Depth => CallsNext(d, ps[d], ps[d + 1])
    /\ ~ Waits(d) /\ d = Depth => AtPlace(d, ps[d])

(* The groups of the function at depth d are those known at place p.           *)
Root == [frame : Nat, ones : SUBSET (Nat \X STRING)]
GroupsIn(d, gs, grps, roots) ==
  /\ gs \in Seq(Nat) /\ Len(gs) = Len(grps)
  /\ \A j \in 1 .. Len(grps) :
       /\ gs[j] + 1 \in 1 .. Len(roots)
       /\ roots[gs[j] + 1] = [frame |-> d, ones |-> {d} \X grps[j]]
  /\ \A j, k \in 1 .. Len(grps) : j < k => gs[j] < gs[k]
GroupsFit(d, p) == GroupsIn(d, frames[d].groups, p.grps, lclRoots)

RootsInv(ps) ==
  /\ lclRoots \in Seq(Root)
  /\ \A d \in 1 .. Depth : GroupsFit(d, ps[d])
  /\ \A i \in 1 .. Len(lclRoots) :
       /\ lclRoots[i].frame \in 1 .. Depth
       /\ i - 1 \in ToSet(frames[lclRoots[i].frame].groups)
  /\ \A i, k \in 1 .. Len(lclRoots) : i < k => lclRoots[i].frame <= lclRoots[k].frame

HeapFits(h) ==
  /\ IsSeq(h) /\ Len(h) >= Old
  /\ \A x \in 1 .. Old : h[x] = InitialHeap[x]
  /\ \A x \in 1 .. Len(h) : \A i \in DOMAIN h[x] : h[x][i] \in Nat
HeapInv == HeapFits(heap) /\ thrown \in Nat /\ room \in Nat

(* What is dropped when an evaluation ends is younger than all that waits.     *)
HeightInv ==
  /\ \A d \in 1 .. Depth : /\ frames[d].wait.height \in Old .. Len(heap)
                           /\ ~ Waits(d) => frames[d].wait.height = Old
  /\ \A c, d \in 1 .. Depth :
       c < d /\ Waits(d) => frames[c].wait.height <= frames[d].wait.height

\* There is no exception when the allocation is tried again.
ThrownInv == Depth > 0 /\ Collecting(Depth) => thrown = Word

PInv(ps) == /\ ps \in [1 .. Depth -> Places]
            /\ StackInv /\ CodeInv(ps) /\ RootsInv(ps) /\ HeapInv /\ HeightInv /\ ThrownInv
IInv     == \E ps \in [1 .. Depth -> Places] : PInv(ps)

--------------------------------------------------------------------------------
(* Sequences.                                                                  *)

\* The members of a sequence are at its first so many places.
LEMMA SeqFacts == ASSUME NEW s, IsSeq(s) PROVE Len(s) \in Nat /\ DOMAIN s = 1 .. Len(s)
  BY DEF IsSeq

\* A function on the first so many numbers is a sequence.
IsTable(s, n) == s = [d \in 1 .. n |-> s[d]]

\* A function on the first so many numbers is a sequence.
LEMMA SeqIntro ==
  ASSUME NEW s, NEW n \in Nat, IsTable(s, n)
  PROVE  IsSeq(s) /\ Len(s) = n
  <1> DEFINE S == {s[d] : d \in 1 .. n}
  <1>1. s \in [1 .. n -> S] BY DEF IsTable
  <1>2. s \in Seq(S) BY <1>1
  <1>3. Len(s) = n BY <1>1, <1>2
  <1> QED BY <1>2, <1>3 DEF IsSeq

\* A sequence with another last member, with one more, and with some less.
LEMMA SeqTop ==
  ASSUME NEW s, IsSeq(s), Len(s) > 0, NEW x
  PROVE  /\ IsSeq([s EXCEPT ![Len(s)] = x]) /\ Len([s EXCEPT ![Len(s)] = x]) = Len(s)
         /\ [s EXCEPT ![Len(s)] = x][Len(s)] = x
         /\ \A d \in 1 .. Len(s) - 1 : [s EXCEPT ![Len(s)] = x][d] = s[d]
  <1> DEFINE t == [s EXCEPT ![Len(s)] = x]
  <1>1. Len(s) \in Nat /\ DOMAIN s = 1 .. Len(s) BY SeqFacts
  <1>2. IsTable(t, Len(s)) BY <1>1 DEF IsTable
  <1>3. t[Len(s)] = x /\ \A d \in 1 .. Len(s) - 1 : t[d] = s[d] BY <1>1
  <1> HIDE DEF t
  <1>4. IsSeq(t) /\ Len(t) = Len(s) BY <1>1, <1>2, SeqIntro
  <1> QED BY <1>3, <1>4 DEF t

\* A sequence with one member more.
LEMMA SeqPush ==
  ASSUME NEW s, IsSeq(s), NEW x
  PROVE  /\ IsSeq(Append(s, x)) /\ Len(Append(s, x)) = Len(s) + 1
         /\ Append(s, x)[Len(s) + 1] = x
         /\ \A d \in 1 .. Len(s) : Append(s, x)[d] = s[d]
  <1>1. PICK S : s \in Seq(S) BY DEF IsSeq
  <1>2. s \in Seq(S \cup {x}) /\ x \in S \cup {x} BY <1>1
  <1>3. Append(s, x) \in Seq(S \cup {x}) BY <1>2
  <1> QED BY <1>2, <1>3 DEF IsSeq

\* The first members of a sequence.
LEMMA SeqCut ==
  ASSUME NEW s, IsSeq(s), NEW n \in 0 .. Len(s)
  PROVE  /\ IsSeq(SubSeq(s, 1, n)) /\ Len(SubSeq(s, 1, n)) = n
         /\ \A d \in 1 .. n : SubSeq(s, 1, n)[d] = s[d]
  <1> DEFINE t == SubSeq(s, 1, n)
  <1>1. Len(s) \in Nat /\ DOMAIN s = 1 .. Len(s) BY SeqFacts
  <1>2. PICK S : s \in Seq(S) BY DEF IsSeq
  <1>3. n \in Nat /\ t = [d \in 1 .. n |-> s[d]] BY <1>1, <1>2
  <1>4. IsTable(t, n) /\ \A d \in 1 .. n : t[d] = s[d] BY <1>3 DEF IsTable
  <1> HIDE DEF t
  <1>5. IsSeq(t) /\ Len(t) = n BY <1>3, <1>4, SeqIntro
  <1> QED BY <1>4, <1>5 DEF t

\* A sequence without its last member.
LEMMA SeqPop ==
  ASSUME NEW s, IsSeq(s), Len(s) > 0
  PROVE  /\ IsSeq(Front(s)) /\ Len(Front(s)) = Len(s) - 1
         /\ \A d \in 1 .. Len(s) - 1 : Front(s)[d] = s[d]
  <1>1. Len(s) \in Nat /\ Len(s) - 1 \in 0 .. Len(s) BY SeqFacts
  <1>2. Front(s) = SubSeq(s, 1, Len(s) - 1) BY DEF Front
  <1> QED BY <1>1, <1>2, SeqCut

--------------------------------------------------------------------------------
(* What is known.                                                              *)

\* What the program starts with.
LEMMA HeapFacts ==
  /\ Old = 8 /\ New = 9 /\ Valid = 10
  /\ IsSeq(InitialHeap) /\ Len(InitialHeap) = 8
  /\ \A x \in 1 .. 8 : \A i \in DOMAIN InitialHeap[x] : InitialHeap[x][i] \in 0 .. 8
  <1>1. InitialHeap \in Seq(Seq(0 .. 8)) /\ Len(InitialHeap) = 8
    BY DEF InitialHeap, Thunk, NilObj, List, Chan
  <1>2. ASSUME NEW x \in 1 .. 8, NEW i \in DOMAIN InitialHeap[x]
        PROVE  InitialHeap[x][i] \in 0 .. 8
    <2> DEFINE S == Seq(0 .. 8)
    <2>1. InitialHeap \in Seq(S) /\ x \in 1 .. Len(InitialHeap) BY <1>1
    <2> HIDE DEF S
    <2>2. InitialHeap[x] \in S BY <2>1
    <2>3. PICK t \in Seq(0 .. 8) : t = InitialHeap[x] BY <2>2 DEF S
    <2>4. DOMAIN t = 1 .. Len(t) /\ \A k \in 1 .. Len(t) : t[k] \in 0 .. 8 BY <2>3
    <2> QED BY <2>3, <2>4
  <1>3. IsSeq(InitialHeap) BY <1>1 DEF IsSeq
  <1> QED BY <1>1, <1>2, <1>3 DEF Old, New, Valid

\* A place obeys the discipline, and what comes after it does.
LEMMA PlaceFacts ==
  ASSUME NEW p \in Places
  PROVE  Obeys(p) /\ After(p) \subseteq Places /\ Called(p) \subseteq Places
  BY Disciplined

\* What is known of the variables is true of any variable, then of any operand.
LEMMA VarKnown ==
  ASSUME NEW f, NEW p, Fits(f.vars, p.env), thrown \in Nat, NEW v
  PROVE  Holds(VarOf(f, v), KnownVar(p, v))
  <1> USE HeapFacts DEF Word, Stale, Junk, NilObj, NothingObj, Thunk, Thrown, Holds
  <1>1. CASE v \in DOMAIN Globals BY <1>1 DEF VarOf, KnownVar, Globals
  <1>2. CASE v \notin DOMAIN Globals /\ v # Thrown /\ v \in DOMAIN p.env
    <2>1. VarOf(f, v) = f.vars[v] BY <1>2 DEF VarOf, Fits
    <2>2. KnownVar(p, v) = p.env[v] BY <1>2 DEF KnownVar
    <2> QED BY <1>2, <2>1, <2>2 DEF Fits
  <1>3. CASE v \notin DOMAIN Globals /\ v # Thrown /\ v \notin DOMAIN p.env
    BY <1>3 DEF KnownVar
  <1>4. CASE v \notin DOMAIN Globals /\ v = Thrown BY <1>4 DEF VarOf, KnownVar
  <1> QED BY <1>1, <1>2, <1>3, <1>4

\* And of any operand.
LEMMA OperandKnown ==
  ASSUME NEW p, Fits(Last(frames).vars, p.env), HeapInv, NEW v
  PROVE  Holds(Operand(v), Known(p, v))
  <1> DEFINE x == VarOf(Last(frames), v[1])
             a == KnownVar(p, v[1])
  <1>0. Holds(x, a) BY VarKnown DEF HeapInv, HeapFits
  <1> HIDE DEF x, a
  <1>1. CASE v = <<>> BY <1>1, HeapFacts DEF Operand, Known, Word, Holds
  <1>2. CASE v # <<>> /\ Len(v) = 1
    <2>1. Operand(v) = x BY <1>2 DEF Operand, x
    <2>2. Known(p, v) = a BY <1>2 DEF Known, a
    <2> QED BY <2>1, <2>2, <1>0
  <1>3. CASE v # <<>> /\ Len(v) # 1
    <2>1. Operand(v) = IF x > 0 /\ v[2] \in DOMAIN heap[x] THEN heap[x][v[2]] ELSE Junk
      BY <1>3 DEF Operand, x
    <2>2. Known(p, v) = IF a \in 1 .. Old /\ v[2] \in DOMAIN InitialHeap[a]
                        THEN InitialHeap[a][v[2]] ELSE Junk
      BY <1>3 DEF Known, a
    <2>3. CASE a \in 1 .. Old /\ v[2] \in DOMAIN InitialHeap[a]
      <3>1. x = a BY <2>3, <1>0, HeapFacts DEF Holds, Word
      <3>2. heap[a] = InitialHeap[a] BY <2>3, HeapFacts DEF HeapInv, HeapFits
      <3>3. Operand(v) = InitialHeap[a][v[2]] BY <2>1, <2>3, <3>1, <3>2, HeapFacts
      <3>4. Known(p, v) = InitialHeap[a][v[2]] BY <2>2, <2>3
      <3>5. InitialHeap[a][v[2]] \in 0 .. 8 BY <2>3, HeapFacts
      <3> QED BY <3>3, <3>4, <3>5, HeapFacts DEF Holds
    <2>4. CASE ~ (a \in 1 .. Old /\ v[2] \in DOMAIN InitialHeap[a])
      <3>1. Known(p, v) = Junk BY <2>2, <2>4
      <3> QED BY <3>1, HeapFacts DEF Holds, Junk, Word
    <2> QED BY <2>3, <2>4
  <1> QED BY <1>1, <1>2, <1>3

--------------------------------------------------------------------------------
(* Places.                                                                     *)
\* What the parts of a walk's step change.
LEMMA LaterFacts ==
  ASSUME NEW p, IsPlace(p)
  PROVE  /\ IsPlace(Later(p))
         /\ Later(p).todo = Tail(p.todo) /\ Later(p).env = p.env /\ Later(p).grps = p.grps
         /\ Later(p).exc = p.exc /\ Later(p).room = p.room /\ Later(p).silent = p.silent
  BY DEF IsPlace, Later

\* A variable that is given a value.
LEMMA BindFacts ==
  ASSUME NEW p, IsPlace(p), NEW x, NEW a
  PROVE  /\ IsPlace(Bind(p, x, a))
         /\ Bind(p, x, a).env = [v \in {x} \cup DOMAIN p.env |-> IF v = x THEN a ELSE p.env[v]]
         /\ Bind(p, x, a).todo = p.todo /\ Bind(p, x, a).grps = p.grps
         /\ Bind(p, x, a).exc = p.exc /\ Bind(p, x, a).room = p.room
         /\ Bind(p, x, a).silent = p.silent
  BY DEF IsPlace, Bind

\* What a collection leaves known.
LEMMA AfterGCFacts ==
  ASSUME NEW p, IsPlace(p)
  PROVE  /\ IsPlace(AfterGC(p))
         /\ AfterGC(p).env = [v \in DOMAIN p.env |->
                                IF p.env[v] # Word /\ ~ Rooted(p, v) THEN Junk ELSE p.env[v]]
         /\ AfterGC(p).todo = p.todo /\ AfterGC(p).grps = p.grps
         /\ AfterGC(p).exc = p.exc /\ AfterGC(p).room = p.room
         /\ AfterGC(p).silent = p.silent
         /\ \A v : Rooted(Later(p), v) <=> Rooted(p, v)
         /\ AfterGC(Later(p)).env = AfterGC(p).env
  BY DEF IsPlace, AfterGC, Later, Rooted

\* A call that is over, with or without an exception.
LEMMA ThrowsFacts ==
  ASSUME NEW p, IsPlace(p), NEW exc
  PROVE  /\ IsPlace(Throws(p, exc))
         /\ Throws(p, exc).todo = p.todo /\ Throws(p, exc).env = p.env
         /\ Throws(p, exc).grps = p.grps /\ Throws(p, exc).exc = exc
         /\ Throws(p, exc).room = 0 /\ Throws(p, exc).silent = p.silent
  BY DEF IsPlace, Throws

\* The place after a call or an evaluation.
LEMMA ResumeFacts ==
  ASSUME NEW p, IsPlace(p), NEW x, NEW a, NEW exc
  PROVE  /\ Resumed(p, x, a, exc).todo = Tail(p.todo)
         /\ Resumed(p, x, a, exc).grps = p.grps
         /\ Resumed(p, x, a, exc).exc = exc
         /\ Resumed(p, x, a, exc).room = 0
         /\ Resumed(p, x, a, exc).silent = p.silent
         /\ Resumed(p, x, a, exc).env = [v \in {x} \cup DOMAIN AfterGC(p).env |->
                                           IF v = x THEN a ELSE AfterGC(p).env[v]]
  <1>1. PICK r : r = Later(p) OBVIOUS
  <1>2. PICK c : c = AfterGC(r) OBVIOUS
  <1>3. PICK b : b = Bind(c, x, a) OBVIOUS
  <1>4. /\ IsPlace(r) /\ r.todo = Tail(p.todo) /\ r.grps = p.grps /\ r.silent = p.silent
    BY <1>1, LaterFacts
  <1>5. /\ IsPlace(c) /\ c.todo = r.todo /\ c.grps = r.grps /\ c.silent = r.silent
        /\ c.env = AfterGC(p).env
    BY <1>1, <1>2, <1>4, AfterGCFacts
  <1>6. /\ IsPlace(b) /\ b.todo = c.todo /\ b.grps = c.grps /\ b.silent = c.silent
        /\ b.env = [v \in {x} \cup DOMAIN c.env |-> IF v = x THEN a ELSE c.env[v]]
    BY <1>3, <1>5, BindFacts
  <1>7. Resumed(p, x, a, exc) = Throws(b, exc) BY <1>1, <1>2, <1>3 DEF Resumed
  <1> QED BY <1>4, <1>5, <1>6, <1>7, ThrowsFacts

\* What comes after each kind of step.
LEMMA AfterCases ==
  ASSUME NEW p
  PROVE  /\ Now(p).op = "enter" => After(p) = {[Later(p) EXCEPT !.grps = Append(@, {})]}
         /\ Now(p).op = "leave" => After(p) = {[Later(p) EXCEPT !.grps = Front(@)]}
         /\ Now(p).op = "root" => After(p) = {Register(Later(p), Now(p).vs)}
         /\ Now(p).op = "rootz" => After(p) =
              {Register([Later(p) EXCEPT !.env = Zeroed(@, Now(p).vs)], Now(p).vs)}
  BY DEF After

\* For allocation, assignment and use.
LEMMA AfterAlloc ==
  ASSUME NEW p
  PROVE  /\ Now(p).op = "alloc" => After(p) =
              {IF Now(p).n <= p.room THEN Taken(Bind(Later(p), Now(p).x, New), Now(p).n)
               ELSE [Bind(AfterGC(Later(p)), Now(p).x, New) EXCEPT !.room = 0]}
         /\ Now(p).op = "ensure" => After(p) = {[AfterGC(Later(p)) EXCEPT !.room = Now(p).n]}
         /\ Now(p).op = "alloce" =>
              After(p) = {Taken(Bind(Later(p), Now(p).x, New), Now(p).n)}
         /\ Now(p).op = "set" => After(p) = {Bind(Later(p), Now(p).x, Known(p, Now(p).v))}
         /\ Now(p).op \in {"fill", "use"} => After(p) = {Later(p)}
  BY DEF After

\* For branches, loops and exceptions.
LEMMA AfterJump ==
  ASSUME NEW p
  PROVE  /\ Now(p).op = "either" =>
              After(p) = {[Later(p) EXCEPT !.todo = alt \o @] : alt \in Now(p).alts}
         /\ Now(p).op = "while" => After(p) =
              {Later(p)} \cup (IF KnownVar(p, Now(p).v) = NilObj THEN {}
                 ELSE {[Later(p) EXCEPT !.todo = Now(p).body \o <<Now(p)>> \o @]})
         /\ Now(p).op = "passexc" => After(p) =
              {IF p.exc
               THEN [Later(p) EXCEPT !.todo = (IF Now(p).leave THEN <<GCSafeLeave>> ELSE <<>>)
                                              \o <<Return(<<Thrown>>)>>]
               ELSE Later(p)}
         /\ Now(p).op = "throw" => After(p) = {[Later(p) EXCEPT !.exc = TRUE]}
  BY DEF After

\* For calls and evaluations.
LEMMA AfterCall ==
  ASSUME NEW p
  PROVE  /\ Now(p).op = "call" => After(p) =
              {Resumed(p, Now(p).x, Valid, exc) : exc \in {FALSE} \cup {Now(p).p \notin Silent}}
         /\ Now(p).op = "eval" => After(p) =
              {Resumed(p, Now(p).x, Known(p, Now(p).v), FALSE),
               Resumed(p, Now(p).x, Valid, TRUE)}
  BY DEF After

--------------------------------------------------------------------------------
(* Variables.                                                                  *)

\* A variable that is given a value of which something is known.
LEMMA FitsBind ==
  ASSUME NEW u, NEW env, Fits(u, env), NEW x, NEW val, NEW a, Holds(val, a)
  PROVE  Fits([v \in {x} \cup DOMAIN u |-> IF v = x THEN val ELSE u[v]],
              [v \in {x} \cup DOMAIN env |-> IF v = x THEN a ELSE env[v]])
  BY DEF Fits

\* An assignment in a frame.
LEMMA AssignFacts ==
  ASSUME NEW f, IsFrame(f), NEW x, NEW val
  PROVE  /\ IsFrame(Assign(f, x, val))
         /\ Assign(f, x, val).vars = [v \in {x} \cup DOMAIN f.vars |->
                                        IF v = x THEN val ELSE f.vars[v]]
         /\ Assign(f, x, val).todo = f.todo /\ Assign(f, x, val).groups = f.groups
         /\ Assign(f, x, val).ret = f.ret /\ Assign(f, x, val).wait = f.wait
  BY DEF IsFrame, Assign

\* What the collector may have done to the variables of the function at depth d,
\* and to its frame.
AgedVars(u, w, d) ==
  /\ DOMAIN w = DOMAIN u
  /\ \A v \in DOMAIN u : w[v] = u[v] \/ (w[v] = Stale /\ u[v] > 0 /\ ~ Registered(d, v))
Aged(f, g, d) ==
  /\ IsFrame(g) /\ AgedVars(f.vars, g.vars, d)
  /\ g.todo = f.todo /\ g.groups = f.groups /\ g.ret = f.ret /\ g.wait = f.wait

\* The collector sees the variables in the groups of the function.
SeesRoots(p, d) == \A v : Registered(d, v) <=> Rooted(p, v)

\* It does, as the chain has the groups that are known.
LEMMA RegisteredIsRooted ==
  ASSUME NEW ps \in [1 .. Depth -> Places], RootsInv(ps), NEW d \in 1 .. Depth
  PROVE  SeesRoots(ps[d], d)
  <1> SUFFICES ASSUME NEW v PROVE Registered(d, v) <=> Rooted(ps[d], v) BY DEF SeesRoots
  <1>0. \A e \in 1 .. Depth : /\ GroupsFit(e, ps[e]) /\ WellFormed(ps[e])
                              /\ DOMAIN ps[e].grps = 1 .. Len(ps[e].grps)
    BY PlaceFacts DEF RootsInv, Obeys, WellFormed
  <1>1. ASSUME Registered(d, v) PROVE Rooted(ps[d], v)
    <2>1. PICK i \in 1 .. Len(lclRoots) : <<d, v>> \in lclRoots[i].ones
      BY <1>1 DEF Registered, RootsInv
    <2> DEFINE e == lclRoots[i].frame
    <2>2. e \in 1 .. Depth /\ i - 1 \in ToSet(frames[e].groups) BY DEF RootsInv
    <2> HIDE DEF e
    <2>6. frames[e].groups \in Seq(Nat) /\ Len(frames[e].groups) = Len(ps[e].grps)
      BY <1>0, <2>2 DEF GroupsFit, GroupsIn
    <2>8. PICK j \in DOMAIN frames[e].groups : frames[e].groups[j] = i - 1
      BY <2>2 DEF ToSet
    <2>3. j \in 1 .. Len(ps[e].grps) /\ frames[e].groups[j] = i - 1
      BY <2>6, <2>8, LenProperties
    <2>7. i = frames[e].groups[j] + 1 BY <2>3, <2>6
    <2>4. lclRoots[i] = [frame |-> e, ones |-> {e} \X ps[e].grps[j]]
      BY <1>0, <2>2, <2>3, <2>7 DEF GroupsFit, GroupsIn
    <2>5. d = e /\ v \in ps[e].grps[j] BY <2>1, <2>4
    <2> QED BY <1>0, <2>2, <2>3, <2>5 DEF Rooted
  <1>2. ASSUME Rooted(ps[d], v) PROVE Registered(d, v)
    <2>1. PICK j \in 1 .. Len(ps[d].grps) : v \in ps[d].grps[j] BY <1>0, <1>2 DEF Rooted
    <2>2. /\ frames[d].groups[j] + 1 \in 1 .. Len(lclRoots)
          /\ lclRoots[frames[d].groups[j] + 1] = [frame |-> d, ones |-> {d} \X ps[d].grps[j]]
      BY <1>0, <2>1 DEF GroupsFit, GroupsIn
    <2>3. <<d, v>> \in lclRoots[frames[d].groups[j] + 1].ones BY <2>1, <2>2
    <2> QED BY <2>2, <2>3 DEF Registered, RootsInv
  <1> QED BY <1>1, <1>2

\* After a collection, or when there was none, what is known after one is true;
\* and it stays true.
LEMMA FitsAged ==
  ASSUME NEW p, IsPlace(p), NEW d, SeesRoots(p, d), NEW u, NEW w, AgedVars(u, w, d),
         Fits(u, p.env) \/ Fits(u, AfterGC(p).env)
  PROVE  Fits(w, AfterGC(p).env)
  <1> DEFINE env == AfterGC(p).env
  <1>1. env = [v \in DOMAIN p.env |->
                 IF p.env[v] # Word /\ ~ Rooted(p, v) THEN Junk ELSE p.env[v]]
    BY AfterGCFacts
  <1> HIDE DEF env
  <1>2. DOMAIN w = DOMAIN env /\ DOMAIN u = DOMAIN env /\ DOMAIN p.env = DOMAIN env
    BY <1>1 DEF env, Fits, AgedVars
  <1>3. ASSUME NEW v \in DOMAIN env PROVE Holds(w[v], env[v])
    <2>1. CASE p.env[v] # Word /\ ~ Rooted(p, v)
      BY <1>1, <1>2, <2>1, HeapFacts DEF Holds, Junk, Word
    <2>2. CASE Rooted(p, v)
      <3>1. w[v] = u[v] /\ env[v] = p.env[v] BY <1>1, <1>2, <2>2 DEF AgedVars, SeesRoots
      <3> QED BY <3>1, <1>2 DEF Fits, env
    <2>3. CASE p.env[v] = Word
      <3>1. env[v] = Word BY <1>1, <1>2, <2>3
      <3>2. Holds(u[v], Word) BY <2>3, <3>1, <1>2 DEF Fits, env
      <3>3. u[v] = Word BY <3>2, HeapFacts DEF Holds, Word
      <3>4. w[v] = u[v] BY <3>3, <1>2 DEF AgedVars, Word
      <3> QED BY <3>1, <3>2, <3>4
    <2> QED BY <2>1, <2>2, <2>3
  <1> QED BY <1>2, <1>3 DEF Fits, env

--------------------------------------------------------------------------------
(* Steps of the function on top.                                               *)

\* What is known when the function on top runs.
LEMMA TopFacts ==
  ASSUME NEW ps, PInv(ps), Running
  PROVE  /\ Depth \in Nat /\ Depth \in 1 .. Depth /\ Last(frames) = frames[Depth]
         /\ DOMAIN frames = 1 .. Depth
         /\ ps[Depth] \in Places /\ Obeys(ps[Depth]) /\ IsPlace(ps[Depth])
         /\ ~ Waits(Depth) /\ AtPlace(Depth, ps[Depth])
         /\ Step = Now(ps[Depth])
         /\ \A d \in 1 .. Depth : IsFrame(frames[d]) /\ SeesRoots(ps[d], d)
  <1>1. Depth \in Nat /\ DOMAIN frames = 1 .. Depth BY SeqFacts DEF PInv, StackInv, Depth
  <1>0. Depth > 0 BY DEF Running
  <1>2. Depth \in 1 .. Depth BY <1>0, <1>1
  <1>3. Last(frames) = frames[Depth] BY DEF Last, Depth
  <1>4. ps \in [1 .. Depth -> Places] BY DEF PInv
  <1>5. ps[Depth] \in Places /\ Obeys(ps[Depth]) /\ IsPlace(ps[Depth])
    BY <1>2, <1>4, PlaceFacts DEF Obeys, WellFormed
  <1>6. ~ Waits(Depth) BY <1>3 DEF Running, Waits
  <1>7. AtPlace(Depth, ps[Depth]) BY <1>2, <1>6 DEF PInv, CodeInv
  <1>8. Step = Now(ps[Depth]) BY <1>3, <1>7 DEF Step, Now, AtPlace
  <1>9. \A d \in 1 .. Depth : IsFrame(frames[d]) /\ SeesRoots(ps[d], d)
    BY <1>4, RegisteredIsRooted DEF PInv, StackInv
  <1> QED BY <1>1, <1>2, <1>3, <1>5, <1>6, <1>7, <1>8, <1>9

\* The frame on top, with its step taken off.
LEMMA ThisFacts ==
  ASSUME NEW ps, PInv(ps), Running
  PROVE  /\ IsFrame(This) /\ This.todo = Tail(ps[Depth].todo)
         /\ This.vars = frames[Depth].vars /\ This.groups = frames[Depth].groups
         /\ This.ret = frames[Depth].ret /\ This.wait = frames[Depth].wait
  BY TopFacts DEF This, Advance, IsFrame, AtPlace

\* What the function on top knows is true.
LEMMA TopKnows ==
  ASSUME NEW ps, PInv(ps), Running, NEW v
  PROVE  /\ Holds(Operand(v), Known(ps[Depth], v))
         /\ Holds(VarOf(This, v), KnownVar(ps[Depth], v))
  <1>1. Fits(Last(frames).vars, ps[Depth].env) /\ Fits(This.vars, ps[Depth].env)
    BY TopFacts, ThisFacts DEF AtPlace
  <1>2. HeapInv /\ thrown \in Nat BY DEF PInv, HeapInv, HeapFits
  <1> QED BY <1>1, <1>2, OperandKnown, VarKnown

\* The function on top gets to place q; the collector may have seen to the others.
MovesTo(q) ==
  /\ IsSeq(frames') /\ Depth' = Depth
  /\ \A d \in 1 .. Depth - 1 : Aged(frames[d], frames'[d], d)
  /\ IsFrame(frames'[Depth])
  /\ frames'[Depth].ret = frames[Depth].ret /\ frames'[Depth].wait = frames[Depth].wait
  /\ frames'[Depth].todo = q.todo
  /\ Fits(frames'[Depth].vars, q.env)
  /\ q.exc <=> thrown' # Word
  /\ q.room <= room'

\* The others wait on.
LEMMA PendingAged ==
  ASSUME NEW p, IsPlace(p), NEW d, SeesRoots(p, d), Pending(d, p), Aged(frames[d], frames'[d], d)
  PROVE  Pending(d, p)'
  <1>1. Fits(frames'[d].vars, AfterGC(p).env)
    BY FitsAged DEF Pending, Aged
  <1> QED BY <1>1 DEF Pending, Aged

\* Those too that wait for a collection.
LEMMA SuspendedAged ==
  ASSUME NEW p, IsPlace(p), NEW d, SeesRoots(p, d), Suspended(d, p),
         Aged(frames[d], frames'[d], d)
  PROVE  Suspended(d, p)'
  <1>1. CASE Evaluates(d, p)
    <2>1. Pending(d, p)' BY <1>1, PendingAged DEF Evaluates
    <2> QED BY <2>1, <1>1 DEF Evaluates, Aged, Suspended
  <1>2. CASE Collects(d, p)
    <2>1. Fits(frames'[d].vars, AfterGC(p).env) BY <1>2, FitsAged DEF Collects, Aged
    <2> QED BY <2>1, <1>2 DEF Collects, Collecting, Aged, Suspended
  <1> QED BY <1>1, <1>2 DEF Suspended

\* A function returns to the same one, as long as that one waits as it did.
LEMMA AnswersKept ==
  ASSUME NEW d, Answers(d), frames'[d].ret = frames[d].ret,
         d > 1 => frames'[d - 1].wait = frames[d - 1].wait
  PROVE  Answers(d)'
  BY DEF Answers, Waits, Collecting

\* So the stack and the code are as the invariant says after the step.
LEMMA TopMoves ==
  ASSUME NEW ps, PInv(ps), Running, NEW q \in Places, q.silent = ps[Depth].silent, MovesTo(q),
         NEW qs, qs = [ps EXCEPT ![Depth] = q]
  PROVE  /\ qs \in [1 .. Depth -> Places]' /\ StackInv' /\ CodeInv(qs)' /\ ThrownInv'
         /\ \A d \in 1 .. Depth : frames'[d].wait = frames[d].wait
  <1>0. /\ Depth \in Nat /\ Depth \in 1 .. Depth /\ Depth' = Depth /\ ~ Waits(Depth)
        /\ \A d \in 1 .. Depth : ps[d] \in Places /\ IsFrame(frames[d]) /\ SeesRoots(ps[d], d)
    BY TopFacts DEF MovesTo, PInv
  <1>1. /\ qs \in [1 .. Depth -> Places] /\ qs[Depth] = q
        /\ \A d \in 1 .. Depth - 1 : qs[d] = ps[d]
    BY <1>0 DEF PInv
  <1>2. \A d \in 1 .. Depth - 1 : Aged(frames[d], frames'[d], d) BY DEF MovesTo
  <1>3. \A d \in 1 .. Depth : /\ IsFrame(frames'[d]) /\ frames'[d].ret = frames[d].ret
                              /\ frames'[d].wait = frames[d].wait
    BY <1>0, <1>2 DEF MovesTo, Aged
  <1>4. \A d \in 1 .. Depth : Waits(d)' <=> Waits(d) BY <1>3 DEF Waits
  <1>5. StackInv'
    <2>1. \A d \in 1 .. Depth : d > 1 => d - 1 \in 1 .. Depth BY <1>0
    <2>2. ASSUME NEW d \in 1 .. Depth PROVE Answers(d)'
      <3>1. Answers(d) BY DEF PInv, StackInv
      <3>2. d > 1 => frames'[d - 1].wait = frames[d - 1].wait BY <1>3, <2>1
      <3> QED BY <3>1, <3>2, <1>3, AnswersKept
    <2>3. IsSeq(frames') BY DEF MovesTo
    <2> QED BY <1>0, <1>3, <2>2, <2>3 DEF StackInv
  <1>6. ASSUME NEW d \in 1 .. Depth - 1, Pending(d, ps[d]) PROVE Pending(d, qs[d])'
    <2>1. IsPlace(ps[d]) BY <1>0, PlaceFacts DEF Obeys, WellFormed
    <2>2. Pending(d, ps[d])' BY <1>0, <1>2, <1>6, <2>1, PendingAged
    <2> QED BY <1>1, <2>2
  <1>7. CodeInv(qs)'
    <2> SUFFICES ASSUME NEW d \in 1 .. Depth
                 PROVE  /\ Waits(d)' => Suspended(d, qs[d])'
                        /\ ~ Waits(d)' /\ d < Depth => CallsNext(d, qs[d], qs[d + 1])'
                        /\ ~ Waits(d)' /\ d = Depth => AtPlace(d, qs[d])'
      BY <1>0 DEF CodeInv
    <2>1. CASE d = Depth
      BY <2>1, <1>0, <1>1, <1>4 DEF AtPlace, MovesTo
    <2>2. CASE d \in 1 .. Depth - 1 /\ Waits(d)
      <3>1. Suspended(d, ps[d]) BY <2>2 DEF PInv, CodeInv
      <3>2. IsPlace(ps[d]) BY <2>2, <1>0, PlaceFacts DEF Obeys, WellFormed
      <3>3. Suspended(d, ps[d])' BY <3>1, <3>2, <2>2, <1>0, <1>2, SuspendedAged
      <3> QED BY <3>3, <2>2, <1>0, <1>1, <1>4
    <2>3. CASE d \in 1 .. Depth - 1 /\ ~ Waits(d)
      <3>1. CallsNext(d, ps[d], ps[d + 1]) BY <2>3, <1>0 DEF PInv, CodeInv
      <3>2. d + 1 \in 1 .. Depth /\ qs[d + 1].silent = ps[d + 1].silent BY <2>3, <1>0, <1>1
      <3>3. CallsNext(d, qs[d], qs[d + 1])'
        BY <3>1, <3>2, <2>3, <1>1, <1>3, <1>6 DEF CallsNext
      <3> QED BY <3>3, <2>3, <1>0, <1>4
    <2> QED BY <2>1, <2>2, <2>3, <1>0
  <1>8. ThrownInv'
    <2>1. frames'[Depth].wait.x = "" BY <1>0, <1>3 DEF Waits
    <2> QED BY <2>1, <1>0 DEF ThrownInv, Collecting, CollectPost
  <1> QED BY <1>0, <1>1, <1>3, <1>5, <1>7, <1>8

--------------------------------------------------------------------------------
(* Steps that leave the groups as they are.                                    *)

SameGroups(ps, qs) ==
  /\ lclRoots' = lclRoots /\ Depth' = Depth
  /\ \A d \in 1 .. Depth : /\ frames'[d].groups = frames[d].groups
                           /\ qs[d].grps = ps[d].grps

\* The groups still fit, and what waits is still older than what comes later.
LEMMA QuietRoots ==
  ASSUME NEW ps, RootsInv(ps), NEW qs, SameGroups(ps, qs)
  PROVE  RootsInv(qs)'
  <1>1. lclRoots' \in Seq(Root) BY DEF RootsInv, SameGroups
  <1>2. ASSUME NEW d \in 1 .. Depth PROVE GroupsFit(d, qs[d])'
    <2>1. GroupsFit(d, ps[d]) BY DEF RootsInv
    <2>2. frames'[d].groups = frames[d].groups /\ qs[d].grps = ps[d].grps /\ lclRoots' = lclRoots
      BY DEF SameGroups
    <2> QED BY <2>1, <2>2 DEF GroupsFit
  <1>3. ASSUME NEW i \in 1 .. Len(lclRoots)
        PROVE  /\ lclRoots'[i].frame \in 1 .. Depth
               /\ i - 1 \in ToSet(frames'[lclRoots'[i].frame].groups)
    BY DEF RootsInv, SameGroups
  <1>4. \A i, k \in 1 .. Len(lclRoots) : i < k => lclRoots'[i].frame <= lclRoots'[k].frame
    BY DEF RootsInv, SameGroups
  <1>5. lclRoots' = lclRoots /\ Depth' = Depth BY DEF SameGroups
  <1> QED BY <1>1, <1>2, <1>3, <1>4, <1>5 DEF RootsInv

SameWaits == /\ Depth' = Depth /\ Len(heap') \in Nat /\ Len(heap') >= Len(heap)
             /\ \A d \in 1 .. Depth : frames'[d].wait = frames[d].wait

\* The heights, when no frame starts or stops to wait.
LEMMA QuietHeights ==
  ASSUME HeightInv, Len(heap) \in Nat, SameWaits
  PROVE  HeightInv'
  <1>1. ASSUME NEW d \in 1 .. Depth
        PROVE  /\ frames'[d].wait.height \in Old .. Len(heap')
               /\ ~ Waits(d)' => frames'[d].wait.height = Old
    <2>1. frames'[d].wait = frames[d].wait BY DEF SameWaits
    <2>2. /\ frames[d].wait.height \in Old .. Len(heap)
          /\ ~ Waits(d) => frames[d].wait.height = Old
      BY DEF HeightInv
    <2>3. Old .. Len(heap) \subseteq Old .. Len(heap') BY HeapFacts DEF SameWaits
    <2> QED BY <2>1, <2>2, <2>3 DEF Waits
  <1>2. ASSUME NEW c \in 1 .. Depth, NEW d \in 1 .. Depth, c < d, Waits(d)'
        PROVE  frames'[c].wait.height <= frames'[d].wait.height
    BY <1>2 DEF HeightInv, SameWaits, Waits
  <1>3. Depth' = Depth BY DEF SameWaits
  <1> QED BY <1>1, <1>2, <1>3 DEF HeightInv

\* The function on top does a step of its own.
Quietly(p, q) ==
  /\ q \in Places /\ q.silent = p.silent /\ q.grps = p.grps
  /\ frames'[Depth].groups = frames[Depth].groups /\ lclRoots' = lclRoots
  /\ Len(heap') >= Len(heap)

\* A step of the function on top that leaves the groups alone.
LEMMA QuietStep ==
  ASSUME NEW ps, PInv(ps), Running, NEW q, MovesTo(q), Quietly(ps[Depth], q), HeapInv'
  PROVE  IInv'
  <1>1. PICK qs : qs = [ps EXCEPT ![Depth] = q] OBVIOUS
  <1>2. q \in Places /\ q.silent = ps[Depth].silent BY DEF Quietly
  <1>3. /\ qs \in [1 .. Depth -> Places]' /\ StackInv' /\ CodeInv(qs)' /\ ThrownInv'
        /\ \A d \in 1 .. Depth : frames'[d].wait = frames[d].wait
    BY <1>1, <1>2, TopMoves
  <1>4. Depth \in Nat /\ Depth \in 1 .. Depth /\ Depth' = Depth BY TopFacts DEF MovesTo
  <1>5. SameGroups(ps, qs)
    <2>1. qs[Depth].grps = ps[Depth].grps BY <1>1, <1>4 DEF PInv, Quietly
    <2>2. \A d \in 1 .. Depth - 1 : qs[d] = ps[d] BY <1>1, <1>4 DEF PInv
    <2>3. \A d \in 1 .. Depth - 1 : frames'[d].groups = frames[d].groups BY DEF MovesTo, Aged
    <2> QED BY <1>4, <2>1, <2>2, <2>3 DEF SameGroups, Quietly
  <1>6. RootsInv(qs)' BY <1>5, QuietRoots DEF PInv
  <1>7. Len(heap) \in Nat BY SeqFacts DEF PInv, HeapInv, HeapFits
  <1>8. Len(heap') \in Nat
    <2>1. PICK h : h = heap' OBVIOUS
    <2>2. IsSeq(h) BY <2>1 DEF HeapInv, HeapFits, IsSeq
    <2> QED BY <2>1, <2>2, SeqFacts
  <1>9. SameWaits BY <1>3, <1>4, <1>8 DEF SameWaits, Quietly
  <1>10. HeightInv' BY <1>7, <1>9, QuietHeights DEF PInv
  <1>11. PInv(qs)' BY <1>3, <1>6, <1>10 DEF PInv
  <1> QED BY <1>3, <1>11 DEF IInv

--------------------------------------------------------------------------------
(* Frames after a step of the function on top.                                 *)

\* A collection leaves the frames of a stack as it should.
LEMMA CollectedFacts ==
  ASSUME NEW fs, IsSeq(fs), \A d \in 1 .. Len(fs) : IsFrame(fs[d])
  PROVE  /\ IsSeq(Collected(fs)) /\ Len(Collected(fs)) = Len(fs)
         /\ \A d \in 1 .. Len(fs) : Aged(fs[d], Collected(fs)[d], d)
  <1> DEFINE gs == Collected(fs)
  <1>1. Len(fs) \in Nat /\ DOMAIN fs = 1 .. Len(fs) BY SeqFacts
  <1>2. DOMAIN gs = 1 .. Len(fs) BY <1>1 DEF Collected
  <1>3. ASSUME NEW d \in 1 .. Len(fs) PROVE Aged(fs[d], gs[d], d)
    <2>1. gs[d] = [fs[d] EXCEPT !.vars = [v \in DOMAIN fs[d].vars |->
             IF fs[d].vars[v] > 0 /\ ~ Registered(d, v) THEN Stale ELSE fs[d].vars[v]]]
      BY <1>1 DEF Collected
    <2>2. IsFrame(gs[d]) /\ gs[d].todo = fs[d].todo /\ gs[d].groups = fs[d].groups
          /\ gs[d].ret = fs[d].ret /\ gs[d].wait = fs[d].wait
          /\ gs[d].vars = [v \in DOMAIN fs[d].vars |->
               IF fs[d].vars[v] > 0 /\ ~ Registered(d, v) THEN Stale ELSE fs[d].vars[v]]
      BY <2>1 DEF IsFrame
    <2> QED BY <2>2 DEF Aged, AgedVars
  <1>4. IsTable(gs, Len(fs)) BY <1>1 DEF IsTable, Collected
  <1> HIDE DEF gs
  <1>5. IsSeq(gs) /\ Len(gs) = Len(fs) BY <1>1, <1>4, SeqIntro
  <1> QED BY <1>3, <1>5 DEF gs

\* The same but for the frame on top, which is, or was before a collection, g.
TopIs(fs, g) ==
  /\ IsSeq(fs) /\ Len(fs) = Depth
  /\ \A d \in 1 .. Depth - 1 : Aged(frames[d], fs[d], d)
  /\ Aged(g, fs[Depth], Depth)

\* A frame that is left alone.
LEMMA SameIsAged == ASSUME NEW f, IsFrame(f), NEW d PROVE Aged(f, f, d)
  BY DEF Aged, AgedVars

\* The frames after a step, before and after a collection.
LEMMA WithTopFacts ==
  ASSUME NEW ps, PInv(ps), Running, NEW g, IsFrame(g)
  PROVE  TopIs(WithTop(g), g) /\ WithTop(g)[Depth] = g /\ TopIs(Collected(WithTop(g)), g)
  <1> DEFINE fs == WithTop(g)
  <1>1. /\ Depth \in Nat /\ Depth \in 1 .. Depth /\ Depth > 0
        /\ \A d \in 1 .. Depth : IsFrame(frames[d])
    BY TopFacts
  <1>2. IsSeq(frames) /\ Depth = Len(frames) BY DEF PInv, StackInv, Depth
  <1>3. /\ IsSeq(fs) /\ Len(fs) = Depth /\ fs[Depth] = g
        /\ \A d \in 1 .. Depth - 1 : fs[d] = frames[d]
    <2>1. fs = [frames EXCEPT ![Len(frames)] = g] /\ Len(frames) > 0 BY <1>1 DEF WithTop, Depth
    <2> HIDE DEF fs
    <2>2. /\ IsSeq([frames EXCEPT ![Len(frames)] = g])
          /\ Len([frames EXCEPT ![Len(frames)] = g]) = Len(frames)
          /\ [frames EXCEPT ![Len(frames)] = g][Len(frames)] = g
          /\ \A d \in 1 .. Len(frames) - 1 :
               [frames EXCEPT ![Len(frames)] = g][d] = frames[d]
      BY <1>2, <2>1, SeqTop
    <2> QED BY <1>2, <2>1, <2>2
  <1> HIDE DEF fs
  <1>4. TopIs(fs, g) BY <1>1, <1>3, SameIsAged DEF TopIs
  <1>5. \A d \in 1 .. Len(fs) : IsFrame(fs[d]) BY <1>1, <1>3
  <1>6. /\ IsSeq(Collected(fs)) /\ Len(Collected(fs)) = Len(fs)
        /\ \A d \in 1 .. Len(fs) : Aged(fs[d], Collected(fs)[d], d)
    BY <1>3, <1>5, CollectedFacts
  <1>7. TopIs(Collected(fs), g) BY <1>1, <1>3, <1>6 DEF TopIs
  <1> QED BY <1>3, <1>4, <1>7 DEF fs

\* The top frame is then at q, when it was before the collection, but for the
\* variables.
LEMMA TopArrives ==
  ASSUME NEW ps, PInv(ps), Running, NEW g, TopIs(frames', g),
         g.ret = frames[Depth].ret, g.wait = frames[Depth].wait, g.groups = frames[Depth].groups,
         NEW q, g.todo = q.todo, Fits(frames'[Depth].vars, q.env),
         q.exc <=> thrown' # Word, q.room <= room'
  PROVE  MovesTo(q) /\ frames'[Depth].groups = frames[Depth].groups
  <1>1. Depth' = Depth BY DEF TopIs, Depth
  <1> QED BY <1>1 DEF MovesTo, TopIs, Aged

\* The step from g to q, of which the collector may have aged the frames.
Goes(p, g, q) ==
  /\ g.ret = frames[Depth].ret /\ g.wait = frames[Depth].wait
  /\ g.groups = frames[Depth].groups /\ g.todo = q.todo
  /\ q \in Places /\ q.silent = p.silent /\ q.grps = p.grps
  /\ q.exc <=> thrown' # Word
  /\ q.room <= room'
  /\ lclRoots' = lclRoots /\ Len(heap') >= Len(heap)

\* Then the invariant holds.
LEMMA TopGoes ==
  ASSUME NEW ps, PInv(ps), Running, NEW g, NEW q, Goes(ps[Depth], g, q),
         TopIs(frames', g), Fits(frames'[Depth].vars, q.env), HeapInv'
  PROVE  IInv'
  <1>1. MovesTo(q) /\ frames'[Depth].groups = frames[Depth].groups
    BY TopArrives DEF Goes
  <1>2. Quietly(ps[Depth], q) BY <1>1 DEF Goes, Quietly
  <1> QED BY <1>1, <1>2, QuietStep

\* The heap is not touched.
LEMMA QuietHeap ==
  ASSUME HeapInv, heap' = heap, thrown' \in Nat, room' \in Nat
  PROVE  HeapInv' /\ Len(heap') >= Len(heap)
  <1>1. Len(heap) \in Nat BY SeqFacts DEF HeapInv, HeapFits
  <1> QED BY <1>1 DEF HeapInv, HeapFits

\* What is known to be no junk is an object or a word.
LEMMA KnownRange ==
  ASSUME NEW p, WellFormed(p), NEW v
  PROVE  KnownVar(p, v) \in Junk .. Valid /\ Known(p, v) \in Junk .. Valid
  <1> USE HeapFacts DEF Word, Stale, Junk, NilObj, NothingObj, Thunk
  <1>1. \A w : KnownVar(p, w) \in Junk .. Valid
    BY DEF KnownVar, WellFormed, Globals
  <1>2. Known(p, v) \in Junk .. Valid
    <2>1. CASE v = <<>> BY <2>1 DEF Known
    <2>2. CASE v # <<>> /\ Len(v) = 1
      <3>1. Known(p, v) = KnownVar(p, v[1]) BY <2>2 DEF Known
      <3> QED BY <3>1, <1>1
    <2>3. CASE v # <<>> /\ Len(v) # 1
      <3> DEFINE a == KnownVar(p, v[1])
      <3>1. Known(p, v) = IF a \in 1 .. Old /\ v[2] \in DOMAIN InitialHeap[a]
                          THEN InitialHeap[a][v[2]] ELSE Junk
        BY <2>3 DEF Known
      <3> HIDE DEF a
      <3> QED BY <3>1
    <2> QED BY <2>1, <2>2, <2>3
  <1> QED BY <1>1, <1>2

\* What is known to be in order is an object or a word.
LEMMA HoldsNat ==
  ASSUME NEW x, NEW a \in Junk .. Valid, a >= 0, Holds(x, a)
  PROVE  x \in Nat
  BY HeapFacts DEF Holds, Word, Junk

\* What the function on top reads is in order.
LEMMA TopReads ==
  ASSUME NEW ps, PInv(ps), Running, NEW v \in Reads(Step)
  PROVE  Operand(v) \in Nat
  <1>1. Obeys(ps[Depth]) /\ Step = Now(ps[Depth]) BY TopFacts
  <1>2. WellFormed(ps[Depth]) /\ Known(ps[Depth], v) >= 0 BY <1>1 DEF Obeys, ReadsKnown
  <1>3. Holds(Operand(v), Known(ps[Depth], v)) BY TopKnows
  <1> QED BY <1>2, <1>3, KnownRange, HoldsNat

--------------------------------------------------------------------------------
(* The steps one by one: those that leave groups and frames as they are.       *)

\* What every step of the function on top starts from.
LEMMA StepFacts ==
  ASSUME NEW ps, PInv(ps), Running, NEW p, p = ps[Depth]
  PROVE  /\ IsPlace(p) /\ Obeys(p) /\ After(p) \subseteq Places /\ Called(p) \subseteq Places
         /\ Step = Now(p) /\ IsFrame(This) /\ This.todo = Tail(p.todo)
         /\ This.ret = frames[Depth].ret /\ This.wait = frames[Depth].wait
         /\ This.groups = frames[Depth].groups
         /\ Fits(This.vars, p.env) /\ (p.exc <=> thrown # Word) /\ p.room <= room
         /\ p.room \in Nat /\ room \in Nat /\ thrown \in Nat
         /\ Len(heap) \in Nat /\ Len(heap) >= Old
  <1>1. p \in Places BY TopFacts
  <1>2. Obeys(p) /\ After(p) \subseteq Places /\ Called(p) \subseteq Places BY <1>1, PlaceFacts
  <1>3. IsPlace(p) /\ p.room \in Nat BY <1>2 DEF Obeys, WellFormed
  <1>4. /\ IsFrame(This) /\ This.todo = Tail(p.todo)
        /\ This.ret = frames[Depth].ret /\ This.wait = frames[Depth].wait
        /\ This.groups = frames[Depth].groups /\ This.vars = frames[Depth].vars
    BY ThisFacts
  <1>5. AtPlace(Depth, p) /\ Step = Now(p) BY TopFacts
  <1>6. HeapInv BY DEF PInv
  <1>7. Len(heap) \in Nat BY <1>6, SeqFacts DEF HeapInv, HeapFits
  <1> QED BY <1>2, <1>3, <1>4, <1>5, <1>6, <1>7 DEF AtPlace, HeapInv, HeapFits

\* A step to q that changes neither the heap nor the exception, without a
\* collection, g being the frame on top after it.
LEMMA PlainStep ==
  ASSUME NEW ps, PInv(ps), Running, NEW g, IsFrame(g), frames' = WithTop(g),
         NEW q, Goes(ps[Depth], g, q), Fits(g.vars, q.env),
         heap' = heap, thrown' \in Nat, room' \in Nat
  PROVE  IInv'
  <1>1. TopIs(frames', g) /\ frames'[Depth] = g BY WithTopFacts
  <1>2. HeapInv' BY QuietHeap DEF PInv
  <1> QED BY <1>1, <1>2, TopGoes

\* Variables are used.
LEMMA UseVarsKeeps == ASSUME NEW ps, PInv(ps), UseVars PROVE IInv'
  <1>0. Running BY DEF UseVars, At
  <1>1. PICK p : p = ps[Depth] OBVIOUS
  <1> USE <1>0, <1>1
  <1>2. PICK q : q = Later(p) OBVIOUS
  <1>3. q \in Places BY <1>2, StepFacts, AfterAlloc DEF UseVars, At
  <1>4. Goes(p, This, q) /\ Fits(This.vars, q.env)
    BY <1>2, <1>3, StepFacts, LaterFacts DEF Goes, UseVars
  <1> QED BY <1>4, StepFacts, PlainStep DEF UseVars

\* An exception is thrown.
LEMMA SetThrownKeeps == ASSUME NEW ps, PInv(ps), SetThrown PROVE IInv'
  <1>0. Running BY DEF SetThrown, At
  <1>1. PICK p : p = ps[Depth] OBVIOUS
  <1> USE <1>0, <1>1
  <1>2. PICK q : q = [Later(p) EXCEPT !.exc = TRUE] OBVIOUS
  <1>3. q \in Places
    <2>1. Now(p).op = "throw" /\ After(p) \subseteq Places BY StepFacts DEF SetThrown, At
    <2>2. After(p) = {[Later(p) EXCEPT !.exc = TRUE]} BY <2>1, AfterJump
    <2> QED BY <1>2, <2>1, <2>2
  <1>4. Operand(Now(p).v) \in Nat /\ Operand(Now(p).v) # Word
    <2>1. Known(p, Now(p).v) \in (1 .. Old) \cup {New}
      BY StepFacts DEF Obeys, ExcPassedOn, SetThrown, At
    <2>2. Holds(Operand(Now(p).v), Known(p, Now(p).v)) BY TopKnows
    <2> QED BY <2>1, <2>2, HeapFacts DEF Holds, Word
  <1>5. thrown' \in Nat /\ thrown' # Word BY <1>4, StepFacts DEF SetThrown
  <1>6. /\ q.todo = Tail(p.todo) /\ q.env = p.env /\ q.grps = p.grps /\ q.exc = TRUE
        /\ q.room = p.room /\ q.silent = p.silent
    BY <1>2, StepFacts, LaterFacts DEF IsPlace
  <1>7. Goes(p, This, q) /\ Fits(This.vars, q.env)
    BY <1>3, <1>5, <1>6, StepFacts DEF Goes, SetThrown
  <1> QED BY <1>5, <1>7, StepFacts, PlainStep DEF SetThrown

\* A frame and a place where the variable x has been given a value.
Bound(f, p, g, q) ==
  /\ IsFrame(g) /\ g.todo = f.todo /\ g.groups = f.groups /\ g.ret = f.ret /\ g.wait = f.wait
  /\ IsPlace(q) /\ q.todo = p.todo /\ q.grps = p.grps /\ q.exc = p.exc
  /\ q.room = p.room /\ q.silent = p.silent
  /\ Fits(g.vars, q.env)

\* The assignment in the frame is the one in what is known.
LEMMA Binds ==
  ASSUME NEW f, IsFrame(f), NEW p, IsPlace(p), Fits(f.vars, p.env),
         NEW x, NEW val, NEW a, Holds(val, a)
  PROVE  Bound(f, p, Assign(f, x, val), Bind(p, x, a))
  <1>1. PICK g, q : g = Assign(f, x, val) /\ q = Bind(p, x, a) OBVIOUS
  <1>2. /\ IsFrame(g) /\ g.todo = f.todo /\ g.groups = f.groups
        /\ g.ret = f.ret /\ g.wait = f.wait
        /\ g.vars = [v \in {x} \cup DOMAIN f.vars |-> IF v = x THEN val ELSE f.vars[v]]
    BY <1>1, AssignFacts
  <1>3. /\ IsPlace(q) /\ q.todo = p.todo /\ q.grps = p.grps /\ q.exc = p.exc
        /\ q.room = p.room /\ q.silent = p.silent
        /\ q.env = [v \in {x} \cup DOMAIN p.env |-> IF v = x THEN a ELSE p.env[v]]
    BY <1>1, BindFacts
  <1>4. PICK u, env : u = f.vars /\ env = p.env OBVIOUS
  <1>5. Fits([v \in {x} \cup DOMAIN u |-> IF v = x THEN val ELSE u[v]],
             [v \in {x} \cup DOMAIN env |-> IF v = x THEN a ELSE env[v]])
    <2>1. Fits(u, env) BY <1>4
    <2> QED BY <2>1, FitsBind
  <1>6. Fits(g.vars, q.env) BY <1>2, <1>3, <1>4, <1>5
  <1> QED BY <1>1, <1>2, <1>3, <1>6 DEF Bound

\* A variable is set.
LEMMA AssignVarKeeps == ASSUME NEW ps, PInv(ps), AssignVar PROVE IInv'
  <1>0. Running BY DEF AssignVar, At
  <1>1. PICK p : p = ps[Depth] OBVIOUS
  <1> USE <1>0, <1>1
  <1>2. PICK x, v, val, a :
          x = Now(p).x /\ v = Now(p).v /\ val = Operand(v) /\ a = Known(p, v)
    OBVIOUS
  <1>3. Holds(val, a) BY <1>2, TopKnows
  <1>4. PICK f, r : f = This /\ r = Later(p) OBVIOUS
  <1>5. PICK g, q : g = Assign(f, x, val) /\ q = Bind(r, x, a) OBVIOUS
  <1>6. IsFrame(f) /\ IsPlace(r) /\ Fits(f.vars, r.env)
    BY <1>4, StepFacts, LaterFacts
  <1>7. Bound(f, r, g, q) BY <1>3, <1>5, <1>6, Binds
  <1>8. q \in Places BY <1>2, <1>4, <1>5, StepFacts, AfterAlloc DEF AssignVar, At
  <1>9. Goes(p, g, q) /\ IsFrame(g) /\ Fits(g.vars, q.env)
    BY <1>4, <1>7, <1>8, StepFacts, LaterFacts DEF Goes, AssignVar, Bound
  <1>10. frames' = WithTop(g) BY <1>2, <1>4, <1>5, StepFacts DEF AssignVar
  <1> QED BY <1>9, <1>10, StepFacts, PlainStep DEF AssignVar

\* The function goes on with other code.
LEMMA JumpKeeps ==
  ASSUME NEW ps, PInv(ps), Running, UNCHANGED <<lclRoots, heap, room, thrown>>,
         NEW p, p = ps[Depth], NEW code,
         [Later(p) EXCEPT !.todo = code] \in After(p),
         frames' = WithTop([This EXCEPT !.todo = code])
  PROVE  IInv'
  <1>1. PICK q : q = [Later(p) EXCEPT !.todo = code] OBVIOUS
  <1>2. PICK g : g = [This EXCEPT !.todo = code] OBVIOUS
  <1>3. q \in Places BY <1>1, StepFacts
  <1>4. /\ IsFrame(g) /\ g.todo = code /\ g.groups = This.groups /\ g.vars = This.vars
        /\ g.ret = This.ret /\ g.wait = This.wait
    BY <1>2, StepFacts DEF IsFrame
  <1>5. /\ q.todo = code /\ q.env = p.env /\ q.grps = p.grps /\ q.exc = p.exc
        /\ q.room = p.room /\ q.silent = p.silent
    BY <1>1, StepFacts, LaterFacts DEF IsPlace
  <1>6. Goes(p, g, q) /\ Fits(g.vars, q.env) BY <1>3, <1>4, <1>5, StepFacts DEF Goes
  <1> QED BY <1>2, <1>4, <1>6, StepFacts, PlainStep

\* A branch is taken.
LEMMA BranchKeeps == ASSUME NEW ps, PInv(ps), Branch PROVE IInv'
  <1>0. Running /\ Step.op = "either" BY DEF Branch, At
  <1>1. PICK p : p = ps[Depth] OBVIOUS
  <1>2. Step = Now(p) /\ This.todo = Tail(p.todo) /\ IsPlace(p) BY <1>0, <1>1, StepFacts
  <1>3. PICK alt \in Now(p).alts : frames' = WithTop([This EXCEPT !.todo = alt \o @])
    BY <1>2 DEF Branch
  <1>4. PICK code : code = alt \o Tail(p.todo) OBVIOUS
  <1>5. frames' = WithTop([This EXCEPT !.todo = code]) BY <1>2, <1>3, <1>4
  <1>6. After(p) = {[Later(p) EXCEPT !.todo = b \o @] : b \in Now(p).alts}
    BY <1>0, <1>2, AfterJump
  <1>7. [Later(p) EXCEPT !.todo = code] \in After(p)
    <2>1. Later(p).todo = Tail(p.todo) BY <1>2, LaterFacts
    <2>2. [Later(p) EXCEPT !.todo = alt \o @] = [Later(p) EXCEPT !.todo = code]
      BY <1>4, <2>1
    <2> QED BY <1>6, <2>2
  <1> QED BY <1>0, <1>1, <1>5, <1>7, JumpKeeps DEF Branch

\* A list is gone through.
LEMMA LoopKeeps == ASSUME NEW ps, PInv(ps), Loop PROVE IInv'
  <1>0. Running /\ Step.op = "while" BY DEF Loop, At
  <1>1. PICK p : p = ps[Depth] OBVIOUS
  <1>2. /\ Step = Now(p) /\ This.todo = Tail(p.todo) /\ IsPlace(p) /\ IsFrame(This)
        /\ IsPlace(Later(p)) /\ Later(p).todo = Tail(p.todo)
    BY <1>0, <1>1, StepFacts, LaterFacts
  <1>3. After(p) = {Later(p)} \cup (IF KnownVar(p, Now(p).v) = NilObj THEN {}
                 ELSE {[Later(p) EXCEPT !.todo = Now(p).body \o <<Now(p)>> \o @]})
    BY <1>0, <1>2, AfterJump
  <1>4. CASE frames' = WithTop(This)
    <2>1. PICK code : code = Tail(p.todo) OBVIOUS
    <2>2. [This EXCEPT !.todo = code] = This BY <1>2, <2>1 DEF This, Advance
    <2>3. [Later(p) EXCEPT !.todo = code] = Later(p) BY <1>2, <2>1 DEF Later
    <2>4. [Later(p) EXCEPT !.todo = code] \in After(p) BY <1>3, <2>3
    <2> QED BY <1>0, <1>1, <1>4, <2>2, <2>4, JumpKeeps DEF Loop
  <1>5. CASE frames' # WithTop(This)
    <2>1. /\ VarOf(This, Now(p).v) # NilObj
          /\ frames' = WithTop([This EXCEPT !.todo = Now(p).body \o <<Now(p)>> \o @])
      BY <1>2, <1>5 DEF Loop
    <2>2. PICK code : code = Now(p).body \o <<Now(p)>> \o Tail(p.todo) OBVIOUS
    <2>3. frames' = WithTop([This EXCEPT !.todo = code]) BY <1>2, <2>1, <2>2
    <2>4. KnownVar(p, Now(p).v) # NilObj
      <3>1. Holds(VarOf(This, Now(p).v), KnownVar(p, Now(p).v)) BY <1>0, <1>1, TopKnows
      <3> QED BY <2>1, <3>1, HeapFacts DEF Holds, NilObj, Word
    <2>5. [Later(p) EXCEPT !.todo = Now(p).body \o <<Now(p)>> \o @]
            = [Later(p) EXCEPT !.todo = code]
      BY <1>2, <2>2
    <2>6. [Later(p) EXCEPT !.todo = code] \in After(p) BY <1>3, <2>4, <2>5
    <2> QED BY <1>0, <1>1, <2>3, <2>6, JumpKeeps DEF Loop
  <1> QED BY <1>4, <1>5

\* An exception is passed on, or there is none.
LEMMA PassExcKeeps == ASSUME NEW ps, PInv(ps), PassExcWith PROVE IInv'
  <1>0. Running /\ Step.op = "passexc" BY DEF PassExcWith, At
  <1>1. PICK p : p = ps[Depth] OBVIOUS
  <1>2. /\ Step = Now(p) /\ This.todo = Tail(p.todo) /\ IsPlace(p) /\ IsFrame(This)
        /\ IsPlace(Later(p)) /\ Later(p).todo = Tail(p.todo) /\ (p.exc <=> thrown # Word)
    BY <1>0, <1>1, StepFacts, LaterFacts
  <1>3. PICK out : out = (IF Now(p).leave THEN <<GCSafeLeave>> ELSE <<>>) \o <<Return(<<Thrown>>)>>
    OBVIOUS
  <1>4. After(p) = {IF p.exc THEN [Later(p) EXCEPT !.todo = out] ELSE Later(p)}
    BY <1>0, <1>2, <1>3, AfterJump
  <1>5. CASE p.exc
    <2>1. frames' = WithTop([This EXCEPT !.todo = out]) BY <1>2, <1>3, <1>5 DEF PassExcWith
    <2>2. [Later(p) EXCEPT !.todo = out] \in After(p) BY <1>4, <1>5
    <2> QED BY <1>0, <1>1, <2>1, <2>2, JumpKeeps DEF PassExcWith
  <1>6. CASE ~ p.exc
    <2>0. frames' = WithTop(This) BY <1>2, <1>6 DEF PassExcWith
    <2>1. PICK code : code = Tail(p.todo) OBVIOUS
    <2>2. [This EXCEPT !.todo = code] = This BY <1>2, <2>1 DEF This, Advance
    <2>3. [Later(p) EXCEPT !.todo = code] = Later(p) BY <1>2, <2>1 DEF Later
    <2>4. [Later(p) EXCEPT !.todo = code] \in After(p) BY <1>4, <1>6, <2>3
    <2> QED BY <1>0, <1>1, <2>0, <2>2, <2>4, JumpKeeps DEF PassExcWith
  <1> QED BY <1>5, <1>6

\* What is filled is a new node, and with objects and words.
LEMMA FillNodeKeeps == ASSUME NEW ps, PInv(ps), FillNode PROVE IInv'
  <1>0. Running /\ Step.op = "fill" BY DEF FillNode, At
  <1>1. PICK p : p = ps[Depth] OBVIOUS
  <1>2. PICK q : q = Later(p) OBVIOUS
  <1>3. q \in Places BY <1>0, <1>1, <1>2, StepFacts, AfterAlloc
  <1>4. Step = Now(p) /\ Obeys(p) /\ Len(heap) \in Nat BY <1>0, <1>1, StepFacts
  <1>5. PICK x : x = VarOf(This, Step.x) OBVIOUS
  <1>6. x = Word \/ (x \in Nat /\ x > Old)
    <2>1. KnownVar(p, Step.x) \in {Word, New} BY <1>0, <1>4 DEF Obeys, Allocates
    <2>2. Holds(x, KnownVar(p, Step.x)) BY <1>0, <1>1, <1>5, TopKnows
    <2> QED BY <2>1, <2>2, HeapFacts DEF Holds, Word
  <1>7. \A i \in DOMAIN Operands(Step.flds) : Operands(Step.flds)[i] \in Nat
    <2> SUFFICES ASSUME NEW i \in DOMAIN Step.flds PROVE Operand(Step.flds[i]) \in Nat
      BY DEF Operands
    <2>1. Reads(Step) = {<<Step.x>>} \cup ToSet(Step.flds) BY <1>0 DEF Reads
    <2>2. Step.flds[i] \in Reads(Step) BY <2>1 DEF ToSet
    <2> QED BY <1>0, <2>2, TopReads
  <1>8. PICK node : node = Operands(Step.flds) OBVIOUS
  <1>9. HeapInv BY DEF PInv
  <1>10. IsSeq(heap) /\ DOMAIN heap = 1 .. Len(heap) BY <1>9, SeqFacts DEF HeapInv, HeapFits
  <1>11. heap' = IF x > 0 THEN [heap EXCEPT ![x] = node] ELSE heap
    BY <1>5, <1>8 DEF FillNode
  <1>12. ASSUME x = Word PROVE HeapInv' /\ Len(heap') >= Len(heap)
    <2>1. heap' = heap BY <1>11, <1>12 DEF Word
    <2>2. thrown' \in Nat /\ room' \in Nat BY <1>9 DEF FillNode, HeapInv, HeapFits
    <2> QED BY <2>1, <2>2, <1>9, QuietHeap
  <1>13. ASSUME x \in Nat, x > Old PROVE HeapInv' /\ Len(heap') >= Len(heap)
    <2>1. PICK h : h = [heap EXCEPT ![x] = node] OBVIOUS
    <2>2. heap' = h BY <1>11, <1>13, <2>1, HeapFacts
    <2>3. IsTable(h, Len(heap)) BY <1>10, <2>1 DEF IsTable
    <2>4. IsSeq(h) /\ Len(h) = Len(heap) BY <1>4, <2>3, SeqIntro
    <2>7. \A y \in 1 .. Len(heap) : h[y] = IF y = x THEN node ELSE heap[y] BY <1>10, <2>1
    <2>5. ASSUME NEW y \in 1 .. Old PROVE h[y] = InitialHeap[y]
      <3>1. y # x /\ y \in 1 .. Len(heap) BY <1>4, <1>9, <1>13, HeapFacts DEF HeapInv, HeapFits
      <3> QED BY <2>7, <3>1, <1>9 DEF HeapInv, HeapFits
    <2>6. ASSUME NEW y \in 1 .. Len(heap), NEW i \in DOMAIN h[y] PROVE h[y][i] \in Nat
      <3>1. CASE y = x BY <3>1, <2>7, <1>7, <1>8
      <3>2. CASE y # x BY <3>2, <2>7, <1>9 DEF HeapInv, HeapFits
      <3> QED BY <3>1, <3>2
    <2>8. thrown' \in Nat /\ room' \in Nat BY <1>9 DEF FillNode, HeapInv, HeapFits
    <2>9. Len(heap) >= Old BY <1>9 DEF HeapInv, HeapFits
    <2>10. HeapInv' BY <2>2, <2>4, <2>5, <2>6, <2>8, <2>9 DEF HeapInv, HeapFits
    <2> QED BY <1>4, <2>2, <2>4, <2>10
  <1>14. HeapInv' /\ Len(heap') >= Len(heap) BY <1>6, <1>12, <1>13
  <1>15. Goes(p, This, q) /\ Fits(This.vars, q.env)
    BY <1>0, <1>1, <1>2, <1>3, <1>14, StepFacts, LaterFacts DEF Goes, FillNode
  <1>16. TopIs(frames', This) /\ frames'[Depth] = This
    BY <1>0, <1>1, StepFacts, WithTopFacts DEF FillNode
  <1> QED BY <1>0, <1>1, <1>14, <1>15, <1>16, TopGoes

--------------------------------------------------------------------------------
(* Allocation, when there is room.                                             *)

\* What is known after a collection is true also when there was none.
LEMMA TopAged ==
  ASSUME NEW ps, PInv(ps), Running, NEW p, p = ps[Depth], NEW fs, TopIs(fs, This)
  PROVE  IsFrame(fs[Depth]) /\ Fits(fs[Depth].vars, AfterGC(p).env)
  <1>1. Fits(This.vars, p.env) /\ IsPlace(p) BY StepFacts
  <1>2. SeesRoots(p, Depth) BY TopFacts
  <1>3. IsFrame(fs[Depth]) /\ AgedVars(This.vars, fs[Depth].vars, Depth) BY DEF TopIs, Aged
  <1> QED BY <1>1, <1>2, <1>3, FitsAged

\* A collection does not happen while there is an exception, so does not lose it.
LEMMA CollectsQuietly ==
  ASSUME NEW ps, PInv(ps), Running, Step.op \in {"alloc", "ensure"}
  PROVE  thrown = Word
  <1>1. PICK p : p = ps[Depth] OBVIOUS
  <1>2. Step = Now(p) /\ Obeys(p) /\ (p.exc <=> thrown # Word) BY <1>1, StepFacts
  <1> QED BY <1>2 DEF Obeys, ExcPassedOn

\* Words are ensured.
LEMMA EnsureKeeps == ASSUME NEW ps, PInv(ps), Ensure PROVE IInv'
  <1>0. Running /\ Step.op = "ensure" BY DEF Ensure, At
  <1>1. PICK p : p = ps[Depth] OBVIOUS
  <1> USE <1>0, <1>1
  <1>2. Step = Now(p) /\ Obeys(p) /\ IsPlace(p) BY StepFacts
  <1>4. PICK n \in Nat : n = Step.n BY <1>2 DEF Obeys, Allocates
  <1>6. thrown' = thrown /\ frames' = WithTop(This) BY DEF Ensure
  <1>7. TopIs(frames', This) BY <1>6, StepFacts, WithTopFacts
  <1>8. PICK q : q = [AfterGC(Later(p)) EXCEPT !.room = n] OBVIOUS
  <1>9. q \in Places
    <2>1. After(p) = {[AfterGC(Later(p)) EXCEPT !.room = Now(p).n]} BY <1>2, AfterAlloc
    <2> QED BY <1>2, <1>4, <1>8, <2>1, StepFacts
  <1>10. /\ q.todo = Tail(p.todo) /\ q.env = AfterGC(p).env /\ q.grps = p.grps
         /\ q.exc = p.exc /\ q.room = n /\ q.silent = p.silent
    <2>1. PICK r : r = Later(p) OBVIOUS
    <2>2. IsPlace(r) BY <1>2, <2>1, LaterFacts
    <2>3. PICK c : c = AfterGC(r) OBVIOUS
    <2>4. /\ IsPlace(c) /\ c.todo = r.todo /\ c.grps = r.grps /\ c.exc = r.exc
          /\ c.silent = r.silent
      BY <2>2, <2>3, AfterGCFacts
    <2>5. c.env = AfterGC(p).env BY <1>2, <2>1, <2>3, AfterGCFacts
    <2>6. q = [c EXCEPT !.room = n] BY <1>8, <2>1, <2>3
    <2> QED BY <1>2, <2>1, <2>4, <2>5, <2>6, LaterFacts DEF IsPlace
  <1>11. Fits(frames'[Depth].vars, q.env)
    <2>1. PICK fs : fs = frames' OBVIOUS
    <2> QED BY <1>7, <1>10, <2>1, TopAged
  <1>12. room' = n BY <1>4 DEF Ensure
  <1>13. HeapInv' /\ Len(heap') >= Len(heap)
    BY <1>6, <1>12, StepFacts, QuietHeap DEF PInv, Ensure
  <1>14. Goes(p, This, q)
    BY <1>6, <1>9, <1>10, <1>12, <1>13, StepFacts DEF Goes, Ensure
  <1> QED BY <1>7, <1>11, <1>13, <1>14, TopGoes

\* A heap with one more object.
LEMMA GrownFits ==
  ASSUME NEW h, HeapFits(h), NEW k, k = Append(h, <<>>)
  PROVE  HeapFits(k) /\ Len(h) \in Nat /\ Len(k) = Len(h) + 1
  <1>1. Len(h) \in Nat /\ IsSeq(h) BY SeqFacts DEF HeapFits
  <1>3. /\ IsSeq(k) /\ Len(k) = Len(h) + 1 /\ k[Len(h) + 1] = <<>>
        /\ \A x \in 1 .. Len(h) : k[x] = h[x]
    BY <1>1, SeqPush
  <1>4. ASSUME NEW x \in 1 .. Len(k), NEW i \in DOMAIN k[x] PROVE k[x][i] \in Nat
    <2>1. CASE x \in 1 .. Len(h) BY <1>3, <2>1 DEF HeapFits
    <2>2. CASE x = Len(h) + 1 BY <1>3, <2>2
    <2> QED BY <1>1, <1>3, <2>1, <2>2
  <1>8. Len(h) >= Old /\ Old \in Nat BY HeapFacts DEF HeapFits
  <1>9. 1 .. Old \subseteq 1 .. Len(h) /\ Len(k) >= Old BY <1>1, <1>3, <1>8
  <1>5. Len(k) >= Old /\ \A x \in 1 .. Old : k[x] = InitialHeap[x]
    BY <1>3, <1>9 DEF HeapFits
  <1>7. HeapFits(k) BY <1>3, <1>4, <1>5 DEF HeapFits
  <1> QED BY <1>1, <1>3, <1>7

\* The heap has got one more object.
LEMMA GrownHeap ==
  ASSUME HeapInv, heap' = Append(heap, <<>>), thrown' \in Nat, room' \in Nat
  PROVE  HeapInv' /\ Len(heap') >= Len(heap)
  <1>1. PICK h, k : h = heap /\ k = Append(heap, <<>>) OBVIOUS
  <1>2. HeapFits(k) /\ Len(h) \in Nat /\ Len(k) = Len(h) + 1
    BY <1>1, GrownFits DEF HeapInv
  <1>3. heap' = k BY <1>1
  <1>4. HeapInv' BY <1>2, <1>3 DEF HeapInv
  <1>5. Len(k) >= Len(h) BY <1>2
  <1> QED BY <1>1, <1>3, <1>4, <1>5

\* Another frame on top.
LEMMA NewTop ==
  ASSUME NEW ps, PInv(ps), Running, NEW f, NEW fs, TopIs(fs, f), NEW g, IsFrame(g)
  PROVE  TopIs([fs EXCEPT ![Depth] = g], g) /\ [fs EXCEPT ![Depth] = g][Depth] = g
  <1>1. PICK t : t = [fs EXCEPT ![Depth] = g] OBVIOUS
  <1>2. Depth \in Nat /\ Depth > 0 BY TopFacts
  <1>3. IsSeq(fs) /\ Len(fs) = Depth /\ \A d \in 1 .. Depth - 1 : Aged(frames[d], fs[d], d)
    BY DEF TopIs
  <1>4. IsSeq(t) /\ Len(t) = Depth /\ t[Depth] = g /\ \A d \in 1 .. Depth - 1 : t[d] = fs[d]
    <2>1. PICK n : n = Depth OBVIOUS
    <2>2. Len(fs) = n /\ n > 0 /\ t = [fs EXCEPT ![Len(fs)] = g] BY <1>1, <1>2, <1>3, <2>1
    <2>3. /\ IsSeq([fs EXCEPT ![Len(fs)] = g]) /\ Len([fs EXCEPT ![Len(fs)] = g]) = Len(fs)
          /\ [fs EXCEPT ![Len(fs)] = g][Len(fs)] = g
          /\ \A d \in 1 .. Len(fs) - 1 : [fs EXCEPT ![Len(fs)] = g][d] = fs[d]
      BY <1>3, <2>2, SeqTop
    <2> QED BY <2>1, <2>2, <2>3
  <1>5. Aged(g, g, Depth) BY SameIsAged
  <1>6. TopIs(t, g) BY <1>3, <1>4, <1>5 DEF TopIs
  <1> QED BY <1>1, <1>4, <1>6

\* The new object is in the variable x, at the place r but for that and the words.
LEMMA NewObjectKeeps ==
  ASSUME NEW ps, PInv(ps), Running, NEW p, p = ps[Depth],
         NEW fs, TopIs(fs, This), NEW x, frames' = NewObjectIn(fs, x, Len(heap)),
         heap' = Append(heap, <<>>), room' \in Nat, UNCHANGED <<lclRoots, thrown>>,
         NEW r, IsPlace(r), Fits(fs[Depth].vars, r.env), r.todo = Tail(p.todo),
         r.grps = p.grps, r.exc = p.exc, r.silent = p.silent,
         NEW n, NEW q \in Places, q = [Bind(r, x, New) EXCEPT !.room = n], n <= room'
  PROVE  IInv'
  <1>1. PICK f : f = fs[Depth] OBVIOUS
  <1>2. /\ IsFrame(f) /\ f.todo = This.todo /\ f.groups = This.groups
        /\ f.ret = This.ret /\ f.wait = This.wait
    BY <1>1 DEF TopIs, Aged
  <1>3. PICK val : val = Len(heap) + 1 OBVIOUS
  <1>4. Holds(val, New) BY <1>3, StepFacts, HeapFacts DEF Holds, Word
  <1>5. PICK g, b : g = Assign(f, x, val) /\ b = Bind(r, x, New) OBVIOUS
  <1>6. Fits(f.vars, r.env) BY <1>1
  <1>7. Bound(f, r, g, b) BY <1>2, <1>4, <1>5, <1>6, Binds
  <1>8. /\ q.todo = b.todo /\ q.env = b.env /\ q.grps = b.grps /\ q.exc = b.exc
        /\ q.silent = b.silent /\ q.room = n
    BY <1>5, <1>7 DEF Bound, IsPlace
  <1>9. HeapInv' /\ Len(heap') >= Len(heap)
    BY StepFacts, GrownHeap DEF PInv
  <1>10. frames' = [fs EXCEPT ![Depth] = g]
    BY <1>1, <1>3, <1>5 DEF NewObjectIn
  <1>11. TopIs(frames', g) /\ frames'[Depth] = g BY <1>7, <1>10, NewTop DEF Bound
  <1>12. Goes(p, g, q) BY <1>2, <1>7, <1>8, <1>9, StepFacts DEF Goes, Bound
  <1>13. Fits(frames'[Depth].vars, q.env) BY <1>7, <1>8, <1>11 DEF Bound
  <1> QED BY <1>9, <1>11, <1>12, <1>13, TopGoes

\* The words ensured are not a variable.
LEMMA BindRoom ==
  ASSUME NEW p, IsPlace(p), NEW x, NEW a PROVE Bind(p, x, a).room = p.room
  BY DEF IsPlace, Bind

\* A node is allocated from the words ensured.
LEMMA AllocEnsuredKeeps == ASSUME NEW ps, PInv(ps), AllocEnsured PROVE IInv'
  <1>0. Running /\ Step.op = "alloce" BY DEF AllocEnsured, At
  <1>1. PICK p : p = ps[Depth] OBVIOUS
  <1> USE <1>0, <1>1
  <1>2. Step = Now(p) /\ Obeys(p) /\ IsPlace(p) BY StepFacts
  <1>3. PICK n \in Nat : n = Step.n /\ n <= p.room
    BY <1>2 DEF Obeys, Allocates
  <1>4. room' = room - n /\ room' \in Nat /\ p.room - n <= room'
    BY <1>3, StepFacts DEF AllocEnsured
  <1>5. PICK r : r = Later(p) OBVIOUS
  <1>6. /\ IsPlace(r) /\ r.todo = Tail(p.todo) /\ r.env = p.env /\ r.grps = p.grps
        /\ r.exc = p.exc /\ r.room = p.room /\ r.silent = p.silent
    BY <1>2, <1>5, LaterFacts
  <1>7. PICK x : x = Step.x OBVIOUS
  <1>8. PICK fs : fs = WithTop(This) OBVIOUS
  <1>9. TopIs(fs, This) /\ fs[Depth] = This BY <1>8, StepFacts, WithTopFacts
  <1>10. Fits(fs[Depth].vars, r.env) BY <1>6, <1>9, StepFacts
  <1>11. PICK q : q = [Bind(r, x, New) EXCEPT !.room = p.room - n] OBVIOUS
  <1>12. q \in Places
    <2>1. After(p) = {Taken(Bind(Later(p), Now(p).x, New), Now(p).n)} BY <1>2, AfterAlloc
    <2>2. Bind(r, x, New).room = p.room BY <1>6, BindRoom
    <2>3. q = Taken(Bind(r, x, New), n) BY <1>11, <2>2 DEF Taken
    <2> QED BY <1>2, <1>3, <1>5, <1>7, <2>1, <2>3, StepFacts
  <1>13. /\ frames' = NewObjectIn(fs, x, Len(heap)) /\ heap' = Append(heap, <<>>)
         /\ UNCHANGED <<lclRoots, thrown>>
    BY <1>7, <1>8 DEF AllocEnsured
  <1> QED BY <1>4, <1>6, <1>9, <1>10, <1>11, <1>12, <1>13, NewObjectKeeps

\* A node is allocated.
LEMMA AllocKeeps == ASSUME NEW ps, PInv(ps), Alloc PROVE IInv'
  <1>0. Running /\ Step.op = "alloc" BY DEF Alloc, At
  <1>1. PICK p : p = ps[Depth] OBVIOUS
  <1> USE <1>0, <1>1
  <1>2. Step = Now(p) /\ Obeys(p) /\ IsPlace(p) BY StepFacts
  <1>3. PICK n \in Nat : n = Step.n BY <1>2 DEF Obeys, Allocates
  <1>5. PICK x : x = Step.x OBVIOUS
  <1>7. PICK fs : fs = WithTop(This) OBVIOUS
  <1>8. TopIs(fs, This) /\ fs[Depth] = This BY <1>7, StepFacts, WithTopFacts
  <1>9. /\ frames' = NewObjectIn(fs, x, Len(heap)) /\ heap' = Append(heap, <<>>)
        /\ UNCHANGED <<lclRoots, thrown>>
    BY <1>5, <1>7 DEF Alloc
  <1>10. room' = (IF room >= n THEN room - n ELSE 0) /\ room' \in Nat
    BY <1>3, StepFacts DEF Alloc
  <1>11. After(p) = {IF Now(p).n <= p.room THEN Taken(Bind(Later(p), Now(p).x, New), Now(p).n)
               ELSE [Bind(AfterGC(Later(p)), Now(p).x, New) EXCEPT !.room = 0]}
    BY <1>2, AfterAlloc
  <1>12. PICK r : r = Later(p) OBVIOUS
  <1>13. /\ IsPlace(r) /\ r.todo = Tail(p.todo) /\ r.env = p.env /\ r.grps = p.grps
         /\ r.exc = p.exc /\ r.room = p.room /\ r.silent = p.silent
    BY <1>2, <1>12, LaterFacts
  <1>14. CASE n <= p.room
    <2>2. Fits(fs[Depth].vars, r.env) BY <1>8, <1>13, StepFacts
    <2>3. PICK q : q = [Bind(r, x, New) EXCEPT !.room = p.room - n] OBVIOUS
    <2>4. q \in Places
      <3>1. Bind(r, x, New).room = p.room BY <1>13, BindRoom
      <3>2. q = Taken(Bind(r, x, New), n) BY <2>3, <3>1 DEF Taken
      <3> QED BY <1>2, <1>3, <1>5, <1>11, <1>12, <1>14, <3>2, StepFacts
    <2>5. p.room - n <= room' BY <1>3, <1>10, <1>14, StepFacts
    <2> QED BY <1>8, <1>9, <1>10, <1>13, <2>2, <2>3, <2>4, <2>5, NewObjectKeeps
  <1>15. CASE ~ (n <= p.room)
    <2>1. PICK c : c = AfterGC(r) OBVIOUS
    <2>2. /\ IsPlace(c) /\ c.todo = r.todo /\ c.grps = r.grps /\ c.exc = r.exc
          /\ c.silent = r.silent
      BY <1>13, <2>1, AfterGCFacts
    <2>3. c.env = AfterGC(p).env BY <1>2, <1>12, <2>1, AfterGCFacts
    <2>4. Fits(fs[Depth].vars, c.env) BY <1>8, <2>3, TopAged
    <2>5. PICK q : q = [Bind(c, x, New) EXCEPT !.room = 0] OBVIOUS
    <2>6. q \in Places BY <1>2, <1>3, <1>5, <1>11, <1>12, <1>15, <2>1, <2>5, StepFacts
    <2>7. 0 <= room' BY <1>10
    <2> QED BY <1>8, <1>9, <1>10, <1>13, <2>2, <2>4, <2>5, <2>6, <2>7, NewObjectKeeps, ZenonT(60)
  <1> QED BY <1>14, <1>15

--------------------------------------------------------------------------------
(* Steps that change the groups of local roots.                                *)

\* Such a step, of the function on top, to place q and with the frame g.
Regroups(p, g, q) ==
  /\ IsFrame(g) /\ frames' = WithTop(g) /\ heap' = heap /\ thrown' = thrown /\ room' = room
  /\ g.ret = frames[Depth].ret /\ g.wait = frames[Depth].wait
  /\ g.todo = q.todo /\ Fits(g.vars, q.env)
  /\ q \in Places /\ q.silent = p.silent /\ q.exc = p.exc /\ q.room = p.room

\* The frames after such a step.
LEMMA RegroupFacts ==
  ASSUME NEW ps, PInv(ps), Running, NEW g, NEW q, Regroups(ps[Depth], g, q)
  PROVE  /\ Depth \in Nat /\ Depth > 0 /\ Depth' = Depth
         /\ frames'[Depth] = g
         /\ \A d \in 1 .. Depth - 1 : frames'[d] = frames[d]
  <1>1. Depth \in Nat /\ Depth > 0 /\ \A d \in 1 .. Depth : IsFrame(frames[d])
    BY TopFacts DEF Running
  <1>2. IsSeq(frames) /\ Depth = Len(frames) BY DEF PInv, StackInv, Depth
  <1>3. PICK fs : fs = frames OBVIOUS
  <1>4. /\ IsSeq([fs EXCEPT ![Len(fs)] = g]) /\ Len([fs EXCEPT ![Len(fs)] = g]) = Len(fs)
        /\ [fs EXCEPT ![Len(fs)] = g][Len(fs)] = g
        /\ \A d \in 1 .. Len(fs) - 1 : [fs EXCEPT ![Len(fs)] = g][d] = fs[d]
    <2>1. IsSeq(fs) /\ Len(fs) > 0 BY <1>1, <1>2, <1>3
    <2> QED BY <2>1, SeqTop
  <1>5. frames' = [fs EXCEPT ![Len(fs)] = g] BY <1>2, <1>3 DEF Regroups, WithTop
  <1>6. Len(frames') = Len(frames) BY <1>3, <1>4, <1>5
  <1> QED BY <1>1, <1>2, <1>3, <1>4, <1>5, <1>6 DEF Depth

\* The invariant, but for the groups.
LEMMA RegroupStep ==
  ASSUME NEW ps, PInv(ps), Running, NEW g, NEW q, Regroups(ps[Depth], g, q),
         NEW qs, qs = [ps EXCEPT ![Depth] = q], RootsInv(qs)'
  PROVE  IInv'
  <1>1. TopIs(frames', g) /\ frames'[Depth] = g BY WithTopFacts DEF Regroups
  <1>2. Depth' = Depth BY RegroupFacts
  <1>3. MovesTo(q)
    BY <1>1, <1>2, StepFacts DEF MovesTo, TopIs, Regroups
  <1>4. q \in Places /\ q.silent = ps[Depth].silent BY DEF Regroups
  <1>5. /\ qs \in [1 .. Depth -> Places]' /\ StackInv' /\ CodeInv(qs)' /\ ThrownInv'
        /\ \A d \in 1 .. Depth : frames'[d].wait = frames[d].wait
    BY <1>3, <1>4, TopMoves
  <1>6. HeapInv' /\ Len(heap') >= Len(heap)
    BY StepFacts, QuietHeap DEF PInv, Regroups
  <1>7. SameWaits BY <1>2, <1>5, StepFacts DEF SameWaits, Regroups
  <1>8. HeightInv' BY <1>7, StepFacts, QuietHeights DEF PInv
  <1>9. PInv(qs)' BY <1>5, <1>6, <1>8 DEF PInv
  <1> QED BY <1>5, <1>9 DEF IInv

\* The groups of a place are a sequence of sets of variables.
LEMMA GrpsFacts ==
  ASSUME NEW p \in Places
  PROVE  /\ p.grps \in Seq(SUBSET STRING) /\ Len(p.grps) \in Nat
         /\ \A j \in 1 .. Len(p.grps) : p.grps[j] \in SUBSET STRING
  BY PlaceFacts DEF Obeys, WellFormed

--------------------------------------------------------------------------------
(* Groups of a function, on a chain that changes.                              *)

\* The groups of another function stay where they are.
KeepsGroups(d, R, S) ==
  \A i \in 1 .. Len(R) : R[i].frame = d => i \in 1 .. Len(S) /\ S[i] = R[i]

\* So they fit there.
LEMMA StillIn ==
  ASSUME NEW d, NEW gs, NEW grps, NEW R, NEW S, GroupsIn(d, gs, grps, R), KeepsGroups(d, R, S)
  PROVE  GroupsIn(d, gs, grps, S)
  <1>1. ASSUME NEW j \in 1 .. Len(grps)
        PROVE  /\ gs[j] + 1 \in 1 .. Len(S)
               /\ S[gs[j] + 1] = [frame |-> d, ones |-> {d} \X grps[j]]
    <2>1. /\ gs[j] + 1 \in 1 .. Len(R)
          /\ R[gs[j] + 1] = [frame |-> d, ones |-> {d} \X grps[j]]
      BY DEF GroupsIn
    <2>2. R[gs[j] + 1].frame = d BY <2>1
    <2>3. gs[j] + 1 \in 1 .. Len(S) /\ S[gs[j] + 1] = R[gs[j] + 1]
      BY <2>1, <2>2 DEF KeepsGroups
    <2> QED BY <2>1, <2>3
  <1> QED BY <1>1 DEF GroupsIn

\* One more group.
LEMMA PushedIn ==
  ASSUME NEW d, NEW gs, NEW grps \in Seq(SUBSET STRING), NEW R \in Seq(Root),
         GroupsIn(d, gs, grps, R), NEW root \in Root, root = [frame |-> d, ones |-> {}],
         NEW hs, hs = Append(gs, Len(R)), NEW S, S = Append(R, root)
  PROVE  GroupsIn(d, hs, Append(grps, {}), S)
  <1>1. PICK n \in Nat : n = Len(grps) OBVIOUS
  <1>2. PICK L \in Nat : L = Len(R) OBVIOUS
  <1>3. gs \in Seq(Nat) /\ Len(gs) = n BY <1>1 DEF GroupsIn
  <1>4. /\ hs \in Seq(Nat) /\ Len(hs) = n + 1 /\ hs[n + 1] = L
        /\ \A j \in 1 .. n : hs[j] = gs[j]
    BY <1>2, <1>3
  <1>5. PICK more : more = Append(grps, {}) OBVIOUS
  <1>6. Len(more) = n + 1 /\ more[n + 1] = {} /\ \A j \in 1 .. n : more[j] = grps[j]
    BY <1>1, <1>5
  <1>7. Len(S) = L + 1 /\ S[L + 1] = root /\ \A i \in 1 .. L : S[i] = R[i]
    BY <1>2
  <1>11. \A j \in 1 .. n + 1 : j = n + 1 \/ j \in 1 .. n OBVIOUS
  <1>8. ASSUME NEW j \in 1 .. n + 1
        PROVE  /\ hs[j] + 1 \in 1 .. Len(S)
               /\ S[hs[j] + 1] = [frame |-> d, ones |-> {d} \X more[j]]
    <2>1. CASE j = n + 1
      <3>1. {d} \X more[j] = {} BY <2>1, <1>6
      <3>2. hs[j] + 1 = L + 1 /\ L + 1 \in 1 .. L + 1 BY <2>1, <1>4
      <3> QED BY <3>1, <3>2, <1>7
    <2>2. CASE j \in 1 .. n
      <3>1. /\ gs[j] + 1 \in 1 .. L
            /\ R[gs[j] + 1] = [frame |-> d, ones |-> {d} \X grps[j]]
        BY <2>2, <1>1, <1>2 DEF GroupsIn
      <3>2. hs[j] = gs[j] /\ more[j] = grps[j] BY <2>2, <1>4, <1>6
      <3>3. hs[j] + 1 \in 1 .. L + 1 BY <3>1, <3>2
      <3> QED BY <3>1, <3>2, <3>3, <1>7
    <2> QED BY <2>1, <2>2, <1>11
  <1>9. ASSUME NEW j \in 1 .. n + 1, NEW k \in 1 .. n + 1, j < k PROVE hs[j] < hs[k]
    <2>1. CASE k = n + 1
      <3>1. j \in 1 .. n BY <1>9, <2>1
      <3>2. gs[j] + 1 \in 1 .. L BY <3>1, <1>1, <1>2 DEF GroupsIn
      <3>3. gs[j] \in Nat BY <3>1, <1>3
      <3>4. gs[j] < L BY <3>2, <3>3
      <3> QED BY <2>1, <3>1, <3>4, <1>4
    <2>2. CASE k \in 1 .. n
      <3>1. j \in 1 .. n BY <1>9, <2>2
      <3> QED BY <1>9, <2>2, <3>1, <1>1, <1>4 DEF GroupsIn
    <2> QED BY <2>1, <2>2, <1>11
  <1>10. GroupsIn(d, hs, more, S) BY <1>4, <1>6, <1>8, <1>9 DEF GroupsIn
  <1> QED BY <1>5, <1>10

\* The last group left.
LEMMA PoppedIn ==
  ASSUME NEW d, NEW gs, NEW grps \in Seq(SUBSET STRING), NEW R \in Seq(Root),
         GroupsIn(d, gs, grps, R), NEW n \in Nat, n = Len(grps), n > 0,
         gs[n] + 1 = Len(R), NEW S, S = SubSeq(R, 1, gs[n])
  PROVE  GroupsIn(d, Front(gs), Front(grps), S)
  <1>1. gs \in Seq(Nat) /\ Len(gs) = n BY DEF GroupsIn
  <1>2. PICK hs, less : hs = Front(gs) /\ less = Front(grps) OBVIOUS
  <1>3. /\ hs \in Seq(Nat) /\ Len(hs) = n - 1 /\ Len(less) = n - 1
        /\ \A j \in 1 .. n - 1 : hs[j] = gs[j] /\ less[j] = grps[j]
    BY <1>1, <1>2, SMTT(40) DEF Front
  <1>4. PICK m \in Nat : m = gs[n] BY <1>1
  <1>5. Len(S) = m /\ \A i \in 1 .. m : S[i] = R[i]
    <2>1. Len(R) = m + 1 BY <1>4
    <2> QED BY <1>4, <2>1
  <1>6. ASSUME NEW j \in 1 .. n - 1
        PROVE  /\ hs[j] + 1 \in 1 .. Len(S)
               /\ S[hs[j] + 1] = [frame |-> d, ones |-> {d} \X less[j]]
    <2>1. j \in 1 .. n /\ n \in 1 .. n /\ j < n OBVIOUS
    <2>2. /\ gs[j] + 1 \in 1 .. Len(R) /\ gs[j] < gs[n]
          /\ R[gs[j] + 1] = [frame |-> d, ones |-> {d} \X grps[j]]
      BY <2>1 DEF GroupsIn
    <2>3. gs[j] \in Nat BY <1>1, <2>1
    <2>4. gs[j] + 1 \in 1 .. m BY <1>4, <2>2, <2>3
    <2> QED BY <1>3, <1>5, <2>2, <2>4
  <1>7. ASSUME NEW j \in 1 .. n - 1, NEW k \in 1 .. n - 1, j < k PROVE hs[j] < hs[k]
    BY <1>3, <1>7 DEF GroupsIn
  <1>8. GroupsIn(d, hs, less, S) BY <1>3, <1>6, <1>7 DEF GroupsIn
  <1> QED BY <1>2, <1>8

\* Variables entered in the last group.
Entered(d, R, vs) == [R EXCEPT ![Len(R)].ones = @ \cup ({d} \X vs)]

\* Variables that are entered in the innermost group.
LEMMA RegisteredIn ==
  ASSUME NEW d, NEW gs, NEW grps \in Seq(SUBSET STRING), NEW R \in Seq(Root),
         GroupsIn(d, gs, grps, R), NEW n \in Nat, n = Len(grps), n > 0,
         gs[n] + 1 = Len(R), NEW S, NEW vs, S = Entered(d, R, vs)
  PROVE  GroupsIn(d, gs, [grps EXCEPT ![n] = @ \cup vs], S)
  <1>1. gs \in Seq(Nat) /\ Len(gs) = n BY DEF GroupsIn
  <1>2. PICK more : more = [grps EXCEPT ![n] = @ \cup vs] OBVIOUS
  <1>3. /\ Len(more) = n /\ more[n] = grps[n] \cup vs
        /\ \A j \in 1 .. n - 1 : more[j] = grps[j]
    BY <1>2
  <1>4. PICK L \in Nat : L = Len(R) OBVIOUS
  <1>5. R[L] = [frame |-> d, ones |-> {d} \X grps[n]] BY <1>4 DEF GroupsIn
  <1>6. /\ Len(S) = L /\ S[L] = [frame |-> d, ones |-> {d} \X more[n]]
        /\ \A i \in 1 .. L - 1 : S[i] = R[i]
    <2>1. ({d} \X grps[n]) \cup ({d} \X vs) = {d} \X more[n] BY <1>3
    <2>2. PICK new : new = [R[L] EXCEPT !.ones = @ \cup ({d} \X vs)] OBVIOUS
    <2>8. PICK old, add, all : /\ old = {d} \X grps[n] /\ add = {d} \X vs
                               /\ all = {d} \X more[n]
      OBVIOUS
    <2>3. new = [frame |-> d, ones |-> all]
      <3>1. R[L] = [frame |-> d, ones |-> old] /\ old \cup add = all BY <1>5, <2>1, <2>8
      <3>2. R[L].ones = old BY <3>1
      <3>3. new = [R[L] EXCEPT !.ones = all] BY <2>2, <2>8, <3>1, <3>2
      <3>4. new = [[frame |-> d, ones |-> old] EXCEPT !.ones = all] BY <3>1, <3>3
      <3>5. [[frame |-> d, ones |-> old] EXCEPT !.ones = all] = [frame |-> d, ones |-> all]
        OBVIOUS
      <3> QED BY <3>4, <3>5
    <2>4. S = [R EXCEPT ![L] = new] BY <1>4, <2>2 DEF Entered
    <2>5. gs[n] \in Nat BY <1>1
    <2>6. L > 0 BY <1>4, <2>5
    <2>7. Len(S) = L /\ S[L] = new /\ \A i \in 1 .. L - 1 : S[i] = R[i]
      BY <1>4, <2>4, <2>6
    <2> QED BY <2>3, <2>7, <2>8
  <1>7. ASSUME NEW j \in 1 .. n
        PROVE  /\ gs[j] + 1 \in 1 .. Len(S)
               /\ S[gs[j] + 1] = [frame |-> d, ones |-> {d} \X more[j]]
    <2>1. CASE j = n
      <3>1. gs[n] \in Nat BY <1>1
      <3>2. gs[j] + 1 = L /\ L \in 1 .. L BY <2>1, <3>1, <1>4
      <3> QED BY <2>1, <3>2, <1>6
    <2>2. CASE j # n
      <3>1. j < n /\ n \in 1 .. n /\ j \in 1 .. n - 1 BY <2>2
      <3>2. /\ gs[j] + 1 \in 1 .. L /\ gs[j] < gs[n]
            /\ R[gs[j] + 1] = [frame |-> d, ones |-> {d} \X grps[j]]
        BY <3>1, <1>4 DEF GroupsIn
      <3>3. gs[j] \in Nat /\ gs[n] \in Nat BY <1>1, <3>1
      <3>4. gs[j] + 1 \in 1 .. L - 1 BY <1>4, <3>2, <3>3
      <3> QED BY <1>3, <1>6, <3>1, <3>2, <3>4
    <2> QED BY <2>1, <2>2
  <1>8. GroupsIn(d, gs, more, S) BY <1>1, <1>3, <1>7 DEF GroupsIn
  <1> QED BY <1>2, <1>8

\* The last group of the function on top is the innermost one.
LEMMA InnermostIsTop ==
  ASSUME NEW ps, PInv(ps), Running, NEW n, n = Len(ps[Depth].grps), n > 0
  PROVE  /\ n \in Nat /\ Len(frames[Depth].groups) = n
         /\ frames[Depth].groups[n] + 1 = Len(lclRoots)
         /\ \A i \in 1 .. Len(lclRoots) - 1 : \A d \in 1 .. Depth :
              lclRoots[i].frame = d => i - 1 \in ToSet(frames[d].groups)
         /\ lclRoots[Len(lclRoots)].frame = Depth
  <1>1. Depth \in Nat /\ Depth \in 1 .. Depth /\ ps[Depth] \in Places BY TopFacts
  <1>2. RootsInv(ps) BY DEF PInv
  <1>3. PICK D, gs, L : D = Depth /\ gs = frames[Depth].groups /\ L = Len(lclRoots) OBVIOUS
  <1>4. GroupsIn(D, gs, ps[Depth].grps, lclRoots) BY <1>1, <1>2, <1>3 DEF RootsInv, GroupsFit
  <1>5. n \in Nat /\ n \in 1 .. n /\ L \in Nat BY <1>1, <1>2, <1>3, GrpsFacts DEF RootsInv
  <1>6. gs \in Seq(Nat) /\ Len(gs) = n BY <1>4 DEF GroupsIn
  <1>7. /\ gs[n] \in Nat /\ gs[n] + 1 \in 1 .. L
        /\ lclRoots[gs[n] + 1].frame = D
    <2>1. gs[n] \in Nat BY <1>5, <1>6
    <2>2. n \in 1 .. Len(ps[Depth].grps) BY <1>5
    <2>3. /\ gs[n] + 1 \in 1 .. L
          /\ lclRoots[gs[n] + 1] = [frame |-> D, ones |-> {D} \X ps[Depth].grps[n]]
      BY <1>3, <1>4, <2>2 DEF GroupsIn
    <2> QED BY <2>1, <2>3
  <1>8. lclRoots[L].frame = D
    <2>1. L \in 1 .. L BY <1>5, <1>7
    <2>2. lclRoots[L].frame \in 1 .. D BY <1>2, <1>3, <2>1 DEF RootsInv
    <2>3. gs[n] + 1 < L => D <= lclRoots[L].frame BY <1>2, <1>3, <1>7, <2>1 DEF RootsInv
    <2>4. PICK e, m : e = lclRoots[L].frame /\ m = gs[n] OBVIOUS
    <2>5. /\ D \in Nat /\ L \in Nat /\ e \in 1 .. D /\ m \in Nat /\ m + 1 \in 1 .. L
          /\ m + 1 < L => D <= e
      BY <1>1, <1>3, <1>5, <1>7, <2>2, <2>3, <2>4
    <2>6. m + 1 < L \/ m + 1 = L BY <2>5
    <2>7. m + 1 < L => e = D BY <2>5
    <2>8. m + 1 = L => e = D BY <1>7, <2>4
    <2> QED BY <2>4, <2>6, <2>7, <2>8
  <1>9. L - 1 \in ToSet(gs) BY <1>2, <1>3, <1>5, <1>7, <1>8 DEF RootsInv
  <1>10. PICK j \in 1 .. n : gs[j] = L - 1 BY <1>6, <1>9 DEF ToSet
  <1>11. gs[j] <= gs[n] BY <1>4, <1>5, <1>6, <1>10 DEF GroupsIn
  <1>12. gs[n] + 1 = L BY <1>5, <1>7, <1>10, <1>11
  <1>13. \A i \in 1 .. L - 1 : \A d \in 1 .. D :
           lclRoots[i].frame = d => i - 1 \in ToSet(frames[d].groups)
    BY <1>2, <1>3, <1>5 DEF RootsInv
  <1> QED BY <1>3, <1>5, <1>6, <1>8, <1>12, <1>13

--------------------------------------------------------------------------------
(* The steps that enter and leave groups, and register variables.              *)

\* The chain R of groups, after such a step, when gs are those of the function on top.
NewChain(R, gs) ==
  /\ R \in Seq(Root)
  /\ \A d \in 1 .. Depth - 1 : KeepsGroups(d, lclRoots, R)
  /\ \A i \in 1 .. Len(R) :
       /\ R[i].frame \in 1 .. Depth
       /\ R[i].frame = Depth => i - 1 \in ToSet(gs)
       /\ R[i].frame # Depth => i \in 1 .. Len(lclRoots) /\ lclRoots[i].frame = R[i].frame
  /\ \A i, k \in 1 .. Len(R) : i < k => R[i].frame <= R[k].frame

\* Then the invariant holds.
LEMMA RegroupKeeps ==
  ASSUME NEW ps, PInv(ps), Running, NEW g, NEW q, Regroups(ps[Depth], g, q),
         NEW R, lclRoots' = R, NewChain(R, g.groups), GroupsIn(Depth, g.groups, q.grps, R)
  PROVE  IInv'
  <1>1. PICK qs : qs = [ps EXCEPT ![Depth] = q] OBVIOUS
  <1>2. /\ Depth \in Nat /\ Depth > 0 /\ Depth' = Depth /\ frames'[Depth] = g
        /\ \A d \in 1 .. Depth - 1 : frames'[d] = frames[d]
    BY RegroupFacts
  <1>3. /\ qs[Depth] = q
        /\ \A d \in 1 .. Depth - 1 : qs[d] = ps[d] /\ GroupsFit(d, ps[d])
    BY <1>1, <1>2 DEF PInv, RootsInv
  <1>4. ASSUME NEW d \in 1 .. Depth PROVE GroupsFit(d, qs[d])'
    <2>1. CASE d = Depth BY <2>1, <1>2, <1>3 DEF GroupsFit
    <2>2. CASE d \in 1 .. Depth - 1
      <3>1. GroupsIn(d, frames[d].groups, ps[d].grps, lclRoots) BY <2>2, <1>3 DEF GroupsFit
      <3>2. KeepsGroups(d, lclRoots, R) BY <2>2 DEF NewChain
      <3>3. PICK gs, grps, S : gs = frames[d].groups /\ grps = ps[d].grps /\ S = lclRoots
        OBVIOUS
      <3>4. GroupsIn(d, gs, grps, R) BY <3>1, <3>2, <3>3, StillIn
      <3>5. frames'[d] = frames[d] /\ qs[d] = ps[d] BY <2>2, <1>2, <1>3
      <3> QED BY <3>3, <3>4, <3>5 DEF GroupsFit
    <2>3. d = Depth \/ d \in 1 .. Depth - 1 BY <1>2
    <2> QED BY <2>1, <2>2, <2>3
  <1>5. ASSUME NEW i \in 1 .. Len(R)
        PROVE  R[i].frame \in 1 .. Depth /\ i - 1 \in ToSet(frames'[R[i].frame].groups)
    <2>1. CASE R[i].frame = Depth BY <2>1, <1>2 DEF NewChain
    <2>2. CASE R[i].frame # Depth
      <3>1. PICK d : d = R[i].frame OBVIOUS
      <3>2. d \in 1 .. Depth /\ d # Depth /\ i \in 1 .. Len(lclRoots) /\ lclRoots[i].frame = d
        BY <2>2, <3>1 DEF NewChain
      <3>3. i - 1 \in ToSet(frames[d].groups) BY <3>2 DEF PInv, RootsInv
      <3>4. d \in 1 .. Depth - 1 BY <1>2, <3>2
      <3>5. frames'[d] = frames[d] BY <1>2, <3>4
      <3> QED BY <3>1, <3>2, <3>3, <3>5
    <2> QED BY <2>1, <2>2
  <1>6. /\ R \in Seq(Root)
        /\ \A i, k \in 1 .. Len(R) : i < k => R[i].frame <= R[k].frame
    BY DEF NewChain
  <1>7. RootsInv(qs)' BY <1>2, <1>4, <1>5, <1>6 DEF RootsInv
  <1> QED BY <1>1, <1>7, RegroupStep

\* What is known of the groups before the step.
LEMMA ChainFacts ==
  ASSUME NEW ps, PInv(ps), Running
  PROVE  /\ lclRoots \in Seq(Root) /\ Len(lclRoots) \in Nat
         /\ Depth \in Nat /\ Depth > 0
         /\ GroupsIn(Depth, frames[Depth].groups, ps[Depth].grps, lclRoots)
         /\ \A i \in 1 .. Len(lclRoots) :
              /\ lclRoots[i].frame \in 1 .. Depth
              /\ lclRoots[i].frame = Depth => i - 1 \in ToSet(frames[Depth].groups)
         /\ \A i, k \in 1 .. Len(lclRoots) :
              i < k => lclRoots[i].frame <= lclRoots[k].frame
         /\ frames[Depth].groups \in Seq(Nat)
  <1>1. Depth \in Nat /\ Depth \in 1 .. Depth /\ Depth > 0 BY TopFacts DEF Running
  <1>2. RootsInv(ps) BY DEF PInv
  <1>3. GroupsIn(Depth, frames[Depth].groups, ps[Depth].grps, lclRoots)
    BY <1>1, <1>2 DEF RootsInv, GroupsFit
  <1>4. frames[Depth].groups \in Seq(Nat) BY <1>3 DEF GroupsIn
  <1>5. lclRoots \in Seq(Root) /\ Len(lclRoots) \in Nat BY <1>2 DEF RootsInv
  <1> QED BY <1>1, <1>2, <1>3, <1>4, <1>5 DEF RootsInv

\* A group is entered.
LEMMA EnterGrpKeeps == ASSUME NEW ps, PInv(ps), EnterGrp PROVE IInv'
  <1>0. Running /\ Step.op = "enter" BY DEF EnterGrp, At
  <1>1. PICK p : p = ps[Depth] OBVIOUS
  <1> USE <1>0, <1>1
  <1>2. Step = Now(p) /\ IsPlace(p) /\ IsPlace(Later(p)) BY StepFacts, LaterFacts
  <1>3. PICK q : q = [Later(p) EXCEPT !.grps = Append(@, {})] OBVIOUS
  <1>4. q \in Places BY <1>2, <1>3, StepFacts, AfterCases
  <1>5. /\ q.todo = Tail(p.todo) /\ q.env = p.env /\ q.grps = Append(p.grps, {})
        /\ q.exc = p.exc /\ q.room = p.room /\ q.silent = p.silent
    BY <1>2, <1>3, LaterFacts DEF IsPlace
  <1>6. PICK L, D, gs : L = Len(lclRoots) /\ D = Depth /\ gs = frames[Depth].groups OBVIOUS
  <1>7. PICK g : g = [This EXCEPT !.groups = Append(@, L)] OBVIOUS
  <1>8. /\ IsFrame(g) /\ g.todo = This.todo /\ g.vars = This.vars /\ g.ret = This.ret
        /\ g.wait = This.wait /\ g.groups = Append(gs, L)
    BY <1>6, <1>7, StepFacts DEF IsFrame
  <1>9. Regroups(p, g, q)
    BY <1>4, <1>5, <1>6, <1>7, <1>8, StepFacts DEF Regroups, EnterGrp
  <1>10. PICK root : root = [frame |-> D, ones |-> {}] OBVIOUS
  <1>11. PICK R, S : R = Append(lclRoots, root) /\ S = lclRoots OBVIOUS
  <1>12. lclRoots' = R BY <1>6, <1>10, <1>11 DEF EnterGrp
  <1>13. /\ S \in Seq(Root) /\ L \in Nat /\ L = Len(S) /\ D \in Nat /\ D > 0
         /\ GroupsIn(D, gs, p.grps, S) /\ gs \in Seq(Nat)
         /\ \A i \in 1 .. L : /\ S[i].frame \in 1 .. D
                              /\ S[i].frame = D => i - 1 \in ToSet(gs)
         /\ \A i, k \in 1 .. L : i < k => S[i].frame <= S[k].frame
    BY <1>6, <1>11, ChainFacts
  <1>14. root \in Root /\ root.frame = D BY <1>10, <1>13 DEF Root
  <1>15. p.grps \in Seq(SUBSET STRING) BY TopFacts, GrpsFacts
  <1>16. GroupsIn(D, g.groups, q.grps, R)
    <2>1. PICK hs, grps : hs = g.groups /\ grps = p.grps OBVIOUS
    <2>2. GroupsIn(D, hs, Append(grps, {}), R)
      BY <1>8, <1>10, <1>11, <1>13, <1>14, <1>15, <2>1, PushedIn
    <2> QED BY <1>5, <2>1, <2>2
  <1>17. /\ R \in Seq(Root) /\ Len(R) = L + 1 /\ R[L + 1] = root
         /\ \A i \in 1 .. L : R[i] = S[i]
    BY <1>11, <1>13, <1>14
  <1>18. L \in ToSet(g.groups) /\ \A x \in ToSet(gs) : x \in ToSet(g.groups)
    <2>1. g.groups \in Seq(Nat) /\ Len(g.groups) = Len(gs) + 1 /\ g.groups[Len(gs) + 1] = L
          /\ \A j \in 1 .. Len(gs) : g.groups[j] = gs[j]
      BY <1>8, <1>13
    <2>2. DOMAIN g.groups = 1 .. Len(gs) + 1 /\ DOMAIN gs = 1 .. Len(gs) /\ Len(gs) \in Nat
      BY <1>13, <2>1, LenProperties
    <2> QED BY <2>1, <2>2 DEF ToSet
  <1>19. NewChain(R, g.groups)
    <2>1. ASSUME NEW i \in 1 .. Len(R)
          PROVE  /\ R[i].frame \in 1 .. D
                 /\ R[i].frame = D => i - 1 \in ToSet(g.groups)
                 /\ R[i].frame # D => i \in 1 .. L /\ S[i].frame = R[i].frame
      <3>1. CASE i = L + 1 BY <3>1, <1>13, <1>14, <1>17, <1>18
      <3>2. CASE i \in 1 .. L BY <3>2, <1>13, <1>17, <1>18
      <3>3. i = L + 1 \/ i \in 1 .. L BY <1>13, <1>17
      <3> QED BY <3>1, <3>2, <3>3
    <2>2. ASSUME NEW i \in 1 .. Len(R), NEW k \in 1 .. Len(R), i < k
          PROVE  R[i].frame <= R[k].frame
      <3>0. L \in Nat /\ Len(R) = L + 1 BY <1>13, <1>17
      <3>1. i \in 1 .. L /\ (k = L + 1 \/ k \in 1 .. L) BY <2>2, <3>0
      <3>2. R[i].frame = S[i].frame /\ S[i].frame \in 1 .. D BY <3>1, <1>13, <1>17
      <3>3. CASE k = L + 1 BY <3>2, <3>3, <1>13, <1>14, <1>17
      <3>4. CASE k \in 1 .. L BY <2>2, <3>1, <3>2, <3>4, <1>13, <1>17
      <3> QED BY <3>1, <3>3, <3>4
    <2>3. \A d \in 1 .. D - 1 : KeepsGroups(d, S, R)
      BY <1>13, <1>17 DEF KeepsGroups
    <2> QED BY <1>6, <1>11, <1>17, <2>1, <2>2, <2>3 DEF NewChain
  <1> QED BY <1>6, <1>9, <1>12, <1>16, <1>19, RegroupKeeps

\* A group is left.
LEMMA LeaveGrpKeeps == ASSUME NEW ps, PInv(ps), LeaveGrp PROVE IInv'
  <1>0. Running /\ Step.op = "leave" BY DEF LeaveGrp, At
  <1>1. PICK p : p = ps[Depth] OBVIOUS
  <1> USE <1>0, <1>1
  <1>2. Step = Now(p) /\ IsPlace(p) /\ IsPlace(Later(p)) /\ Obeys(p) BY StepFacts, LaterFacts
  <1>3. PICK q : q = [Later(p) EXCEPT !.grps = Front(@)] OBVIOUS
  <1>4. q \in Places BY <1>2, <1>3, StepFacts, AfterCases, ZenonT(60)
  <1>5. /\ q.todo = Tail(p.todo) /\ q.env = p.env /\ q.grps = Front(p.grps)
        /\ q.exc = p.exc /\ q.room = p.room /\ q.silent = p.silent
    BY <1>2, <1>3, LaterFacts DEF IsPlace
  <1>6. PICK L, D, gs, S : /\ L = Len(lclRoots) /\ D = Depth /\ gs = frames[Depth].groups
                           /\ S = lclRoots
    OBVIOUS
  <1>7. PICK g : g = [This EXCEPT !.groups = Front(@)] OBVIOUS
  <1>8. /\ IsFrame(g) /\ g.todo = This.todo /\ g.vars = This.vars /\ g.ret = This.ret
        /\ g.wait = This.wait /\ g.groups = Front(gs)
    BY <1>6, <1>7, StepFacts DEF IsFrame
  <1>9. Regroups(p, g, q)
    BY <1>4, <1>5, <1>7, <1>8, StepFacts DEF Regroups, LeaveGrp
  <1>10. /\ S \in Seq(Root) /\ L \in Nat /\ L = Len(S) /\ D \in Nat /\ D > 0
         /\ GroupsIn(D, gs, p.grps, S) /\ gs \in Seq(Nat)
         /\ \A i \in 1 .. L : /\ S[i].frame \in 1 .. D
                              /\ S[i].frame = D => i - 1 \in ToSet(gs)
         /\ \A i, k \in 1 .. L : i < k => S[i].frame <= S[k].frame
    BY <1>6, ChainFacts
  <1>11. p.grps \in Seq(SUBSET STRING) BY TopFacts, GrpsFacts
  <1>12. p.grps # <<>> BY <1>2 DEF Obeys, GroupsKept
  <1>13. PICK n \in Nat : n = Len(p.grps) /\ n > 0 BY <1>11, <1>12
  <1>14. /\ Len(gs) = n /\ gs[n] + 1 = L /\ S[L].frame = D
    BY <1>6, <1>13, InnermostIsTop
  <1>15. gs[n] \in Nat /\ L - 1 \in Nat /\ gs[n] = L - 1
    BY <1>10, <1>13, <1>14
  <1>16. PICK R : R = SubSeq(S, 1, gs[n]) OBVIOUS
  <1>17. lclRoots' = R
    <2>1. Last(This.groups) = gs[n] BY <1>6, <1>14, StepFacts DEF Last
    <2> QED BY <1>6, <1>16, <2>1 DEF LeaveGrp
  <1>18. GroupsIn(D, g.groups, q.grps, R)
    BY <1>5, <1>8, <1>10, <1>11, <1>13, <1>14, <1>16, PoppedIn
  <1>19. /\ R \in Seq(Root) /\ Len(R) = L - 1 /\ \A i \in 1 .. L - 1 : R[i] = S[i]
    BY <1>10, <1>15, <1>16
  <1>20. ASSUME NEW x \in ToSet(gs), x # L - 1 PROVE x \in ToSet(g.groups)
    <2>1. PICK j \in 1 .. n : gs[j] = x BY <1>10, <1>14, LenProperties DEF ToSet
    <2>2. j \in 1 .. n - 1 BY <1>13, <1>15, <1>20, <2>1
    <2>5. PICK hs : hs = Front(gs) OBVIOUS
    <2>6. gs \in Seq(Nat) /\ Len(gs) = n /\ n > 0 BY <1>10, <1>13, <1>14
    <2>7. hs \in Seq(Nat) /\ Len(hs) = n - 1 /\ \A i \in 1 .. n - 1 : hs[i] = gs[i]
      BY <2>5, <2>6 DEF Front
    <2>3. /\ g.groups \in Seq(Nat) /\ Len(g.groups) = n - 1
          /\ \A i \in 1 .. n - 1 : g.groups[i] = gs[i]
      BY <1>8, <2>5, <2>7
    <2>4. DOMAIN g.groups = 1 .. n - 1 BY <2>3, LenProperties
    <2> QED BY <2>1, <2>2, <2>3, <2>4 DEF ToSet
  <1>21. NewChain(R, g.groups)
    <2>1. ASSUME NEW i \in 1 .. Len(R)
          PROVE  /\ R[i].frame \in 1 .. D
                 /\ R[i].frame = D => i - 1 \in ToSet(g.groups)
                 /\ R[i].frame # D => i \in 1 .. L /\ S[i].frame = R[i].frame
      <3>1. i \in 1 .. L /\ R[i] = S[i] /\ i - 1 # L - 1
        <4>1. L \in Nat /\ i \in 1 .. L - 1 BY <1>10, <1>19
        <4> QED BY <4>1, <1>19
      <3> QED BY <3>1, <1>10, <1>20
    <2>2. ASSUME NEW i \in 1 .. Len(R), NEW k \in 1 .. Len(R), i < k
          PROVE  R[i].frame <= R[k].frame
      <3>1. L \in Nat /\ i \in 1 .. L - 1 /\ k \in 1 .. L - 1 BY <1>10, <1>19
      <3>2. i \in 1 .. L /\ k \in 1 .. L BY <3>1
      <3>3. S[i].frame <= S[k].frame BY <2>2, <3>2, <1>10
      <3> QED BY <3>1, <3>3, <1>19
    <2>3. ASSUME NEW d \in 1 .. D - 1 PROVE KeepsGroups(d, S, R)
      <3> SUFFICES ASSUME NEW i \in 1 .. Len(S), S[i].frame = d
                   PROVE  i \in 1 .. Len(R) /\ R[i] = S[i]
        BY DEF KeepsGroups
      <3>1. D \in Nat /\ L \in Nat /\ i \in 1 .. L /\ d # D BY <1>10
      <3>2. i # L BY <3>1, <1>14
      <3>3. i \in 1 .. L - 1 BY <3>1, <3>2
      <3> QED BY <3>3, <1>19
    <2> QED BY <1>6, <1>19, <2>1, <2>2, <2>3 DEF NewChain
  <1> QED BY <1>6, <1>9, <1>17, <1>18, <1>21, RegroupKeeps

\* Variables registered in the innermost group, which is one of the function on top.
LEMMA RegisterKeeps ==
  ASSUME NEW ps, PInv(ps), Running, NEW g, NEW q, Regroups(ps[Depth], g, q),
         NEW vs, EnterOnes(vs), ps[Depth].grps # <<>>,
         g.groups = frames[Depth].groups,
         q.grps = [ps[Depth].grps EXCEPT ![Len(ps[Depth].grps)] = @ \cup vs]
  PROVE  IInv'
  <1>1. PICK p : p = ps[Depth] OBVIOUS
  <1>2. PICK L, D, gs, S : /\ L = Len(lclRoots) /\ D = Depth /\ gs = frames[Depth].groups
                           /\ S = lclRoots
    OBVIOUS
  <1>3. /\ S \in Seq(Root) /\ L \in Nat /\ L = Len(S) /\ D \in Nat /\ D > 0
        /\ GroupsIn(D, gs, p.grps, S) /\ gs \in Seq(Nat)
        /\ \A i \in 1 .. L : /\ S[i].frame \in 1 .. D
                             /\ S[i].frame = D => i - 1 \in ToSet(gs)
        /\ \A i, k \in 1 .. L : i < k => S[i].frame <= S[k].frame
    BY <1>1, <1>2, ChainFacts
  <1>4. p.grps \in Seq(SUBSET STRING) BY <1>1, TopFacts, GrpsFacts
  <1>5. PICK n \in Nat : n = Len(p.grps) /\ n > 0 BY <1>1, <1>4
  <1>6. /\ Len(gs) = n /\ gs[n] + 1 = L /\ S[L].frame = D
    BY <1>1, <1>2, <1>5, InnermostIsTop
  <1>7. PICK R : R = Entered(D, S, vs) OBVIOUS
  <1>8. lclRoots' = R BY <1>2, <1>7 DEF EnterOnes, Entered
  <1>9. GroupsIn(D, gs, q.grps, R)
    <2>1. PICK grps : grps = p.grps OBVIOUS
    <2>2. GroupsIn(D, gs, [grps EXCEPT ![n] = @ \cup vs], R)
      BY <1>3, <1>4, <1>5, <1>6, <1>7, <2>1, RegisteredIn
    <2> QED BY <1>1, <1>5, <2>1, <2>2
  <1>10. q \in Places BY DEF Regroups
  <1>11. n \in 1 .. Len(q.grps) /\ q.grps[n] \in SUBSET STRING
    <2>1. Len(q.grps) = n BY <1>1, <1>4, <1>5
    <2> QED BY <1>5, <1>10, <2>1, GrpsFacts
  <1>12. R[L] = [frame |-> D, ones |-> {D} \X q.grps[n]]
    BY <1>6, <1>9, <1>11 DEF GroupsIn
  <1>13. R[L] \in Root BY <1>3, <1>11, <1>12 DEF Root
  <1>14. L \in 1 .. L BY <1>3, <1>5, <1>6
  <1>15. PICK new : new = [S[L] EXCEPT !.ones = @ \cup ({D} \X vs)] OBVIOUS
  <1>19. S \in Seq(Root) /\ L = Len(S) BY <1>3
  <1>20. R = [S EXCEPT ![L] = new] BY <1>7, <1>15, <1>19 DEF Entered
  <1>21. R[L] = new /\ \A i \in 1 .. L : i # L => R[i] = S[i]
    BY <1>14, <1>19, <1>20
  <1>16. R \in Seq(Root) /\ Len(R) = L
    <2>1. new \in Root BY <1>13, <1>21
    <2>2. PICK m \in Nat : m = L BY <1>3
    <2>3. S \in [1 .. m -> Root] BY <1>19, <2>2
    <2>4. R \in [1 .. m -> Root] BY <1>20, <2>1, <2>3
    <2>5. R \in Seq(Root) BY <2>4
    <2> QED BY <2>2, <2>4, <2>5
  <1>17. \A i \in 1 .. L : R[i].frame = S[i].frame BY <1>6, <1>12, <1>21
  <1>18. NewChain(R, gs)
    <2>1. ASSUME NEW d \in 1 .. D - 1 PROVE KeepsGroups(d, S, R)
      <3> SUFFICES ASSUME NEW i \in 1 .. Len(S), S[i].frame = d
                   PROVE  i \in 1 .. Len(R) /\ R[i] = S[i]
        BY DEF KeepsGroups
      <3>1. D \in Nat /\ d # D BY <1>3
      <3>2. i # L BY <3>1, <1>6
      <3> QED BY <3>2, <1>3, <1>16, <1>21
    <2> QED BY <1>2, <1>3, <1>16, <1>17, <2>1 DEF NewChain
  <1> QED BY <1>2, <1>8, <1>9, <1>18, RegroupKeeps

\* The place after it.
LEMMA RegisterFacts ==
  ASSUME NEW r, IsPlace(r), NEW vs
  PROVE  /\ Register(r, vs).todo = r.todo /\ Register(r, vs).env = r.env
         /\ Register(r, vs).exc = r.exc /\ Register(r, vs).room = r.room
         /\ Register(r, vs).silent = r.silent
         /\ r.grps # <<>> /\ r.grps \in Seq(SUBSET STRING) =>
              Register(r, vs).grps = [r.grps EXCEPT ![Len(r.grps)] = @ \cup vs]
  BY DEF IsPlace, Register

\* Variables are registered.
LEMMA EnterOneKeeps == ASSUME NEW ps, PInv(ps), EnterOne PROVE IInv'
  <1>0. Running /\ Step.op = "root" BY DEF EnterOne, At
  <1>1. PICK p : p = ps[Depth] OBVIOUS
  <1> USE <1>0, <1>1
  <1>2. Step = Now(p) /\ IsPlace(p) /\ Obeys(p) BY StepFacts
  <1>3. PICK vs, r : vs = Step.vs /\ r = Later(p) OBVIOUS
  <1>4. PICK q : q = Register(r, vs) OBVIOUS
  <1>5. q \in Places BY <1>2, <1>3, <1>4, StepFacts, AfterCases
  <1>6. /\ IsPlace(r) /\ r.todo = Tail(p.todo) /\ r.env = p.env /\ r.grps = p.grps
        /\ r.exc = p.exc /\ r.room = p.room /\ r.silent = p.silent
    BY <1>2, <1>3, LaterFacts
  <1>7. p.grps # <<>> /\ p.grps \in Seq(SUBSET STRING)
    BY <1>2, TopFacts, GrpsFacts DEF Obeys, GroupsKept
  <1>8. /\ q.todo = Tail(p.todo) /\ q.env = p.env /\ q.exc = p.exc /\ q.room = p.room
        /\ q.silent = p.silent
        /\ q.grps = [p.grps EXCEPT ![Len(p.grps)] = @ \cup vs]
    BY <1>4, <1>6, <1>7, RegisterFacts
  <1>9. Regroups(p, This, q)
    BY <1>5, <1>8, StepFacts DEF Regroups, EnterOne
  <1>10. EnterOnes(vs) BY <1>3 DEF EnterOne
  <1>11. This.groups = frames[Depth].groups BY StepFacts
  <1> QED BY <1>7, <1>8, <1>9, <1>10, <1>11, RegisterKeeps

\* Variables are zeroed and registered.
LEMMA EnterOneZeroedKeeps == ASSUME NEW ps, PInv(ps), EnterOneZeroed PROVE IInv'
  <1>0. Running /\ Step.op = "rootz" BY DEF EnterOneZeroed, At
  <1>1. PICK p : p = ps[Depth] OBVIOUS
  <1> USE <1>0, <1>1
  <1>2. Step = Now(p) /\ IsPlace(p) /\ Obeys(p) /\ IsFrame(This) BY StepFacts
  <1>3. PICK vs : vs = Step.vs OBVIOUS
  <1>4. PICK r : r = [Later(p) EXCEPT !.env = Zeroed(@, vs)] OBVIOUS
  <1>5. PICK q : q = Register(r, vs) OBVIOUS
  <1>6. q \in Places BY <1>2, <1>3, <1>4, <1>5, StepFacts, AfterCases
  <1>7. /\ IsPlace(r) /\ r.todo = Tail(p.todo) /\ r.env = Zeroed(p.env, vs) /\ r.grps = p.grps
        /\ r.exc = p.exc /\ r.room = p.room /\ r.silent = p.silent
    BY <1>2, <1>4, LaterFacts DEF IsPlace
  <1>8. p.grps # <<>> /\ p.grps \in Seq(SUBSET STRING)
    BY <1>2, TopFacts, GrpsFacts DEF Obeys, GroupsKept
  <1>9. /\ q.todo = Tail(p.todo) /\ q.env = Zeroed(p.env, vs) /\ q.exc = p.exc /\ q.room = p.room
        /\ q.silent = p.silent
        /\ q.grps = [p.grps EXCEPT ![Len(p.grps)] = @ \cup vs]
    BY <1>5, <1>7, <1>8, RegisterFacts
  <1>10. PICK g : g = [This EXCEPT !.vars = Zeroed(@, vs)] OBVIOUS
  <1>11. /\ IsFrame(g) /\ g.todo = This.todo /\ g.vars = Zeroed(This.vars, vs) /\ g.ret = This.ret
         /\ g.wait = This.wait /\ g.groups = This.groups
    BY <1>2, <1>10 DEF IsFrame
  <1>12. Fits(g.vars, q.env)
    <2>1. PICK u, env : u = This.vars /\ env = p.env OBVIOUS
    <2>2. Fits(u, env) BY <2>1, StepFacts
    <2>3. Holds(Word, Word) BY HeapFacts DEF Holds, Word
    <2>4. Fits(Zeroed(u, vs), Zeroed(env, vs)) BY <2>2, <2>3 DEF Fits, Zeroed
    <2> QED BY <2>1, <2>4, <1>9, <1>11
  <1>13. Regroups(p, g, q)
    <2>1. frames' = WithTop(g) BY <1>3, <1>10 DEF EnterOneZeroed
    <2> QED BY <2>1, <1>6, <1>9, <1>11, <1>12, StepFacts DEF Regroups, EnterOneZeroed
  <1>14. EnterOnes(vs) BY <1>3 DEF EnterOneZeroed
  <1>15. g.groups = frames[Depth].groups BY <1>11, StepFacts
  <1> QED BY <1>8, <1>9, <1>13, <1>14, <1>15, RegisterKeeps

--------------------------------------------------------------------------------
(* Evaluations and the interpreter.                                            *)

\* What is known while the function on top waits: the interpreter runs, or a
\* collection is over.
LEMMA WaitFacts ==
  ASSUME NEW ps, PInv(ps), ~ Running
  PROVE  /\ Depth \in Nat /\ DOMAIN frames = 1 .. Depth /\ IsSeq(frames) /\ Depth = Len(frames)
         /\ \A d \in 1 .. Depth : /\ ps[d] \in Places /\ IsPlace(ps[d]) /\ IsFrame(frames[d])
                                  /\ SeesRoots(ps[d], d)
         /\ Depth > 0 => /\ Waits(Depth) /\ Suspended(Depth, ps[Depth])
                         /\ Last(frames) = frames[Depth] /\ Depth \in 1 .. Depth
         /\ InPost <=> Depth > 0 /\ Collecting(Depth)
         /\ thrown \in Nat /\ Len(heap) \in Nat
  <1>1. Depth \in Nat /\ DOMAIN frames = 1 .. Depth BY SeqFacts DEF PInv, StackInv, Depth
  <1>2. IsSeq(frames) /\ Depth = Len(frames) BY DEF PInv, StackInv, Depth
  <1>3. ps \in [1 .. Depth -> Places] BY DEF PInv
  <1>4. \A d \in 1 .. Depth : /\ ps[d] \in Places /\ IsPlace(ps[d]) /\ IsFrame(frames[d])
                              /\ SeesRoots(ps[d], d)
    BY <1>3, PlaceFacts, RegisteredIsRooted DEF PInv, StackInv, Obeys, WellFormed
  <1>5. Last(frames) = frames[Depth] BY DEF Last, Depth
  <1>6. ASSUME Depth > 0
        PROVE  Waits(Depth) /\ Suspended(Depth, ps[Depth]) /\ Depth \in 1 .. Depth
    <2>1. Waits(Depth) BY <1>5, <1>6 DEF Running, Waits
    <2>2. Depth \in 1 .. Depth BY <1>1, <1>6
    <2> QED BY <2>1, <2>2 DEF PInv, CodeInv
  <1>7. thrown \in Nat /\ Len(heap) \in Nat BY SeqFacts DEF PInv, HeapInv, HeapFits
  <1>8. InPost <=> Depth > 0 /\ Collecting(Depth) BY <1>5 DEF InPost, Collecting
  <1> QED BY <1>1, <1>2, <1>4, <1>5, <1>6, <1>7, <1>8

\* What it waits for.
LEMMA WaitCases ==
  ASSUME NEW ps, PInv(ps), ~ Running, Depth > 0
  PROVE  /\ InEval => Evaluates(Depth, ps[Depth])
         /\ InPost => Collects(Depth, ps[Depth]) /\ thrown = Word
  <1>1. PICK p : p = ps[Depth] OBVIOUS
  <1>2. Suspended(Depth, p) /\ p \in Places /\ (InPost <=> Collecting(Depth))
    BY <1>1, WaitFacts
  <1>3. ASSUME Evaluates(Depth, p) PROVE ~ Collecting(Depth)
    <2>1. Now(p).x \notin Outside BY <1>2, <1>3, PlaceFacts DEF Evaluates, Obeys, CallsHelper
    <2> QED BY <2>1, <1>3 DEF Evaluates, Collecting, Outside, Finalizers
  <1>4. ASSUME InEval PROVE Evaluates(Depth, p)
    <2>1. ~ Collecting(Depth) BY <1>2, <1>4 DEF InEval
    <2> QED BY <2>1, <1>2 DEF Suspended, Collects
  <1>5. ASSUME InPost PROVE Collects(Depth, p) /\ thrown = Word
    <2>1. Collecting(Depth) BY <1>2, <1>5
    <2> QED BY <2>1, <1>2, <1>3 DEF Suspended, PInv, ThrownInv
  <1> QED BY <1>1, <1>4, <1>5

\* What the interpreter keeps of the heap.
LEMMA KeptFits ==
  ASSUME NEW ps, PInv(ps), ~ Running, NEW h, h = Kept
  PROVE  HeapFits(h) /\ \A d \in 1 .. Depth : frames[d].wait.height <= Len(h)
  <1>1. Depth \in Nat /\ Len(heap) \in Nat /\ (Depth > 0 => Waits(Depth) /\ Depth \in 1 .. Depth)
        /\ (Depth > 0 => Last(frames) = frames[Depth])
    BY WaitFacts
  <1>2. HeapInv /\ HeightInv BY DEF PInv
  <1>3. PICK n : n = IF Depth = 0 THEN Len(InitialHeap) ELSE Last(frames).wait.height OBVIOUS
  <1>4. n \in Old .. Len(heap)
    <2>1. CASE Depth = 0
      <3>1. Len(heap) >= Old BY <1>2 DEF HeapInv, HeapFits
      <3> QED BY <2>1, <3>1, <1>1, <1>3, HeapFacts
    <2>2. CASE Depth # 0
      <3>1. n = frames[Depth].wait.height /\ Depth \in 1 .. Depth BY <2>2, <1>1, <1>3
      <3> QED BY <3>1, <1>2 DEF HeightInv
    <2> QED BY <2>1, <2>2
  <1>5. n \in 0 .. Len(heap) /\ n >= Old BY <1>1, <1>4, HeapFacts
  <1>6. ASSUME NEW d \in 1 .. Depth PROVE frames[d].wait.height <= n
    <2>1. Depth > 0 /\ d <= Depth /\ Depth # 0 BY <1>1
    <2>2. n = frames[Depth].wait.height BY <1>1, <1>3, <2>1
    <2>3. CASE d = Depth BY <2>2, <2>3, <1>1, <1>4
    <2>4. CASE d < Depth BY <2>1, <2>2, <2>4, <1>1, <1>2 DEF HeightInv
    <2> QED BY <2>1, <2>3, <2>4, <1>1
  <1>7. h = SubSeq(heap, 1, n) BY <1>3 DEF Kept
  <1>8. IsSeq(h) /\ Len(h) = n /\ \A x \in 1 .. n : h[x] = heap[x]
    BY <1>2, <1>5, <1>7, SeqCut DEF HeapInv, HeapFits
  <1>10. 1 .. Old \subseteq 1 .. n /\ 1 .. n \subseteq 1 .. Len(heap)
    BY <1>1, <1>5, HeapFacts
  <1>11. \A x \in 1 .. Old : h[x] = InitialHeap[x] BY <1>2, <1>8, <1>10 DEF HeapInv, HeapFits
  <1>12. \A x \in 1 .. n : \A i \in DOMAIN h[x] : h[x][i] \in Nat
    BY <1>2, <1>8, <1>10 DEF HeapInv, HeapFits
  <1>13. HeapFits(h) BY <1>5, <1>8, <1>11, <1>12 DEF HeapFits
  <1> QED BY <1>6, <1>8, <1>13

\* So the heap is in order with that.
LEMMA KeptFacts ==
  ASSUME NEW ps, PInv(ps), ~ Running, heap' = Kept, room' \in Nat, thrown' \in Nat
  PROVE  HeapInv' /\ \A d \in 1 .. Depth : frames[d].wait.height <= Len(heap')
  <1>1. PICK h : h = Kept OBVIOUS
  <1>2. HeapFits(h) /\ \A d \in 1 .. Depth : frames[d].wait.height <= Len(h) BY <1>1, KeptFits
  <1>3. heap' = h BY <1>1
  <1> QED BY <1>2, <1>3 DEF HeapInv, HeapFits

\* Frames that wait for an evaluation do so as before.
NoLonger(w) == w.x = "" /\ w.height = Old
WaitsKept ==
  \A d \in 1 .. Depth' :
    \/ NoLonger(frames'[d].wait)
    \/ d \in 1 .. Depth /\ frames'[d].wait = frames[d].wait /\ frames[d].wait.height <= Len(heap')

\* Then the heights are in order.
LEMMA HeightsKept ==
  ASSUME HeightInv, Len(heap) \in Nat, WaitsKept, Len(heap') \in Nat, Len(heap') >= Old
  PROVE  HeightInv'
  <1>2. \A d \in 1 .. Depth : frames[d].wait.height \in Nat /\ frames[d].wait.height >= Old
    BY HeapFacts DEF HeightInv
  <1>3. ASSUME NEW d \in 1 .. Depth'
        PROVE  /\ frames'[d].wait.height \in Old .. Len(heap')
               /\ ~ Waits(d)' => frames'[d].wait.height = Old
    <2>0. Old \in Old .. Len(heap') BY HeapFacts
    <2>1. CASE NoLonger(frames'[d].wait) BY <2>0, <2>1 DEF NoLonger
    <2>2. CASE d \in 1 .. Depth /\ frames'[d].wait = frames[d].wait
               /\ frames[d].wait.height <= Len(heap')
      <3>1. frames[d].wait.height \in Old .. Len(heap') BY <2>2, <1>2, HeapFacts
      <3>2. ~ Waits(d) => frames[d].wait.height = Old BY <2>2 DEF HeightInv
      <3> QED BY <2>2, <3>1, <3>2 DEF Waits
    <2> QED BY <2>1, <2>2 DEF WaitsKept
  <1>4. ASSUME NEW c \in 1 .. Depth', NEW d \in 1 .. Depth', c < d, Waits(d)'
        PROVE  frames'[c].wait.height <= frames'[d].wait.height
    <2>1. ~ NoLonger(frames'[d].wait) BY <1>4 DEF Waits, NoLonger
    <2>2. d \in 1 .. Depth /\ frames'[d].wait = frames[d].wait BY <2>1 DEF WaitsKept
    <2>3. Waits(d) BY <1>4, <2>2 DEF Waits
    <2>4. CASE NoLonger(frames'[c].wait) BY <2>2, <2>4, <1>2, HeapFacts DEF NoLonger
    <2>5. CASE c \in 1 .. Depth /\ frames'[c].wait = frames[c].wait
      BY <1>4, <2>2, <2>3, <2>5 DEF HeightInv
    <2> QED BY <2>4, <2>5 DEF WaitsKept
  <1> QED BY <1>3, <1>4 DEF HeightInv

\* The interpreter allocates and collects, or takes an exception.
LEMMA InterpSteps ==
  ASSUME NEW ps, PInv(ps), InEval, NEW fs, frames' = fs, IsSeq(fs), Len(fs) = Depth,
         \A d \in 1 .. Depth : Aged(frames[d], fs[d], d),
         heap' = Kept, room' = 0, lclRoots' = lclRoots, thrown' \in Nat
  PROVE  IInv'
  <1>1. Depth' = Depth BY DEF Depth
  <1>2. \A d \in 1 .. Depth : /\ IsFrame(frames'[d]) /\ frames'[d].ret = frames[d].ret
                              /\ frames'[d].wait = frames[d].wait
                              /\ frames'[d].groups = frames[d].groups
    BY DEF Aged
  <1>3. \A d \in 1 .. Depth : Waits(d)' <=> Waits(d) BY <1>2 DEF Waits
  <1>0. ~ Running BY DEF InEval
  <1>4. Depth \in Nat /\ (Depth > 0 => Waits(Depth)) /\ Len(heap) \in Nat BY <1>0, WaitFacts
  <1>5. StackInv'
    <2>1. \A d \in 1 .. Depth : d > 1 => d - 1 \in 1 .. Depth BY <1>4
    <2>2. ASSUME NEW d \in 1 .. Depth PROVE Answers(d)'
      <3>1. Answers(d) BY DEF PInv, StackInv
      <3>2. d > 1 => frames'[d - 1].wait = frames[d - 1].wait BY <1>2, <2>1
      <3> QED BY <3>1, <3>2, <1>2, AnswersKept
    <2> QED BY <1>1, <1>2, <2>2 DEF StackInv
  <1>6. \A d \in 1 .. Depth : /\ Pending(d, ps[d]) => Pending(d, ps[d])'
                              /\ Suspended(d, ps[d]) => Suspended(d, ps[d])'
    BY <1>0, WaitFacts, PendingAged, SuspendedAged
  <1>7. CodeInv(ps)'
    <2> SUFFICES ASSUME NEW d \in 1 .. Depth
                 PROVE  /\ Waits(d) => Suspended(d, ps[d])'
                        /\ ~ Waits(d) => d < Depth /\ CallsNext(d, ps[d], ps[d + 1])'
      BY <1>1, <1>3 DEF CodeInv
    <2>1. ASSUME Waits(d) PROVE Suspended(d, ps[d])'
      <3>1. Suspended(d, ps[d]) BY <2>1 DEF PInv, CodeInv
      <3> QED BY <3>1, <1>6
    <2>2. ASSUME ~ Waits(d) PROVE d < Depth /\ CallsNext(d, ps[d], ps[d + 1])'
      <3>1. d < Depth /\ d + 1 \in 1 .. Depth
        <4>1. d # Depth BY <2>2, <1>4
        <4> QED BY <4>1, <1>4
      <3>2. CallsNext(d, ps[d], ps[d + 1]) BY <2>2, <3>1 DEF PInv, CodeInv
      <3> QED BY <3>1, <3>2, <1>2, <1>6 DEF CallsNext
    <2> QED BY <2>1, <2>2
  <1>8. RootsInv(ps)'
    <2>1. SameGroups(ps, ps) BY <1>1, <1>2 DEF SameGroups
    <2> QED BY <2>1, QuietRoots DEF PInv
  <1>9. HeapInv' /\ \A d \in 1 .. Depth : frames[d].wait.height <= Len(heap')
    BY <1>0, KeptFacts
  <1>10. Len(heap') \in Nat /\ Len(heap') >= Old
    <2>1. PICK h : h = heap' OBVIOUS
    <2>2. IsSeq(h) /\ Len(h) >= Old BY <1>9, <2>1 DEF HeapInv, HeapFits, IsSeq
    <2> QED BY <2>1, <2>2, SeqFacts
  <1>11. WaitsKept BY <1>1, <1>2, <1>9 DEF WaitsKept
  <1>12. HeightInv' BY <1>4, <1>10, <1>11, HeightsKept DEF PInv
  <1>14. ThrownInv'
    <2>1. Depth > 0 => Depth \in 1 .. Depth /\ ~ Collecting(Depth) BY <1>0, WaitFacts DEF InEval
    <2> QED BY <2>1, <1>1, <1>2 DEF ThrownInv, Collecting
  <1>13. ps \in [1 .. Depth -> Places] /\ PInv(ps)'
    BY <1>1, <1>5, <1>7, <1>8, <1>9, <1>12, <1>14 DEF PInv
  <1> QED BY <1>1, <1>13 DEF IInv

\* The interpreter allocates, and collects.
LEMMA InterpAllocKeeps == ASSUME NEW ps, PInv(ps), InterpAlloc PROVE IInv'
  <1>1. InEval /\ ~ Running /\ thrown = Word BY DEF InterpAlloc, InEval
  <1>2. PICK fs : fs = Collected(frames) OBVIOUS
  <1>3. frames' = fs /\ thrown' = thrown BY <1>1, <1>2 DEF InterpAlloc, MayMove
  <1>4. /\ IsSeq(frames) /\ Depth = Len(frames) /\ thrown \in Nat
        /\ \A d \in 1 .. Depth : IsFrame(frames[d])
    BY <1>1, WaitFacts
  <1>5. /\ IsSeq(fs) /\ Len(fs) = Depth /\ \A d \in 1 .. Depth : Aged(frames[d], fs[d], d)
    BY <1>2, <1>4, CollectedFacts
  <1> QED BY <1>1, <1>3, <1>4, <1>5, InterpSteps DEF InterpAlloc

\* A handler takes the exception.
LEMMA ResetKeeps == ASSUME NEW ps, PInv(ps), ResetThrownException PROVE IInv'
  <1>1. InEval /\ ~ Running BY DEF ResetThrownException, InEval
  <1>2. PICK fs : fs = frames OBVIOUS
  <1>3. /\ IsSeq(fs) /\ Len(fs) = Depth /\ \A d \in 1 .. Depth : IsFrame(frames[d])
    BY <1>1, <1>2, WaitFacts
  <1>4. \A d \in 1 .. Depth : Aged(frames[d], fs[d], d) BY <1>2, <1>3, SameIsAged
  <1>5. thrown' \in Nat BY DEF ResetThrownException, Word
  <1> QED BY <1>1, <1>2, <1>3, <1>4, <1>5, InterpSteps DEF ResetThrownException

--------------------------------------------------------------------------------
(* Functions that go on after a call or an evaluation, and those that return.  *)

\* The stack is cut down to n functions, and the roots belong to them.
CutTo(n) ==
  /\ IsSeq(frames') /\ Depth' = n
  /\ \A d \in 1 .. n - 1 : frames'[d] = frames[d]
  /\ lclRoots' = lclRoots /\ \A i \in 1 .. Len(lclRoots) : lclRoots[i].frame <= n
  /\ HeapInv' /\ \A d \in 1 .. n : frames[d].wait.height <= Len(heap')

\* The groups of the functions that are left still fit.
LEMMA CutRoots ==
  ASSUME NEW ps, RootsInv(ps), NEW n \in Nat, n <= Depth, Depth \in Nat, CutTo(n),
         NEW qs, \A d \in 1 .. n : qs[d].grps = ps[d].grps,
         \A d \in 1 .. n : frames'[d].groups = frames[d].groups
  PROVE  RootsInv(qs)'
  <1>1. \A d \in 1 .. n : d \in 1 .. Depth OBVIOUS
  <1>2. lclRoots' = lclRoots /\ Depth' = n BY DEF CutTo
  <1>3. ASSUME NEW d \in 1 .. n PROVE GroupsFit(d, qs[d])'
    <2>1. GroupsFit(d, ps[d]) BY <1>1 DEF RootsInv
    <2>2. qs[d].grps = ps[d].grps /\ frames'[d].groups = frames[d].groups OBVIOUS
    <2> QED BY <2>1, <2>2, <1>2 DEF GroupsFit
  <1>4. ASSUME NEW i \in 1 .. Len(lclRoots)
        PROVE  /\ lclRoots[i].frame \in 1 .. n
               /\ i - 1 \in ToSet(frames'[lclRoots[i].frame].groups)
    <2>1. PICK d : d = lclRoots[i].frame OBVIOUS
    <2>2. d \in 1 .. Depth /\ i - 1 \in ToSet(frames[d].groups) BY <2>1 DEF RootsInv
    <2>3. d <= n BY <2>1 DEF CutTo
    <2>4. d \in 1 .. n BY <2>2, <2>3
    <2>5. frames'[d].groups = frames[d].groups BY <2>4
    <2> QED BY <2>1, <2>2, <2>4, <2>5
  <1>5. /\ lclRoots \in Seq(Root)
        /\ \A i, k \in 1 .. Len(lclRoots) : i < k => lclRoots[i].frame <= lclRoots[k].frame
    BY DEF RootsInv
  <1> QED BY <1>2, <1>3, <1>4, <1>5 DEF RootsInv

\* And the heights.
LEMMA CutHeights ==
  ASSUME NEW ps, PInv(ps), NEW n \in Nat, n <= Depth, Depth \in Nat, CutTo(n),
         \A d \in 1 .. n : frames'[d].wait = frames[d].wait \/ NoLonger(frames'[d].wait)
  PROVE  HeightInv'
  <1>1. \A d \in 1 .. n : d \in 1 .. Depth OBVIOUS
  <1>2. Depth' = n /\ HeapInv' /\ \A d \in 1 .. n : frames[d].wait.height <= Len(heap')
    BY DEF CutTo
  <1>3. WaitsKept BY <1>1, <1>2 DEF WaitsKept
  <1>4. Len(heap') \in Nat /\ Len(heap') >= Old
    <2>1. PICK h : h = heap' OBVIOUS
    <2>2. IsSeq(h) /\ Len(h) >= Old BY <1>2, <2>1 DEF HeapInv, HeapFits, IsSeq
    <2> QED BY <2>1, <2>2, SeqFacts
  <1>5. Len(heap) \in Nat BY SeqFacts DEF PInv, HeapInv, HeapFits
  <1> QED BY <1>3, <1>4, <1>5, HeightsKept DEF PInv

\* What frames that are left alone do.
LEMMA SameFrame ==
  ASSUME NEW d, frames'[d] = frames[d]
  PROVE  /\ Waits(d)' <=> Waits(d)
         /\ \A p : (Pending(d, p)' <=> Pending(d, p)) /\ (Suspended(d, p)' <=> Suspended(d, p))
  BY DEF Waits, Pending, Suspended, Evaluates, Collects, Collecting

\* The function at depth n, which waited, goes on at place q with the frame g.
Resumes(n, p, g, q) ==
  /\ frames'[n] = g /\ IsFrame(g) /\ g.ret = frames[n].ret /\ g.groups = frames[n].groups
  /\ NoLonger(g.wait)
  /\ q \in Places /\ q.silent = p.silent /\ q.grps = p.grps
  /\ g.todo = q.todo /\ Fits(g.vars, q.env) /\ q.room <= room'
  /\ q.exc <=> thrown' # Word

\* Then the invariant holds.
LEMMA ResumesKeeps ==
  ASSUME NEW ps, PInv(ps), NEW n \in 1 .. Depth, Depth \in Nat, CutTo(n),
         NEW g, NEW q, Resumes(n, ps[n], g, q)
  PROVE  IInv'
  <1>1. n \in Nat /\ n >= 1 /\ n <= Depth OBVIOUS
  <1>2. /\ IsSeq(frames') /\ Depth' = n /\ \A d \in 1 .. n - 1 : frames'[d] = frames[d]
        /\ HeapInv'
    BY DEF CutTo
  <1>3. PICK qs : qs = [d \in 1 .. n |-> IF d = n THEN q ELSE ps[d]] OBVIOUS
  <1>4. ps \in [1 .. Depth -> Places] /\ q \in Places BY DEF PInv, Resumes
  <1>5. /\ qs \in [1 .. n -> Places] /\ qs[n] = q
        /\ \A d \in 1 .. n - 1 : qs[d] = ps[d] /\ d \in 1 .. Depth
    BY <1>1, <1>3, <1>4
  <1>6. \A d \in 1 .. n : d = n \/ d \in 1 .. n - 1 BY <1>1
  <1>7. \A d \in 1 .. n - 1 : Waits(d)' <=> Waits(d) BY <1>2, SameFrame
  <1>8. ~ Waits(n)'
    <2>1. frames'[n].wait.x = "" BY DEF Resumes, NoLonger
    <2> QED BY <2>1 DEF Waits
  <1>9. StackInv'
    <2>1. \A d \in 1 .. n : IsFrame(frames'[d]) /\ frames'[d].ret = frames[d].ret
      BY <1>2, <1>5, <1>6 DEF PInv, StackInv, Resumes
    <2>2. ASSUME NEW d \in 1 .. n PROVE Answers(d)'
      <3>0. d \in 1 .. Depth BY <1>1
      <3>1. Answers(d) BY <3>0 DEF PInv, StackInv
      <3>2. d > 1 => d - 1 \in 1 .. n - 1 BY <1>1
      <3> QED BY <3>1, <3>2, <2>1, <1>2, AnswersKept
    <2> QED BY <1>2, <2>1, <2>2 DEF StackInv
  <1>10. CodeInv(qs)'
    <2> SUFFICES ASSUME NEW d \in 1 .. n
                 PROVE  /\ Waits(d)' => Suspended(d, qs[d])'
                        /\ ~ Waits(d)' /\ d < n => CallsNext(d, qs[d], qs[d + 1])'
                        /\ ~ Waits(d)' /\ d = n => AtPlace(d, qs[d])'
      BY <1>2 DEF CodeInv
    <2>1. CASE d = n
      <3>1. AtPlace(d, q)' BY <2>1 DEF AtPlace, Resumes
      <3> QED BY <2>1, <3>1, <1>1, <1>5, <1>8
    <2>2. CASE d \in 1 .. n - 1
      <3>1. /\ Waits(d) => Suspended(d, ps[d])
            /\ ~ Waits(d) /\ d < Depth => CallsNext(d, ps[d], ps[d + 1])
        BY <2>2, <1>5 DEF PInv, CodeInv
      <3>2. frames'[d] = frames[d] /\ qs[d] = ps[d] /\ d < Depth /\ d # n /\ d + 1 \in 1 .. n
        BY <2>2, <1>1, <1>2, <1>5
      <3>3. Waits(d)' => Suspended(d, qs[d])' BY <3>1, <3>2, SameFrame
      <3>4. frames'[d + 1].ret = frames[d + 1].ret /\ qs[d + 1].silent = ps[d + 1].silent
        BY <3>2, <1>2, <1>5, <1>6 DEF Resumes
      <3>5. ~ Waits(d)' => CallsNext(d, qs[d], qs[d + 1])'
        BY <3>1, <3>2, <3>4, SameFrame DEF CallsNext
      <3> QED BY <3>2, <3>3, <3>5
    <2> QED BY <2>1, <2>2, <1>6
  <1>11. RootsInv(qs)'
    <2>1. \A d \in 1 .. n : qs[d].grps = ps[d].grps BY <1>5, <1>6 DEF Resumes
    <2>2. \A d \in 1 .. n : frames'[d].groups = frames[d].groups
      BY <1>2, <1>6 DEF Resumes
    <2> QED BY <2>1, <2>2, <1>1, CutRoots DEF PInv
  <1>12. HeightInv'
    <2>1. \A d \in 1 .. n : frames'[d].wait = frames[d].wait \/ NoLonger(frames'[d].wait)
      BY <1>2, <1>6 DEF Resumes
    <2> QED BY <2>1, <1>1, CutHeights
  <1>14. ThrownInv'
    <2>1. frames'[n].wait.x = "" BY DEF Resumes, NoLonger
    <2> QED BY <2>1, <1>2 DEF ThrownInv, Collecting, CollectPost
  <1>13. PInv(qs)' BY <1>2, <1>5, <1>9, <1>10, <1>11, <1>12, <1>14 DEF PInv
  <1> QED BY <1>2, <1>5, <1>13 DEF IInv

\* The frame and the place with the result in the variable.
Back(f, p, g, q, exc) ==
  /\ IsFrame(g) /\ g.todo = q.todo /\ g.groups = f.groups /\ g.ret = f.ret /\ g.wait = f.wait
  /\ q.grps = p.grps /\ q.exc = exc /\ q.room = 0 /\ q.silent = p.silent
  /\ Fits(g.vars, q.env)

\* They fit.
LEMMA GoesBack ==
  ASSUME NEW p, IsPlace(p), NEW f, IsFrame(f), f.todo = Tail(p.todo),
         Fits(f.vars, AfterGC(p).env), NEW x, NEW val, NEW a, Holds(val, a), NEW exc
  PROVE  Back(f, p, Assign(f, x, val), Resumed(p, x, a, exc), exc)
  <1>1. PICK r : r = Later(p) OBVIOUS
  <1>2. PICK c : c = AfterGC(r) OBVIOUS
  <1>3. PICK b, g : b = Bind(c, x, a) /\ g = Assign(f, x, val) OBVIOUS
  <1>4. PICK q : q = Throws(b, exc) OBVIOUS
  <1>5. IsPlace(r) /\ r.todo = Tail(p.todo) /\ r.grps = p.grps /\ r.silent = p.silent
    BY <1>1, LaterFacts
  <1>6. /\ IsPlace(c) /\ c.todo = r.todo /\ c.grps = r.grps /\ c.silent = r.silent
        /\ c.env = AfterGC(p).env
    BY <1>1, <1>2, <1>5, AfterGCFacts
  <1>7. Fits(f.vars, c.env) BY <1>6
  <1>8. Bound(f, c, g, b) BY <1>3, <1>6, <1>7, Binds
  <1>9. /\ q.todo = b.todo /\ q.env = b.env /\ q.grps = b.grps /\ q.exc = exc
        /\ q.room = 0 /\ q.silent = b.silent
    BY <1>4, <1>8, ThrowsFacts DEF Bound
  <1>10. Back(f, p, g, q, exc) BY <1>5, <1>6, <1>8, <1>9 DEF Bound, Back
  <1>11. q = Resumed(p, x, a, exc) BY <1>1, <1>2, <1>3, <1>4 DEF Resumed
  <1> QED BY <1>3, <1>10, <1>11

\* An evaluation is done, with a value or with an exception.
LEMMA EvalDoneKeeps ==
  ASSUME NEW ps, PInv(ps), NEW val, EvalDone(val), NEW a, Holds(val, a), NEW exc \in BOOLEAN,
         Resumed(ps[Depth], Now(ps[Depth]).x, a, exc) \in After(ps[Depth]),
         exc <=> thrown # Word, heap' = Kept \/ heap' = heap
  PROVE  IInv'
  <1>1. Depth > 0 /\ InEval /\ ~ Running BY DEF EvalDone, InEval
  <1>2. PICK D : D = Depth OBVIOUS
  <1>3. PICK p, f : p = ps[D] /\ f = frames[D] OBVIOUS
  <1>4. /\ D \in Nat /\ D > 0 /\ D \in 1 .. D /\ IsSeq(frames) /\ D = Len(frames)
        /\ p \in Places /\ IsPlace(p) /\ IsFrame(f) /\ Evaluates(D, p) /\ Last(frames) = f
        /\ thrown \in Nat /\ Len(heap) \in Nat
    BY <1>1, <1>2, <1>3, WaitFacts, WaitCases
  <1>5. PICK x : x = f.wait.x OBVIOUS
  <1>6. f.todo = Tail(p.todo) /\ Fits(f.vars, AfterGC(p).env) /\ x = Now(p).x
    BY <1>3, <1>4, <1>5 DEF Evaluates, Pending
  <1>7. PICK h, q : h = Assign(f, x, val) /\ q = Resumed(p, x, a, exc) OBVIOUS
  <1>8. Back(f, p, h, q, exc) BY <1>4, <1>6, <1>7, GoesBack
  <1>9. PICK g : g = [h EXCEPT !.wait = NotWaiting] OBVIOUS
  <1>10. /\ IsFrame(g) /\ g.todo = h.todo /\ g.groups = h.groups /\ g.ret = h.ret
         /\ g.vars = h.vars /\ g.wait = NotWaiting
    BY <1>8, <1>9 DEF Back, IsFrame
  <1>11. q \in Places BY <1>2, <1>3, <1>4, <1>6, <1>7, PlaceFacts
  <1>12. frames' = WithTop(g) BY <1>4, <1>5, <1>7, <1>9 DEF EvalDone
  <1>13. /\ IsSeq(frames') /\ Len(frames') = D /\ frames'[D] = g
         /\ \A d \in 1 .. D - 1 : frames'[d] = frames[d]
    <2>1. PICK fs : fs = frames OBVIOUS
    <2>2. IsSeq(fs) /\ Len(fs) > 0 /\ Len(fs) = D BY <1>4, <2>1
    <2>3. /\ IsSeq([fs EXCEPT ![Len(fs)] = g]) /\ Len([fs EXCEPT ![Len(fs)] = g]) = Len(fs)
          /\ [fs EXCEPT ![Len(fs)] = g][Len(fs)] = g
          /\ \A d \in 1 .. Len(fs) - 1 : [fs EXCEPT ![Len(fs)] = g][d] = fs[d]
      BY <2>2, SeqTop
    <2>4. frames' = [fs EXCEPT ![Len(fs)] = g] BY <1>2, <1>12, <2>1, <2>2 DEF WithTop
    <2> QED BY <2>1, <2>2, <2>3, <2>4
  <1>14. thrown' = thrown /\ room' = 0 /\ lclRoots' = lclRoots BY DEF EvalDone
  <1>15. HeapInv' /\ \A d \in 1 .. D : frames[d].wait.height <= Len(heap')
    <2>1. CASE heap' = Kept BY <2>1, <1>1, <1>2, <1>4, <1>14, KeptFacts
    <2>2. CASE heap' = heap
      <3>1. HeapInv' BY <2>2, <1>4, <1>14, QuietHeap DEF PInv
      <3>2. \A d \in 1 .. D : frames[d].wait.height <= Len(heap) BY <1>2 DEF PInv, HeightInv
      <3> QED BY <2>2, <3>1, <3>2
    <2> QED BY <2>1, <2>2
  <1>16. CutTo(D)
    <2>1. \A i \in 1 .. Len(lclRoots) : lclRoots[i].frame <= D
      BY <1>2, <1>4 DEF PInv, RootsInv
    <2>2. Depth' = D BY <1>13 DEF Depth
    <2> QED BY <2>1, <2>2, <1>13, <1>14, <1>15 DEF CutTo
  <1>18. NoLonger(NotWaiting) BY DEF NoLonger, NotWaiting, Old
  <1>17. Resumes(D, ps[D], g, q)
    BY <1>3, <1>8, <1>10, <1>11, <1>13, <1>14, <1>18 DEF Resumes, Back
  <1> QED BY <1>2, <1>4, <1>16, <1>17, ResumesKeeps

\* An evaluation gives a value.
LEMMA EvalReturnsKeeps == ASSUME NEW ps, PInv(ps), EvalReturns PROVE IInv'
  <1>1. Depth > 0 /\ InEval /\ ~ Running /\ thrown = Word BY DEF EvalReturns, EvalDone, InEval
  <1>2. PICK p, f : p = ps[Depth] /\ f = frames[Depth] OBVIOUS
  <1>3. Evaluates(Depth, p) /\ Last(frames) = f BY <1>1, <1>2, WaitFacts, WaitCases
  <1>4. PICK val, a : val = f.wait.obj /\ a = Known(p, Now(p).v) OBVIOUS
  <1>5. Holds(val, a) /\ Now(p).op = "eval" BY <1>2, <1>3, <1>4 DEF Evaluates
  <1>6. EvalDone(val) /\ heap' = Kept BY <1>3, <1>4 DEF EvalReturns
  <1>7. Resumed(p, Now(p).x, a, FALSE) \in After(p)
    <2>1. After(p) = {Resumed(p, Now(p).x, Known(p, Now(p).v), FALSE),
                      Resumed(p, Now(p).x, Valid, TRUE)}
      BY <1>5, AfterCall
    <2> QED BY <2>1, <1>4
  <1>8. FALSE <=> thrown # Word BY <1>1
  <1> QED BY <1>2, <1>5, <1>6, <1>7, <1>8, EvalDoneKeeps

\* An evaluation throws an exception.
LEMMA EvalThrowsKeeps == ASSUME NEW ps, PInv(ps), EvalThrows PROVE IInv'
  <1>1. Depth > 0 /\ InEval /\ ~ Running /\ thrown # Word BY DEF EvalThrows, EvalDone, InEval
  <1>2. PICK p : p = ps[Depth] OBVIOUS
  <1>3. Evaluates(Depth, p) /\ thrown \in Nat BY <1>1, <1>2, WaitFacts, WaitCases
  <1>4. PICK val, a : val = thrown /\ a = Valid OBVIOUS
  <1>5. Holds(val, a) BY <1>3, <1>4, HeapFacts DEF Holds, Word
  <1>6. EvalDone(val) /\ heap' = heap BY <1>4 DEF EvalThrows
  <1>7. Resumed(p, Now(p).x, a, TRUE) \in After(p)
    <2>1. Now(p).op = "eval" BY <1>3 DEF Evaluates
    <2>2. After(p) = {Resumed(p, Now(p).x, Known(p, Now(p).v), FALSE),
                      Resumed(p, Now(p).x, Valid, TRUE)}
      BY <2>1, AfterCall
    <2> QED BY <2>2, <1>4
  <1>8. TRUE <=> thrown # Word BY <1>1
  <1> QED BY <1>2, <1>5, <1>6, <1>7, <1>8, EvalDoneKeeps

\* A function that returns has left its groups, and leaves n functions.
Leaves(n) ==
  /\ \A i \in 1 .. Len(lclRoots) : lclRoots[i].frame <= n
  /\ HeapInv' /\ \A d \in 1 .. n : frames[d].wait.height <= Len(heap')

\* As every return does.
LEMMA ReturnLeaves ==
  ASSUME NEW ps, PInv(ps), ReturnC, NEW n, n = Depth - 1
  PROVE  Leaves(n)
  <1>0. Running /\ Step.op = "return" BY DEF ReturnC, At
  <1>1. PICK D, p : D = Depth /\ p = ps[Depth] OBVIOUS
  <1>2. Step = Now(p) /\ Obeys(p) /\ Len(heap) \in Nat BY <1>0, <1>1, StepFacts
  <1>3. D \in Nat /\ D > 0 BY <1>0, <1>1, TopFacts DEF Running
  <1>4. p.grps = <<>> BY <1>0, <1>2 DEF Obeys, GroupsKept
  <1>5. GroupsIn(D, frames[D].groups, p.grps, lclRoots) BY <1>0, <1>1, ChainFacts
  <1>6. frames[D].groups = <<>> BY <1>4, <1>5 DEF GroupsIn
  <1>7. ASSUME NEW i \in 1 .. Len(lclRoots) PROVE lclRoots[i].frame <= n
    <2>1. /\ lclRoots[i].frame \in 1 .. D
          /\ lclRoots[i].frame = D => i - 1 \in ToSet(frames[D].groups)
      BY <1>0, <1>1, ChainFacts
    <2>2. lclRoots[i].frame # D BY <1>6, <2>1 DEF ToSet
    <2> QED BY <2>1, <2>2, <1>1, <1>3
  <1>8. UNCHANGED <<heap, room, thrown>> BY DEF ReturnC
  <1>9. HeapInv'
    <2>1. HeapInv /\ thrown' \in Nat /\ room' \in Nat BY <1>8 DEF PInv, HeapInv, HeapFits
    <2> QED BY <1>8, <2>1, QuietHeap
  <1>10. \A d \in 1 .. n : frames[d].wait.height <= Len(heap')
    <2>1. 1 .. n \subseteq 1 .. Depth BY <1>1, <1>3
    <2> QED BY <1>8, <2>1 DEF PInv, HeightInv
  <1> QED BY <1>7, <1>9, <1>10 DEF Leaves

\* A C function called.
CalledFromC == This.ret \notin Outside

\* A C function returns to the one that called it.
LEMMA ReturnToCKeeps ==
  ASSUME NEW ps, PInv(ps), ReturnC, CalledFromC
  PROVE  IInv'
  <1>0. Running /\ Step.op = "return" BY DEF ReturnC, At
  <1>1. PICK D, p : D = Depth /\ p = ps[Depth] OBVIOUS
  <1>2. /\ D \in Nat /\ D \in 1 .. D /\ D > 0 /\ ~ Waits(D) /\ AtPlace(D, p)
        /\ Step = Now(p) /\ Obeys(p) /\ This.ret = frames[D].ret
        /\ \A d \in 1 .. D : IsFrame(frames[d]) /\ SeesRoots(ps[d], d)
    BY <1>0, <1>1, TopFacts, ThisFacts DEF Running
  <1>3. IsSeq(frames) /\ D = Len(frames) BY <1>1 DEF PInv, StackInv, Depth
  <1>26. D \in Nat /\ D > 0 BY <1>2
  <1>4. D > 1 /\ ~ Waits(D - 1)
    <2>1. frames[D].ret \in Outside <=> D = 1 \/ (D > 1 /\ Waits(D - 1))
      BY <1>1, <1>2 DEF PInv, StackInv, Answers
    <2>2. frames[D].ret \notin Outside BY <1>2 DEF CalledFromC
    <2>3. ~ (D = 1) => D > 1 BY <1>26
    <2> QED BY <2>1, <2>2, <2>3
  <1>5. PICK n \in Nat : n = D - 1 BY <1>26
  <1>27. D > 1 BY <1>4
  <1>6. n \in 1 .. D /\ n < D /\ n > 0 /\ n + 1 = D BY <1>26, <1>27, <1>5
  <1>7. PICK c, f : c = ps[n] /\ f = frames[n] OBVIOUS
  <1>8. CallsNext(n, c, p)
    <2>1. ~ Waits(n) BY <1>4, <1>5
    <2> QED BY <2>1, <1>1, <1>6, <1>7 DEF PInv, CodeInv
  <1>9. /\ c \in Places /\ IsPlace(c) /\ IsFrame(f) /\ After(c) \subseteq Places
    BY <1>1, <1>2, <1>6, <1>7, PlaceFacts DEF PInv, Obeys, WellFormed
  <1>10. PICK x, val : x = This.ret /\ val = Operand(Step.v) OBVIOUS
  <1>11. /\ f.todo = Tail(c.todo) /\ Fits(f.vars, AfterGC(c).env)
         /\ x = Now(c).x /\ Now(c).op = "call" /\ (p.silent <=> Now(c).p \in Silent)
    BY <1>2, <1>6, <1>7, <1>8, <1>10 DEF CallsNext, Pending
  <1>12. Holds(val, Valid)
    <2>1. Step.v \in Reads(Step) BY <1>0 DEF Reads
    <2>2. val \in Nat BY <1>0, <1>10, <2>1, TopReads
    <2> QED BY <2>2, HeapFacts DEF Holds, Word
  <1>13. PICK exc \in BOOLEAN : exc <=> thrown # Word OBVIOUS
  <1>14. PICK g, q : g = Assign(f, x, val) /\ q = Resumed(c, x, Valid, exc) OBVIOUS
  <1>15. Back(f, c, g, q, exc) BY <1>9, <1>11, <1>12, <1>14, GoesBack
  <1>16. q \in Places
    <2>1. After(c) = {Resumed(c, Now(c).x, Valid, e) : e \in {FALSE} \cup {Now(c).p \notin Silent}}
      BY <1>11, AfterCall
    <2>2. exc \in {FALSE} \cup {Now(c).p \notin Silent}
      <3>1. p.exc \in BOOLEAN /\ p.silent \in BOOLEAN /\ (p.exc <=> thrown # Word)
        BY <1>2 DEF Obeys, WellFormed, AtPlace
      <3>2. p.silent => ~ p.exc BY <1>0, <1>2 DEF Obeys, ExcPassedOn
      <3>3. exc => Now(c).p \notin Silent BY <1>11, <1>13, <3>1, <3>2
      <3> QED BY <3>3
    <2> QED BY <2>1, <2>2, <1>9, <1>11, <1>14
  <1>17. PICK fs : fs = Front(frames) OBVIOUS
  <1>18. IsSeq(fs) /\ Len(fs) = n /\ \A d \in 1 .. n : fs[d] = frames[d]
    BY <1>2, <1>3, <1>5, <1>17, SeqPop
  <1>19. frames' = [fs EXCEPT ![n] = g]
    <2>1. frames' = [fs EXCEPT ![Depth - 1] = Assign(@, x, val)]
      BY <1>10, <1>17 DEF ReturnC, CalledFromC
    <2>3. n \in 1 .. n BY <1>6
    <2>2. fs[n] = f BY <2>3, <1>7, <1>18
    <2> QED BY <2>1, <2>2, <1>1, <1>5, <1>14
  <1>20. /\ IsSeq(frames') /\ Len(frames') = n /\ frames'[n] = g
         /\ \A d \in 1 .. n - 1 : frames'[d] = frames[d]
    <2>1. Len(fs) > 0 BY <1>6, <1>18
    <2>2. /\ IsSeq([fs EXCEPT ![Len(fs)] = g]) /\ Len([fs EXCEPT ![Len(fs)] = g]) = Len(fs)
          /\ [fs EXCEPT ![Len(fs)] = g][Len(fs)] = g
          /\ \A d \in 1 .. Len(fs) - 1 : [fs EXCEPT ![Len(fs)] = g][d] = fs[d]
      BY <2>1, <1>18, SeqTop
    <2>3. frames' = [fs EXCEPT ![Len(fs)] = g] BY <1>18, <1>19
    <2>4. \A d \in 1 .. n - 1 : fs[d] = frames[d] BY <1>18
    <2>5. Len(fs) = n BY <1>18
    <2> QED BY <2>2, <2>3, <2>4, <2>5
  <1>21. Leaves(n) BY <1>1, <1>5, ReturnLeaves
  <1>22. UNCHANGED <<lclRoots, heap, room, thrown>> BY DEF ReturnC
  <1>23. CutTo(n)
    <2>1. Depth' = n BY <1>20 DEF Depth
    <2> QED BY <2>1, <1>20, <1>21, <1>22 DEF CutTo, Leaves
  <1>24. NoLonger(f.wait)
    <2>1. ~ Waits(n) /\ n \in 1 .. Depth BY <1>1, <1>4, <1>5, <1>6
    <2> QED BY <2>1, <1>7 DEF NoLonger, PInv, HeightInv, Waits
  <1>25. Resumes(n, ps[n], g, q)
    <2>1. room \in Nat BY DEF PInv, HeapInv, HeapFits
    <2> QED BY <2>1, <1>7, <1>13, <1>15, <1>16, <1>20, <1>22, <1>24 DEF Resumes, Back
  <1> QED BY <1>1, <1>2, <1>6, <1>23, <1>25, ResumesKeeps

\* A primitive returns to the interpreter, or a finalizer to what runs it.
LEMMA ReturnToInterpKeeps ==
  ASSUME NEW ps, PInv(ps), ReturnC, ~ CalledFromC
  PROVE  IInv'
  <1>0. Running BY DEF ReturnC, At
  <1>1. PICK D, p : D = Depth /\ p = ps[Depth] OBVIOUS
  <1>2. D \in Nat /\ D \in 1 .. D /\ D > 0 /\ This.ret = frames[D].ret
    BY <1>0, <1>1, TopFacts, ThisFacts DEF Running
  <1>3. IsSeq(frames) /\ D = Len(frames) BY <1>1 DEF PInv, StackInv, Depth
  <1>4. D = 1 \/ (D > 1 /\ Waits(D - 1))
    <2>1. frames[D].ret \in Outside <=> D = 1 \/ (D > 1 /\ Waits(D - 1))
      BY <1>1, <1>2 DEF PInv, StackInv, Answers
    <2> QED BY <2>1, <1>2 DEF CalledFromC
  <1>5. PICK n \in Nat : n = D - 1 BY <1>2
  <1>6. \A d \in 1 .. n : d \in 1 .. D /\ d < D BY <1>2, <1>5
  <1>7. PICK fs : fs = Front(frames) OBVIOUS
  <1>8. IsSeq(fs) /\ Len(fs) = n /\ \A d \in 1 .. n : fs[d] = frames[d]
    BY <1>2, <1>3, <1>5, <1>7, SeqPop
  <1>9. frames' = fs /\ lclRoots' = lclRoots BY <1>7 DEF ReturnC, CalledFromC
  <1>10. Depth' = n BY <1>8, <1>9 DEF Depth
  <1>11. \A d \in 1 .. n : frames'[d] = frames[d] BY <1>8, <1>9
  <1>12. CutTo(n)
    <2>1. Leaves(n) BY <1>1, <1>5, ReturnLeaves
    <2>2. \A d \in 1 .. n - 1 : d \in 1 .. n OBVIOUS
    <2> QED BY <2>1, <2>2, <1>8, <1>9, <1>10, <1>11 DEF CutTo, Leaves
  <1>13. PICK qs : qs = [d \in 1 .. n |-> ps[d]] OBVIOUS
  <1>14. qs \in [1 .. n -> Places] /\ \A d \in 1 .. n : qs[d] = ps[d]
    BY <1>1, <1>6, <1>13 DEF PInv
  <1>15. \A d \in 1 .. n : Waits(d)' <=> Waits(d) BY <1>11, SameFrame
  <1>16. StackInv'
    <2>1. ASSUME NEW d \in 1 .. n
          PROVE  IsFrame(frames'[d]) /\ Answers(d)'
      <3>1. IsFrame(frames[d]) /\ Answers(d) BY <1>1, <1>6 DEF PInv, StackInv
      <3>2. d > 1 => d - 1 \in 1 .. n OBVIOUS
      <3> QED BY <3>1, <3>2, <1>11, AnswersKept
    <2>2. IsSeq(frames') BY <1>8, <1>9
    <2> QED BY <2>1, <2>2, <1>10 DEF StackInv
  <1>17. CodeInv(qs)'
    <2> SUFFICES ASSUME NEW d \in 1 .. n
                 PROVE  /\ Waits(d) => Suspended(d, qs[d])'
                        /\ ~ Waits(d) => d < n /\ CallsNext(d, qs[d], qs[d + 1])'
      BY <1>10, <1>15 DEF CodeInv
    <2>1. frames'[d] = frames[d] /\ qs[d] = ps[d] /\ d \in 1 .. D /\ d < D
      BY <1>6, <1>11, <1>14
    <2>2. /\ Waits(d) => Suspended(d, ps[d])
          /\ ~ Waits(d) => CallsNext(d, ps[d], ps[d + 1])
      BY <1>1, <2>1 DEF PInv, CodeInv
    <2>3. Waits(d) => Suspended(d, qs[d])' BY <2>1, <2>2, SameFrame
    <2>4. ASSUME ~ Waits(d) PROVE d < n /\ CallsNext(d, qs[d], qs[d + 1])'
      <3>1. d # n BY <2>4, <1>4, <1>5
      <3>2. d < n /\ d + 1 \in 1 .. n BY <3>1
      <3>3. frames'[d + 1] = frames[d + 1] /\ qs[d + 1] = ps[d + 1] BY <3>2, <1>11, <1>14
      <3>4. CallsNext(d, qs[d], qs[d + 1])'
        BY <2>1, <2>2, <2>4, <3>3, SameFrame DEF CallsNext
      <3> QED BY <3>2, <3>4
    <2> QED BY <2>3, <2>4
  <1>18. n <= Depth /\ Depth \in Nat BY <1>1, <1>2, <1>5
  <1>19. RootsInv(qs)'
    <2>1. \A d \in 1 .. n : qs[d].grps = ps[d].grps BY <1>14
    <2>2. \A d \in 1 .. n : frames'[d].groups = frames[d].groups BY <1>11
    <2> QED BY <2>1, <2>2, <1>12, <1>18, CutRoots DEF PInv
  <1>20. HeightInv'
    <2>1. \A d \in 1 .. n : frames'[d].wait = frames[d].wait \/ NoLonger(frames'[d].wait)
      BY <1>11
    <2> QED BY <2>1, <1>12, <1>18, CutHeights
  <1>22. ThrownInv'
    <2> SUFFICES ASSUME n > 0, Collecting(n)' PROVE thrown = Word
      BY <1>10 DEF ThrownInv, ReturnC
    <2>3. n \in 1 .. n /\ D > 1 BY <1>2, <1>5
    <2>4. Collecting(n) BY <2>3, <1>11 DEF Collecting
    <2>1. D > 1 /\ Collecting(D - 1) BY <2>3, <2>4, <1>5
    <2>2. frames[D].ret = CollectPost BY <2>1, <1>1, <1>2 DEF PInv, StackInv, Answers
    <2> QED BY <2>2, <1>2 DEF ReturnC, Finalizers
  <1>21. PInv(qs)'
    BY <1>10, <1>12, <1>14, <1>16, <1>17, <1>19, <1>20, <1>22 DEF PInv, CutTo
  <1> QED BY <1>10, <1>14, <1>21 DEF IInv

\* The function on top starts to wait at its place p; a collection may have seen
\* to the others.
FallsAsleep(p) ==
  /\ Suspended(Depth, p)' /\ Waits(Depth)' /\ Depth' = Depth
  /\ IsSeq(frames') /\ \A d \in 1 .. Depth - 1 : Aged(frames[d], frames'[d], d)
  /\ IsFrame(frames'[Depth]) /\ frames'[Depth].groups = frames[Depth].groups
  /\ frames'[Depth].ret = frames[Depth].ret
  /\ frames'[Depth].wait.height = Len(heap)
  /\ Collecting(Depth)' => thrown' = Word

\* It does so for an evaluation.
LEMMA EvalSuspends ==
  ASSUME NEW ps, PInv(ps), Eval
  PROVE  FallsAsleep(ps[Depth])
  <1>0. Running /\ Step.op = "eval" BY DEF Eval, At
  <1>1. PICK D, p, f : D = Depth /\ p = ps[Depth] /\ f = frames[Depth] OBVIOUS
  <1>2. /\ D \in Nat /\ D \in 1 .. D /\ Step = Now(p) /\ IsPlace(p) /\ Obeys(p)
        /\ SeesRoots(p, D) /\ \A d \in 1 .. D : IsFrame(frames[d])
    BY <1>0, <1>1, TopFacts
  <1>3. /\ IsFrame(This) /\ This.todo = Tail(p.todo) /\ This.vars = f.vars
        /\ This.groups = f.groups /\ This.ret = f.ret
    BY <1>0, <1>1, ThisFacts
  <1>4. PICK w : w = [x |-> Step.x, obj |-> Operand(Step.v), height |-> Len(heap)] OBVIOUS
  <1>5. PICK g : g = [This EXCEPT !.wait = w] OBVIOUS
  <1>6. /\ IsFrame(g) /\ g.todo = Tail(p.todo) /\ g.vars = f.vars /\ g.groups = f.groups
        /\ g.ret = f.ret /\ g.wait = w
    BY <1>3, <1>5 DEF IsFrame
  <1>7. w.x = Now(p).x /\ w.obj = Operand(Now(p).v) /\ w.height = Len(heap) BY <1>2, <1>4
  <1>8. /\ IsSeq(frames') /\ Len(frames') = D /\ frames'[D] = g
        /\ \A d \in 1 .. D - 1 : frames'[d] = frames[d]
    <2>1. PICK fs : fs = frames OBVIOUS
    <2>2. IsSeq(fs) /\ Len(fs) > 0 /\ Len(fs) = D
      BY <1>0, <1>1, <2>1 DEF PInv, StackInv, Depth, Running
    <2>3. /\ IsSeq([fs EXCEPT ![Len(fs)] = g]) /\ Len([fs EXCEPT ![Len(fs)] = g]) = Len(fs)
          /\ [fs EXCEPT ![Len(fs)] = g][Len(fs)] = g
          /\ \A d \in 1 .. Len(fs) - 1 : [fs EXCEPT ![Len(fs)] = g][d] = fs[d]
      BY <2>2, SeqTop
    <2>4. frames' = [fs EXCEPT ![Len(fs)] = g]
      BY <1>1, <1>4, <1>5, <2>1, <2>2 DEF WithTop, Eval
    <2> QED BY <2>1, <2>2, <2>3, <2>4
  <1>9. Depth' = D BY <1>8 DEF Depth
  <1>10. Fits(g.vars, AfterGC(p).env)
    <2>1. PICK u : u = f.vars OBVIOUS
    <2>2. Fits(u, p.env) BY <1>0, <1>1, <2>1, TopFacts DEF AtPlace
    <2>3. AgedVars(u, u, D) BY DEF AgedVars
    <2> QED BY <2>1, <2>2, <2>3, <1>2, <1>6, FitsAged
  <1>11. Holds(w.obj, Known(p, Now(p).v)) BY <1>0, <1>1, <1>7, TopKnows
  <1>12. Now(p).x \notin Outside /\ Now(p).op = "eval" BY <1>0, <1>2 DEF Obeys, CallsHelper
  <1>13. Evaluates(D, p)'
    <2>1. Pending(D, p)' BY <1>6, <1>8, <1>10 DEF Pending
    <2> QED BY <2>1, <1>6, <1>7, <1>8, <1>11, <1>12 DEF Evaluates
  <1>14. Waits(D)' /\ ~ Collecting(D)'
    BY <1>6, <1>7, <1>8, <1>12 DEF Waits, Collecting, Outside, Finalizers
  <1>15. \A d \in 1 .. D - 1 : Aged(frames[d], frames'[d], d)
    <2>1. \A d \in 1 .. D - 1 : d \in 1 .. D BY <1>2
    <2> QED BY <2>1, <1>2, <1>8, SameIsAged
  <1> QED BY <1>1, <1>6, <1>7, <1>8, <1>9, <1>13, <1>14, <1>15 DEF FallsAsleep, Suspended

\* Then the invariant holds.
LEMMA SleepKeeps ==
  ASSUME NEW ps, PInv(ps), Running, FallsAsleep(ps[Depth]),
         lclRoots' = lclRoots, heap' = heap, thrown' \in Nat, room' \in Nat
  PROVE  IInv'
  <1>1. PICK D : D = Depth OBVIOUS
  <1>2. /\ Suspended(D, ps[D])' /\ Waits(D)' /\ Depth' = D
        /\ IsSeq(frames') /\ \A d \in 1 .. D - 1 : Aged(frames[d], frames'[d], d)
        /\ IsFrame(frames'[D]) /\ frames'[D].groups = frames[D].groups
        /\ frames'[D].ret = frames[D].ret /\ frames'[D].wait.height = Len(heap)
    BY <1>1 DEF FallsAsleep
  <1>3. /\ D \in Nat /\ D \in 1 .. D /\ ps \in [1 .. D -> Places]
        /\ \A d \in 1 .. D : SeesRoots(ps[d], d) /\ IsPlace(ps[d])
    BY <1>1, TopFacts, PlaceFacts DEF PInv, Obeys, WellFormed
  <1>4. \A d \in 1 .. D : d = D \/ d \in 1 .. D - 1 BY <1>3
  <1>5. \A d \in 1 .. D - 1 : d \in 1 .. D /\ d < D /\ d + 1 \in 1 .. D BY <1>3
  <1>6. \A d \in 1 .. D : /\ frames'[d].groups = frames[d].groups /\ frames'[d].ret = frames[d].ret
                          /\ IsFrame(frames'[d])
    BY <1>1, <1>2, <1>4 DEF Aged
  <1>7. \A d \in 1 .. D - 1 : frames'[d].wait = frames[d].wait /\ (Waits(d)' <=> Waits(d))
    BY <1>2 DEF Aged, Waits
  <1>8. StackInv'
    <2>1. ASSUME NEW d \in 1 .. D PROVE Answers(d)'
      <3>1. Answers(d) BY <1>1 DEF PInv, StackInv
      <3>2. d > 1 => d - 1 \in 1 .. D - 1 BY <1>3
      <3> QED BY <3>1, <3>2, <1>6, <1>7, AnswersKept
    <2> QED BY <1>2, <1>6, <2>1 DEF StackInv
  <1>9. CodeInv(ps)'
    <2> SUFFICES ASSUME NEW d \in 1 .. D
                 PROVE  /\ Waits(d)' => Suspended(d, ps[d])'
                        /\ ~ Waits(d)' => d < D /\ CallsNext(d, ps[d], ps[d + 1])'
      BY <1>2 DEF CodeInv
    <2>1. CASE d = D BY <2>1, <1>2
    <2>2. CASE d \in 1 .. D - 1
      <3>1. /\ Waits(d) => Suspended(d, ps[d])
            /\ ~ Waits(d) => CallsNext(d, ps[d], ps[d + 1])
        BY <2>2, <1>1, <1>5 DEF PInv, CodeInv
      <3>2. /\ Aged(frames[d], frames'[d], d) /\ d < D /\ frames'[d + 1].ret = frames[d + 1].ret
            /\ SeesRoots(ps[d], d) /\ IsPlace(ps[d])
        BY <2>2, <1>2, <1>3, <1>5, <1>6
      <3>3. Waits(d)' => Suspended(d, ps[d])' BY <2>2, <3>1, <3>2, <1>7, SuspendedAged
      <3>4. ~ Waits(d)' => CallsNext(d, ps[d], ps[d + 1])'
        BY <2>2, <3>1, <3>2, <1>7, PendingAged DEF CallsNext
      <3> QED BY <3>2, <3>3, <3>4
    <2> QED BY <2>1, <2>2, <1>4
  <1>11. RootsInv(ps)'
    <2>1. SameGroups(ps, ps) BY <1>1, <1>2, <1>6 DEF SameGroups
    <2> QED BY <2>1, QuietRoots DEF PInv
  <1>12. HeapInv /\ HeapInv'
    <2>1. HeapInv BY DEF PInv
    <2> QED BY <2>1, QuietHeap
  <1>13. HeightInv'
    <2>1. Len(heap) \in Nat /\ Len(heap) >= Old BY <1>12, SeqFacts DEF HeapInv, HeapFits
    <2>2. /\ \A d \in 1 .. D : /\ frames[d].wait.height \in Old .. Len(heap)
                               /\ ~ Waits(d) => frames[d].wait.height = Old
          /\ \A c, d \in 1 .. D :
               c < d /\ Waits(d) => frames[c].wait.height <= frames[d].wait.height
      BY <1>1 DEF PInv, HeightInv
    <2>3. ASSUME NEW d \in 1 .. D
          PROVE  /\ frames'[d].wait.height \in Old .. Len(heap)
                 /\ ~ Waits(d)' => frames'[d].wait.height = Old
      <3>1. CASE d = D
        <4>1. Len(heap) \in Old .. Len(heap) BY <2>1, HeapFacts
        <4> QED BY <4>1, <3>1, <1>2
      <3>2. CASE d \in 1 .. D - 1 BY <3>2, <2>2, <1>2, <1>5, <1>7
      <3> QED BY <3>1, <3>2, <1>4
    <2>4. ASSUME NEW c \in 1 .. D, NEW d \in 1 .. D, c < d, Waits(d)'
          PROVE  frames'[c].wait.height <= frames'[d].wait.height
      <3>1. c \in 1 .. D - 1 BY <2>4, <1>3
      <3>2. frames'[c].wait = frames[c].wait BY <3>1, <1>7
      <3>3. CASE d = D BY <3>2, <3>3, <2>1, <2>2, <1>2, HeapFacts
      <3>4. CASE d \in 1 .. D - 1
        <4>1. frames'[d].wait = frames[d].wait /\ Waits(d) BY <3>4, <2>4, <1>7
        <4> QED BY <4>1, <3>2, <2>2, <2>4
      <3> QED BY <3>3, <3>4, <1>4
    <2> QED BY <2>3, <2>4, <1>2 DEF HeightInv
  <1>15. ThrownInv' BY <1>1, <1>2 DEF FallsAsleep, ThrownInv
  <1>14. ps \in [1 .. Depth -> Places]' /\ PInv(ps)'
    BY <1>2, <1>3, <1>8, <1>9, <1>11, <1>12, <1>13, <1>15 DEF PInv
  <1> QED BY <1>14 DEF IInv

\* An evaluation is started.
LEMMA EvalKeeps == ASSUME NEW ps, PInv(ps), Eval PROVE IInv'
  <1>1. Running BY DEF Eval, At
  <1>2. /\ lclRoots' = lclRoots /\ heap' = heap /\ room' = room /\ thrown' = thrown
        /\ thrown \in Nat /\ room \in Nat
    BY DEF Eval, PInv, HeapInv
  <1> QED BY <1>1, <1>2, EvalSuspends, SleepKeeps

\* A collection moves the objects, and is about to run the finalizers.
LEMMA CollectSuspends ==
  ASSUME NEW ps, PInv(ps), Collect
  PROVE  FallsAsleep(ps[Depth]) /\ thrown' = Word
  <1>0. Running /\ Step.op \in {"alloc", "ensure"} BY DEF Collect, At
  <1>1. PICK D, p, f : D = Depth /\ p = ps[Depth] /\ f = frames[Depth] OBVIOUS
  <1>2. /\ D \in Nat /\ D \in 1 .. D /\ Step = Now(p) /\ IsPlace(p) /\ Obeys(p)
        /\ SeesRoots(p, D) /\ IsFrame(f) /\ Last(frames) = f /\ AtPlace(D, p)
    BY <1>0, <1>1, TopFacts
  <1>3. thrown = Word /\ thrown' = thrown
    <2>1. thrown = Word BY <1>0, CollectsQuietly
    <2> QED BY <2>1 DEF Collect, MayMove
  <1>4. PICK w : w = [x |-> CollectPost, obj |-> Word, height |-> Len(heap)] OBVIOUS
  <1>5. PICK g : g = [f EXCEPT !.wait = w] OBVIOUS
  <1>6. /\ IsFrame(g) /\ g.todo = f.todo /\ g.vars = f.vars /\ g.groups = f.groups
        /\ g.ret = f.ret /\ g.wait = w
    BY <1>2, <1>5 DEF IsFrame
  <1>7. TopIs(frames', g)
    <2>1. frames' = Collected(WithTop(g)) BY <1>2, <1>4, <1>5 DEF Collect
    <2> QED BY <2>1, <1>0, <1>6, WithTopFacts
  <1>8. /\ IsSeq(frames') /\ Len(frames') = D /\ Aged(g, frames'[D], D)
        /\ \A d \in 1 .. D - 1 : Aged(frames[d], frames'[d], d)
    BY <1>1, <1>7 DEF TopIs
  <1>9. Depth' = D BY <1>8 DEF Depth
  <1>10. /\ IsFrame(frames'[D]) /\ AgedVars(f.vars, frames'[D].vars, D)
         /\ frames'[D].todo = p.todo /\ frames'[D].groups = f.groups
         /\ frames'[D].ret = f.ret /\ frames'[D].wait = w
    BY <1>1, <1>2, <1>6, <1>8 DEF Aged, AtPlace
  <1>11. Fits(frames'[D].vars, AfterGC(p).env)
    <2>1. Fits(f.vars, p.env) BY <1>1, <1>2 DEF AtPlace
    <2> QED BY <2>1, <1>2, <1>10, FitsAged
  <1>12. p.room < Now(p).n
    <2>1. PICK n \in Nat : n = Now(p).n BY <1>0, <1>2 DEF Obeys, Allocates
    <2>2. room < n /\ p.room <= room /\ p.room \in Nat /\ room \in Nat
      BY <2>1, <1>0, <1>1, <1>2, StepFacts DEF Collect
    <2> QED BY <2>1, <2>2
  <1>13. Collecting(D)' /\ Waits(D)'
    BY <1>4, <1>10 DEF Collecting, Waits, CollectPost
  <1>14. Collects(D, p)' BY <1>0, <1>2, <1>10, <1>11, <1>12, <1>13 DEF Collects
  <1>15. frames'[D].wait.height = Len(heap) BY <1>4, <1>10
  <1> QED
    BY <1>1, <1>3, <1>8, <1>9, <1>10, <1>13, <1>14, <1>15 DEF FallsAsleep, Suspended

\* A collection is done.
LEMMA CollectKeeps == ASSUME NEW ps, PInv(ps), Collect PROVE IInv'
  <1>1. Running BY DEF Collect, At
  <1>2. lclRoots' = lclRoots /\ heap' = heap /\ room' \in Nat BY DEF Collect
  <1>3. thrown' \in Nat BY CollectSuspends DEF Word
  <1> QED BY <1>1, <1>2, <1>3, CollectSuspends, SleepKeeps

\* The function on top awakes, at q and with the frame g, after its collection.
Awakes(p, g, q) ==
  /\ frames' = WithTop(g) /\ IsFrame(g) /\ g.ret = Last(frames).ret
  /\ g.groups = Last(frames).groups /\ g.wait = NotWaiting
  /\ q \in Places /\ q.silent = p.silent /\ q.grps = p.grps /\ ~ q.exc
  /\ g.todo = q.todo /\ Fits(g.vars, q.env) /\ q.room <= room'
  /\ lclRoots' = lclRoots /\ thrown' = thrown

\* Then the invariant holds.
LEMMA AwakesKeeps ==
  ASSUME NEW ps, PInv(ps), InPost, NEW g, NEW q, Awakes(ps[Depth], g, q),
         HeapInv', \A d \in 1 .. Depth : frames[d].wait.height <= Len(heap')
  PROVE  IInv'
  <1>1. PICK D : D = Depth OBVIOUS
  <1>2. Depth > 0 /\ ~ Running BY DEF InPost, Running, CollectPost
  <1>3. /\ D \in Nat /\ D \in 1 .. D /\ IsSeq(frames) /\ D = Len(frames)
        /\ Last(frames) = frames[D] /\ thrown = Word
    BY <1>1, <1>2, WaitFacts, WaitCases
  <1>4. /\ IsSeq(frames') /\ Len(frames') = D /\ frames'[D] = g
        /\ \A d \in 1 .. D - 1 : frames'[d] = frames[d]
    <2>1. PICK fs : fs = frames OBVIOUS
    <2>2. IsSeq(fs) /\ Len(fs) > 0 /\ Len(fs) = D BY <1>3, <2>1
    <2>3. /\ IsSeq([fs EXCEPT ![Len(fs)] = g]) /\ Len([fs EXCEPT ![Len(fs)] = g]) = Len(fs)
          /\ [fs EXCEPT ![Len(fs)] = g][Len(fs)] = g
          /\ \A d \in 1 .. Len(fs) - 1 : [fs EXCEPT ![Len(fs)] = g][d] = fs[d]
      BY <2>2, SeqTop
    <2>4. frames' = [fs EXCEPT ![Len(fs)] = g] BY <1>1, <2>1, <2>2 DEF Awakes, WithTop
    <2> QED BY <2>1, <2>2, <2>3, <2>4
  <1>5. CutTo(D)
    <2>1. \A i \in 1 .. Len(lclRoots) : lclRoots[i].frame <= D
      BY <1>1, <1>3 DEF PInv, RootsInv
    <2>2. Depth' = D BY <1>4 DEF Depth
    <2> QED BY <2>1, <2>2, <1>1, <1>4 DEF CutTo, Awakes
  <1>6. NoLonger(NotWaiting) BY DEF NoLonger, NotWaiting, Old
  <1>7. Resumes(D, ps[D], g, q) BY <1>1, <1>3, <1>4, <1>6 DEF Resumes, Awakes
  <1> QED BY <1>1, <1>3, <1>5, <1>7, ResumesKeeps

\* What the frame of the function is then, and what is known.
LEMMA AwakeFacts ==
  ASSUME NEW ps, PInv(ps), InPost, NEW p, p = ps[Depth],
         NEW r, r = AfterGC(Later(p))
  PROVE  /\ ~ Running /\ thrown = Word
         /\ IsFrame(Awake) /\ Awake.todo = r.todo /\ Awake.groups = Last(frames).groups
         /\ Awake.ret = Last(frames).ret /\ Awake.wait = NotWaiting
         /\ Fits(Awake.vars, r.env) /\ Step = Now(p) /\ Obeys(p) /\ After(p) \subseteq Places
         /\ IsPlace(r) /\ r.grps = p.grps /\ r.silent = p.silent /\ ~ r.exc
         /\ p.room < Now(p).n /\ Now(p).n \in Nat /\ p.room \in Nat
  <1>1. Depth > 0 /\ ~ Running BY DEF InPost, Running, CollectPost
  <1>2. PICK f : f = Last(frames) OBVIOUS
  <1>3. /\ p \in Places /\ IsPlace(p) /\ IsFrame(f) /\ f = frames[Depth] /\ thrown = Word
        /\ Collects(Depth, p)
    BY <1>1, <1>2, WaitFacts, WaitCases
  <1>4. Obeys(p) /\ After(p) \subseteq Places BY <1>3, PlaceFacts
  <1>5. PICK l : l = Later(p) OBVIOUS
  <1>6. /\ IsPlace(l) /\ l.todo = Tail(p.todo) /\ l.grps = p.grps /\ l.silent = p.silent
        /\ l.exc = p.exc
    BY <1>3, <1>5, LaterFacts
  <1>7. /\ IsPlace(r) /\ r.todo = l.todo /\ r.grps = l.grps /\ r.silent = l.silent
        /\ r.exc = l.exc /\ r.env = AfterGC(p).env
    BY <1>3, <1>5, <1>6, AfterGCFacts
  <1>8. /\ f.todo = p.todo /\ Fits(f.vars, AfterGC(p).env) /\ p.room < Now(p).n
        /\ Now(p).op \in {"alloc", "ensure"}
    BY <1>3 DEF Collects
  <1>9. /\ IsFrame(Awake) /\ Awake.todo = Tail(f.todo) /\ Awake.groups = f.groups
        /\ Awake.ret = f.ret /\ Awake.wait = NotWaiting /\ Awake.vars = f.vars
    BY <1>2, <1>3 DEF Awake, This, Advance, IsFrame
  <1>10. Step = Now(p) BY <1>2, <1>8 DEF Step, Now
  <1>11. ~ p.exc /\ Now(p).n \in Nat BY <1>4, <1>8 DEF Obeys, ExcPassedOn, Allocates
  <1>12. p.room \in Nat BY <1>4 DEF Obeys, WellFormed
  <1> QED
    BY <1>1, <1>2, <1>3, <1>4, <1>6, <1>7, <1>8, <1>9, <1>10, <1>11, <1>12

\* The words are ensured at the second attempt.
LEMMA EnsureAfterGCKeeps == ASSUME NEW ps, PInv(ps), EnsureAfterGC PROVE IInv'
  <1>0. InPost /\ Step.op = "ensure" BY DEF EnsureAfterGC
  <1>1. PICK p : p = ps[Depth] OBVIOUS
  <1>2. PICK r : r = AfterGC(Later(p)) OBVIOUS
  <1>3. /\ ~ Running /\ thrown = Word
        /\ IsFrame(Awake) /\ Awake.todo = r.todo /\ Awake.groups = Last(frames).groups
        /\ Awake.ret = Last(frames).ret /\ Awake.wait = NotWaiting
        /\ Fits(Awake.vars, r.env) /\ Step = Now(p) /\ After(p) \subseteq Places
        /\ IsPlace(r) /\ r.grps = p.grps /\ r.silent = p.silent /\ ~ r.exc
    BY <1>0, <1>1, <1>2, AwakeFacts
  <1>4. PICK n \in Nat : n = Step.n BY <1>0, <1>1, <1>2, AwakeFacts
  <1>5. PICK q : q = [r EXCEPT !.room = n] OBVIOUS
  <1>6. q \in Places
    <2>1. After(p) = {[AfterGC(Later(p)) EXCEPT !.room = Now(p).n]}
      BY <1>0, <1>3, AfterAlloc
    <2> QED BY <2>1, <1>2, <1>3, <1>4, <1>5
  <1>7. /\ q.todo = r.todo /\ q.env = r.env /\ q.grps = r.grps /\ q.exc = r.exc
        /\ q.silent = r.silent /\ q.room = n
    BY <1>3, <1>5 DEF IsPlace
  <1>8. /\ frames' = WithTop(Awake) /\ heap' = Kept /\ room' = n
        /\ lclRoots' = lclRoots /\ thrown' = thrown
    BY <1>4 DEF EnsureAfterGC
  <1>9. PICK g : g = Awake OBVIOUS
  <1>10. Awakes(p, g, q) BY <1>3, <1>6, <1>7, <1>8, <1>9 DEF Awakes
  <1>11. HeapInv' /\ \A d \in 1 .. Depth : frames[d].wait.height <= Len(heap')
    BY <1>3, <1>8, KeptFacts DEF Word
  <1> QED BY <1>0, <1>1, <1>10, <1>11, AwakesKeeps

\* A node is allocated at the second attempt.
LEMMA AllocAfterGCKeeps == ASSUME NEW ps, PInv(ps), AllocAfterGC PROVE IInv'
  <1>0. InPost /\ Step.op = "alloc" BY DEF AllocAfterGC
  <1>1. PICK p, D : p = ps[Depth] /\ D = Depth OBVIOUS
  <1>2. PICK r : r = AfterGC(Later(p)) OBVIOUS
  <1>3. /\ ~ Running /\ thrown = Word
        /\ IsFrame(Awake) /\ Awake.todo = r.todo /\ Awake.groups = Last(frames).groups
        /\ Awake.ret = Last(frames).ret /\ Awake.wait = NotWaiting
        /\ Fits(Awake.vars, r.env) /\ Step = Now(p) /\ After(p) \subseteq Places
        /\ IsPlace(r) /\ r.grps = p.grps /\ r.silent = p.silent /\ ~ r.exc
        /\ p.room < Now(p).n /\ Now(p).n \in Nat /\ p.room \in Nat
    BY <1>0, <1>1, <1>2, AwakeFacts
  <1>4. PICK x, f, h, k : x = Step.x /\ f = Awake /\ h = Kept /\ k = Append(Kept, <<>>) OBVIOUS
  <1>5. /\ HeapFits(h) /\ \A d \in 1 .. Depth : frames[d].wait.height <= Len(h)
        /\ HeapFits(k) /\ Len(h) \in Nat /\ Len(k) = Len(h) + 1
    BY <1>3, <1>4, KeptFits, GrownFits
  <1>6. PICK val : val = Len(h) + 1 OBVIOUS
  <1>7. Holds(val, New)
    <2>1. Len(h) >= Old BY <1>5 DEF HeapFits
    <2> QED BY <2>1, <1>5, <1>6, HeapFacts DEF Holds, Word
  <1>8. PICK g, b : g = Assign(f, x, val) /\ b = Bind(r, x, New) OBVIOUS
  <1>9. Bound(f, r, g, b) BY <1>3, <1>4, <1>7, <1>8, Binds
  <1>10. PICK q : q = [b EXCEPT !.room = 0] OBVIOUS
  <1>11. q \in Places
    <2>1. After(p) = {IF Now(p).n <= p.room THEN Taken(Bind(Later(p), Now(p).x, New), Now(p).n)
                      ELSE [Bind(AfterGC(Later(p)), Now(p).x, New) EXCEPT !.room = 0]}
      BY <1>0, <1>3, AfterAlloc
    <2>2. ~ (Now(p).n <= p.room) BY <1>3
    <2> QED BY <2>1, <2>2, <1>2, <1>3, <1>4, <1>8, <1>10
  <1>12. /\ q.todo = b.todo /\ q.env = b.env /\ q.grps = b.grps /\ q.exc = b.exc
         /\ q.silent = b.silent /\ q.room = 0
    BY <1>9, <1>10 DEF Bound, IsPlace
  <1>13. /\ heap' = k /\ room' = 0 /\ lclRoots' = lclRoots /\ thrown' = thrown
    BY <1>4 DEF AllocAfterGC
  <1>14. frames' = WithTop(g)
    <2>1. frames' = [WithTop(f) EXCEPT ![D] = Assign(@, x, val)]
      BY <1>1, <1>4, <1>6 DEF AllocAfterGC, NewObjectIn
    <2>2. DOMAIN frames = 1 .. D /\ D \in 1 .. D
      BY <1>1, <1>3, <1>0, WaitFacts DEF InPost
    <2> QED BY <2>1, <2>2, <1>1, <1>8 DEF WithTop
  <1>15. Awakes(p, g, q)
    BY <1>3, <1>4, <1>9, <1>11, <1>12, <1>13, <1>14 DEF Awakes, Bound
  <1>16. HeapInv' BY <1>3, <1>5, <1>13 DEF HeapInv, HeapFits, Word
  <1>17. \A d \in 1 .. Depth : frames[d].wait.height <= Len(heap')
    <2>1. \A d \in 1 .. Depth : frames[d].wait.height \in Nat
      BY HeapFacts DEF PInv, HeightInv
    <2> QED BY <2>1, <1>5, <1>13
  <1> QED BY <1>0, <1>1, <1>15, <1>16, <1>17, AwakesKeeps

--------------------------------------------------------------------------------
(* Functions that are called, by another, by the interpreter or by a collection.*)

\* The frame f of a function at its entry q.
AtEntry(f, q) ==
  /\ IsFrame(f) /\ NoLonger(f.wait) /\ f.groups = <<>> /\ f.todo = q.todo
  /\ q \in Places /\ q.grps = <<>> /\ ~ q.exc /\ q.room = 0 /\ Fits(f.vars, q.env)

\* It comes on top; what calls it waits, for an evaluation or for its result.
LooksSame(g, h) ==
  IsFrame(h) /\ h.groups = g.groups /\ h.ret = g.ret /\ h.wait = g.wait
Pushed(f) ==
  /\ IsSeq(frames') /\ Depth' = Depth + 1 /\ frames'[Depth + 1] = f
  /\ \A d \in 1 .. Depth : LooksSame(frames[d], frames'[d])
  /\ \A d \in 1 .. Depth - 1 : frames'[d] = frames[d]
  /\ f.ret \in Outside <=> Depth = 0 \/ Waits(Depth)
  /\ Depth > 0 /\ Collecting(Depth) => f.ret = CollectPost
CallerWaits(d, p, q) ==
  d > 0 => /\ Waits(d) => Suspended(d, p)'
           /\ ~ Waits(d) => CallsNext(d, p, q)'
NothingLost ==
  /\ HeapInv' /\ lclRoots' = lclRoots /\ thrown' = Word
  /\ \A d \in 1 .. Depth : frames[d].wait.height <= Len(heap')

\* The places, when the function at the new depth n is at place q.
Joined(ps, n, q) == [d \in 1 .. n |-> IF d = n THEN q ELSE ps[d]]

\* They are places.
LEMMA JoinedFacts ==
  ASSUME NEW n \in Nat, NEW ps, ps \in [1 .. n -> Places], NEW q \in Places,
         NEW qs, qs = Joined(ps, n + 1, q)
  PROVE  /\ qs \in [1 .. n + 1 -> Places] /\ qs[n + 1] = q
         /\ \A d \in 1 .. n : qs[d] = ps[d] /\ d \in 1 .. n + 1 /\ d # n + 1
         /\ \A d \in 1 .. n + 1 : d = n + 1 \/ d \in 1 .. n
  BY DEF Joined

\* The parts of the invariant, one by one.
LEMMA PushedStack ==
  ASSUME NEW ps, PInv(ps), NEW D \in Nat, D = Depth, NEW f, NEW q, Pushed(f), AtEntry(f, q)
  PROVE  /\ StackInv' /\ ~ Waits(D + 1)'
         /\ \A d \in 1 .. D : Waits(d)' <=> Waits(d)
  <1>1. D = Depth OBVIOUS
  <1>2. /\ IsSeq(frames') /\ Depth' = D + 1 /\ frames'[D + 1] = f
        /\ \A d \in 1 .. D : LooksSame(frames[d], frames'[d])
        /\ f.ret \in Outside <=> D = 0 \/ Waits(D)
        /\ D > 0 /\ Collecting(D) => f.ret = CollectPost
    BY <1>1 DEF Pushed
  <1>3. \A d \in 1 .. D : (Waits(d)' <=> Waits(d)) /\ (Collecting(d)' <=> Collecting(d))
    BY <1>2 DEF LooksSame, Waits, Collecting
  <1>4. IsFrame(f) /\ ~ Waits(D + 1)' BY <1>2 DEF AtEntry, NoLonger, Waits
  <1>5. ASSUME NEW d \in 1 .. D + 1 PROVE IsFrame(frames'[d]) /\ Answers(d)'
    <2>1. CASE d = D + 1
      <3>1. D # 0 => D \in 1 .. D /\ D = d - 1 /\ d > 1 /\ D > 0 BY <2>1
      <3>2. D = 0 <=> d = 1 BY <2>1
      <3>3. D # 0 => (Waits(D) <=> Waits(d - 1)') /\ (Collecting(D) <=> Collecting(d - 1)')
        BY <3>1, <1>3
      <3>4. d > 1 => D # 0 BY <2>1
      <3> QED BY <2>1, <3>1, <3>2, <3>3, <3>4, <1>2, <1>4 DEF Answers
    <2>2. CASE d \in 1 .. D
      <3>1. Answers(d) BY <1>1, <2>2 DEF PInv, StackInv
      <3>2. d > 1 => d - 1 \in 1 .. D BY <2>2
      <3>3. IsFrame(frames'[d]) /\ frames'[d].ret = frames[d].ret BY <2>2, <1>2 DEF LooksSame
      <3>4. d > 1 => frames'[d - 1].wait = frames[d - 1].wait BY <3>2, <1>2 DEF LooksSame
      <3> QED BY <3>1, <3>3, <3>4, AnswersKept
    <2>3. d = D + 1 \/ d \in 1 .. D OBVIOUS
    <2> QED BY <2>1, <2>2, <2>3
  <1>6. StackInv' BY <1>2, <1>5 DEF StackInv
  <1> QED BY <1>3, <1>4, <1>6

\* The code: the caller waits, the function is at its entry.
LEMMA PushedCode ==
  ASSUME NEW ps, PInv(ps), NEW D \in Nat, D = Depth, NEW f, NEW q, Pushed(f), AtEntry(f, q),
         CallerWaits(D, ps[D], q), thrown' = Word, room' \in Nat,
         NEW qs, qs = Joined(ps, D + 1, q)
  PROVE  CodeInv(qs)'
  <1>1. D = Depth OBVIOUS
  <1>2. /\ Depth' = D + 1 /\ frames'[D + 1] = f
        /\ \A d \in 1 .. D : LooksSame(frames[d], frames'[d])
        /\ \A d \in 1 .. D - 1 : frames'[d] = frames[d]
    BY <1>1 DEF Pushed
  <1>3. ~ Waits(D + 1)' /\ \A d \in 1 .. D : Waits(d)' <=> Waits(d) BY <1>1, PushedStack
  <1>4. /\ qs[D + 1] = q /\ \A d \in 1 .. D : qs[d] = ps[d] /\ d # D + 1
        /\ \A d \in 1 .. D + 1 : d = D + 1 \/ d \in 1 .. D
    BY <1>1, JoinedFacts DEF PInv, AtEntry
  <1> SUFFICES ASSUME NEW d \in 1 .. D + 1
               PROVE  /\ Waits(d)' => Suspended(d, qs[d])'
                      /\ ~ Waits(d)' /\ d < D + 1 => CallsNext(d, qs[d], qs[d + 1])'
                      /\ ~ Waits(d)' /\ d = D + 1 => AtPlace(d, qs[d])'
    BY <1>2 DEF CodeInv
  <1>5. CASE d = D + 1
    <2>1. AtPlace(D + 1, q)' BY <1>2 DEF AtPlace, AtEntry
    <2>2. ~ (d < D + 1) BY <1>5
    <2> QED BY <2>1, <2>2, <1>3, <1>4, <1>5
  <1>6. CASE d \in 1 .. D /\ d = D
    <2>1. D > 0 BY <1>6
    <2>2. /\ Waits(D) => Suspended(D, ps[D])'
          /\ ~ Waits(D) => CallsNext(D, ps[D], q)'
      BY <2>1, <1>1 DEF CallerWaits
    <2> QED BY <2>2, <1>3, <1>4, <1>6
  <1>7. CASE d \in 1 .. D /\ d # D
    <2>1. d \in 1 .. D - 1 /\ d < D /\ d + 1 \in 1 .. D BY <1>7
    <2>2. /\ Waits(d) => Suspended(d, ps[d])
          /\ ~ Waits(d) => CallsNext(d, ps[d], ps[d + 1])
      BY <1>1, <1>7, <2>1 DEF PInv, CodeInv
    <2>3. /\ frames'[d] = frames[d] /\ frames'[d + 1].ret = frames[d + 1].ret
          /\ qs[d] = ps[d] /\ qs[d + 1] = ps[d + 1]
      BY <2>1, <1>2, <1>4, <1>7 DEF LooksSame
    <2>4. Waits(d)' => Suspended(d, qs[d])' BY <2>2, <2>3, SameFrame
    <2>5. ~ Waits(d)' => CallsNext(d, qs[d], qs[d + 1])' BY <2>2, <2>3, SameFrame DEF CallsNext
    <2> QED BY <2>4, <2>5, <1>4, <1>7
  <1> QED BY <1>4, <1>5, <1>6, <1>7

\* The groups: the function has none yet.
LEMMA PushedRoots ==
  ASSUME NEW ps, PInv(ps), NEW D \in Nat, D = Depth, NEW f, NEW q, Pushed(f), AtEntry(f, q),
         NothingLost, NEW qs, qs = Joined(ps, D + 1, q)
  PROVE  RootsInv(qs)'
  <1>1. D = Depth OBVIOUS
  <1>2. /\ Depth' = D + 1 /\ frames'[D + 1] = f /\ lclRoots' = lclRoots
        /\ \A d \in 1 .. D : frames'[d].groups = frames[d].groups
    BY <1>1 DEF Pushed, LooksSame, NothingLost
  <1>4. /\ qs[D + 1] = q /\ \A d \in 1 .. D : qs[d] = ps[d] /\ d \in 1 .. D + 1
        /\ \A d \in 1 .. D + 1 : d = D + 1 \/ d \in 1 .. D
    <2>1. ps \in [1 .. D -> Places] /\ q \in Places BY <1>1 DEF PInv, AtEntry
    <2>2. qs[D + 1] = q BY <2>1, JoinedFacts
    <2>4. \A d \in 1 .. D : qs[d] = ps[d] BY <2>1, JoinedFacts
    <2>3. /\ \A d \in 1 .. D : d \in 1 .. D + 1
          /\ \A d \in 1 .. D + 1 : d = D + 1 \/ d \in 1 .. D
      OBVIOUS
    <2> QED BY <2>2, <2>3, <2>4
  <1>5. RootsInv(ps) BY DEF PInv
  <1>6. ASSUME NEW d \in 1 .. D + 1 PROVE GroupsFit(d, qs[d])'
    <2>1. CASE d = D + 1
      <3>1. GroupsIn(d, <<>>, <<>>, lclRoots) BY DEF GroupsIn
      <3> QED BY <2>1, <3>1, <1>2, <1>4 DEF GroupsFit, AtEntry
    <2>2. CASE d \in 1 .. D
      <3>1. GroupsFit(d, ps[d]) BY <2>2, <1>1, <1>5 DEF RootsInv
      <3> QED BY <2>2, <3>1, <1>2, <1>4 DEF GroupsFit
    <2> QED BY <2>1, <2>2, <1>4
  <1>7. ASSUME NEW i \in 1 .. Len(lclRoots)
        PROVE  /\ lclRoots[i].frame \in 1 .. D + 1
               /\ i - 1 \in ToSet(frames'[lclRoots[i].frame].groups)
    <2>1. PICK d : d = lclRoots[i].frame OBVIOUS
    <2>2. d \in 1 .. D /\ i - 1 \in ToSet(frames[d].groups) BY <2>1, <1>1, <1>5 DEF RootsInv
    <2> QED BY <2>1, <2>2, <1>2, <1>4
  <1>8. /\ lclRoots \in Seq(Root)
        /\ \A i, k \in 1 .. Len(lclRoots) : i < k => lclRoots[i].frame <= lclRoots[k].frame
    BY <1>5 DEF RootsInv
  <1> QED BY <1>2, <1>6, <1>7, <1>8 DEF RootsInv

\* Together.
LEMMA PushKeeps ==
  ASSUME NEW ps, PInv(ps), NEW D \in Nat, D = Depth, NEW f, NEW q, Pushed(f), AtEntry(f, q),
         CallerWaits(D, ps[D], q), NothingLost
  PROVE  IInv'
  <1>1. D = Depth OBVIOUS
  <1>2. PICK qs : qs = Joined(ps, D + 1, q) OBVIOUS
  <1>3. /\ qs \in [1 .. D + 1 -> Places] /\ \A d \in 1 .. D + 1 : d = D + 1 \/ d \in 1 .. D
    BY <1>1, <1>2, JoinedFacts DEF PInv, AtEntry
  <1>4. /\ HeapInv' /\ lclRoots' = lclRoots /\ thrown' = Word
        /\ \A d \in 1 .. D : frames[d].wait.height <= Len(heap')
    BY <1>1 DEF NothingLost
  <1>5. room' \in Nat BY <1>4 DEF HeapInv, HeapFits
  <1>6. StackInv' BY PushedStack
  <1>7. CodeInv(qs)' BY <1>1, <1>2, <1>4, <1>5, PushedCode
  <1>8. RootsInv(qs)' BY <1>1, <1>2, <1>4, PushedRoots
  <1>9. Depth' = D + 1 BY <1>1 DEF Pushed
  <1>10. HeightInv'
    <2>1. Len(heap') \in Nat /\ Len(heap') >= Old
      <3>1. PICK h : h = heap' OBVIOUS
      <3>2. IsSeq(h) /\ Len(h) >= Old BY <1>4, <3>1 DEF HeapInv, HeapFits, IsSeq
      <3> QED BY <3>1, <3>2, SeqFacts
    <2>2. Len(heap) \in Nat BY SeqFacts DEF PInv, HeapInv, HeapFits
    <2>3. NoLonger(frames'[D + 1].wait) BY <1>1 DEF Pushed, AtEntry
    <2>4. \A d \in 1 .. D : frames'[d].wait = frames[d].wait BY <1>1 DEF Pushed, LooksSame
    <2>5. WaitsKept BY <2>3, <2>4, <1>1, <1>3, <1>4, <1>9 DEF WaitsKept
    <2> QED BY <2>1, <2>2, <2>5, HeightsKept DEF PInv
  <1>12. ThrownInv' BY <1>4 DEF ThrownInv
  <1>11. PInv(qs)' BY <1>3, <1>4, <1>6, <1>7, <1>8, <1>9, <1>10, <1>12 DEF PInv
  <1> QED BY <1>3, <1>9, <1>11 DEF IInv

\* The frame of a function that is called, and what is known at its entry.
LEMMA EntryFacts ==
  ASSUME NEW e, NEW args, NEW known, NEW ret, NEW silent, Takes(e, args),
         DOMAIN known = DOMAIN args, \A i \in DOMAIN args : Holds(args[i], known[i]),
         NEW f, f = Frame(e, args, ret), NEW q, q = Place(e, known, silent)
  PROVE  /\ IsFrame(f) /\ f.ret = ret /\ NoLonger(f.wait) /\ f.groups = <<>> /\ f.todo = q.todo
         /\ q.grps = <<>> /\ ~ q.exc /\ q.room = 0 /\ q.silent = silent /\ Fits(f.vars, q.env)
  <1>1. /\ IsFrame(f) /\ f.ret = ret /\ f.wait = NotWaiting /\ f.groups = <<>>
        /\ f.todo = e.body
        /\ f.vars = [v \in ToSet(e.params) |-> args[CHOOSE i \in DOMAIN args : e.params[i] = v]]
    BY DEF Frame, IsFrame
  <1>2. /\ q.grps = <<>> /\ ~ q.exc /\ q.room = 0 /\ q.silent = silent /\ q.todo = e.body
        /\ q.env = [v \in ToSet(e.params) |-> known[CHOOSE i \in DOMAIN known : e.params[i] = v]]
    BY DEF Place
  <1>3. NoLonger(f.wait)
    <2>1. NoLonger(NotWaiting) BY DEF NoLonger, NotWaiting, Old
    <2> QED BY <2>1, <1>1
  <1>4. ASSUME NEW v \in ToSet(e.params) PROVE Holds(f.vars[v], q.env[v])
    <2>1. PICK i : i = CHOOSE k \in DOMAIN args : e.params[k] = v OBVIOUS
    <2>2. \E k \in DOMAIN args : e.params[k] = v BY DEF Takes
    <2>3. i \in DOMAIN args BY <2>1, <2>2
    <2>4. f.vars[v] = args[i] BY <2>1, <1>1
    <2>5. q.env[v] = known[i] BY <2>1, <1>2
    <2> QED BY <2>3, <2>4, <2>5
  <1>5. Fits(f.vars, q.env) BY <1>1, <1>2, <1>4 DEF Fits
  <1> QED BY <1>1, <1>2, <1>3, <1>5

\* The values of arguments are as known.
LEMMA ArgsKnown ==
  ASSUME NEW ps, PInv(ps), Running, NEW vs,
         NEW args, args = Operands(vs), NEW known, known = KnownArgs(ps[Depth], vs)
  PROVE  /\ DOMAIN args = DOMAIN vs /\ DOMAIN known = DOMAIN args
         /\ \A i \in DOMAIN args : Holds(args[i], known[i])
  <1>1. DOMAIN args = DOMAIN vs /\ DOMAIN known = DOMAIN vs BY DEF Operands, KnownArgs
  <1>2. ASSUME NEW i \in DOMAIN vs PROVE Holds(args[i], known[i])
    <2>1. args[i] = Operand(vs[i]) /\ known[i] = Known(ps[Depth], vs[i])
      BY DEF Operands, KnownArgs
    <2> QED BY <2>1, TopKnows
  <1> QED BY <1>1, <1>2

\* A C function is called by another.
LEMMA CallCKeeps == ASSUME NEW ps, PInv(ps), CallC PROVE IInv'
  <1>0. Running /\ Step.op = "call" BY DEF CallC, At
  <1>1. PICK D, p, s : D = Depth /\ p = ps[Depth] /\ s = Step OBVIOUS
  <1>2. /\ D \in Nat /\ D \in 1 .. D /\ s = Now(p) /\ IsPlace(p) /\ Obeys(p)
        /\ SeesRoots(p, D) /\ ~ Waits(D) /\ p \in Places
        /\ \A d \in 1 .. D : IsFrame(frames[d])
    BY <1>0, <1>1, TopFacts
  <1>3. /\ IsFrame(This) /\ This.todo = Tail(p.todo) /\ This.vars = frames[D].vars
        /\ This.groups = frames[D].groups /\ This.ret = frames[D].ret
        /\ This.wait = frames[D].wait
    BY <1>0, <1>1, ThisFacts
  <1>4. /\ Fits(This.vars, p.env) /\ (p.exc <=> thrown # Word) /\ room \in Nat
    BY <1>0, <1>1, StepFacts
  <1>5. PICK g : g = This OBVIOUS
  <1>6. PICK e \in Helpers : e.p = s.p /\
          frames' = Append(WithTop(This), Frame(e, Operands(s.args), s.x))
    BY <1>1 DEF CallC
  <1>7. PICK args, known : args = Operands(s.args) /\ known = KnownArgs(p, s.args) OBVIOUS
  <1>8. PICK f, q : f = Frame(e, args, s.x) /\ q = Place(e, known, s.p \in Silent) OBVIOUS
  <1>9. s.x \notin Outside /\ Takes(e, s.args) /\ ~ p.exc
    <2>1. Now(p).op = "call" BY <1>0, <1>1, <1>2
    <2>2. Obeys(p) BY <1>2
    <2>3. ~ p.exc BY <2>1, <2>2 DEF Obeys, ExcPassedOn
    <2>4. Now(p).x \notin Outside /\ Takes(e, Now(p).args)
      BY <2>1, <2>2, <1>2, <1>6 DEF Obeys, CallsHelper
    <2> QED BY <2>3, <2>4, <1>2
  <1>10. /\ DOMAIN args = DOMAIN s.args /\ DOMAIN known = DOMAIN args
         /\ \A i \in DOMAIN args : Holds(args[i], known[i])
    BY <1>0, <1>1, <1>7, ArgsKnown
  <1>11. Takes(e, args) BY <1>9, <1>10 DEF Takes
  <1>12. /\ IsFrame(f) /\ f.ret = s.x /\ NoLonger(f.wait) /\ f.groups = <<>> /\ f.todo = q.todo
         /\ q.grps = <<>> /\ ~ q.exc /\ q.room = 0 /\ Fits(f.vars, q.env)
         /\ q.silent = (s.p \in Silent)
    BY <1>8, <1>10, <1>11, EntryFacts
  <1>13. q \in Places
    <2>1. Called(p) = {Place(c, KnownArgs(p, Now(p).args), Now(p).p \in Silent) :
                         c \in {c \in Helpers : c.p = Now(p).p}}
      BY <1>0, <1>1, <1>2 DEF Called
    <2>2. q \in Called(p) BY <2>1, <1>2, <1>6, <1>7, <1>8
    <2> QED BY <2>2, <1>2, PlaceFacts
  <1>14. AtEntry(f, q) BY <1>12, <1>13 DEF AtEntry
  <1>15. /\ IsSeq(frames') /\ Len(frames') = D + 1 /\ frames'[D + 1] = f /\ frames'[D] = g
         /\ \A d \in 1 .. D - 1 : frames'[d] = frames[d]
    <2>1. PICK fs : fs = frames OBVIOUS
    <2>2. IsSeq(fs) /\ Len(fs) > 0 /\ Len(fs) = D
      BY <1>0, <1>1, <2>1 DEF PInv, StackInv, Depth, Running
    <2>3. PICK t : t = [fs EXCEPT ![Len(fs)] = g] OBVIOUS
    <2>11. /\ IsSeq([fs EXCEPT ![Len(fs)] = g]) /\ Len([fs EXCEPT ![Len(fs)] = g]) = Len(fs)
           /\ [fs EXCEPT ![Len(fs)] = g][Len(fs)] = g
           /\ \A d \in 1 .. Len(fs) - 1 : [fs EXCEPT ![Len(fs)] = g][d] = fs[d]
      BY <2>2, SeqTop
    <2>4. /\ IsSeq(t) /\ Len(t) = Len(fs) /\ t[Len(fs)] = g
          /\ \A d \in 1 .. Len(fs) - 1 : t[d] = fs[d]
      BY <2>3, <2>11
    <2>5. /\ IsSeq(Append(t, f)) /\ Len(Append(t, f)) = Len(t) + 1
          /\ Append(t, f)[Len(t) + 1] = f
          /\ \A d \in 1 .. Len(t) : Append(t, f)[d] = t[d]
      BY <2>4, SeqPush
    <2>6. frames' = Append(t, f)
      <3>1. WithTop(This) = t BY <1>1, <1>5, <2>1, <2>2, <2>3 DEF WithTop
      <3> QED BY <3>1, <1>6, <1>7, <1>8
    <2>7. \A d \in 1 .. D - 1 : d \in 1 .. D BY <1>2
    <2>8. Len(t) = D /\ Len(fs) = D BY <2>2, <2>4
    <2>9. frames'[D] = g BY <2>4, <2>5, <2>6, <2>8, <1>2
    <2>10. \A d \in 1 .. D - 1 : frames'[d] = frames[d]
      BY <2>1, <2>4, <2>5, <2>6, <2>7, <2>8
    <2> QED BY <2>5, <2>6, <2>8, <2>9, <2>10
  <1>16. \A d \in 1 .. D : d = D \/ d \in 1 .. D - 1 BY <1>2
  <1>17. Pushed(f)
    <2>1. Depth' = D + 1 BY <1>15 DEF Depth
    <2>2. \A d \in 1 .. D : LooksSame(frames[d], frames'[d])
      BY <1>2, <1>3, <1>5, <1>15, <1>16 DEF LooksSame
    <2>3. f.ret \notin Outside BY <1>9, <1>12
    <2>5. ~ Waits(D) BY <1>2
    <2>6. ~ Collecting(D) BY <2>5 DEF Waits, Collecting, CollectPost
    <2>4. D # 0 /\ ~ Collecting(D) BY <2>6, <1>2
    <2> QED BY <1>1, <1>2, <1>15, <2>1, <2>2, <2>3, <2>4 DEF Pushed
  <1>18. CallerWaits(D, p, q)
    <2>1. Fits(g.vars, AfterGC(p).env)
      <3>1. PICK u : u = g.vars OBVIOUS
      <3>2. Fits(u, p.env) BY <3>1, <1>4, <1>5
      <3>3. AgedVars(u, u, D) BY DEF AgedVars
      <3> QED BY <3>1, <3>2, <3>3, <1>2, FitsAged
    <2>2. Pending(D, p)' BY <2>1, <1>3, <1>5, <1>15 DEF Pending
    <2>3. CallsNext(D, p, q)' BY <2>2, <1>0, <1>1, <1>2, <1>12, <1>15 DEF CallsNext
    <2> QED BY <2>3, <1>2 DEF CallerWaits
  <1>19. NothingLost
    <2>1. lclRoots' = lclRoots /\ heap' = heap /\ room' = room /\ thrown' = thrown
      BY DEF CallC
    <2>2. thrown = Word BY <1>4, <1>9
    <2>3. HeapInv' BY <2>1, <2>2, <1>4, QuietHeap DEF PInv, Word
    <2>4. \A d \in 1 .. D : frames[d].wait.height <= Len(heap')
      BY <2>1, <1>1 DEF PInv, HeightInv
    <2> QED BY <1>1, <2>1, <2>2, <2>3, <2>4 DEF NothingLost
  <1> QED BY <1>1, <1>2, <1>14, <1>17, <1>18, <1>19, PushKeeps

\* A function is called from outside, for ret.
LEMMA CalleeKeeps ==
  ASSUME NEW ps, PInv(ps), ~ Running, thrown = Word, NEW e \in Callees, NEW ret \in Outside,
         InPost => ret = CollectPost, frames' = Append(frames, Frame(e, e.args, ret)),
         heap' = Kept, room' = 0, UNCHANGED <<lclRoots, thrown>>
  PROVE  IInv'
  <1>1. PICK D : D = Depth OBVIOUS
  <1>2. /\ D \in Nat /\ IsSeq(frames) /\ D = Len(frames)
        /\ \A d \in 1 .. D : IsFrame(frames[d])
        /\ D > 0 => Waits(D) /\ Suspended(D, ps[D]) /\ (InPost <=> Collecting(D))
    BY <1>1, WaitFacts
  <1>4. PICK args : args = e.args OBVIOUS
  <1>5. PICK f, q : f = Frame(e, args, ret) /\ q = Place(e, args, FALSE) OBVIOUS
  <1>6. Takes(e, args) /\ \A i \in DOMAIN args : args[i] \in 0 .. Old
    BY <1>4, Disciplined
  <1>7. \A i \in DOMAIN args : Holds(args[i], args[i]) BY <1>6, HeapFacts DEF Holds, Word
  <1>8. /\ IsFrame(f) /\ f.ret = ret /\ NoLonger(f.wait) /\ f.groups = <<>> /\ f.todo = q.todo
        /\ q.grps = <<>> /\ ~ q.exc /\ q.room = 0 /\ Fits(f.vars, q.env)
    <2>1. PICK known, silent : known = args /\ silent = FALSE OBVIOUS
    <2>2. f = Frame(e, args, ret) /\ q = Place(e, known, silent) BY <2>1, <1>5
    <2>3. DOMAIN known = DOMAIN args /\ \A i \in DOMAIN args : Holds(args[i], known[i])
      BY <2>1, <1>7
    <2>4. /\ IsFrame(f) /\ f.ret = ret /\ NoLonger(f.wait) /\ f.groups = <<>> /\ f.todo = q.todo
          /\ q.grps = <<>> /\ ~ q.exc /\ q.room = 0 /\ Fits(f.vars, q.env)
      BY <2>2, <2>3, <1>6, EntryFacts
    <2> QED BY <2>1, <2>4
  <1>9. q \in Places
    <2>1. q \in Entries BY <1>4, <1>5 DEF Entries
    <2> QED BY <2>1, Disciplined
  <1>10. AtEntry(f, q) BY <1>8, <1>9 DEF AtEntry
  <1>11. /\ IsSeq(frames') /\ Len(frames') = D + 1 /\ frames'[D + 1] = f
         /\ \A d \in 1 .. D : frames'[d] = frames[d]
    <2>1. PICK fs : fs = frames OBVIOUS
    <2>2. /\ IsSeq(Append(fs, f)) /\ Len(Append(fs, f)) = Len(fs) + 1
          /\ Append(fs, f)[Len(fs) + 1] = f
          /\ \A d \in 1 .. Len(fs) : Append(fs, f)[d] = fs[d]
      BY <2>1, <1>2, SeqPush
    <2>3. frames' = Append(fs, f) BY <2>1, <1>4, <1>5
    <2>4. Len(fs) = D BY <2>1, <1>2
    <2> QED BY <2>1, <2>2, <2>3, <2>4
  <1>12. \A d \in 1 .. D - 1 : d \in 1 .. D BY <1>2
  <1>13. Pushed(f)
    <2>1. Depth' = D + 1 BY <1>11 DEF Depth
    <2>2. \A d \in 1 .. D : LooksSame(frames[d], frames'[d]) BY <1>2, <1>11 DEF LooksSame
    <2>3. D = 0 \/ Waits(D) BY <1>2
    <2>4. D > 0 /\ Collecting(D) => ret = CollectPost BY <1>2
    <2> QED BY <1>1, <1>8, <1>11, <1>12, <2>1, <2>2, <2>3, <2>4 DEF Pushed
  <1>14. CallerWaits(D, ps[D], q)
    <2>1. ASSUME D > 0
          PROVE  Waits(D) /\ Suspended(D, ps[D])'
      <3>1. D \in 1 .. D BY <2>1, <1>2
      <3>2. Suspended(D, ps[D]) /\ Waits(D) BY <2>1, <1>2
      <3> QED BY <3>1, <3>2, <1>11, SameFrame
    <2> QED BY <2>1 DEF CallerWaits
  <1>15. NothingLost
    <2>2. room' \in Nat /\ thrown' \in Nat BY DEF Word
    <2>3. HeapInv' /\ \A d \in 1 .. Depth : frames[d].wait.height <= Len(heap')
      BY <2>2, KeptFacts
    <2> QED BY <2>3 DEF NothingLost
  <1> QED BY <1>1, <1>2, <1>10, <1>13, <1>14, <1>15, PushKeeps

\* A primitive is called by the interpreter.
LEMMA InterpCallKeeps == ASSUME NEW ps, PInv(ps), InterpCall PROVE IInv'
  <1>1. ~ Running /\ ~ InPost /\ thrown = Word BY DEF InterpCall, InEval
  <1>2. PICK e \in Callable : frames' = Append(frames, Frame(e, e.args, "")) BY DEF InterpCall
  <1>3. e \in Callees BY FinalizerAssumption DEF Callable, Callees
  <1>4. "" \in Outside BY DEF Outside
  <1> QED BY <1>1, <1>2, <1>3, <1>4, CalleeKeeps DEF InterpCall

\* A finalizer is run, for who.
LEMMA RunIOKeeps ==
  ASSUME NEW ps, PInv(ps), ~ Running, thrown = Word, NEW who \in Finalizers, RunIOFor(who),
         InPost => who = CollectPost
  PROVE  IInv'
  <1>1. RunIO \in Callees /\ who \in Outside BY DEF Callees, Outside
  <1>2. /\ frames' = Append(frames, Frame(RunIO, RunIO.args, who))
        /\ heap' = Kept /\ room' = 0 /\ UNCHANGED <<lclRoots, thrown>>
    BY DEF RunIOFor
  <1> QED BY <1>1, <1>2, CalleeKeeps

\* A collection runs a finalizer.
LEMMA RunFinalizerKeeps == ASSUME NEW ps, PInv(ps), RunFinalizer PROVE IInv'
  <1>1. RunIOFor(CollectPost) /\ CollectPost \in Finalizers BY DEF RunFinalizer, Finalizers
  <1>2. ~ Running BY DEF RunFinalizer, InPost, InEval, Running, CollectPost
  <1>3. thrown = Word
    <2>1. CASE InPost
      <3>1. Depth > 0 BY <2>1 DEF InPost
      <3> QED BY <2>1, <3>1, <1>2, WaitCases
    <2> QED BY <2>1 DEF RunFinalizer
  <1> QED BY <1>1, <1>2, <1>3, RunIOKeeps

\* The program runs those that are left when it ends.
LEMMA AtExitKeeps == ASSUME NEW ps, PInv(ps), FinalizAlleWeakPtr PROVE IInv'
  <1>1. /\ ~ Running /\ ~ InPost /\ thrown = Word /\ RunIOFor(AtExit) /\ AtExit \in Finalizers
    BY DEF FinalizAlleWeakPtr, Running, InPost, Finalizers
  <1> QED BY <1>1, RunIOKeeps

--------------------------------------------------------------------------------
(* The theorems.                                                               *)

\* Before the program runs nothing is in progress.
LEMMA InitIInv == Init => IInv
  <1> SUFFICES ASSUME Init PROVE IInv OBVIOUS
  <1>1. /\ frames = <<>> /\ lclRoots = <<>> /\ heap = InitialHeap /\ room = 0 /\ thrown = Word
    BY DEF Init
  <1>2. Depth = 0 BY <1>1 DEF Depth
  <1>3. PICK ps : ps = [d \in 1 .. 0 |-> 0] OBVIOUS
  <1>4. ps \in [1 .. Depth -> Places] BY <1>2, <1>3
  <1>5. StackInv
    <2>1. IsSeq(frames) BY <1>1 DEF IsSeq
    <2> QED BY <2>1, <1>2 DEF StackInv
  <1>6. CodeInv(ps) BY <1>2 DEF CodeInv
  <1>7. RootsInv(ps) BY <1>1, <1>2 DEF RootsInv
  <1>8. HeapInv
    <2>1. \A x \in 1 .. 8 : \A i \in DOMAIN InitialHeap[x] : InitialHeap[x][i] \in Nat
      BY HeapFacts
    <2> QED BY <2>1, <1>1, HeapFacts DEF HeapInv, HeapFits, Word
  <1>9. HeightInv /\ ThrownInv BY <1>2 DEF HeightInv, ThrownInv
  <1> QED BY <1>4, <1>5, <1>6, <1>7, <1>8, <1>9 DEF IInv, PInv

\* Nothing changes when the program stands still.
LEMMA StutterIInv == IInv /\ UNCHANGED vars => IInv'
  <1> SUFFICES ASSUME IInv, UNCHANGED vars PROVE IInv' OBVIOUS
  <1>1. PICK ps \in [1 .. Depth -> Places] : PInv(ps) BY DEF IInv
  <1>2. /\ frames' = frames /\ lclRoots' = lclRoots /\ heap' = heap /\ room' = room
        /\ thrown' = thrown
    BY DEF vars
  <1>3. Depth' = Depth BY <1>2 DEF Depth
  <1>4. StackInv' BY <1>1, <1>2, <1>3 DEF PInv, StackInv, Answers, Waits, Collecting
  <1>5. CodeInv(ps)'
    BY <1>1, <1>2, <1>3
       DEF PInv, CodeInv, Waits, Suspended, Evaluates, Collects, Collecting, CallsNext, AtPlace,
           Pending
  <1>6. RootsInv(ps)' BY <1>1, <1>2, <1>3 DEF PInv, RootsInv, GroupsFit
  <1>7. HeapInv' BY <1>1, <1>2 DEF PInv, HeapInv, HeapFits
  <1>8. HeightInv' BY <1>1, <1>2, <1>3 DEF PInv, HeightInv, Waits
  <1>10. ThrownInv' BY <1>1, <1>2, <1>3 DEF PInv, ThrownInv, Collecting
  <1>9. ps \in [1 .. Depth -> Places]' /\ PInv(ps)'
    BY <1>1, <1>3, <1>4, <1>5, <1>6, <1>7, <1>8, <1>10 DEF PInv
  <1> QED BY <1>9 DEF IInv

\* A function that returns does so to the one that called it.
LEMMA ReturnCKeeps == ASSUME NEW ps, PInv(ps), ReturnC PROVE IInv'
  BY ReturnToCKeeps, ReturnToInterpKeeps

\* Each step of the machine keeps what is known true.
LEMMA NextIInv == IInv /\ Next => IInv'
  <1> SUFFICES ASSUME IInv, Next PROVE IInv' OBVIOUS
  <1>1. PICK ps : PInv(ps) BY DEF IInv
  <1>2. CASE EnterGrp BY <1>1, <1>2, EnterGrpKeeps
  <1>3. CASE LeaveGrp BY <1>1, <1>3, LeaveGrpKeeps
  <1>4. CASE EnterOne BY <1>1, <1>4, EnterOneKeeps
  <1>5. CASE EnterOneZeroed BY <1>1, <1>5, EnterOneZeroedKeeps
  <1>6. CASE Alloc BY <1>1, <1>6, AllocKeeps
  <1>7. CASE Ensure BY <1>1, <1>7, EnsureKeeps
  <1>8. CASE AllocEnsured BY <1>1, <1>8, AllocEnsuredKeeps
  <1>9. CASE FillNode BY <1>1, <1>9, FillNodeKeeps
  <1>10. CASE AssignVar BY <1>1, <1>10, AssignVarKeeps
  <1>11. CASE UseVars BY <1>1, <1>11, UseVarsKeeps
  <1>12. CASE Branch BY <1>1, <1>12, BranchKeeps
  <1>13. CASE Loop BY <1>1, <1>13, LoopKeeps
  <1>14. CASE CallC BY <1>1, <1>14, CallCKeeps
  <1>15. CASE PassExcWith BY <1>1, <1>15, PassExcKeeps
  <1>16. CASE SetThrown BY <1>1, <1>16, SetThrownKeeps
  <1>17. CASE ReturnC BY <1>1, <1>17, ReturnCKeeps
  <1>18. CASE Eval BY <1>1, <1>18, EvalKeeps
  <1>19. CASE InterpAlloc BY <1>1, <1>19, InterpAllocKeeps
  <1>20. CASE InterpCall BY <1>1, <1>20, InterpCallKeeps
  <1>21. CASE ResetThrownException BY <1>1, <1>21, ResetKeeps
  <1>22. CASE EvalReturns BY <1>1, <1>22, EvalReturnsKeeps
  <1>23. CASE EvalThrows BY <1>1, <1>23, EvalThrowsKeeps
  <1>24. CASE Collect BY <1>1, <1>24, CollectKeeps
  <1>25. CASE RunFinalizer BY <1>1, <1>25, RunFinalizerKeeps
  <1>26. CASE FinalizAlleWeakPtr BY <1>1, <1>26, AtExitKeeps
  <1>27. CASE AllocAfterGC BY <1>1, <1>27, AllocAfterGCKeeps
  <1>28. CASE EnsureAfterGC BY <1>1, <1>28, EnsureAfterGCKeeps
  <1>29. CASE Escaped BY <1>29, StutterIInv DEF Escaped
  <1> QED
    BY <1>2, <1>3, <1>4, <1>5, <1>6, <1>7, <1>8, <1>9, <1>10, <1>11, <1>12, <1>13, <1>14,
       <1>15, <1>16, <1>17, <1>18, <1>19, <1>20, <1>21, <1>22, <1>23,
       <1>24, <1>25, <1>26, <1>27, <1>28, <1>29
       DEF Next

(* Every C function in progress is at a place of the walk over its code, or    *)
(* waits at one, and what is known there is true of its variables, its groups  *)
(* of roots, the words ensured and the pending exception, as long as the code  *)
(* of the primitives obeys the discipline.                                     *)
THEOREM PrimRootsInvariant == Spec => []IInv
  <1>1. Init => IInv BY InitIInv
  <1>2. IInv /\ [Next]_vars => IInv' BY NextIInv, StutterIInv
  <1> QED BY <1>1, <1>2, PTL DEF Spec

\* A variable is in order when what is known of it is.
LEMMA IInvLocalsCurrent == IInv => LocalsCurrent
  <1> SUFFICES ASSUME IInv, Running, NEW v \in Reads(Step) PROVE Operand(v) \notin {Stale, Junk}
    BY DEF LocalsCurrent
  <1>1. PICK ps : PInv(ps) BY DEF IInv
  <1>2. Operand(v) \in Nat BY <1>1, TopReads
  <1> QED BY <1>2 DEF Stale, Junk

\* A variable in a group holds an object or a word, at the place where its
\* function is, and at the place where it waits.
LEMMA RootedIsValid ==
  ASSUME NEW ps, PInv(ps), NEW d \in 1 .. Depth, NEW v, Registered(d, v)
  PROVE  VarOf(frames[d], v) \in Nat
  <1>1. ps \in [1 .. Depth -> Places] /\ RootsInv(ps) /\ CodeInv(ps) /\ HeapInv BY DEF PInv
  <1>2. PICK p, f : p = ps[d] /\ f = frames[d] OBVIOUS
  <1>3. p \in Places /\ SeesRoots(p, d) BY <1>1, <1>2, RegisteredIsRooted
  <1>4. WellFormed(p) /\ RootsKnown(p) /\ IsPlace(p) BY <1>3, PlaceFacts DEF Obeys, WellFormed
  <1>5. Rooted(p, v) BY <1>3 DEF SeesRoots
  <1>6. KnownVar(p, v) >= 0
    <2>1. PICK i \in DOMAIN p.grps : v \in p.grps[i] BY <1>5 DEF Rooted
    <2> QED BY <2>1, <1>4 DEF RootsKnown
  <1>7. KnownVar(p, v) \in Junk .. Valid BY <1>4, KnownRange
  <1>8. Fits(f.vars, p.env) \/ Fits(f.vars, AfterGC(p).env)
    <2>1. CASE Waits(d)
      BY <2>1, <1>1, <1>2 DEF CodeInv, Suspended, Evaluates, Collects, Pending
    <2>2. CASE ~ Waits(d) /\ d < Depth BY <2>2, <1>1, <1>2 DEF CodeInv, CallsNext, Pending
    <2>3. CASE ~ Waits(d) /\ d = Depth BY <2>3, <1>1, <1>2 DEF CodeInv, AtPlace
    <2>4. d < Depth \/ d = Depth
      <3>1. Depth \in Nat BY SeqFacts DEF PInv, StackInv, Depth
      <3> QED BY <3>1
    <2> QED BY <2>1, <2>2, <2>3, <2>4
  <1>9. thrown \in Nat BY <1>1 DEF HeapInv, HeapFits
  <1>10. Holds(VarOf(f, v), KnownVar(p, v))
    <2>1. CASE Fits(f.vars, p.env) BY <2>1, <1>9, VarKnown
    <2>2. CASE Fits(f.vars, AfterGC(p).env)
      <3>1. PICK c : c = AfterGC(p) OBVIOUS
      <3>2. /\ DOMAIN c.env = DOMAIN p.env
            /\ v \in DOMAIN p.env => c.env[v] = p.env[v]
        <4>1. AfterGC(p).env = [u \in DOMAIN p.env |->
                IF p.env[u] # Word /\ ~ Rooted(p, u) THEN Junk ELSE p.env[u]]
          BY <1>4, AfterGCFacts
        <4> QED BY <4>1, <3>1, <1>5
      <3>3. Holds(VarOf(f, v), KnownVar(c, v)) BY <2>2, <3>1, <1>9, VarKnown
      <3>4. KnownVar(c, v) = KnownVar(p, v) BY <3>2 DEF KnownVar
      <3> QED BY <3>3, <3>4
    <2> QED BY <2>1, <2>2, <1>8
  <1> QED BY <1>2, <1>6, <1>7, <1>10, HoldsNat

\* So what the collector follows is in order.
LEMMA IInvRootsValid == IInv => RootsValid
  <1> SUFFICES ASSUME IInv PROVE RootsValid OBVIOUS
  <1>1. PICK ps : PInv(ps) BY DEF IInv
  <1>2. RootsInv(ps) /\ HeapInv BY <1>1 DEF PInv
  <1>3. /\ DOMAIN lclRoots = 1 .. Len(lclRoots) /\ Depth \in Nat
        /\ DOMAIN heap = 1 .. Len(heap)
    <2>1. lclRoots \in Seq(Root) BY <1>2 DEF RootsInv
    <2>2. Depth \in Nat BY <1>1, SeqFacts DEF PInv, StackInv, Depth
    <2>3. DOMAIN heap = 1 .. Len(heap) BY <1>2, SeqFacts DEF HeapInv, HeapFits
    <2> QED BY <2>1, <2>2, <2>3, LenProperties
  <1>4. ASSUME NEW i \in DOMAIN lclRoots, NEW dv \in lclRoots[i].ones
        PROVE  dv[1] <= Depth /\ VarOf(frames[dv[1]], dv[2]) \notin {Stale, Junk}
    <2>1. i \in 1 .. Len(lclRoots) BY <1>3
    <2>2. PICK d : d = lclRoots[i].frame OBVIOUS
    <2>3. d \in 1 .. Depth /\ i - 1 \in ToSet(frames[d].groups) /\ GroupsFit(d, ps[d])
      BY <2>1, <2>2, <1>2 DEF RootsInv
    <2>4. PICK gs, grps : gs = frames[d].groups /\ grps = ps[d].grps OBVIOUS
    <2>5. GroupsIn(d, gs, grps, lclRoots) BY <2>3, <2>4 DEF GroupsFit
    <2>6. gs \in Seq(Nat) /\ Len(gs) = Len(grps) BY <2>5 DEF GroupsIn
    <2>7. PICK j \in DOMAIN gs : gs[j] = i - 1 BY <2>3, <2>4 DEF ToSet
    <2>8. j \in 1 .. Len(grps) /\ i = gs[j] + 1 BY <2>1, <2>6, <2>7, LenProperties
    <2>9. lclRoots[i] = [frame |-> d, ones |-> {d} \X grps[j]] BY <2>5, <2>8 DEF GroupsIn
    <2>10. dv \in {d} \X grps[j] BY <2>9
    <2>11. dv = <<dv[1], dv[2]>> /\ dv[1] = d BY <2>10
    <2>12. Registered(d, dv[2]) BY <2>11 DEF Registered
    <2>13. VarOf(frames[d], dv[2]) \in Nat BY <2>3, <2>12, <1>1, RootedIsValid
    <2>14. d <= Depth BY <2>3, <1>3
    <2> QED BY <2>11, <2>13, <2>14 DEF Stale, Junk
  <1>5. ASSUME NEW x \in DOMAIN heap PROVE ToSet(heap[x]) \cap {Stale, Junk} = {}
    <2>1. \A i \in DOMAIN heap[x] : heap[x][i] \in Nat BY <1>2, <1>3 DEF HeapInv, HeapFits
    <2> QED BY <2>1 DEF ToSet, Stale, Junk
  <1> QED BY <1>4, <1>5 DEF RootsValid

\* The chain of groups is the one that the functions in progress mean to leave.
LEMMA IInvGroupsBalanced == IInv => GroupsBalanced
  <1> SUFFICES ASSUME IInv PROVE GroupsBalanced OBVIOUS
  <1>1. PICK ps : PInv(ps) BY DEF IInv
  <1>2. RootsInv(ps) BY <1>1 DEF PInv
  <1>3. /\ DOMAIN lclRoots = 1 .. Len(lclRoots)
        /\ DOMAIN frames = 1 .. Depth
    <2>1. lclRoots \in Seq(Root) BY <1>2 DEF RootsInv
    <2>2. DOMAIN frames = 1 .. Depth BY <1>1, SeqFacts DEF PInv, StackInv, Depth
    <2> QED BY <2>1, <2>2, LenProperties
  <1>4. ASSUME NEW i \in DOMAIN lclRoots
        PROVE  \E d \in DOMAIN frames : lclRoots[i].frame = d /\ i - 1 \in ToSet(frames[d].groups)
    BY <1>2, <1>3 DEF RootsInv
  <1>5. ASSUME NEW d \in DOMAIN frames, NEW g \in ToSet(frames[d].groups)
        PROVE  g + 1 \in DOMAIN lclRoots /\ lclRoots[g + 1].frame = d
    <2>1. PICK gs, grps : gs = frames[d].groups /\ grps = ps[d].grps OBVIOUS
    <2>2. GroupsIn(d, gs, grps, lclRoots) BY <2>1, <1>2, <1>3 DEF RootsInv, GroupsFit
    <2>3. gs \in Seq(Nat) /\ Len(gs) = Len(grps) BY <2>2 DEF GroupsIn
    <2>4. PICK j \in DOMAIN gs : gs[j] = g BY <2>1 DEF ToSet
    <2>5. j \in 1 .. Len(grps) BY <2>3, <2>4, LenProperties
    <2>6. /\ gs[j] + 1 \in 1 .. Len(lclRoots)
          /\ lclRoots[gs[j] + 1] = [frame |-> d, ones |-> {d} \X grps[j]]
      BY <2>2, <2>5 DEF GroupsIn
    <2> QED BY <2>4, <2>6, <1>3
  <1> QED BY <1>4, <1>5 DEF GroupsBalanced

\* The words that are known to be ensured are there.
LEMMA IInvEnsuredSuffices == IInv => EnsuredSuffices
  <1> SUFFICES ASSUME IInv, Running, Step.op = "alloce" PROVE Step.n <= room
    BY DEF EnsuredSuffices, At
  <1>1. PICK ps : PInv(ps) BY DEF IInv
  <1>2. PICK p : p = ps[Depth] OBVIOUS
  <1>3. /\ Obeys(p) /\ Step = Now(p) /\ p.room <= room /\ p.room \in Nat /\ room \in Nat
    BY <1>1, <1>2, StepFacts
  <1>4. Now(p).n \in Nat /\ Now(p).n <= p.room BY <1>3 DEF Obeys, Allocates
  <1>5. PICK n \in Nat : n = Now(p).n BY <1>4
  <1>6. n <= room BY <1>3, <1>4, <1>5
  <1> QED BY <1>3, <1>5, <1>6

\* The exception is not moved while it is pending.
LEMMA IInvThrownCurrent == IInv => ThrownCurrent
  BY DEF IInv, PInv, HeapInv, HeapFits, ThrownCurrent, Stale

(* No primitive ever uses an object that it kept in a C variable which a       *)
(* collection did not know of, nor a variable or field that was never set:     *)
(* whatever the interpreter does during an evaluation, and however many of     *)
(* these are in progress inside each other.                                    *)
THEOREM LocalsStayCurrent == Spec => []LocalsCurrent
  BY PrimRootsInvariant, IInvLocalsCurrent, PTL

(* What the collector follows from the groups of local roots is always an      *)
(* object or a word, in a C function that is still in progress, and so is      *)
(* every field of the nodes that primitives fill.                              *)
THEOREM RootsStayValid == Spec => []RootsValid
  BY PrimRootsInvariant, IInvRootsValid, PTL

(* Every group of local roots on the chain was entered by a C function that is *)
(* in progress and will leave it, and every group that one means to leave is   *)
(* on the chain: on all ways out, those with an exception included.            *)
THEOREM GroupsStayBalanced == Spec => []GroupsBalanced
  BY PrimRootsInvariant, IInvGroupsBalanced, PTL

(* An allocation that must not collect always finds the words ensured before.  *)
THEOREM EnsuredWordsSuffice == Spec => []EnsuredSuffices
  BY PrimRootsInvariant, IInvEnsuredSuffices, PTL

(* No collection takes place between throwing an exception and its handler:    *)
(* gb_ThrownException, which is no root, is never out of date, with finalizers *)
(* run in the midst of allocations and at the end, as long as none of them     *)
(* ends by an exception: that is where the machine stops (Escaped).            *)
THEOREM ThrownStaysCurrent == Spec => []ThrownCurrent
  BY PrimRootsInvariant, IInvThrownCurrent, PTL

=================================================================================
