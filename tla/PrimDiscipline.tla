---------------------------- MODULE PrimDiscipline ----------------------------
(* A discipline for the code of primitives, checked function by function.      *)
(*                                                                             *)
(* A walk over the code of a C function, from its entry along all branches,    *)
(* keeps what is known at each step whatever the rest of the program does:     *)
(* the groups entered and the variables in them, what the variables hold, the  *)
(* words ensured, whether an exception is pending.  After what may collect     *)
(* nothing is known of a variable that is an object and in no group; after a   *)
(* call the result is an object or a word.  Code that obeys the discipline     *)
(* along this walk never uses a stale variable, however deeply evaluations are *)
(* nested: PrimRoots_proofs.                                                   *)
EXTENDS PrimRoots

CONSTANT Longest      \* bound: the number of steps of a walk

ASSUME LongestAssumption == Longest \in Nat

(* Values known in part: an object that is there when the program starts, or a *)
(* word, is known exactly, a new object by being new, and a result not at all. *)
(* Junk stands for anything, a stale address included.                         *)
Old == Len(InitialHeap)
New == Old + 1
Valid == Old + 2

(* What helpers of which the caller does not look for an exception promise.    *)
Silent == {"NewWeakPtr", "CStringToString1Char", "primByteArrayToString1Char"}

Place(entry, args, silent) ==
  [ todo |-> entry.body, env |-> [v \in ToSet(entry.params) |->
                                    args[CHOOSE i \in DOMAIN args : entry.params[i] = v]],
    grps |-> <<>>, exc |-> FALSE, room |-> 0, silent |-> silent ]

KnownVar(p, v) == IF v \in DOMAIN Globals THEN Globals[v]
                  ELSE IF v = Thrown THEN Valid
                  ELSE IF v \in DOMAIN p.env THEN p.env[v] ELSE Junk

Known(p, v) == LET x == KnownVar(p, v[1])
               IN  CASE v = <<>> -> Word
                     [] Len(v) = 1 -> x
                     [] OTHER -> IF x \in 1 .. Old /\ v[2] \in DOMAIN InitialHeap[x]
                                 THEN InitialHeap[x][v[2]] ELSE Junk
KnownArgs(p, vs) == [i \in DOMAIN vs |-> Known(p, vs[i])]

Now(p)        == Head(p.todo)
Later(p)      == [p EXCEPT !.todo = Tail(@)]
Bind(p, x, a) == [p EXCEPT !.env = [v \in {x} \cup DOMAIN p.env |->
                                      IF v = x THEN a ELSE p.env[v]]]
Rooted(p, v)  == \E i \in DOMAIN p.grps : v \in p.grps[i]
AfterGC(p)    == [p EXCEPT !.env = [v \in DOMAIN p.env |->
                     IF p.env[v] # Word /\ ~ Rooted(p, v) THEN Junk ELSE p.env[v]]]
Register(p, vs) == [p EXCEPT !.grps[Len(p.grps)] = @ \cup vs]
Throws(p, exc)  == [p EXCEPT !.exc = exc, !.room = 0]

Taken(p, n)     == [p EXCEPT !.room = @ - n]
Resumed(p, x, a, exc) == Throws(Bind(AfterGC(Later(p)), x, a), exc)

(* What is known after the step at p; for a call, after it has returned, and   *)
(* at the entry of what it calls.                                              *)
After(p) ==
  LET s == Now(p)
      r == Later(p)
  IN  CASE s.op = "enter"  -> {[r EXCEPT !.grps = Append(@, {})]}
        [] s.op = "leave"  -> {[r EXCEPT !.grps = Front(@)]}
        [] s.op = "root"   -> {Register(r, s.vs)}
        [] s.op = "rootz"  -> {Register([r EXCEPT !.env = Zeroed(@, s.vs)], s.vs)}
        [] s.op = "alloc"  -> {IF s.n <= p.room THEN Taken(Bind(r, s.x, New), s.n)
                               ELSE [Bind(AfterGC(r), s.x, New) EXCEPT !.room = 0]}
        [] s.op = "ensure" -> {[AfterGC(r) EXCEPT !.room = s.n]}
        [] s.op = "alloce" -> {Taken(Bind(r, s.x, New), s.n)}
        [] s.op = "set"    -> {Bind(r, s.x, Known(p, s.v))}
        [] s.op = "either" -> {[r EXCEPT !.todo = alt \o @] : alt \in s.alts}
        [] s.op = "while"  -> {r} \cup (IF KnownVar(p, s.v) = NilObj THEN {}
                                        ELSE {[r EXCEPT !.todo = s.body \o <<s>> \o @]})
        [] s.op = "passexc" ->
             {IF p.exc THEN [r EXCEPT !.todo = (IF s.leave THEN <<GCSafeLeave>> ELSE <<>>)
                                               \o <<Return(<<Thrown>>)>>]
              ELSE r}
        [] s.op = "throw"  -> {[r EXCEPT !.exc = TRUE]}
        [] s.op = "call"   -> {Resumed(p, s.x, Valid, exc) :
                                 exc \in {FALSE} \cup {s.p \notin Silent}}
        [] s.op = "eval"   -> {Resumed(p, s.x, Known(p, s.v), FALSE),
                               Resumed(p, s.x, Valid, TRUE)}
        [] s.op = "return" -> {}
        [] OTHER           -> {r}
Called(p) ==
  IF Now(p).op # "call" THEN {}
  ELSE {Place(e, KnownArgs(p, Now(p).args), Now(p).p \in Silent) :
          e \in {e \in Helpers : e.p = Now(p).p}}

Callees == {RunIO} \cup {e \in Primitives : e.p \in Prims}
Entries == {Place(e, e.args, FALSE) : e \in Callees}

Walk[n \in 0 .. Longest] ==
  IF n = 0 THEN [seen |-> Entries, fresh |-> Entries]
  ELSE LET w   == Walk[n - 1]
           new == UNION {After(p) \cup Called(p) : p \in w.fresh} \ w.seen
       IN  [seen |-> w.seen \cup new, fresh |-> new]
Places == Walk[Longest].seen

--------------------------------------------------------------------------------
Takes(e, args) == \A v \in ToSet(e.params) : \E i \in DOMAIN args : e.params[i] = v

IsPlace(p) == DOMAIN p = {"todo", "env", "grps", "exc", "room", "silent"}
WellFormed(p) ==
  /\ IsPlace(p)
  /\ p.todo # <<>>
  /\ p.grps \in Seq(SUBSET STRING)
  /\ {p.exc, p.silent} \subseteq BOOLEAN
  /\ p.room \in Nat
  /\ \A v \in DOMAIN p.env : p.env[v] \in Junk .. Valid

(* What is read is known to be in order, and so is what the collector follows. *)
ReadsKnown(p) == \A v \in Reads(Now(p)) : Known(p, v) >= 0
RootsKnown(p) == \A i \in DOMAIN p.grps : \A v \in p.grps[i] : KnownVar(p, v) >= 0

(* Groups are left before the function is, variables are registered in its own *)
(* groups only.                                                                *)
GroupsKept(p) == IF Now(p).op \in {"leave", "root", "rootz"} THEN p.grps # <<>>
                 ELSE Now(p).op = "return" => p.grps = <<>>

(* Nothing is allocated or called while an exception is pending.               *)
ExcPassedOn(p) ==
  /\ Now(p).op \in {"alloc", "ensure", "call", "eval"} => ~ p.exc
  /\ Now(p).op = "return" /\ p.silent => ~ p.exc
  /\ Now(p).op = "throw" => Known(p, Now(p).v) \in (1 .. Old) \cup {New}

(* Words taken have been ensured; only new nodes are filled.                   *)
Allocates(p) ==
  /\ Now(p).op \in {"alloc", "ensure", "alloce"} => Now(p).n \in Nat
  /\ Now(p).op = "alloce" => Now(p).n <= p.room
  /\ Now(p).op = "fill" => KnownVar(p, Now(p).x) \in {Word, New}

CallsHelper(p) ==
  /\ Now(p).op \in {"call", "eval"} => Now(p).x \notin Outside
  /\ Now(p).op = "call" => \A e \in Helpers : e.p = Now(p).p => Takes(e, Now(p).args)

Obeys(p) ==
  /\ WellFormed(p) /\ ReadsKnown(p) /\ RootsKnown(p) /\ GroupsKept(p) /\ ExcPassedOn(p)
  /\ Allocates(p) /\ CallsHelper(p)

(* The C functions reached from the primitives obey the discipline.            *)
ASSUME Disciplined ==
  /\ Entries \subseteq Places
  /\ \A p \in Places : Obeys(p) /\ After(p) \cup Called(p) \subseteq Places
  /\ \A e \in Callees :
       Takes(e, e.args) /\ \A i \in DOMAIN e.args : e.args[i] \in 0 .. Old
===============================================================================
