---------------------------- MODULE Driver_proofs ----------------------------
(***************************************************************************)
(* Proofs about the compiler driver: what a successful run links is what   *)
(* compiling everything anew would make, for any modules and sources and   *)
(* any number of edits and runs, killed or not.                            *)
(*                                                                         *)
(* The argument turns on the modules that are up to date: those whose      *)
(* interface is younger than the source, and younger than, and made from,  *)
(* the interfaces it depends on, which are up to date themselves.  A run   *)
(* adds to them the module it writes, and takes none away; an interface    *)
(* written in the present second belongs to one of them, so that a new     *)
(* interface is always strictly younger than the ones it makes outdated.   *)
(***************************************************************************)
EXTENDS Driver, TLAPS

----------------------------------------------------------------------------
(* The inductive invariant                                                 *)
UnitType ==
  [nm : Module, imps : SUBSET Module, hsTime : Nat, hiTime : Nat \cup {None},
   valid : BOOLEAN, decl : SUBSET Module, used : SUBSET Module]

TypeHi(h) ==
  h # NoFile => /\ h.time \in Nat /\ h.time <= clock
                /\ h.decl \in SUBSET Module /\ h.used \in SUBSET Module
TypeHs(h) ==
  h # NoFile => h.time \in Nat /\ h.time <= clock /\ h.src \in Source

TypeFiles ==
  /\ clock \in Nat
  /\ DOMAIN hs = Module /\ \A m \in Module : TypeHs(hs[m])
  /\ DOMAIN hi = Module /\ \A m \in Module : TypeHi(hi[m])
  /\ DOMAIN obj = Module

\* The modules an interface depends on
Uses(m) == (hi[m].decl \cup hi[m].used) \ {m}

(* An interface that is younger than its source was made from it, and one  *)
(* that is not older than another it depends on was made with that one.    *)
Made1(m) ==
  hi[m] # NoFile =>
    /\ hs[m] # NoFile
    /\ hi[m].made = [src |-> hi[m].made.src, deps |-> [k \in Uses(m) |-> hi[m].made.deps[k]]]
    /\ Top \notin Uses(m)
    /\ hs[m].time <= hi[m].time =>
         /\ hi[m].made.src = hs[m].src
         /\ hi[m].decl = hs[m].src.imps /\ hi[m].used = hs[m].src.uses
    /\ \A k \in Uses(m) : hi[k] # NoFile /\ hi[k].time <= hi[m].time =>
         hi[m].made.deps[k] = hi[k].made
MadeInv == \A m \in Module : Made1(m)

\* The modules that are up to date
Fresh(m) ==
  /\ hi[m] # NoFile /\ hs[m].time <= hi[m].time
  /\ \A k \in Uses(m) : hi[k] # NoFile /\ hi[k].time <= hi[m].time
IsUpToDate(S) == \A m \in S : Fresh(m) /\ Uses(m) \subseteq S
UpToDate == {m \in Module : \E S \in SUBSET Module : m \in S /\ IsUpToDate(S)}

YoungInv == \A m \in Module : hi[m] # NoFile /\ hi[m].time = clock => m \in UpToDate
ObjInv   == \A m \in UpToDate \ {Top} : obj[m] = hi[m].made

(* The units of a run.                                                     *)
Compiling == pc \in {"compile", "remove hi", "open hi", "close hi"}
Writing   == pc \in {"remove hi", "open hi", "close hi"}
Busy      == IF Writing THEN {cur} ELSE {}

TypeRun ==
  /\ pc \in {"idle", "import", "compile", "remove hi", "open hi", "close hi"}
  /\ DOMAIN cu \subseteq Module /\ \A n \in DOMAIN cu : cu[n] \in UnitType
  /\ done \subseteq DOMAIN cu
  /\ pc = "idle" => DOMAIN cu = {}
  /\ pc = "import" => done = {}

Unit1(n) ==
  /\ hs[n] # NoFile
  /\ cu[n].nm = n /\ cu[n].imps = hs[n].src.imps
  /\ n \notin done \cup Busy => cu[n] = Unit(n)
UnitsInv == \A n \in DOMAIN cu : Unit1(n)

\* Every unit that is not done is imported from the main module
ImportedInv ==
  \A S \in SUBSET Module :
    Top \in S /\ (\A n \in S \cap DOMAIN cu : Imports(cu[n]) \subseteq S) => DOMAIN cu \subseteq done \cup S

ClosedInv ==
  Compiling => /\ Top \in DOMAIN cu
               /\ \A n \in DOMAIN cu : Imports(cu[n]) \subseteq DOMAIN cu
               /\ Top \in done => DOMAIN cu \subseteq done

Done1(n) ==
  /\ n \in UpToDate
  /\ Imports(cu[n]) \subseteq done /\ Uses(n) \subseteq Imports(cu[n])
  /\ \/ cu[n].hiTime = Whole(hi[n].time)
     \/ /\ cu[n].hiTime = Fractional(hi[n].time)
        /\ \A m \in Module \ (done \cup Busy) :
             hi[m] # NoFile /\ n \in Uses(m) => hi[m].time < hi[n].time
DoneInv == \A n \in done : Done1(n)

\* What is done can be done in some order
OrderInv ==
  \A B \in SUBSET done : B # {} => \E n \in B : Uses(n) \cap B = {}

WriteInv ==
  Writing =>
    /\ cur \in DOMAIN cu \ done
    /\ Imports(cu[cur]) \subseteq done
    /\ Needs(cur) \ {cur} \subseteq done
    /\ cur # Top => obj[cur] = Made(cur)
    /\ cur = Top => DOMAIN cu \subseteq done \cup {Top}
    /\ \A m \in UpToDate : cur \notin Uses(m)
    /\ pc = "open hi" => hi[cur] = NoFile

\* What the executable was linked from, until the next edit or run
LinkedInv ==
  outcome = "ok" =>
    /\ pc = "idle"
    /\ Top \in DOMAIN exec
    /\ \A m \in DOMAIN exec :
         /\ m \in UpToDate
         /\ Uses(m) \subseteq DOMAIN exec
         /\ exec[m] = hi[m].made
    /\ \A B \in SUBSET DOMAIN exec : B # {} => \E n \in B : Uses(n) \cap B = {}

FileInv == TypeFiles /\ MadeInv /\ YoungInv /\ ObjInv
RunInv  == TypeRun /\ UnitsInv /\ ImportedInv /\ ClosedInv /\ DoneInv /\ OrderInv /\ WriteInv
IInv    == FileInv /\ RunInv /\ LinkedInv

----------------------------------------------------------------------------
(* Modules reached.                                                        *)

\* What is reached is in every set that holds the start and is closed.
LEMMA ReachedLeast ==
  ASSUME NEW next, NEW ms, NEW S \in SUBSET Module, ms \subseteq S,
         \A n \in S : next[n] \subseteq S
  PROVE  Reached(next, ms) \subseteq S
  BY DEF Reached

\* What is reached holds the start, and is closed itself.
LEMMA ReachedClosed ==
  ASSUME NEW next, NEW ms \in SUBSET Module, \A n \in Module : next[n] \subseteq Module
  PROVE  /\ Reached(next, ms) \subseteq Module
         /\ ms \subseteq Reached(next, ms)
         /\ \A n \in Reached(next, ms) : next[n] \subseteq Reached(next, ms)
  BY DEF Reached

\* A file is never no file.
LEMMA AFile ==
  /\ \A t, s : [time |-> t, src |-> s] # NoFile
  /\ \A t, w, d, u, p :
       [time |-> t, whole |-> w, decl |-> d, used |-> u, made |-> p] # NoFile
  BY DEF NoFile

----------------------------------------------------------------------------
(* The modules that are up to date.                                        *)

\* They are the largest set of fresh modules that depend on each other only.
LEMMA UpMember == \A m \in UpToDate : m \in Module /\ Fresh(m) /\ Uses(m) \subseteq UpToDate
  BY DEF UpToDate, IsUpToDate

LEMMA UpIntro == \A S \in SUBSET Module : IsUpToDate(S) => S \subseteq UpToDate
  BY DEF UpToDate

LEMMA UpMemberNext == (\A m \in UpToDate : m \in Module /\ Fresh(m) /\ Uses(m) \subseteq UpToDate)'
  BY UpMember, PTL

LEMMA UpIntroNext == (\A S \in SUBSET Module : IsUpToDate(S) => S \subseteq UpToDate)'
  BY UpIntro, PTL

\* They depend on the sources and interfaces only.
LEMMA UpSame == ASSUME UNCHANGED <<hs, hi>> PROVE UpToDate' = UpToDate
  BY DEF UpToDate, IsUpToDate, Fresh, Uses

\* All sources and interfaces stay but those of one module.
OnlyChanges(n) == \A m \in Module \ {n} : hs'[m] = hs[m] /\ hi'[m] = hi[m]

\* A module that stops being fresh is no longer up to date, and no other one
\* becomes it.
LEMMA UpForget ==
  ASSUME NEW n, OnlyChanges(n), ~ Fresh(n)'
  PROVE  UpToDate' \subseteq UpToDate \ {n}
  <1> DEFINE S == UpToDate'
  <1>1. \A m \in S : m \in Module \ {n} /\ Fresh(m)' /\ Uses(m)' \subseteq S BY UpMemberNext
  <1>2. \A m \in S : hs'[m] = hs[m] /\ hi'[m] = hi[m] BY <1>1 DEF OnlyChanges
  <1>3. \A m \in S : Uses(m)' = Uses(m) BY <1>2 DEF Uses
  <1>4. ASSUME NEW m \in S PROVE Fresh(m) /\ Uses(m) \subseteq S
    BY <1>1, <1>2, <1>3 DEF Fresh
  <1>5. IsUpToDate(S) /\ S \in SUBSET Module BY <1>1, <1>4 DEF IsUpToDate
  <1> QED BY <1>1, <1>5, UpIntro

\* The others stay up to date when none of them depends on the module.
LEMMA UpKeep ==
  ASSUME NEW n, OnlyChanges(n), \A m \in UpToDate : n \notin Uses(m)
  PROVE  UpToDate \ {n} \subseteq UpToDate'
  <1>0. PICK S : S = UpToDate \ {n} OBVIOUS
  <1>1. \A m \in S : m \in Module /\ Fresh(m) /\ Uses(m) \subseteq S BY <1>0, UpMember
  <1>2. \A m \in S : hs'[m] = hs[m] /\ hi'[m] = hi[m] BY <1>0, <1>1 DEF OnlyChanges
  <1>3. \A m \in S : Uses(m)' = Uses(m) BY <1>2 DEF Uses
  <1>4. ASSUME NEW m \in S PROVE Fresh(m)' /\ Uses(m)' \subseteq S
    BY <1>1, <1>2, <1>3 DEF Fresh
  <1>5. IsUpToDate(S)' /\ S \in SUBSET Module BY <1>1, <1>4 DEF IsUpToDate
  <1> QED BY <1>0, <1>5, UpIntroNext

\* A module that is written becomes up to date, and no other one becomes it.
LEMMA UpWrite ==
  ASSUME NEW n \in Module, OnlyChanges(n), Fresh(n)', Uses(n)' \subseteq UpToDate \ {n},
         \A m \in UpToDate : n \notin Uses(m),
         \A m \in Module \ {n} : hi[m] # NoFile /\ n \in Uses(m) => ~ (hi'[n].time <= hi[m].time)
  PROVE  UpToDate' = UpToDate \cup {n}
  <1>1. UpToDate \cup {n} \subseteq UpToDate'
    <2>0. PICK S : S = UpToDate \cup {n} OBVIOUS
    <2>1. \A m \in UpToDate \ {n} : /\ m \in Module /\ Fresh(m) /\ Uses(m) \subseteq UpToDate \ {n}
                                    /\ hs'[m] = hs[m] /\ hi'[m] = hi[m]
      BY UpMember DEF OnlyChanges
    <2>2. \A m \in UpToDate \ {n} : Uses(m)' = Uses(m) BY <2>1 DEF Uses
    <2>3. ASSUME NEW m \in UpToDate \ {n} PROVE Fresh(m)' /\ Uses(m)' \subseteq S
      BY <2>0, <2>1, <2>2 DEF Fresh
    <2>4. IsUpToDate(S)' /\ S \in SUBSET Module BY <2>0, <2>1, <2>3 DEF IsUpToDate
    <2> QED BY <2>0, <2>4, UpIntroNext
  <1>2. UpToDate' \ {n} \subseteq UpToDate
    <2> DEFINE S == UpToDate' \ {n}
    <2>1. \A m \in S : m \in Module \ {n} /\ Fresh(m)' /\ Uses(m)' \subseteq UpToDate' BY UpMemberNext
    <2>2. \A m \in S : hs'[m] = hs[m] /\ hi'[m] = hi[m] BY <2>1 DEF OnlyChanges
    <2>3. \A m \in S : Uses(m)' = Uses(m) BY <2>2 DEF Uses
    <2>4. \A m \in S : n \notin Uses(m) BY <2>1, <2>2, <2>3 DEF Fresh
    <2>5. ASSUME NEW m \in S PROVE Fresh(m) /\ Uses(m) \subseteq S
      BY <2>1, <2>2, <2>3, <2>4 DEF Fresh
    <2>6. IsUpToDate(S) /\ S \in SUBSET Module BY <2>1, <2>5 DEF IsUpToDate
    <2> QED BY <2>6, UpIntro
  <1> QED BY <1>1, <1>2

----------------------------------------------------------------------------
(* The files.                                                              *)

\* Steps that leave the files alone keep the invariant of the files, and as
\* time goes on fewer interfaces are of the present.
LEMMA FileTick ==
  ASSUME FileInv, UNCHANGED files, clock' \in {clock, clock + 1}
  PROVE  FileInv'
  <1> USE DEF files, FileInv
  <1>1. UpToDate' = UpToDate BY UpSame
  <1>2. TypeFiles' BY DEF TypeFiles, TypeHs, TypeHi
  <1>3. MadeInv' BY DEF MadeInv, Made1, Uses
  <1>4. YoungInv' BY <1>1 DEF YoungInv, TypeFiles, TypeHi
  <1>5. ObjInv' BY <1>1 DEF ObjInv
  <1> QED BY <1>2, <1>3, <1>4, <1>5

\* An edit comes in a later second than every write: the interface of the
\* module, if there is one, is older than the source from now on.
LEMMA FileEdit ==
  ASSUME FileInv, NEW n \in Module, NEW src \in Sources[n], Edit(n, src)
  PROVE  FileInv'
  <1> USE DEF FileInv
  <1>1. src \in Source BY DriverAssumption
  <1>2. /\ UNCHANGED <<clock, hi, obj>>
        /\ hs' = [hs EXCEPT ![n] = [time |-> clock, src |-> src]]
    BY DEF Edit
  <1>3. hs'[n] = [time |-> clock, src |-> src] /\ DOMAIN hs' = Module
        /\ \A m \in Module \ {n} : hs'[m] = hs[m]
    BY <1>2 DEF TypeFiles
  <1>4. hs'[n] # NoFile /\ hs'[n].time = clock /\ hs'[n].src = src BY <1>3, AFile
  <1>5. \A m \in Module : hi[m] # NoFile => hi[m].time < clock
    BY DEF Edit, MayEdit, LaterThanWrites
  <1>6. OnlyChanges(n) BY <1>2, <1>3 DEF OnlyChanges
  <1>7. TypeFiles' BY <1>1, <1>2, <1>3, <1>4 DEF TypeFiles, TypeHs, TypeHi
  <1>8. ~ Fresh(n)' BY <1>2, <1>4, <1>5 DEF Fresh, TypeFiles, TypeHi
  <1>9. UpToDate' \subseteq UpToDate \ {n} BY <1>6, <1>8, UpForget
  <1>10. MadeInv'
    <2> SUFFICES ASSUME NEW m \in Module PROVE Made1(m)' BY DEF MadeInv
    <2>1. Uses(m)' = Uses(m) BY <1>2 DEF Uses
    <2>2. CASE m = n
      BY <2>1, <2>2, <1>2, <1>4, <1>5 DEF MadeInv, Made1, TypeFiles, TypeHi
    <2>3. CASE m # n BY <2>1, <2>3, <1>2, <1>3 DEF MadeInv, Made1
    <2> QED BY <2>2, <2>3
  <1>11. YoungInv' BY <1>2, <1>5 DEF YoungInv, TypeFiles, TypeHi
  <1>12. ObjInv' BY <1>2, <1>9 DEF ObjInv
  <1> QED BY <1>7, <1>10, <1>11, <1>12

\* The removal of a module, too, comes later than every write.
LEMMA FileRemove ==
  ASSUME FileInv, NEW n \in Module, Remove(n)
  PROVE  FileInv'
  <1> USE DEF FileInv
  <1>2. /\ UNCHANGED clock
        /\ hs' = [hs EXCEPT ![n] = NoFile]
        /\ hi' = [hi EXCEPT ![n] = NoFile]
        /\ obj' = [obj EXCEPT ![n] = None]
    BY DEF Remove
  <1>3. /\ hs'[n] = NoFile /\ hi'[n] = NoFile
        /\ DOMAIN hs' = Module /\ DOMAIN hi' = Module /\ DOMAIN obj' = Module
        /\ \A m \in Module \ {n} : hs'[m] = hs[m] /\ hi'[m] = hi[m] /\ obj'[m] = obj[m]
    BY <1>2 DEF TypeFiles
  <1>5. \A m \in Module : hi[m] # NoFile => hi[m].time < clock
    BY DEF Remove, MayEdit, LaterThanWrites
  <1>6. OnlyChanges(n) BY <1>3 DEF OnlyChanges
  <1>7. TypeFiles' BY <1>2, <1>3 DEF TypeFiles, TypeHs, TypeHi
  <1>8. ~ Fresh(n)' BY <1>3 DEF Fresh
  <1>9. UpToDate' \subseteq UpToDate \ {n} BY <1>6, <1>8, UpForget
  <1>10. MadeInv'
    <2> SUFFICES ASSUME NEW m \in Module, m # n PROVE Made1(m)' BY <1>3 DEF MadeInv, Made1
    <2>1. Uses(m)' = Uses(m) BY <1>3 DEF Uses
    <2>2. hi[m] # NoFile => Uses(m) \subseteq Module BY DEF Uses, TypeFiles, TypeHi
    <2> QED BY <2>1, <2>2, <1>3 DEF MadeInv, Made1
  <1>11. YoungInv' BY <1>2, <1>3, <1>5 DEF YoungInv, TypeFiles, TypeHi
  <1>12. ObjInv' BY <1>3, <1>9, UpMember DEF ObjInv
  <1> QED BY <1>7, <1>10, <1>11, <1>12

\* A new object for a module that is not up to date.
LEMMA FileObject ==
  ASSUME FileInv, NEW n \in Module, NEW x, n = Top \/ n \notin UpToDate,
         UNCHANGED <<clock, hs, hi>>, obj' = [obj EXCEPT ![n] = x]
  PROVE  FileInv'
  <1> USE DEF FileInv
  <1>1. UpToDate' = UpToDate BY UpSame
  <1>2. TypeFiles' BY DEF TypeFiles, TypeHs, TypeHi
  <1>3. MadeInv' BY DEF MadeInv, Made1, Uses
  <1>4. YoungInv' BY <1>1 DEF YoungInv
  <1>5. \A m \in Module \ {n} : obj'[m] = obj[m] BY DEF TypeFiles
  <1>6. ObjInv' BY <1>1, <1>5, UpMember DEF ObjInv
  <1> QED BY <1>2, <1>3, <1>4, <1>6

\* The interface of a module nothing up to date depends on is removed.
LEMMA FileForget ==
  ASSUME FileInv, NEW n \in Module, \A m \in UpToDate : n \notin Uses(m),
         UNCHANGED <<clock, hs, obj>>, hi' = [hi EXCEPT ![n] = NoFile]
  PROVE  FileInv' /\ UpToDate' = UpToDate \ {n}
  <1> USE DEF FileInv
  <1>3. /\ hi'[n] = NoFile /\ DOMAIN hi' = Module
        /\ \A m \in Module \ {n} : hi'[m] = hi[m]
    BY DEF TypeFiles
  <1>6. OnlyChanges(n) BY <1>3 DEF OnlyChanges
  <1>7. TypeFiles' BY <1>3 DEF TypeFiles, TypeHs, TypeHi
  <1>8. ~ Fresh(n)' BY <1>3 DEF Fresh
  <1>9. UpToDate' = UpToDate \ {n} BY <1>6, <1>8, UpForget, UpKeep
  <1>10. MadeInv'
    <2> SUFFICES ASSUME NEW m \in Module, m # n PROVE Made1(m)' BY <1>3 DEF MadeInv, Made1
    <2>1. Uses(m)' = Uses(m) BY <1>3 DEF Uses
    <2>2. hi[m] # NoFile => Uses(m) \subseteq Module BY DEF Uses, TypeFiles, TypeHi
    <2> QED BY <2>1, <2>2, <1>3 DEF MadeInv, Made1
  <1>11. YoungInv' BY <1>3, <1>9 DEF YoungInv
  <1>12. ObjInv' BY <1>3, <1>9, UpMember DEF ObjInv
  <1> QED BY <1>7, <1>9, <1>10, <1>11, <1>12

\* The interface of a module is written, when what the module needs is up to
\* date and nothing that is depends on the module.
LEMMA FileWrite ==
  ASSUME FileInv, NEW n \in Module, NEW w, hs[n] # NoFile,
         Needs(n) \ {n} \subseteq UpToDate \ {Top},
         n # Top => obj[n] = Made(n),
         \A m \in UpToDate : n \notin Uses(m),
         UNCHANGED <<clock, hs, obj>>, hi' = [hi EXCEPT ![n] = Interface(n, w)]
  PROVE  /\ FileInv' /\ UpToDate' = UpToDate \cup {n}
         /\ Uses(n)' = Needs(n) \ {n} /\ Made(n)' = Made(n)
         /\ \A m \in Module : m # n /\ hi[m] # NoFile /\ n \in Uses(m) => hi[m].time < clock
  <1> USE DEF FileInv
  <1>1. /\ Interface(n, w) # NoFile
        /\ Interface(n, w).time = clock /\ Interface(n, w).made = Made(n)
        /\ Interface(n, w).decl = hs[n].src.imps /\ Interface(n, w).used = hs[n].src.uses
    BY AFile DEF Interface
  <1>2. Needs(n) = hs[n].src.imps \cup hs[n].src.uses BY DEF Needs
  <1>3. /\ hi'[n] = Interface(n, w) /\ DOMAIN hi' = Module
        /\ \A m \in Module \ {n} : hi'[m] = hi[m]
    BY DEF TypeFiles
  <1>4. Uses(n)' = Needs(n) \ {n} BY <1>1, <1>2, <1>3 DEF Uses
  <1>5. \A k \in Needs(n) \ {n} : k \in Module /\ hi'[k] = hi[k] /\ Fresh(k) BY <1>3, UpMember
  <1>6. Made(n) = [src |-> hs[n].src, deps |-> [k \in Needs(n) \ {n} |-> hi[k].made]]
    BY <1>2 DEF Made
  <1>7. Made(n)' = [src |-> hs[n].src, deps |-> [k \in Needs(n) \ {n} |-> hi'[k].made]]
    BY <1>2 DEF Made
  <1>8. Made(n)' = Made(n) BY <1>5, <1>6, <1>7
  <1>9. \A m \in Module : hi[m] # NoFile /\ n \in Uses(m) => hi[m].time < clock
    <2> SUFFICES ASSUME NEW m \in Module, hi[m] # NoFile, n \in Uses(m), ~ (hi[m].time < clock)
                 PROVE  FALSE
      OBVIOUS
    <2>1. hi[m].time = clock BY DEF TypeFiles, TypeHi
    <2> QED BY <2>1 DEF YoungInv
  <1>10. OnlyChanges(n) BY <1>3 DEF OnlyChanges
  <1>11. TypeFiles'
    <2>1. hs[n].src \in Source BY DEF TypeFiles, TypeHs
    <2>2. hs[n].src.imps \in SUBSET Module /\ hs[n].src.uses \in SUBSET Module BY <2>1 DEF Source
    <2> QED BY <1>1, <1>3, <2>2 DEF TypeFiles, TypeHs, TypeHi
  <1>12. Fresh(n)'
    <2>1. \A k \in Needs(n) \ {n} : hi'[k] # NoFile /\ hi'[k].time <= clock
      BY <1>5 DEF Fresh, TypeFiles, TypeHi
    <2>2. hs[n].time <= clock BY DEF TypeFiles, TypeHs
    <2> QED BY <2>1, <2>2, <1>1, <1>3, <1>4 DEF Fresh
  <1>13. UpToDate' = UpToDate \cup {n}
    <2>1. \A m \in Module \ {n} : hi[m] # NoFile /\ n \in Uses(m) => ~ (hi'[n].time <= hi[m].time)
      BY <1>9, <1>1, <1>3 DEF TypeFiles, TypeHi
    <2>2. Uses(n)' \subseteq UpToDate \ {n} BY <1>4
    <2> QED BY <2>1, <2>2, <1>10, <1>12, UpWrite
  <1>14. MadeInv'
    <2> SUFFICES ASSUME NEW m \in Module PROVE Made1(m)' BY DEF MadeInv
    <2>1. CASE m = n
      <3>1. hi'[n] # NoFile /\ hs'[n] # NoFile /\ Top \notin Uses(n)' BY <1>1, <1>3, <1>4
      <3>2. hi'[n].made = Made(n) /\ hi'[n].made.src = hs'[n].src BY <1>1, <1>3, <1>6
      <3>3. \A k \in Uses(n)' : hi'[n].made.deps[k] = hi'[k].made BY <3>2, <1>4, <1>5, <1>6
      <3>4. hi'[n].made.deps = [k \in Uses(n)' |-> hi'[k].made] BY <3>2, <1>4, <1>7, <1>8
      <3>5. hi'[n].made = [src |-> hi'[n].made.src, deps |-> hi'[n].made.deps] BY <3>2, <1>6
      <3>6. hi'[n].made.deps = [k \in Uses(n)' |-> hi'[n].made.deps[k]] BY <3>4
      <3>7. hi'[n].decl = hs'[n].src.imps /\ hi'[n].used = hs'[n].src.uses BY <1>1, <1>3
      <3> QED BY <2>1, <3>1, <3>2, <3>3, <3>5, <3>6, <3>7 DEF Made1
    <2>2. CASE m # n
      <3>1. Uses(m)' = Uses(m) BY <2>2, <1>3 DEF Uses
      <3>2. hi[m] # NoFile => Uses(m) \subseteq Module BY DEF Uses, TypeFiles, TypeHi
      <3>3. hi[m] # NoFile /\ n \in Uses(m) => ~ (hi'[n].time <= hi[m].time)
        BY <1>9, <1>1, <1>3 DEF TypeFiles, TypeHi
      <3> QED BY <2>2, <3>1, <3>2, <3>3, <1>3 DEF MadeInv, Made1
    <2> QED BY <2>1, <2>2
  <1>15. YoungInv' BY <1>3, <1>13 DEF YoungInv
  <1>16. ObjInv' BY <1>1, <1>3, <1>13, UpMember DEF ObjInv
  <1> QED BY <1>4, <1>8, <1>9, <1>11, <1>13, <1>14, <1>15, <1>16

----------------------------------------------------------------------------
(* The decision.                                                           *)

\* The unit of a module that has not been compiled says what its files say.
LEMMA UnitSays ==
  ASSUME FileInv, NEW m \in Module, hs[m] # NoFile
  PROVE  /\ Unit(m) \in UnitType /\ Unit(m).nm = m /\ Unit(m).imps = hs[m].src.imps
         /\ Unit(m).hsTime = Whole(hs[m].time) /\ (Unit(m).valid <=> hi[m] # NoFile)
         /\ hi[m] # NoFile => /\ Unit(m).hiTime = Whole(hi[m].time)
                              /\ Unit(m).decl = hi[m].decl /\ Unit(m).used = hi[m].used
                              /\ Uses(m) \subseteq Imports(Unit(m))
                              /\ hs[m].time <= hi[m].time => Imports(Unit(m)) = Uses(m)
         /\ hi[m] = NoFile => Unit(m).hiTime = None
  <1> USE DEF FileInv
  <1>1. hs[m].time \in Nat /\ hs[m].src.imps \in SUBSET Module
    <2>1. hs[m].time \in Nat /\ hs[m].src \in Source BY DEF TypeFiles, TypeHs
    <2> QED BY <2>1 DEF Source
  <1>2. hi[m] # NoFile => /\ hi[m].time \in Nat
                          /\ hi[m].decl \in SUBSET Module /\ hi[m].used \in SUBSET Module
    BY DEF TypeFiles, TypeHi
  <1>3. Whole(hs[m].time) \in Nat /\ (hi[m] # NoFile => Whole(hi[m].time) \in Nat)
    BY <1>1, <1>2 DEF Whole
  <1>4. CASE hi[m] = NoFile
    <2>1. Unit(m) = [nm |-> m, imps |-> hs[m].src.imps, hsTime |-> Whole(hs[m].time),
                     hiTime |-> None, valid |-> FALSE, decl |-> {}, used |-> {}]
      BY <1>4 DEF Unit
    <2>2. Unit(m) \in UnitType BY <2>1, <1>1, <1>3 DEF UnitType
    <2> QED BY <2>1, <2>2, <1>4
  <1>5. CASE hi[m] # NoFile
    <2>1. Unit(m) = [nm |-> m, imps |-> hs[m].src.imps, hsTime |-> Whole(hs[m].time),
                     hiTime |-> Whole(hi[m].time), valid |-> TRUE,
                     decl |-> hi[m].decl, used |-> hi[m].used]
      BY <1>5 DEF Unit
    <2>2. Imports(Unit(m)) = (hs[m].src.imps \cup hi[m].decl \cup hi[m].used) \ {m}
      BY <2>1 DEF Imports
    <2>3. hs[m].time <= hi[m].time => hs[m].src.imps = hi[m].decl
      BY <1>5 DEF MadeInv, Made1
    <2>4. Unit(m) \in UnitType BY <2>1, <1>1, <1>2, <1>3, <1>5 DEF UnitType
    <2>5. Uses(m) \subseteq Imports(Unit(m)) BY <2>2 DEF Uses
    <2>6. hs[m].time <= hi[m].time => Imports(Unit(m)) = Uses(m) BY <2>2, <2>3 DEF Uses
    <2>7. /\ Unit(m).nm = m /\ Unit(m).imps = hs[m].src.imps
          /\ Unit(m).hsTime = Whole(hs[m].time) /\ Unit(m).valid
          /\ Unit(m).hiTime = Whole(hi[m].time)
          /\ Unit(m).decl = hi[m].decl /\ Unit(m).used = hi[m].used
      BY <2>1
    <2> QED BY <2>4, <2>5, <2>6, <2>7, <1>5
  <1> QED BY <1>4, <1>5

\* What is next in the order is as the files say.
LEMMA NextUnit ==
  ASSUME RunInv, pc = "compile", NEW m \in DOMAIN cu, IsNext(m)
  PROVE  /\ m \in Module /\ m \notin done /\ hs[m] # NoFile
         /\ cu[m] = Unit(m) /\ Imports(cu[m]) \subseteq done
  BY DEF RunInv, TypeRun, UnitsInv, Unit1, IsNext, Busy, Writing

\* A module that is up to date is not compiled again, but for the main module.
LEMMA CompiledIsOld ==
  ASSUME FileInv, RunInv, pc = "compile", NEW m \in DOMAIN cu, IsNext(m),
         NeedsCompile(cu[m], cu), m # Top
  PROVE  m \notin UpToDate
  <1> SUFFICES ASSUME m \in UpToDate PROVE FALSE OBVIOUS
  <1>1. /\ m \in Module /\ m \notin done /\ hs[m] # NoFile
        /\ cu[m] = Unit(m) /\ Imports(cu[m]) \subseteq done
    BY NextUnit
  <1>2. Fresh(m) BY UpMember
  <1>3. /\ hi[m] # NoFile /\ hs[m].time <= hi[m].time
        /\ \A k \in Uses(m) : hi[k] # NoFile /\ hi[k].time <= hi[m].time
    BY <1>2 DEF Fresh
  <1>4. /\ cu[m].nm = m /\ cu[m].hsTime = Whole(hs[m].time) /\ cu[m].valid
        /\ cu[m].hiTime = Whole(hi[m].time) /\ Imports(cu[m]) = Uses(m)
    BY <1>1, <1>3, UnitSays
  <1>5. hs[m].time \in Nat /\ hi[m].time \in Nat BY <1>1, <1>3 DEF FileInv, TypeFiles, TypeHs, TypeHi
  <1>6. ~ IsHSNewerThanHI(cu[m])
    <2>1. Whole(hi[m].time) \in Nat /\ ~ IsNewer(Whole(hs[m].time), Whole(hi[m].time))
      BY <1>3, <1>5 DEF Whole, IsNewer
    <2> QED BY <2>1, <1>4, NoneAssumption DEF IsHSNewerThanHI
  <1>7. ASSUME NEW k \in Imports(cu[m]) PROVE ~ IsNewer(cu[k].hiTime, cu[m].hiTime)
    <2>1. k \in done /\ k \in Uses(m) BY <1>1, <1>4
    <2>2. Done1(k) /\ k \in UpToDate BY <2>1 DEF RunInv, DoneInv, Done1
    <2>3. k \in Module /\ hi[k] # NoFile /\ hi[k].time <= hi[m].time BY <2>1, <2>2, <1>3, UpMember
    <2>4. hi[k].time \in Nat BY <2>3 DEF FileInv, TypeFiles, TypeHi
    <2>5. m \in Module \ (done \cup Busy) BY <1>1 DEF Busy, Writing
    <2>6. cu[k].hiTime = Whole(hi[k].time)
      BY <2>1, <2>2, <2>3, <2>4, <2>5, <1>3, <1>5 DEF Done1
    <2> QED BY <2>3, <2>4, <2>6, <1>4, <1>5 DEF Whole, IsNewer
  <1>8. NewerImports(cu[m], cu) = {} BY <1>7 DEF NewerImports
  <1> QED BY <1>4, <1>6, <1>8 DEF NeedsCompile, IsMainMod, CanUseHIInsteadOfHS

\* A module whose interface is used is up to date, when what it imports is.
LEMMA UsedIsNew ==
  ASSUME FileInv, RunInv, pc = "compile", NEW m \in DOMAIN cu, IsNext(m),
         ~ NeedsCompile(cu[m], cu)
  PROVE  /\ m # Top /\ m \in UpToDate /\ Uses(m) \subseteq Imports(cu[m])
         /\ cu[m].hiTime = Whole(hi[m].time)
  <1>1. /\ m \in Module /\ m \notin done /\ hs[m] # NoFile
        /\ cu[m] = Unit(m) /\ Imports(cu[m]) \subseteq done
    BY NextUnit
  <1>2. /\ cu[m].nm # Top /\ cu[m].valid /\ cu[m].hiTime # None
        /\ ~ IsNewer(cu[m].hsTime, cu[m].hiTime) /\ NewerImports(cu[m], cu) = {}
    BY DEF NeedsCompile, IsMainMod, CanUseHIInsteadOfHS, IsHSNewerThanHI
  <1>3. cu[m].nm = m /\ hi[m] # NoFile BY <1>1, <1>2, UnitSays
  <1>4. /\ cu[m].hsTime = Whole(hs[m].time) /\ cu[m].hiTime = Whole(hi[m].time)
        /\ Uses(m) \subseteq Imports(cu[m])
    BY <1>1, <1>3, UnitSays
  <1>5. hs[m].time \in Nat /\ hi[m].time \in Nat BY <1>1, <1>3 DEF FileInv, TypeFiles, TypeHs, TypeHi
  <1>6. hs[m].time <= hi[m].time BY <1>2, <1>4, <1>5 DEF Whole, IsNewer
  <1>7. ASSUME NEW k \in Uses(m) PROVE hi[k] # NoFile /\ hi[k].time <= hi[m].time
    <2>1. k \in done /\ k \in Imports(cu[m]) BY <1>1, <1>4
    <2>2. Done1(k) /\ k \in UpToDate BY <2>1 DEF RunInv, DoneInv, Done1
    <2>3. k \in Module /\ hi[k] # NoFile BY <2>2, UpMember DEF Fresh
    <2>4. hi[k].time \in Nat BY <2>3 DEF FileInv, TypeFiles, TypeHi
    <2>5. cu[k].hiTime \in {Whole(hi[k].time), Fractional(hi[k].time)} BY <2>2 DEF Done1
    <2>6. cu[k].hiTime # None BY <2>4, <2>5, NoneAssumption DEF Whole, Fractional
    <2>7. ~ IsNewer(cu[k].hiTime, cu[m].hiTime) BY <2>1, <2>6, <1>2 DEF NewerImports
    <2> QED BY <2>3, <2>4, <2>5, <2>7, <1>4, <1>5 DEF Whole, Fractional, IsNewer
  <1>8. Fresh(m) BY <1>3, <1>6, <1>7 DEF Fresh
  <1>9. Uses(m) \subseteq UpToDate BY <1>1, <1>4 DEF RunInv, DoneInv, Done1
  <1>10. m \in UpToDate
    <2> DEFINE S == UpToDate \cup {m}
    <2>1. IsUpToDate(S) BY <1>8, <1>9, UpMember DEF IsUpToDate
    <2>2. S \in SUBSET Module BY <1>1, UpMember
    <2> QED BY <2>1, <2>2, UpIntro
  <1> QED BY <1>2, <1>3, <1>4, <1>10

----------------------------------------------------------------------------
(* The run.                                                                *)

\* With no run going on there is nothing to say of one.
LEMMA RunIdle == (pc = "idle" /\ DOMAIN cu = {} /\ done = {} => RunInv)'
  <1>1. pc = "idle" /\ DOMAIN cu = {} /\ done = {} => RunInv
    BY DEF RunInv, TypeRun, UnitsInv, ImportedInv, ClosedInv, Compiling, DoneInv, OrderInv,
           WriteInv, Writing
  <1> QED BY <1>1, PTL

\* Time may go on during a run.
LEMMA RunSame ==
  ASSUME RunInv, UNCHANGED <<files, pc, cu, done, cur>>
  PROVE  RunInv'
  <1> USE DEF files, RunInv
  <1>1. UpToDate' = UpToDate BY UpSame
  <1>2. TypeRun' BY DEF TypeRun, UnitType
  <1>3. Busy' = Busy /\ Writing' = Writing BY DEF Busy, Writing
  <1>4. \A m : Uses(m)' = Uses(m) /\ Unit(m)' = Unit(m) /\ Needs(m)' = Needs(m) /\ Made(m)' = Made(m)
    BY DEF Uses, Unit, Needs, Made
  <1>5. UnitsInv' BY <1>3, <1>4 DEF UnitsInv, Unit1
  <1>6. ImportedInv' BY DEF ImportedInv, Imports
  <1>7. ClosedInv' BY DEF ClosedInv, Compiling, Imports
  <1>8. DoneInv' BY <1>1, <1>3, <1>4 DEF DoneInv, Done1, Imports
  <1>9. OrderInv' BY <1>4 DEF OrderInv
  <1>10. WriteInv' BY <1>1, <1>3, <1>4 DEF WriteInv, Imports
  <1> QED BY <1>2, <1>5, <1>6, <1>7, <1>8, <1>9, <1>10

\* What a unit imports are modules.
LEMMA ImportsModules == ASSUME NEW u \in UnitType PROVE Imports(u) \in SUBSET Module
  BY DEF UnitType, Imports

\* A module that is found becomes a unit; it was imported from one.
LEMMA RunImport ==
  ASSUME FileInv, RunInv, pc = "import", NEW m \in ToImport, ImportFound(m)
  PROVE  RunInv'
  <1> USE DEF files, RunInv, ImportFound
  <1>0. m \in Module
    <2>1. CASE m = Top BY <2>1, DriverAssumption
    <2>2. CASE \E n \in DOMAIN cu : m \in Imports(cu[n])
      BY <2>2, ImportsModules DEF TypeRun
    <2> QED BY <2>1, <2>2 DEF ToImport
  <1>1. /\ m \notin DOMAIN cu /\ hs[m] # NoFile /\ done = {} /\ done' = {} /\ pc' = "import"
        /\ DOMAIN cu' = DOMAIN cu \cup {m} /\ cu'[m] = Unit(m)
        /\ \A n \in DOMAIN cu : cu'[n] = cu[n]
    BY DEF ToImport, TypeRun
  <1>2. Unit(m) \in UnitType /\ Unit(m).nm = m /\ Unit(m).imps = hs[m].src.imps
    BY <1>0, <1>1, UnitSays
  <1>3. TypeRun' BY <1>0, <1>1, <1>2 DEF TypeRun, UnitType
  <1>4. \A n : Unit(n)' = Unit(n) BY DEF Unit
  <1>5. UnitsInv'
    <2>1. Busy = {} BY DEF Busy, Writing
    <2> SUFFICES ASSUME NEW n \in DOMAIN cu' PROVE Unit1(n)' BY DEF UnitsInv
    <2>2. CASE n = m BY <2>2, <1>1, <1>2, <1>4 DEF Unit1
    <2>3. CASE n # m BY <2>1, <2>3, <1>1, <1>4 DEF UnitsInv, Unit1
    <2> QED BY <2>2, <2>3
  <1>6. ImportedInv'
    <2> SUFFICES ASSUME NEW S \in SUBSET Module, Top \in S,
                        \A n \in S \cap DOMAIN cu' : Imports(cu'[n]) \subseteq S
                 PROVE  DOMAIN cu' \subseteq S
      BY DEF ImportedInv, Imports
    <2>1. \A n \in S \cap DOMAIN cu : Imports(cu[n]) \subseteq S BY <1>1
    <2>2. DOMAIN cu \subseteq S BY <2>1, <1>1 DEF ImportedInv
    <2>3. m \in S BY <2>1, <2>2 DEF ToImport
    <2> QED BY <2>2, <2>3, <1>1
  <1>7. ClosedInv' /\ DoneInv' /\ OrderInv' /\ WriteInv'
    BY <1>1 DEF ClosedInv, Compiling, DoneInv, OrderInv, WriteInv, Writing
  <1> QED BY <1>3, <1>5, <1>6, <1>7

\* All that is imported has been found: compiling may begin.
LEMMA RunOrder ==
  ASSUME RunInv, pc = "import", ToImport = {}, pc' = "compile", UNCHANGED <<files, cu, done, cur>>
  PROVE  RunInv'
  <1> USE DEF files, RunInv
  <1>1. done = {} BY DEF TypeRun
  <1>2. TypeRun' BY DEF TypeRun, UnitType
  <1>3. UnitsInv'
    <2>1. Busy = {} /\ Busy' = {} BY DEF Busy, Writing
    <2> QED BY <2>1 DEF UnitsInv, Unit1, Unit
  <1>4. ImportedInv' BY DEF ImportedInv, Imports
  <1>5. ClosedInv' BY <1>1 DEF ClosedInv, ToImport, Imports
  <1>6. DoneInv' /\ OrderInv' BY <1>1 DEF DoneInv, OrderInv
  <1>7. WriteInv' BY DEF WriteInv, Writing
  <1> QED BY <1>2, <1>3, <1>4, <1>5, <1>6, <1>7

\* A module added to those that are done comes after all it depends on.
LEMMA OrderAdd ==
  ASSUME OrderInv, NEW m, m \notin done, Uses(m)' \subseteq done, done' = done \cup {m},
         \A n \in done : Uses(n)' = Uses(n) /\ Uses(n) \subseteq done
  PROVE  OrderInv'
  <1> SUFFICES ASSUME NEW B \in SUBSET done', B # {}
               PROVE  \E n \in B : Uses(n)' \cap B = {}
    BY DEF OrderInv
  <1>1. CASE B = {m} BY <1>1
  <1>2. CASE B # {m}
    <2>1. B \ {m} \in SUBSET done /\ B \ {m} # {} BY <1>2
    <2>2. PICK n \in B \ {m} : Uses(n) \cap (B \ {m}) = {} BY <2>1 DEF OrderInv
    <2> QED BY <2>1, <2>2
  <1> QED BY <1>1, <1>2

\* The interface of a module is used.
LEMMA RunUseHI ==
  ASSUME FileInv, RunInv, NEW m \in DOMAIN cu, UseHI(m)
  PROVE  RunInv'
  <1> USE DEF files, RunInv, UseHI
  <1>1. /\ m \in Module /\ m \notin done /\ hs[m] # NoFile
        /\ cu[m] = Unit(m) /\ Imports(cu[m]) \subseteq done
    BY NextUnit
  <1>2. /\ m # Top /\ m \in UpToDate /\ Uses(m) \subseteq Imports(cu[m])
        /\ cu[m].hiTime = Whole(hi[m].time)
    BY UsedIsNew
  <1>3. UpToDate' = UpToDate BY UpSame
  <1>4. Busy = {} /\ Busy' = {} BY DEF Busy, Writing
  <1>5. TypeRun' BY DEF TypeRun, UnitType
  <1>6. \A n : Uses(n)' = Uses(n) /\ Unit(n)' = Unit(n) BY DEF Uses, Unit
  <1>7. UnitsInv' BY <1>4, <1>6 DEF UnitsInv, Unit1
  <1>8. ImportedInv' BY DEF ImportedInv, Imports
  <1>9. ClosedInv' BY <1>2 DEF ClosedInv, Compiling, Imports
  <1>10. DoneInv'
    <2> SUFFICES ASSUME NEW n \in done' PROVE Done1(n)' BY DEF DoneInv
    <2>1. CASE n = m BY <2>1, <1>1, <1>2, <1>3, <1>6 DEF Done1, Imports, Whole
    <2>2. CASE n \in done
      BY <2>2, <1>3, <1>4, <1>6 DEF DoneInv, Done1, Imports, Whole, Fractional
    <2> QED BY <2>1, <2>2
  <1>11. OrderInv' BY <1>1, <1>2, <1>6, OrderAdd DEF DoneInv, Done1
  <1>12. WriteInv' BY DEF WriteInv, Writing
  <1> QED BY <1>5, <1>7, <1>8, <1>9, <1>10, <1>11, <1>12

\* What a module that is next needs has been done: what it imports because it
\* is next, what it uses without importing because it is in scope.
LEMMA NeedsDone ==
  ASSUME FileInv, RunInv, pc = "compile", NEW m \in DOMAIN cu, IsNext(m), InScope(m)
  PROVE  Needs(m) \ {m} \subseteq done
  <1>1. /\ m \in Module /\ m \notin done /\ hs[m] # NoFile
        /\ cu[m] = Unit(m) /\ Imports(cu[m]) \subseteq done
    BY NextUnit
  <1>2. cu[m].nm = m /\ cu[m].imps = hs[m].src.imps BY <1>1, UnitSays
  <1>3. hs[m].src.imps \subseteq done \cup {m} BY <1>1, <1>2 DEF Imports
  <1> DEFINE next == [n \in Module |-> IF n \in DOMAIN cu THEN Imports(cu[n]) ELSE {}]
             S    == done \cup {m}
  <1>4. S \in SUBSET Module BY <1>1 DEF RunInv, TypeRun
  <1>5. ASSUME NEW n \in S PROVE next[n] \subseteq S
    BY <1>1, <1>4 DEF RunInv, DoneInv, Done1
  <1>6. Reached(next, cu[m].imps) \subseteq S
    <2> HIDE DEF next, S
    <2>1. cu[m].imps \subseteq S BY <1>2, <1>3 DEF S
    <2> QED BY <2>1, <1>4, <1>5, ReachedLeast
  <1>7. hs[m].src.uses \subseteq S BY <1>6 DEF InScope, ReachFrom
  <1> QED BY <1>1, <1>3, <1>7 DEF Needs

\* Nothing that is up to date depends on a module about to be compiled.
LEMMA NoneDependOn ==
  ASSUME FileInv, RunInv, pc = "compile", NEW m \in DOMAIN cu, IsNext(m), NeedsCompile(cu[m], cu)
  PROVE  \A n \in UpToDate : m \notin Uses(n)
  <1>1. CASE m = Top BY <1>1, UpMember DEF FileInv, MadeInv, Made1, Fresh
  <1>2. CASE m # Top BY <1>2, CompiledIsOld, UpMember
  <1> QED BY <1>1, <1>2

\* When the main module is next all others are done.
LEMMA TopIsLast ==
  ASSUME RunInv, pc = "compile", Top \in DOMAIN cu, IsNext(Top)
  PROVE  DOMAIN cu \subseteq done \cup {Top}
  <1> DEFINE S == done \cup {Top}
  <1>1. S \in SUBSET Module BY DriverAssumption DEF RunInv, TypeRun
  <1>2. \A n \in S \cap DOMAIN cu : Imports(cu[n]) \subseteq S
    BY DEF RunInv, DoneInv, Done1, IsNext
  <1> QED BY <1>1, <1>2 DEF RunInv, ImportedInv

\* A module is compiled and its object written.
LEMMA RunCompile ==
  ASSUME FileInv, RunInv, NEW m \in DOMAIN cu, Compile(m), hs[m].src.ok /\ InScope(m)
  PROVE  RunInv' /\ FileInv'
  <1> USE DEF RunInv
  <1>0. /\ pc = "compile" /\ IsNext(m) /\ NeedsCompile(cu[m], cu)
        /\ cur' = m /\ pc' = "remove hi"
        /\ obj' = IF IsMainMod(cu[m]) THEN obj ELSE [obj EXCEPT ![m] = Made(m)]
        /\ UNCHANGED <<clock, hs, hi, exec, cu, done>>
    BY DEF Compile
  <1>1. /\ m \in Module /\ m \notin done /\ hs[m] # NoFile
        /\ cu[m] = Unit(m) /\ Imports(cu[m]) \subseteq done
    BY <1>0, NextUnit
  <1>2. cu[m].nm = m BY <1>1, UnitSays
  <1>3. UpToDate' = UpToDate BY <1>0, UpSame
  <1>4. Busy = {} /\ Busy' = {m} BY <1>0 DEF Busy, Writing
  <1>5. TypeRun' BY <1>0, <1>1 DEF TypeRun, UnitType
  <1>6. \A n : Uses(n)' = Uses(n) /\ Unit(n)' = Unit(n) /\ Needs(n)' = Needs(n) /\ Made(n)' = Made(n)
    BY <1>0 DEF Uses, Unit, Needs, Made
  <1>7. UnitsInv' BY <1>0, <1>4, <1>6 DEF UnitsInv, Unit1
  <1>8. ImportedInv' BY <1>0 DEF ImportedInv, Imports
  <1>9. ClosedInv' BY <1>0 DEF ClosedInv, Compiling, Imports
  <1>10. DoneInv' BY <1>0, <1>3, <1>4, <1>6 DEF DoneInv, Done1, Imports, Whole, Fractional
  <1>11. OrderInv' BY <1>0, <1>6 DEF OrderInv
  <1>12. WriteInv'
    <2>1. Needs(m) \ {m} \subseteq done BY <1>0, NeedsDone
    <2>2. \A n \in UpToDate : m \notin Uses(n) BY <1>0, NoneDependOn
    <2>3. m # Top => obj'[m] = Made(m) BY <1>0, <1>1, <1>2 DEF IsMainMod, FileInv, TypeFiles
    <2>4. m = Top => DOMAIN cu \subseteq done \cup {Top} BY <1>0, TopIsLast
    <2>5. Imports(cu[m])' = Imports(cu[m]) BY <1>0 DEF Imports
    <2>6. /\ cur' \in DOMAIN cu' \ done' /\ Imports(cu'[cur']) \subseteq done'
          /\ Needs(cur)' \ {cur'} \subseteq done'
      BY <2>1, <2>5, <1>0, <1>1 DEF Needs
    <2>7. /\ cur' # Top => obj'[cur'] = Made(cur)'
          /\ cur' = Top => DOMAIN cu' \subseteq done' \cup {Top}
      BY <2>3, <2>4, <1>0 DEF Made
    <2>8. \A n \in UpToDate' : cur' \notin Uses(n)' BY <2>2, <1>0, <1>3, <1>6
    <2>9. pc' # "open hi" BY <1>0
    <2> QED BY <2>6, <2>7, <2>8, <2>9 DEF WriteInv, Imports
  <1>13. FileInv'
    <2>1. CASE m = Top
      <3>1. obj' = obj BY <2>1, <1>0, <1>2 DEF IsMainMod
      <3> QED BY <3>1, <1>0, FileTick DEF files
    <2>2. CASE m # Top
      <3>1. obj' = [obj EXCEPT ![m] = Made(m)] BY <2>2, <1>0, <1>2 DEF IsMainMod
      <3>2. m \notin UpToDate BY <2>2, <1>0, CompiledIsOld
      <3> QED BY <3>1, <3>2, <1>0, <1>1, FileObject
    <2> QED BY <2>1, <2>2
  <1> QED BY <1>5, <1>7, <1>8, <1>9, <1>10, <1>11, <1>12, <1>13

\* What a step that writes or removes the interface of cur leaves as it was.
LEMMA WriteFrame ==
  ASSUME FileInv, RunInv, Writing, UNCHANGED hs, NEW c, c = cur, OnlyChanges(c)
  PROVE  /\ c \in Module /\ c \notin done
         /\ \A n \in Module \ {c} : Uses(n)' = Uses(n) /\ Unit(n)' = Unit(n)
         /\ \A n : Needs(n)' = Needs(n)
         /\ Made(c)' = Made(c)
  <1> USE DEF RunInv
  <1>1. c \in Module /\ c \notin done /\ Needs(c) \ {c} \subseteq done
    BY DEF WriteInv, TypeRun
  <1>2. \A n \in Module \ {c} : hi'[n] = hi[n] /\ hs'[n] = hs[n] BY DEF OnlyChanges
  <1>3. \A n \in Module \ {c} : Uses(n)' = Uses(n) /\ Unit(n)' = Unit(n)
    BY <1>2 DEF Uses, Unit
  <1>4. \A n : Needs(n)' = Needs(n) BY DEF Needs
  <1>5. hs[c] # NoFile BY DEF WriteInv, UnitsInv, Unit1
  <1>6. Needs(c) = hs[c].src.imps \cup hs[c].src.uses BY <1>5 DEF Needs
  <1>7. Made(c) = [src |-> hs[c].src, deps |-> [i \in Needs(c) \ {c} |-> hi[i].made]]
    BY <1>6 DEF Made
  <1>8. /\ hs'[c].src = hs[c].src
        /\ Made(c)' = [src |-> hs'[c].src, deps |-> [i \in Needs(c) \ {c} |-> hi'[i].made]]
    BY <1>6 DEF Made
  <1>9. \A i \in Needs(c) \ {c} : hi'[i] = hi[i] BY <1>1, <1>2 DEF TypeRun
  <1>10. Made(c)' = Made(c) BY <1>7, <1>8, <1>9
  <1> QED BY <1>1, <1>3, <1>4, <1>10

\* The old interface is removed.
LEMMA RunRemoveHI ==
  ASSUME FileInv, RunInv, RemoveHI
  PROVE  FileInv' /\ RunInv'
  <1> USE DEF RunInv
  <1>0. /\ pc = "remove hi" /\ pc' = "open hi" /\ hi' = [hi EXCEPT ![cur] = NoFile]
        /\ UNCHANGED <<clock, hs, obj, cu, done, cur>>
    BY DEF RemoveHI
  <1>1. Writing /\ Writing' /\ Busy = {cur} /\ Busy' = {cur} BY <1>0 DEF Writing, Busy
  <1>2. /\ cur \in DOMAIN cu \ done /\ cur \in Module
        /\ Needs(cur) \ {cur} \subseteq done /\ \A m \in UpToDate : cur \notin Uses(m)
    BY <1>1 DEF WriteInv, TypeRun
  <1>3. hi'[cur] = NoFile /\ OnlyChanges(cur) BY <1>0, <1>2 DEF OnlyChanges, FileInv, TypeFiles
  <1>4. FileInv' /\ UpToDate' = UpToDate \ {cur} BY <1>0, <1>2, FileForget
  <1>5. /\ \A n \in Module \ {cur} : Uses(n)' = Uses(n) /\ Unit(n)' = Unit(n)
        /\ \A n : Needs(n)' = Needs(n)
        /\ Made(cur)' = Made(cur)
    BY <1>0, <1>1, <1>3, WriteFrame
  <1>6. TypeRun' BY <1>0 DEF TypeRun, UnitType
  <1>7. UnitsInv'
    <2> SUFFICES ASSUME NEW n \in DOMAIN cu PROVE Unit1(n)' BY <1>0 DEF UnitsInv
    <2>1. n \in Module /\ Unit1(n) BY DEF UnitsInv, TypeRun
    <2>2. n # cur => Unit(n)' = Unit(n) BY <2>1, <1>5
    <2> QED BY <2>1, <2>2, <1>0, <1>1 DEF Unit1
  <1>8. ImportedInv' BY <1>0 DEF ImportedInv, Imports
  <1>9. ClosedInv' BY <1>0 DEF ClosedInv, Compiling, Imports
  <1>10. DoneInv'
    <2> SUFFICES ASSUME NEW n \in done PROVE Done1(n)' BY <1>0 DEF DoneInv
    <2>1. n \in Module \ {cur} /\ Done1(n) /\ hi'[n] = hi[n]
      BY <1>2, <1>3 DEF DoneInv, TypeRun, OnlyChanges
    <2>2. n \in UpToDate' /\ Uses(n)' = Uses(n) BY <2>1, <1>4, <1>5 DEF Done1
    <2>3. \A m \in Module \ (done \cup {cur}) : Uses(m)' = Uses(m) /\ hi'[m] = hi[m]
      BY <1>3, <1>5 DEF OnlyChanges
    <2> QED BY <2>1, <2>2, <2>3, <1>0, <1>1 DEF Done1, Imports, Whole, Fractional
  <1>11. OrderInv' BY <1>0, <1>2, <1>5, ZenonT(60) DEF OrderInv, TypeRun
  <1>12. WriteInv'
    <2>1. \A m \in UpToDate' : cur \notin Uses(m)' BY <1>2, <1>4, <1>5, UpMember
    <2> QED BY <2>1, <1>0, <1>1, <1>3, <1>5 DEF WriteInv, Imports
  <1> QED BY <1>4, <1>6, <1>7, <1>8, <1>9, <1>10, <1>11, <1>12

\* The new one is opened, and cut short as long as it is.
LEMMA RunOpenHI ==
  ASSUME FileInv, RunInv, OpenHI
  PROVE  FileInv' /\ RunInv'
  <1> USE DEF RunInv
  <1>0. /\ pc = "open hi" /\ pc' = "close hi" /\ hi' = [hi EXCEPT ![cur] = Interface(cur, FALSE)]
        /\ UNCHANGED <<clock, hs, obj, cu, done, cur>>
    BY DEF OpenHI
  <1>1. Writing /\ Writing' /\ Busy = {cur} /\ Busy' = {cur} BY <1>0 DEF Writing, Busy
  <1>2. /\ cur \in DOMAIN cu \ done /\ cur \in Module /\ hs[cur] # NoFile
        /\ Needs(cur) \ {cur} \subseteq done /\ \A m \in UpToDate : cur \notin Uses(m)
    BY <1>1 DEF WriteInv, TypeRun, UnitsInv, Unit1
  <1>3. OnlyChanges(cur) BY <1>0, <1>2 DEF OnlyChanges, FileInv, TypeFiles
  <1>4. Needs(cur) \ {cur} \subseteq UpToDate \ {Top}
    <2>1. done \subseteq UpToDate BY DEF DoneInv, Done1
    <2>2. Top \notin Needs(cur) \ {cur}
      BY <1>0, <1>2 DEF ClosedInv, Compiling
    <2> QED BY <2>1, <2>2, <1>2
  <1>5. cur # Top => obj[cur] = Made(cur) BY <1>1 DEF WriteInv
  <1>6. FileInv' /\ UpToDate' = UpToDate \cup {cur} /\ Uses(cur)' = Needs(cur) \ {cur}
    BY <1>0, <1>2, <1>4, <1>5, FileWrite
  <1>7. /\ \A n \in Module \ {cur} : Uses(n)' = Uses(n) /\ Unit(n)' = Unit(n)
        /\ \A n : Needs(n)' = Needs(n)
        /\ Made(cur)' = Made(cur)
    BY <1>0, <1>1, <1>3, WriteFrame
  <1>8. TypeRun' BY <1>0 DEF TypeRun, UnitType
  <1>9. UnitsInv'
    <2> SUFFICES ASSUME NEW n \in DOMAIN cu PROVE Unit1(n)' BY <1>0 DEF UnitsInv
    <2>1. n \in Module /\ Unit1(n) BY DEF UnitsInv, TypeRun
    <2>2. n # cur => Unit(n)' = Unit(n) BY <2>1, <1>7
    <2> QED BY <2>1, <2>2, <1>0, <1>1 DEF Unit1
  <1>10. ImportedInv' BY <1>0 DEF ImportedInv, Imports
  <1>11. ClosedInv' BY <1>0 DEF ClosedInv, Compiling, Imports
  <1>12. DoneInv'
    <2> SUFFICES ASSUME NEW n \in done PROVE Done1(n)' BY <1>0 DEF DoneInv
    <2>1. n \in Module \ {cur} /\ Done1(n) /\ hi'[n] = hi[n]
      BY <1>2, <1>3 DEF DoneInv, TypeRun, OnlyChanges
    <2>2. n \in UpToDate' /\ Uses(n)' = Uses(n) BY <2>1, <1>6, <1>7 DEF Done1
    <2>3. \A m \in Module \ (done \cup {cur}) : Uses(m)' = Uses(m) /\ hi'[m] = hi[m]
      BY <1>3, <1>7 DEF OnlyChanges
    <2> QED BY <2>1, <2>2, <2>3, <1>0, <1>1 DEF Done1, Imports, Whole, Fractional
  <1>13. OrderInv' BY <1>0, <1>2, <1>7, ZenonT(60) DEF OrderInv, TypeRun
  <1>14. WriteInv'
    <2>1. \A m \in UpToDate' : cur \notin Uses(m)' BY <1>0, <1>2, <1>6, <1>7, UpMember
    <2> QED BY <2>1, <1>0, <1>1, <1>7 DEF WriteInv, Imports
  <1> QED BY <1>6, <1>8, <1>9, <1>10, <1>11, <1>12, <1>13, <1>14

\* The new one is complete, and with it the module is done.
LEMMA RunCloseHI ==
  ASSUME FileInv, RunInv, CloseHI
  PROVE  FileInv' /\ RunInv'
  <1> USE DEF RunInv
  <1> PICK c : c = cur OBVIOUS
  <1> DEFINE u == [cu[c] EXCEPT !.hiTime = Fractional(clock), !.decl = cu[c].imps,
                                !.used = hs[c].src.uses]
  <1>0. /\ pc = "close hi" /\ pc' = "compile" /\ done' = done \cup {c}
        /\ hi' = [hi EXCEPT ![c] = Interface(c, TRUE)]
        /\ cu' = [cu EXCEPT ![c] = u]
        /\ UNCHANGED <<clock, hs, obj>>
    BY DEF CloseHI
  <1>1. Writing /\ ~ Writing' /\ Busy = {c} /\ Busy' = {} BY <1>0 DEF Writing, Busy
  <1>2. /\ c \in DOMAIN cu \ done /\ c \in Module /\ hs[c] # NoFile
        /\ cu[c].nm = c /\ cu[c].imps = hs[c].src.imps /\ cu[c] \in UnitType
        /\ Needs(c) \ {c} \subseteq done /\ \A m \in UpToDate : c \notin Uses(m)
        /\ Imports(cu[c]) \subseteq done
    BY <1>1 DEF WriteInv, TypeRun, UnitsInv, Unit1
  <1>3. OnlyChanges(c) BY <1>0, <1>2 DEF OnlyChanges, FileInv, TypeFiles
  <1>4. Needs(c) \ {c} \subseteq UpToDate \ {Top}
    <2>1. done \subseteq UpToDate BY DEF DoneInv, Done1
    <2>2. Top \notin Needs(c) \ {c} BY <1>0, <1>2 DEF ClosedInv, Compiling
    <2> QED BY <2>1, <2>2, <1>2
  <1>5. c # Top => obj[c] = Made(c) BY <1>1 DEF WriteInv
  <1>6. /\ FileInv' /\ UpToDate' = UpToDate \cup {c} /\ Uses(c)' = Needs(c) \ {c}
        /\ \A m \in Module : m # c /\ hi[m] # NoFile /\ c \in Uses(m) => hi[m].time < clock
    BY <1>0, <1>2, <1>4, <1>5, FileWrite
  <1>7. \A n \in Module \ {c} : Uses(n)' = Uses(n) /\ Unit(n)' = Unit(n)
    BY <1>0, <1>1, <1>3, WriteFrame
  <1>8. /\ u.nm = c /\ u.imps = hs[c].src.imps /\ u.hiTime = Fractional(clock) /\ u \in UnitType
        /\ Imports(u) = Needs(c) \ {c}
    <2>1. clock \in Nat /\ hs[c].src \in Source BY <1>2 DEF FileInv, TypeFiles, TypeHs
    <2>2. Fractional(clock) \in Nat /\ hs[c].src.uses \in SUBSET Module
      BY <2>1 DEF Fractional, Source
    <2>3. u \in UnitType BY <2>2, <1>2 DEF UnitType
    <2>4. /\ u.nm = c /\ u.imps = hs[c].src.imps /\ u.hiTime = Fractional(clock)
          /\ u.decl = hs[c].src.imps /\ u.used = hs[c].src.uses
      BY <1>2 DEF UnitType
    <2>5. Needs(c) = hs[c].src.imps \cup hs[c].src.uses BY <1>2 DEF Needs
    <2> HIDE DEF u
    <2>6. Imports(u) = Needs(c) \ {c} BY <2>4, <2>5 DEF Imports
    <2> QED BY <2>3, <2>4, <2>6
  <1>9. /\ DOMAIN cu' = DOMAIN cu /\ cu'[c] = u
        /\ \A n \in DOMAIN cu \ {c} : cu'[n] = cu[n]
    BY <1>0, <1>2
  <1> HIDE DEF u
  <1>10. TypeRun' BY <1>0, <1>2, <1>8, <1>9 DEF TypeRun, UnitType
  <1>11. UnitsInv'
    <2> SUFFICES ASSUME NEW n \in DOMAIN cu PROVE Unit1(n)' BY <1>9 DEF UnitsInv
    <2>1. n \in Module /\ Unit1(n) BY DEF UnitsInv, TypeRun
    <2>2. CASE n = c BY <2>2, <1>0, <1>2, <1>8, <1>9 DEF Unit1
    <2>3. CASE n # c
      <3>1. Unit(n)' = Unit(n) /\ cu'[n] = cu[n] BY <2>1, <2>3, <1>7, <1>9
      <3> QED BY <2>1, <2>3, <3>1, <1>0, <1>1 DEF Unit1
    <2> QED BY <2>2, <2>3
  <1>12. ImportedInv'
    <2> SUFFICES ASSUME NEW S \in SUBSET Module, Top \in S,
                        \A n \in S \cap DOMAIN cu : Imports(cu'[n]) \subseteq S
                 PROVE  DOMAIN cu \subseteq done' \cup S
      BY <1>9 DEF ImportedInv, Imports
    <2> DEFINE T == S \cup done'
    <2>1. T \in SUBSET Module /\ Top \in T BY <1>0, <1>2 DEF TypeRun
    <2>2. ASSUME NEW n \in T \cap DOMAIN cu PROVE Imports(cu[n]) \subseteq T
      <3>1. CASE n = c BY <3>1, <1>0, <1>2
      <3>2. CASE n \in done BY <3>2, <1>0 DEF DoneInv, Done1
      <3>3. CASE n \in S \ {c} BY <3>3, <2>2, <1>9
      <3> QED BY <3>1, <3>2, <3>3, <1>0
    <2>3. DOMAIN cu \subseteq done \cup T BY <2>1, <2>2 DEF ImportedInv
    <2> QED BY <2>3, <1>0
  <1>13. ClosedInv'
    <2>1. /\ Top \in DOMAIN cu /\ \A n \in DOMAIN cu : Imports(cu[n]) \subseteq DOMAIN cu
          /\ Top \in done => DOMAIN cu \subseteq done
          /\ c = Top => DOMAIN cu \subseteq done \cup {Top}
      BY <1>0, <1>1 DEF ClosedInv, Compiling, WriteInv
    <2>2. \A n \in DOMAIN cu : Imports(cu'[n]) \subseteq DOMAIN cu
      BY <2>1, <1>2, <1>8, <1>9 DEF TypeRun
    <2> QED BY <2>1, <2>2, <1>0, <1>9 DEF ClosedInv, Imports
  <1>14. DoneInv'
    <2> SUFFICES ASSUME NEW n \in done' PROVE Done1(n)' BY DEF DoneInv
    <2>1. \A m \in Module \ done' : Uses(m)' = Uses(m) /\ hi'[m] = hi[m]
      BY <1>0, <1>3, <1>7 DEF OnlyChanges
    <2>2. CASE n = c
      <3>1. n \in UpToDate' BY <2>2, <1>6
      <3>2. Imports(cu'[c]) \subseteq done' /\ Uses(c)' \subseteq Imports(cu'[c])
        BY <1>0, <1>2, <1>6, <1>8, <1>9
      <3>3. hi'[c].time = clock BY <1>0, <1>2 DEF Interface, FileInv, TypeFiles
      <3>4. cu'[c].hiTime = Fractional(hi'[c].time) BY <3>3, <1>8, <1>9
      <3>5. \A m \in Module \ done' : hi'[m] # NoFile /\ c \in Uses(m)' => hi'[m].time < hi'[c].time
        BY <2>1, <3>3, <1>0, <1>6
      <3> QED BY <2>2, <3>1, <3>2, <3>4, <3>5, <1>1 DEF Done1, Imports, Fractional
    <2>3. CASE n \in done
      <3>1. n \in Module \ {c} /\ Done1(n) /\ hi'[n] = hi[n] /\ cu'[n] = cu[n]
        BY <2>3, <1>2, <1>3, <1>9 DEF DoneInv, TypeRun, OnlyChanges
      <3>2. n \in UpToDate' /\ Uses(n)' = Uses(n) BY <3>1, <1>6, <1>7 DEF Done1
      <3> QED BY <2>1, <3>1, <3>2, <1>0, <1>1, ZenonT(60) DEF Done1, Imports, Whole, Fractional
    <2> QED BY <2>2, <2>3, <1>0
  <1>15. OrderInv'
    <2>1. \A n \in done : Uses(n)' = Uses(n) /\ Uses(n) \subseteq done
      BY <1>2, <1>7 DEF DoneInv, Done1, TypeRun
    <2> QED BY <2>1, <1>0, <1>2, <1>6, OrderAdd
  <1>16. WriteInv' BY <1>1 DEF WriteInv
  <1> QED BY <1>6, <1>10, <1>11, <1>12, <1>13, <1>14, <1>15, <1>16

----------------------------------------------------------------------------
(* The executable.                                                         *)

\* An edit or a new run takes back what was said of the executable; nothing
\* else happens when no run is going on but time.
LEMMA LinkedKept ==
  ASSUME LinkedInv, outcome' # "ok" \/ UNCHANGED <<files, pc, outcome>>
  PROVE  LinkedInv'
  <1> USE DEF files
  <1>1. CASE outcome' # "ok" BY <1>1 DEF LinkedInv
  <1>2. CASE UNCHANGED <<files, pc, outcome>>
    <2>1. UpToDate' = UpToDate BY <1>2, UpSame
    <2>2. \A m : Uses(m)' = Uses(m) BY <1>2 DEF Uses
    <2> QED BY <2>1, <2>2, <1>2 DEF LinkedInv
  <1> QED BY <1>1, <1>2

\* What is linked is up to date, down to the last module it was made from.
LEMMA LinkLinks ==
  ASSUME FileInv, RunInv, Link
  PROVE  LinkedInv'
  <1>0. /\ pc = "compile" /\ done = DOMAIN cu
        /\ exec' = [m \in DOMAIN cu |-> IF m = Top THEN Made(m) ELSE obj[m]]
        /\ pc' = "idle" /\ UNCHANGED <<hs, hi, obj>>
    BY DEF Link, End
  <1>1. UpToDate' = UpToDate BY <1>0, UpSame
  <1>2. \A m : Uses(m)' = Uses(m) BY <1>0 DEF Uses
  <1>3. Top \in DOMAIN cu BY <1>0 DEF RunInv, ClosedInv, Compiling
  <1>4. \A m \in DOMAIN cu : m \in UpToDate /\ Uses(m) \subseteq DOMAIN cu
    BY <1>0 DEF RunInv, DoneInv, Done1
  <1>5. ASSUME NEW m \in DOMAIN cu PROVE exec'[m] = hi[m].made
    <2>1. CASE m # Top BY <2>1, <1>0, <1>4 DEF FileInv, ObjInv
    <2>2. CASE m = Top
      <3>1. /\ m \in Module /\ hi[m] # NoFile /\ hs[m].time <= hi[m].time
            /\ \A k \in Uses(m) : hi[k] # NoFile /\ hi[k].time <= hi[m].time
        BY <1>4, UpMember DEF Fresh
      <3>2. /\ hi[m].made.src = hs[m].src
            /\ hi[m].decl = hs[m].src.imps /\ hi[m].used = hs[m].src.uses
            /\ \A k \in Uses(m) : hi[m].made.deps[k] = hi[k].made
        BY <3>1 DEF FileInv, MadeInv, Made1
      <3>3. hi[m].made = [src |-> hi[m].made.src, deps |-> [k \in Uses(m) |-> hi[m].made.deps[k]]]
        BY <3>1 DEF FileInv, MadeInv, Made1
      <3>4. Uses(m) = (hs[m].src.imps \cup hs[m].src.uses) \ {m} BY <3>2 DEF Uses
      <3>5. Made(m) = [src |-> hs[m].src, deps |-> [k \in Uses(m) |-> hi[k].made]]
        BY <3>4 DEF Made
      <3>6. [k \in Uses(m) |-> hi[k].made] = [k \in Uses(m) |-> hi[m].made.deps[k]] BY <3>2
      <3>7. Made(m) = hi[m].made BY <3>2, <3>3, <3>5, <3>6
      <3> QED BY <2>2, <3>7, <1>0
    <2> QED BY <2>1, <2>2
  <1>6. \A B \in SUBSET DOMAIN cu : B # {} => \E n \in B : Uses(n) \cap B = {}
    BY <1>0 DEF RunInv, OrderInv
  <1>7. DOMAIN exec' = DOMAIN cu BY <1>0
  <1> QED BY <1>0, <1>1, <1>2, <1>3, <1>4, <1>5, <1>6, <1>7 DEF LinkedInv

----------------------------------------------------------------------------
(* The invariant holds.                                                    *)

\* Before the first run there are sources, of one time, and nothing else.
LEMMA InitInv == Init => IInv
  <1> SUFFICES ASSUME Init PROVE IInv OBVIOUS
  <1> USE DEF Init
  <1>1. \A m \in Module : /\ hs[m] # NoFile /\ hs[m].time = 0 /\ hs[m].src \in Source
                          /\ hi[m] = NoFile
    <2> SUFFICES ASSUME NEW m \in Module
                 PROVE  hs[m] # NoFile /\ hs[m].time = 0 /\ hs[m].src \in Source
      OBVIOUS
    <2>1. hs[m] = [time |-> hs[m].time, src |-> hs[m].src] /\ hs[m].time = 0 OBVIOUS
    <2>2. hs[m].src \in Source BY DriverAssumption
    <2> QED BY <2>1, <2>2, AFile
  <1>2. UpToDate = {} BY <1>1, UpMember DEF Fresh
  <1>3. FileInv
    <2>1. TypeFiles BY <1>1 DEF TypeFiles, TypeHs, TypeHi
    <2>2. MadeInv /\ YoungInv /\ ObjInv BY <1>1, <1>2 DEF MadeInv, Made1, YoungInv, ObjInv
    <2> QED BY <2>1, <2>2 DEF FileInv
  <1>4. DOMAIN cu = {} BY DOMAIN << >> = {}
  <1>5. RunInv
    BY <1>4 DEF RunInv, TypeRun, UnitsInv, ImportedInv, ClosedInv, Compiling, DoneInv, OrderInv,
                WriteInv, Writing
  <1>6. LinkedInv BY NoneAssumption DEF LinkedInv
  <1> QED BY <1>3, <1>5, <1>6 DEF IInv

\* A run that has ended, in whatever way but linking, leaves the files.
LEMMA EndInv ==
  ASSUME FileInv, NEW how, how # "ok", End(how), UNCHANGED <<files, clock>>
  PROVE  IInv'
  <1>1. pc' = "idle" /\ DOMAIN cu' = {} /\ done' = {} /\ outcome' # "ok" BY DEF End
  <1>2. RunInv' BY <1>1, RunIdle
  <1>3. FileInv' BY FileTick
  <1>4. LinkedInv' BY <1>1 DEF LinkedInv
  <1> QED BY <1>2, <1>3, <1>4 DEF IInv

\* Every step keeps it.
LEMMA NextInv == IInv /\ [Next]_vars => IInv'
  <1> SUFFICES ASSUME IInv, [Next]_vars PROVE IInv' OBVIOUS
  <1> USE DEF IInv
  <1>0. /\ pc = "idle" => DOMAIN cu = {} /\ done = {}
        /\ pc # "idle" => outcome # "ok"
    BY DEF RunInv, TypeRun, LinkedInv
  <1>1. CASE Tick
    <2>1. UNCHANGED <<files, pc, cu, done, cur, outcome>> /\ clock' = clock + 1
      BY <1>1 DEF Tick
    <2> QED BY <2>1, FileTick, RunSame, LinkedKept
  <1>2. CASE Kill
    BY <1>2, EndInv DEF Kill
  <1>3. ASSUME NEW m \in Module, NEW src \in Sources[m], Edit(m, src) PROVE IInv'
    <2>1. /\ pc = "idle" /\ UNCHANGED <<pc, cu, done>> /\ outcome' = None
      BY <1>3 DEF Edit, MayEdit, Idle
    <2>2. RunInv' BY <2>1, <1>0, RunIdle
    <2>3. LinkedInv' BY <2>1, NoneAssumption, LinkedKept
    <2> QED BY <2>2, <2>3, <1>3, FileEdit
  <1>4. ASSUME NEW m \in Module, Remove(m) PROVE IInv'
    <2>1. /\ pc = "idle" /\ UNCHANGED <<pc, cu, done>> /\ outcome' = None
      BY <1>4 DEF Remove, MayEdit, Idle
    <2>2. RunInv' BY <2>1, <1>0, RunIdle
    <2>3. LinkedInv' BY <2>1, NoneAssumption, LinkedKept
    <2> QED BY <2>2, <2>3, <1>4, FileRemove
  <1>5. CASE Start
    <2>1. /\ DOMAIN cu = {} /\ done = {} /\ pc' = "import" /\ outcome' # "ok"
          /\ UNCHANGED <<clock, files, cu, done, cur>>
      BY <1>0, <1>5, NoneAssumption DEF Start, Idle
    <2>2. RunInv'
      BY <2>1 DEF RunInv, TypeRun, UnitsInv, ImportedInv, ClosedInv, Compiling, DoneInv, OrderInv,
                  WriteInv, Writing
    <2> QED BY <2>1, <2>2, FileTick, LinkedKept
  <1>6. CASE Import
    <2>1. PICK m \in ToImport : ImportFound(m) \/ ImportFails(m) BY <1>6 DEF Import
    <2>2. pc = "import" /\ UNCHANGED clock BY <1>6 DEF Import
    <2>3. CASE ImportFound(m)
      <3>1. UNCHANGED <<files, outcome>> /\ outcome' # "ok" BY <2>2, <2>3, <1>0 DEF ImportFound
      <3> QED BY <2>2, <2>3, <3>1, RunImport, FileTick, LinkedKept
    <2>4. CASE ImportFails(m) BY <2>2, <2>4, EndInv DEF ImportFails, Fail
    <2> QED BY <2>1, <2>3, <2>4
  <1>7. CASE CheckAbsenceOfMutRecModules
    <2>1. pc = "import" /\ ToImport = {} /\ UNCHANGED clock
      BY <1>7 DEF CheckAbsenceOfMutRecModules
    <2>2. Fail \/ (pc' = "compile" /\ UNCHANGED <<files, cu, done, cur, outcome>>)
      BY <1>7 DEF CheckAbsenceOfMutRecModules
    <2>3. CASE Fail BY <2>1, <2>3, EndInv DEF Fail
    <2>4. CASE pc' = "compile" /\ UNCHANGED <<files, cu, done, cur, outcome>>
      BY <2>1, <2>4, <1>0, RunOrder, FileTick, LinkedKept
    <2> QED BY <2>2, <2>3, <2>4
  <1>8. ASSUME NEW m \in DOMAIN cu, UseHI(m) PROVE IInv'
    <2>1. UNCHANGED <<clock, files, outcome>> /\ outcome' # "ok" BY <1>0, <1>8 DEF UseHI
    <2> QED BY <2>1, <1>8, RunUseHI, FileTick, LinkedKept
  <1>9. ASSUME NEW m \in DOMAIN cu, Compile(m) PROVE IInv'
    <2>1. CASE hs[m].src.ok /\ InScope(m)
      <3>1. outcome' # "ok" BY <2>1, <1>0, <1>9 DEF Compile
      <3> QED BY <2>1, <3>1, <1>9, RunCompile, LinkedKept
    <2>2. CASE ~ (hs[m].src.ok /\ InScope(m))
      <3>1. Fail /\ UNCHANGED clock BY <2>2, <1>9 DEF Compile
      <3> QED BY <3>1, EndInv DEF Fail
    <2> QED BY <2>1, <2>2
  <1>10. CASE RemoveHI
    <2>1. outcome' # "ok" BY <1>0, <1>10 DEF RemoveHI
    <2> QED BY <2>1, <1>10, RunRemoveHI, LinkedKept
  <1>11. CASE OpenHI
    <2>1. outcome' # "ok" BY <1>0, <1>11 DEF OpenHI
    <2> QED BY <2>1, <1>11, RunOpenHI, LinkedKept
  <1>12. CASE CloseHI
    <2>1. outcome' # "ok" BY <1>0, <1>12 DEF CloseHI
    <2> QED BY <2>1, <1>12, RunCloseHI, LinkedKept
  <1>13. CASE Link
    <2>1. /\ pc' = "idle" /\ DOMAIN cu' = {} /\ done' = {} /\ UNCHANGED <<clock, hs, hi, obj>>
      BY <1>13 DEF Link, End
    <2>2. FileInv'
      <3>1. TypeFiles' BY <2>1 DEF FileInv, TypeFiles, TypeHs, TypeHi
      <3>2. UpToDate' = UpToDate BY <2>1, UpSame
      <3>3. MadeInv' /\ YoungInv' /\ ObjInv'
        BY <2>1, <3>2 DEF FileInv, MadeInv, Made1, Uses, YoungInv, ObjInv
      <3> QED BY <3>1, <3>3 DEF FileInv
    <2> QED BY <2>1, <2>2, <1>13, RunIdle, LinkLinks
  <1>14. CASE UNCHANGED vars
    BY <1>14, FileTick, RunSame, LinkedKept DEF vars, files
  <1> QED
    BY <1>1, <1>2, <1>3, <1>4, <1>5, <1>6, <1>7, <1>8, <1>9, <1>10, <1>11, <1>12, <1>13, <1>14
    DEF Next

(* The invariant of the driver: times, provenances, and the order and the  *)
(* state of a run, in every state.                                         *)
THEOREM DriverInvariant == Spec => []IInv
  BY InitInv, NextInv, PTL DEF Spec

----------------------------------------------------------------------------
(* What the executable is made from.                                       *)

\* The program is among the modules that are linked; it is closed.
LEMMA ProgramLinked ==
  ASSUME IInv, outcome = "ok"
  PROVE  /\ Top \in Program /\ Program \subseteq DOMAIN exec
         /\ \A m \in Program : /\ m \in UpToDate /\ hs[m] # NoFile /\ hi[m] # NoFile
                               /\ Needs(m) \subseteq Program /\ Needs(m) \ {m} = Uses(m)
                               /\ exec[m] = [src |-> hs[m].src, deps |-> [i \in Uses(m) |-> exec[i]]]
  <1> USE DEF IInv
  <1> DEFINE next == [m \in Module |-> Needs(m)]
  <1>1. ASSUME NEW m \in UpToDate
        PROVE  /\ m \in Module /\ hs[m] # NoFile /\ hi[m] # NoFile
               /\ Needs(m) \ {m} = Uses(m)
               /\ hi[m].made = [src |-> hs[m].src, deps |-> [i \in Uses(m) |-> hi[i].made]]
    <2>1. /\ m \in Module /\ hi[m] # NoFile /\ hs[m].time <= hi[m].time
          /\ \A k \in Uses(m) : hi[k] # NoFile /\ hi[k].time <= hi[m].time
      BY UpMember DEF Fresh
    <2>2. /\ hs[m] # NoFile /\ hi[m].made.src = hs[m].src
          /\ hi[m].decl = hs[m].src.imps /\ hi[m].used = hs[m].src.uses
          /\ \A k \in Uses(m) : hi[m].made.deps[k] = hi[k].made
      BY <2>1 DEF FileInv, MadeInv, Made1
    <2>3. hi[m].made = [src |-> hi[m].made.src, deps |-> [k \in Uses(m) |-> hi[m].made.deps[k]]]
      BY <2>1 DEF FileInv, MadeInv, Made1
    <2>4. Needs(m) \ {m} = Uses(m) BY <2>2 DEF Needs, Uses
    <2>5. [k \in Uses(m) |-> hi[k].made] = [k \in Uses(m) |-> hi[m].made.deps[k]] BY <2>2
    <2>6. hi[m].made = [src |-> hs[m].src, deps |-> [i \in Uses(m) |-> hi[i].made]]
      BY <2>2, <2>3, <2>5
    <2> QED BY <2>1, <2>2, <2>4, <2>6
  <1>2. /\ Top \in DOMAIN exec
        /\ \A m \in DOMAIN exec : m \in UpToDate /\ Uses(m) \subseteq DOMAIN exec /\ exec[m] = hi[m].made
    BY DEF LinkedInv
  <1>3. DOMAIN exec \in SUBSET Module BY <1>1, <1>2
  <1>4. ASSUME NEW n \in DOMAIN exec PROVE next[n] \subseteq DOMAIN exec
    <2>1. n \in Module /\ Needs(n) \ {n} \subseteq DOMAIN exec BY <1>1, <1>2
    <2>2. Needs(n) \subseteq DOMAIN exec BY <2>1
    <2> QED BY <2>1, <2>2
  <1>5. ASSUME NEW n \in Module PROVE next[n] \subseteq Module
    <2>1. hs[n] # NoFile => hs[n].src \in Source BY DEF FileInv, TypeFiles, TypeHs
    <2> QED BY <2>1 DEF Needs, Source
  <1>6. Program = Reached(next, {Top}) BY DEF Program
  <1> HIDE DEF next
  <1>7. Program \subseteq DOMAIN exec BY <1>2, <1>3, <1>4, <1>6, ReachedLeast
  <1>8. Top \in Program /\ \A n \in Program : next[n] \subseteq Program
    BY <1>5, <1>6, ReachedClosed, DriverAssumption
  <1>9. \A m \in Program : Needs(m) \subseteq Program
    <2>1. \A m \in Program : next[m] = Needs(m) BY <1>3, <1>7 DEF next
    <2> QED BY <2>1, <1>8
  <1>10. ASSUME NEW m \in Program
         PROVE  exec[m] = [src |-> hs[m].src, deps |-> [i \in Uses(m) |-> exec[i]]]
    <2>1. \A i \in Uses(m) : exec[i] = hi[i].made BY <1>2, <1>7
    <2>2. [i \in Uses(m) |-> exec[i]] = [i \in Uses(m) |-> hi[i].made] BY <2>1
    <2>3. exec[m] = hi[m].made /\ m \in UpToDate BY <1>2, <1>7
    <2> QED BY <2>2, <2>3, <1>1
  <1> QED BY <1>1, <1>2, <1>7, <1>8, <1>9, <1>10

\* What compiling a program anew makes is what is made of each source and of
\* what its needs are made into: when the modules can be put in order, there
\* is just one such thing.
IsMaking(P, N, S, e) ==
  \A m \in P : N[m] \subseteq P /\ e[m] = [src |-> S[m], deps |-> [i \in N[m] |-> e[i]]]
CanBeOrdered(P, N) == \A B \in SUBSET P : B # {} => \E n \in B : N[n] \cap B = {}
Agree(P, e, f)     == \A m \in P : e[m] = f[m]

LEMMA OnlyOneMaking ==
  ASSUME NEW P, NEW N, NEW S, NEW e, NEW f,
         IsMaking(P, N, S, e), IsMaking(P, N, S, f), CanBeOrdered(P, N)
  PROVE  Agree(P, e, f)
  <1> SUFFICES ASSUME {m \in P : e[m] # f[m]} # {} PROVE FALSE BY DEF Agree
  <1>1. PICK n \in P : e[n] # f[n] /\ N[n] \cap {m \in P : e[m] # f[m]} = {}
    BY DEF CanBeOrdered
  <1>2. \A i \in N[n] : e[i] = f[i] BY <1>1 DEF IsMaking
  <1>3. [i \in N[n] |-> e[i]] = [i \in N[n] |-> f[i]] BY <1>2
  <1>4. e[n] = [src |-> S[n], deps |-> [i \in N[n] |-> e[i]]] BY <1>1 DEF IsMaking
  <1>5. f[n] = [src |-> S[n], deps |-> [i \in N[n] |-> f[i]]] BY <1>1 DEF IsMaking
  <1> QED BY <1>1, <1>3, <1>4, <1>5

\* That is what compiling anew means.
LEMMA MakingExists ==
  ASSUME IInv, outcome = "ok"
  PROVE  MadeAnew = [m \in Program |->
                       [src |-> hs[m].src, deps |-> [i \in Needs(m) \ {m} |-> MadeAnew[i]]]]
  <1> DEFINE body(f) == [m \in Program |->
                           [src |-> hs[m].src, deps |-> [i \in Needs(m) \ {m} |-> f[i]]]]
             e == [m \in Program |-> exec[m]]
  <1>1. MadeAnew = CHOOSE f : f = body(f) BY DEF MadeAnew
  <1>2. e = body(e)
    <2>1. ASSUME NEW m \in Program
          PROVE  exec[m] = [src |-> hs[m].src, deps |-> [i \in Needs(m) \ {m} |-> e[i]]]
      <3>1. /\ Needs(m) \subseteq Program /\ Needs(m) \ {m} = Uses(m)
            /\ exec[m] = [src |-> hs[m].src, deps |-> [i \in Uses(m) |-> exec[i]]]
        BY ProgramLinked
      <3>2. \A i \in Needs(m) \ {m} : e[i] = exec[i] BY <3>1
      <3>3. [i \in Needs(m) \ {m} |-> exec[i]] = [i \in Needs(m) \ {m} |-> e[i]] BY <3>2
      <3> QED BY <3>1, <3>3
    <2> QED BY <2>1
  <1> HIDE DEF body, e
  <1>3. MadeAnew = body(MadeAnew) BY <1>1, <1>2
  <1> QED BY <1>3 DEF body

\* The executable of a successful run is what compiling anew makes.
LEMMA CurrentInv == IInv => ExecutableCurrent
  <1> SUFFICES ASSUME IInv, outcome = "ok" PROVE \A m \in Program : exec[m] = MadeAnew[m]
    BY DEF ExecutableCurrent
  <1> DEFINE N == [m \in Program |-> Uses(m)]
             S == [m \in Program |-> hs[m].src]
  <1>1. ASSUME NEW m \in Program
        PROVE  /\ N[m] \subseteq Program
               /\ exec[m] = [src |-> S[m], deps |-> [i \in N[m] |-> exec[i]]]
               /\ MadeAnew[m] = [src |-> S[m], deps |-> [i \in N[m] |-> MadeAnew[i]]]
    <2>1. /\ Needs(m) \subseteq Program /\ Needs(m) \ {m} = Uses(m)
          /\ exec[m] = [src |-> hs[m].src, deps |-> [i \in Uses(m) |-> exec[i]]]
      BY ProgramLinked
    <2>2. MadeAnew[m] = [src |-> hs[m].src, deps |-> [i \in Needs(m) \ {m} |-> MadeAnew[i]]]
      BY MakingExists
    <2>3. N[m] = Uses(m) /\ S[m] = hs[m].src OBVIOUS
    <2> QED BY <2>1, <2>2, <2>3
  <1>2. ASSUME NEW B \in SUBSET Program, B # {} PROVE \E n \in B : N[n] \cap B = {}
    <2>1. B \in SUBSET DOMAIN exec BY ProgramLinked
    <2>2. PICK n \in B : Uses(n) \cap B = {} BY <2>1, <1>2 DEF IInv, LinkedInv
    <2> QED BY <2>2
  <1> HIDE DEF N, S
  <1>3. IsMaking(Program, N, S, exec) /\ IsMaking(Program, N, S, MadeAnew) BY <1>1 DEF IsMaking
  <1>4. CanBeOrdered(Program, N) BY <1>2 DEF CanBeOrdered
  <1>5. Agree(Program, exec, MadeAnew) BY <1>3, <1>4, OnlyOneMaking
  <1> QED BY <1>5 DEF Agree

\* And the next run would find all interfaces but that of the main module fit
\* for use.
LEMMA QuietInv == IInv => QuietAfterSuccess
  <1> DEFINE units == [m \in Program |-> Unit(m)]
  <1> SUFFICES ASSUME IInv, outcome = "ok", NEW m \in Program \ {Top}
               PROVE  ~ NeedsCompile(units[m], units)
    BY DEF QuietAfterSuccess
  <1>1. \A n \in Program : /\ n \in UpToDate /\ n \in Module /\ hs[n] # NoFile /\ hi[n] # NoFile
                           /\ Needs(n) \subseteq Program /\ Needs(n) \ {n} = Uses(n)
                           /\ units[n] = Unit(n)
    BY ProgramLinked, UpMember
  <1> HIDE DEF units
  <1>2. /\ hs[m].time <= hi[m].time
        /\ \A k \in Uses(m) : hi[k] # NoFile /\ hi[k].time <= hi[m].time
    BY <1>1, UpMember DEF Fresh
  <1>3. /\ units[m].nm = m /\ units[m].hsTime = Whole(hs[m].time) /\ units[m].valid
        /\ units[m].hiTime = Whole(hi[m].time) /\ Imports(units[m]) = Uses(m)
    BY <1>1, <1>2, UnitSays DEF IInv
  <1>4. hs[m].time \in Nat /\ \A n \in Program : hi[n].time \in Nat
    BY <1>1 DEF IInv, FileInv, TypeFiles, TypeHs, TypeHi
  <1>5. ~ IsHSNewerThanHI(units[m])
    <2>1. Whole(hi[m].time) \in Nat /\ ~ IsNewer(Whole(hs[m].time), Whole(hi[m].time))
      BY <1>2, <1>4 DEF Whole, IsNewer
    <2> QED BY <2>1, <1>3, NoneAssumption DEF IsHSNewerThanHI
  <1>6. ASSUME NEW k \in Imports(units[m]) PROVE ~ IsNewer(units[k].hiTime, units[m].hiTime)
    <2>1. k \in Program /\ hi[k].time <= hi[m].time BY <1>1, <1>2, <1>3
    <2>2. units[k].hiTime = Whole(hi[k].time) BY <2>1, <1>1, UnitSays DEF IInv
    <2> QED BY <2>1, <2>2, <1>3, <1>4 DEF Whole, IsNewer
  <1>7. NewerImports(units[m], units) = {} BY <1>6 DEF NewerImports
  <1> QED BY <1>3, <1>5, <1>7 DEF NeedsCompile, IsMainMod, CanUseHIInsteadOfHS

(* Whatever was edited, added, removed or killed before: the executable a  *)
(* run says it has made is what compiling every module of the program anew *)
(* would make.                                                             *)
THEOREM ExecutableIsCurrent == Spec => []ExecutableCurrent
  BY DriverInvariant, CurrentInv, PTL

(* After a run that succeeded the driver would compile nothing again but   *)
(* the main module.                                                        *)
THEOREM SuccessIsQuiet == Spec => []QuietAfterSuccess
  BY DriverInvariant, QuietInv, PTL
=============================================================================
