------------------------------- MODULE Driver -------------------------------
(***************************************************************************)
(* The compiler driver of EHC (src/EHC/src/ehc/EHC.chs, EHC/CompileRun,    *)
(* EHC/CompileUnit, EHC/CompilePhase): one run gathers the modules a       *)
(* program consists of, decides for each of them whether its interface     *)
(* (.hi) and object (.o) of an earlier run can be used, compiles the rest  *)
(* in the order of imports, and links.  Between runs sources are edited,   *)
(* added and removed; a run may be killed at any moment and leaves the     *)
(* files it has written.                                                   *)
(*                                                                         *)
(* A source is what the decisions depend on: imports, the modules whose    *)
(* entities it uses (directly imported or not), whether it can be compiled,*)
(* and a text that stands for all else.  What a compilation makes is       *)
(* represented by what it was made from, the "provenance": the source and  *)
(* the provenances of the interfaces it used.  All runs have the same      *)
(* options; the options an interface was made with are read and compared   *)
(* with nothing.                                                           *)
(*                                                                         *)
(* Edits are made between runs, and in a later second than the last write  *)
(* of an interface: with files dated in seconds the driver cannot see      *)
(* others.  The program is always the one of module Top, which has main.   *)
(***************************************************************************)
EXTENDS Naturals, FiniteSets

CONSTANTS Module, Top, Sources, MaxTime, MaxEdits, MaxRuns, None

Source == [imps : SUBSET Module, uses : SUBSET Module, ok : BOOLEAN, text : Nat]

ASSUME DriverAssumption ==
  /\ Top \in Module
  /\ \A m \in Module : Sources[m] \subseteq Source
  /\ {MaxTime, MaxEdits, MaxRuns} \subseteq Nat

\* None is neither a time nor the way a run ends
ASSUME NoneAssumption == None \notin Nat \cup {"ok"}

NoFile == [there |-> FALSE]

VARIABLES clock,    \* the time in seconds
          hs,       \* .hs: per module NoFile, or the source and the time of the last edit
          hi,       \* .hi: per module NoFile, or an interface with its time
          obj,      \* .o: per module None, or a provenance
          exec,     \* the executable: None, or the provenances linked
          pc,       \* where the run is
          cu,       \* crCUCache: the compile units known, by module
          done,     \* the modules that have been compiled, or read from .hi
          cur,      \* the module being compiled
          outcome,  \* how the last run ended, if there were no edits since
          edits, runs

files == <<hs, hi, obj, exec>>
vars  == <<clock, hs, hi, obj, exec, pc, cu, done, cur, outcome, edits, runs>>

Init ==
  /\ clock = 1
  /\ hs \in [Module -> [time : {0}, src : UNION {Sources[m] : m \in Module}]]
  /\ \A m \in Module : hs[m].src \in Sources[m]
  /\ hi = [m \in Module |-> NoFile] /\ obj = [m \in Module |-> None] /\ exec = None
  /\ pc = "idle" /\ cu = << >> /\ done = {} /\ cur = None
  /\ outcome = None /\ edits = 0 /\ runs = 0

----------------------------------------------------------------------------
(* Times.  getModificationTime yields whole seconds; the time of an        *)
(* interface just written is taken from the clock with its fraction, so    *)
(* that it is later than that of any file of the same second.              *)
Whole(t)      == 2 * t
Fractional(t) == 2 * t + 1

\* t `diffClockTimes` u > noTimeDiff
BugIsNewer(t, u) == t >= u
IsNewer(t, u)    == t > u

\* What imports name: in the source, and in the interface of an earlier run
Imports(u) == (u.imps \cup u.decl \cup u.used) \ {u.nm}

IsHSNewerThanHI(u)      == u.hiTime = None \/ IsNewer(u.hsTime, u.hiTime)
CanUseHIInsteadOfHS(u)  == u.valid /\ ~ IsHSNewerThanHI(u)
NewerImports(u, units)  ==
  { i \in Imports(u) : units[i].hiTime # None /\ IsNewer(units[i].hiTime, u.hiTime) }
IsMainMod(u)            == u.nm = Top
BugNeedsCompile(u, units) == IsMainMod(u) \/ ~ CanUseHIInsteadOfHS(u)
NeedsCompile(u, units)  ==
  IsMainMod(u) \/ ~ (CanUseHIInsteadOfHS(u) /\ NewerImports(u, units) = {})

(* The unit of a module after reading its imports from the source, and the *)
(* information of an earlier run from the interface.                       *)
Unit(m) ==
  LET valid == hi[m] # NoFile
  IN  [nm     |-> m,
       imps   |-> hs[m].src.imps,
       hsTime |-> Whole(hs[m].time),
       hiTime |-> IF valid THEN Whole(hi[m].time) ELSE None,
       valid  |-> valid,
       decl   |-> IF valid THEN hi[m].decl ELSE {},
       used   |-> IF valid THEN hi[m].used ELSE {}]

----------------------------------------------------------------------------
(* Programmers and time                                                    *)
Idle == pc = "idle"

Tick == /\ clock < MaxTime
        /\ clock' = clock + 1
        /\ UNCHANGED <<files, pc, cu, done, cur, outcome, edits, runs>>

LaterThanWrites == \A m \in Module : hi[m] # NoFile => hi[m].time < clock

MayEdit == Idle /\ edits < MaxEdits /\ LaterThanWrites /\ edits' = edits + 1

Edit(m, s) ==
  /\ MayEdit
  /\ hs[m] # NoFile => hs[m].src # s
  /\ hs' = [hs EXCEPT ![m] = [time |-> clock, src |-> s]]
  /\ outcome' = None
  /\ UNCHANGED <<clock, hi, obj, exec, pc, cu, done, cur, runs>>

Remove(m) ==
  /\ MayEdit
  /\ m # Top /\ hs[m] # NoFile
  /\ hs' = [hs EXCEPT ![m] = NoFile]
  /\ hi' = [hi EXCEPT ![m] = NoFile]
  /\ obj' = [obj EXCEPT ![m] = None]
  /\ outcome' = None
  /\ UNCHANGED <<clock, exec, pc, cu, done, cur, runs>>

----------------------------------------------------------------------------
(* The run                                                                 *)
Start ==
  /\ Idle /\ runs < MaxRuns
  /\ pc' = "import" /\ outcome' = None /\ runs' = runs + 1
  /\ UNCHANGED <<clock, files, cu, done, cur, edits>>

End(how) == /\ pc' = "idle" /\ outcome' = how
            /\ cu' = << >> /\ done' = {} /\ cur' = None
Fail     == End("failed") /\ UNCHANGED files

(* cpImportGatherFromModsWithImp, imp1: the modules still to be imported   *)
ToImport ==
  ({Top} \cup UNION {Imports(cu[m]) : m \in DOMAIN cu}) \ DOMAIN cu

ImportFound(m) ==
  /\ hs[m] # NoFile
  /\ hi[m] # NoFile => hi[m].whole
  /\ cu' = [n \in DOMAIN cu \cup {m} |-> IF n = m THEN Unit(m) ELSE cu[n]]
  /\ UNCHANGED <<files, pc, done, cur, outcome>>

(* No such file; or an interface cut short, on which decoding dies outside *)
(* the catch of cpDecodeHIInfo.                                            *)
ImportFails(m) ==
  /\ hs[m] # NoFile => hi[m] # NoFile /\ ~ hi[m].whole
  /\ Fail

Import ==
  /\ pc = "import"
  /\ \E m \in ToImport : ImportFound(m) \/ ImportFails(m)
  /\ UNCHANGED <<clock, edits, runs>>

\* The modules that modules ms import, directly or not, among those of the units
Reached(next, ms) ==
  { m \in Module : \A S \in SUBSET Module :
      ms \subseteq S /\ (\A n \in S : next[n] \subseteq S) => m \in S }
ReachFrom(units, ms) ==
  Reached([n \in Module |-> IF n \in DOMAIN units THEN Imports(units[n]) ELSE {}], ms)

OnCycle(m) == m \in ReachFrom(cu, Imports(cu[m]))

CheckAbsenceOfMutRecModules ==
  /\ pc = "import" /\ ToImport = {}
  /\ IF \E m \in DOMAIN cu : OnCycle(m)
     THEN Fail
     ELSE pc' = "compile" /\ UNCHANGED <<files, cu, done, cur, outcome>>
  /\ UNCHANGED <<clock, edits, runs>>

\* crCompileOrder: imports before importers
IsNext(m)    == m \notin done /\ Imports(cu[m]) \subseteq done

UseHI(m) ==
  /\ pc = "compile" /\ IsNext(m) /\ ~ NeedsCompile(cu[m], cu)
  /\ done' = done \cup {m}
  /\ UNCHANGED <<clock, files, pc, cu, cur, outcome, edits, runs>>

\* What compilation of a module reads: its source and the interfaces of the
\* modules it imports or uses
Made(m) ==
  LET s == hs[m].src
  IN  [src |-> s, deps |-> [i \in (s.imps \cup s.uses) \ {m} |-> hi[i].made]]

InScope(m) == hs[m].src.uses \subseteq ReachFrom(cu, cu[m].imps)

(* cpEhcHaskellModuleAfterImport up to and including the object file, which *)
(* the main module gets when it is linked.                                 *)
Compile(m) ==
  /\ pc = "compile" /\ IsNext(m) /\ NeedsCompile(cu[m], cu)
  /\ IF ~ (hs[m].src.ok /\ InScope(m))
     THEN Fail
     ELSE /\ cur' = m /\ pc' = "remove hi"
          /\ obj' = IF IsMainMod(cu[m]) THEN obj ELSE [obj EXCEPT ![m] = Made(m)]
          /\ UNCHANGED <<hs, hi, exec, cu, done, outcome>>
  /\ UNCHANGED <<clock, edits, runs>>

(* cpOutputHI: the old interface is removed, the new one opened, written   *)
(* and dated                                                               *)
RemoveHI ==
  /\ pc = "remove hi"
  /\ hi' = [hi EXCEPT ![cur] = NoFile]
  /\ pc' = "open hi"
  /\ UNCHANGED <<clock, hs, obj, exec, cu, done, cur, outcome, edits, runs>>

Interface(m, whole) ==
  [time |-> clock, whole |-> whole, decl |-> hs[m].src.imps, used |-> hs[m].src.uses,
   made |-> Made(m)]

OpenHI ==
  /\ pc = "open hi"
  /\ hi' = [hi EXCEPT ![cur] = Interface(cur, FALSE)]
  /\ pc' = "close hi"
  /\ UNCHANGED <<clock, hs, obj, exec, cu, done, cur, outcome, edits, runs>>

CloseHI ==
  /\ pc = "close hi"
  /\ hi' = [hi EXCEPT ![cur] = Interface(cur, TRUE)]
  /\ cu' = [cu EXCEPT ![cur].hiTime = Fractional(clock), ![cur].decl = cu[cur].imps,
                   ![cur].used = hs[cur].src.uses]
  /\ done' = done \cup {cur}
  /\ pc' = "compile" /\ cur' = None
  /\ UNCHANGED <<clock, hs, obj, exec, outcome, edits, runs>>

\* cpEhcFullProgLinkAllModules
Link ==
  /\ pc = "compile" /\ done = DOMAIN cu
  /\ exec' = [m \in DOMAIN cu |-> IF m = Top THEN Made(m) ELSE obj[m]]
  /\ End("ok")
  /\ UNCHANGED <<clock, hs, hi, obj, edits, runs>>

Kill ==
  /\ ~ Idle /\ End("killed")
  /\ UNCHANGED <<clock, files, edits, runs>>

Next ==
  \/ Tick \/ Kill
  \/ \E m \in Module : \E s \in Sources[m] : Edit(m, s)
  \/ \E m \in Module : Remove(m)
  \/ Start \/ Import \/ CheckAbsenceOfMutRecModules
  \/ \E m \in DOMAIN cu : UseHI(m) \/ Compile(m)
  \/ RemoveHI \/ OpenHI \/ CloseHI
  \/ Link

Spec == Init /\ [][Next]_vars

----------------------------------------------------------------------------
\* The modules of the program, imported or used; and what compiling them all
\* anew would make
Needs(m) == IF hs[m] = NoFile THEN {} ELSE hs[m].src.imps \cup hs[m].src.uses
Program  == Reached([m \in Module |-> Needs(m)], {Top})
MadeAnew[m \in Program] ==
  [src |-> hs[m].src, deps |-> [i \in Needs(m) \ {m} |-> MadeAnew[i]]]

(* An executable that a run says it has made is the one that compiling all *)
(* modules anew would make, whatever was edited, added, removed, killed or *)
(* refused before: no object or interface is used that was made from older *)
(* sources, of the module itself or of what it uses indirectly.            *)
ExecutableCurrent ==
  outcome = "ok" => \A m \in Program : exec[m] = MadeAnew[m]

(* After a run that succeeded nothing but the main module needs compiling: *)
(* the next run finds no interface older than the source or than another   *)
(* interface it depends on.                                                *)
QuietAfterSuccess ==
  outcome = "ok" =>
    LET units == [m \in Program |-> Unit(m)]
    IN  \A m \in Program \ {Top} : ~ NeedsCompile(units[m], units)
=============================================================================
