------------------------------- MODULE WeakPtr -------------------------------
(***************************************************************************)
(* Weak pointers and finalization: EHC/src/rts/mm/weakptr/weakptrlist.cc,  *)
(* the part of mm_collector_SS_Collect that deals with them, the           *)
(* finalizers run by mm_collector_SS_CollectPost and mm_plan_SS_Exit.      *)
(*                                                                         *)
(* Objects have an identity that copying preserves; the pointers between   *)
(* them are fixed.  here is the set of nodes in the space allocated in.    *)
(* The fields of a weak pointer are not traced with the object, so a copy  *)
(* may hold addresses of the collected space: current is the set of weak   *)
(* pointers whose fields do not.  A weak pointer without value is one of   *)
(* the runtime's own, for an object that owns malloc'ed memory or a file;  *)
(* its finalizer is a C function that frees it.                            *)
(*                                                                         *)
(* The slots of the list of weak pointers are visited in no particular     *)
(* order, free ones being reused.  Collections interrupt the mutator       *)
(* anywhere, the mutator running a finalizer included.                     *)
(*                                                                         *)
(* Of the pages that the queue of finalizers lies in, headOff keeps how    *)
(* much of the first one has been read: an iterator visits nothing when    *)
(* that is all of it.  The finalizers that a collection misses in this way *)
(* keep their addresses; where one of them is run, or a key that is 0 is   *)
(* taken for the address of an object, the model ends, as "crash", while   *)
(* the program goes on with what it finds there.                           *)
(***************************************************************************)
EXTENDS Integers, Sequences, FiniteSets

CONSTANTS Obj, Wp,
          Graphs,          \* the pointers between objects, to choose from
          None,            \* 0
          NoFinalizer, BeingFinalized,
          CFinalizer,      \* gb_Node_Finalize
          PageElts         \* entries in a page of the queue of finalizers

Node == Obj \cup Wp

ASSUME WeakPtrAssumption ==
  /\ IsFiniteSet(Obj) /\ IsFiniteSet(Wp) /\ Obj \cap Wp = {}
  /\ Graphs \subseteq [Obj -> SUBSET Obj] /\ PageElts \in Nat \ {0}
  /\ {None, NoFinalizer, BeingFinalized, CFinalizer} \cap Node = {}
  /\ None \notin {NoFinalizer, BeingFinalized, CFinalizer}
  /\ CFinalizer \notin {NoFinalizer, BeingFinalized} /\ NoFinalizer # BeingFinalized

VARIABLES edges,
          roots,       \* what the mutator holds, but not weakly
          here,
          wp,          \* MM_WeakPtr_Object of each weak pointer
          current,
          unused,      \* weak pointers not made yet
          freed,       \* objects whose malloc'ed memory has been freed
          ptrList,     \* the list of weak pointers
          ptrListNew,
          finQue,      \* weakPtrFinalizeQue
          headOff,     \* entries of its first page that have been read
          missed,      \* history: entries at its head that a collection missed
          copied,      \* nodes copied in this collection
          pc,
          post,        \* MM_PLAN_SS_GCPROGRESS_POSTCOLLECTING
          exiting,     \* mm_plan_SS_Exit has been called
          exitLeft,    \* the rest of the list it iterates over
          exitGCs,     \* collections since, up to 2
          live,        \* history: what a collection has to keep alive
          given        \* history: times the finalizer was run or handed out

gcvars   == <<ptrListNew, copied, live>>
exitvars == <<exiting, exitLeft, exitGCs>>
heapvars == <<edges, roots, here, wp, current, unused, freed, given>>
quevars  == <<finQue, headOff, missed>>
vars     == <<heapvars, ptrList, quevars, pc, post, gcvars, exitvars>>

Init ==
  /\ edges \in Graphs
  /\ roots = Obj /\ here = Obj
  /\ wp = [w \in Wp |-> [key |-> None, val |-> None, fin |-> None]]
  /\ current = {} /\ unused = Wp /\ freed = {}
  /\ ptrList = {} /\ ptrListNew = {} /\ copied = {} /\ live = {}
  /\ finQue = <<>> /\ headOff = 0 /\ missed = 0
  /\ pc = "run" /\ post = FALSE
  /\ exiting = FALSE /\ exitLeft = {} /\ exitGCs = 0
  /\ given = [w \in Wp |-> 0]

\* the finalizers queued that no collection has missed
Queued == {finQue[i] : i \in missed + 1 .. Len(finQue)}

\* what tracing reaches from the nodes S: the least set with S that the
\* pointers between objects do not lead out of
Closed(T) == \A o \in T \cap Obj : edges[o] \subseteq T

Reach(S) == {n \in Node : \A T \in SUBSET Node : S \subseteq T /\ Closed(T) => n \in T}

----------------------------------------------------------------------------
(* The mutator.  It runs in main, in a finalizer or, at exit, in one of    *)
(* the finalizers run then.                                                *)
Running == pc = "run" /\ UNCHANGED <<pc, post, gcvars, edges, here, freed>>

Load(n, m) ==
  /\ Running
  /\ n \in roots \cap Obj /\ m \in edges[n]
  /\ roots' = roots \cup {m}
  /\ UNCHANGED <<wp, current, unused, given, ptrList, quevars, exitvars>>

Drop(n) ==
  /\ Running
  /\ n \in roots
  /\ roots' = roots \ {n}
  /\ UNCHANGED <<wp, current, unused, given, ptrList, quevars, exitvars>>

\* mm_freeListArray_Add: the slot may lie before or after the one that the
\* iteration at exit has got to
AddToList(w) ==
  /\ ptrList' = ptrList \cup {w}
  /\ IF exiting /\ exitGCs = 0 THEN exitLeft' \in {exitLeft, exitLeft \cup {w}}
     ELSE UNCHANGED exitLeft

Make(w, key, val, fin) ==
  /\ pc = "run" /\ UNCHANGED <<pc, post, gcvars, edges, freed>>
  /\ w \in unused /\ unused' = unused \ {w}
  /\ wp' = [wp EXCEPT ![w] = [key |-> key, val |-> val, fin |-> fin]]
  /\ here' = here \cup {w} /\ current' = current \cup {w}
  /\ AddToList(w)
  /\ UNCHANGED <<given, quevars, exiting, exitGCs>>

\* mm_weakPtr_List_NewWeakPtr for primMakeWeakPtr[WOFinalizer]
NewWeakPtr(w, key, val, fin) ==
  /\ {key, val} \subseteq roots /\ fin \in roots \cup {NoFinalizer}
  /\ Make(w, key, val, fin)
  /\ roots' = roots \cup {w}

\* mm_itf_registerFinalization, once for an object
RegisterFinalization(w, key) ==
  /\ key \in roots /\ key \notin freed
  /\ \A v \in Wp : wp[v].key = key => wp[v].val # None
  /\ Make(w, key, None, CFinalizer)
  /\ UNCHANGED roots

\* a weak pointer being finalized is still dereferenced
BugDeref(w) == IF wp[w].fin = None THEN None ELSE wp[w].val

\* mm_weakPtr_List_DerefWeakPtr
Deref(w) == IF wp[w].fin \in {None, BeingFinalized} THEN None ELSE wp[w].val

DerefWeakPtr(w) ==
  /\ Running
  /\ w \in roots /\ Deref(w) # None
  /\ roots' = roots \cup {Deref(w)}
  /\ UNCHANGED <<wp, current, unused, given, ptrList, quevars, exitvars>>

\* the finalizer mm_weakPtr_List_FinalizeWeakPtr returns for one with a value
Returned(w) == IF wp[w].fin \in {BeingFinalized, NoFinalizer} THEN None ELSE wp[w].fin

\* the weak pointer keeps its finalizer
BugTombstoned(w) == wp

\* and what it leaves of it
Tombstoned(w) == [wp EXCEPT ![w].fin = BeingFinalized]

Counted(w) == IF Returned(w) = None THEN given ELSE [given EXCEPT ![w] = @ + 1]

\* primFinalizeWeakPtr: the caller gets the finalizer and runs it
FinalizeWeakPtr(w) ==
  /\ Running
  /\ w \in roots
  /\ wp' = Tombstoned(w) /\ given' = Counted(w)
  /\ roots' = roots \cup ({Returned(w)} \ {None})
  /\ UNCHANGED <<current, unused, ptrList, quevars, exitvars>>

----------------------------------------------------------------------------
(* Collection.                                                             *)

\* the nodes that a weak pointer refers to, itself included
Parts(w) == ({w, wp[w].key, wp[w].val, wp[w].fin}) \cap Node

\* What mm_traceSupply_WeakPtrFinalizeQue_Run visits: mm_deque_Iterator
\* looks no further than the first page for something to read.  (No finalizer
\* missed before is visited later: the head would have to move first.)
Visited == IF headOff = PageElts THEN {} ELSE Queued

\* and traces
QueuedParts == UNION {Parts(q.wp) \cup {q.fin} : q \in Visited}

\* What a collection must keep: what is reachable from the roots and the
\* finalizers it visits, where a weak pointer with a reachable key makes its
\* value and its finalizer reachable.
Kept(T) ==
  /\ roots \cup QueuedParts \subseteq T /\ Closed(T)
  /\ \A w \in ptrList : wp[w].key \in T => Parts(w) \subseteq T

Live == {n \in Node : \A T \in SUBSET Node : Kept(T) => n \in T}

\* the values of weak pointers are taken for roots
BugStartGC ==
  /\ pc = "run" /\ pc' = "find"
  /\ copied' = Reach(roots \cup QueuedParts \cup ({wp[w].val : w \in ptrList} \cap Obj))
  /\ current' = {q.wp : q \in Visited}
  /\ missed' = IF headOff = PageElts THEN Len(finQue) ELSE missed
  /\ ptrListNew' = {}
  /\ live' = Live
  /\ UNCHANGED <<edges, roots, here, wp, unused, freed, given, ptrList, finQue, headOff,
                 post, exitvars>>

\* swap, mm_traceSupply_Group_Run, startFindLiveObjects
StartGC ==
  /\ pc = "run" /\ pc' = "find"
  /\ copied' = Reach(roots \cup QueuedParts)
  /\ current' = {q.wp : q \in Visited}
  /\ missed' = IF headOff = PageElts THEN Len(finQue) ELSE missed
  /\ ptrListNew' = {}
  /\ live' = Live
  /\ UNCHANGED <<edges, roots, here, wp, unused, freed, given, ptrList, finQue, headOff,
                 post, exitvars>>

\* mm_weakPtr_List_TraceWeakPtr does not trace the fields
BugTraced(W) == copied \cup W

\* mm_weakPtr_List_TraceWeakPtr: copied, what they refer to is queued
Traced(W) == copied \cup UNION {Parts(w) : w \in W}

\* mm_weakPtr_List_FindLiveObjects and the tracing of what it finds.  A key
\* that is 0 is taken for the address of an object.
FindLive ==
  LET alive == {w \in ptrList : wp[w].key \in copied}
  IN  /\ pc = "find"
      /\ IF \E w \in ptrList : wp[w].key = None
         THEN pc' = "crash" /\ UNCHANGED <<ptrList, ptrListNew, copied, current, exitLeft>>
         ELSE /\ ptrListNew' = ptrListNew \cup alive
              /\ ptrList' = ptrList \ alive
              /\ copied' = Traced(alive)
              /\ current' = current \cup alive
              /\ exitLeft' = IF exitGCs = 0 THEN exitLeft \ alive ELSE exitLeft
              /\ pc' = IF alive = {} THEN "finalize" ELSE "find"
      /\ UNCHANGED <<edges, roots, here, wp, unused, freed, given, quevars,
                     post, live, exiting, exitGCs>>

\* mm_weakPtr_List_FinalizeWeakPtr for a weak pointer without value
Freed(w) ==
  /\ wp' = [wp EXCEPT ![w].key = None, ![w].fin = None]
  /\ freed' = freed \cup {wp[w].key}
  /\ given' = [given EXCEPT ![w] = @ + 1]

\* a dead weak pointer, ptrList being what is left of toFinalize
FinalizeDead(w) ==
  /\ pc = "finalize"
  /\ w \in ptrList /\ ptrList' = ptrList \ {w}
  /\ IF wp[w].val = None
     THEN Freed(w) /\ UNCHANGED <<copied, current, finQue>>
     ELSE /\ wp' = Tombstoned(w) /\ given' = Counted(w)
          /\ IF Returned(w) = None
             THEN UNCHANGED <<copied, current, finQue>>
             ELSE /\ copied' = Traced({w}) \cup {Returned(w)}
                  /\ current' = current \cup {w}
                  /\ finQue' = Append(finQue, [wp |-> w, fin |-> Returned(w)])
          /\ UNCHANGED freed
  /\ UNCHANGED <<edges, roots, here, unused, headOff, missed, pc, post, ptrListNew, live, exitvars>>

\* The work list is run for the last time.  Finalizers are run unless that
\* is what was going on.
EndGC ==
  /\ pc = "finalize" /\ ptrList = {}
  /\ here' = Reach(copied)
  /\ ptrList' = ptrListNew
  /\ pc' = IF post THEN "run" ELSE "post"
  /\ post' = TRUE
  /\ exitGCs' = IF exiting /\ exitGCs < 2 THEN exitGCs + 1 ELSE exitGCs
  /\ copied' = {} /\ live' = {} /\ ptrListNew' = {}
  /\ UNCHANGED <<edges, roots, wp, current, unused, freed, given, quevars, exiting, exitLeft>>

----------------------------------------------------------------------------
(* mm_collector_SS_CollectPost.                                            *)

\* mm_deque_HeadPop drops the first page when all of it has been read, unless
\* it is the only one.
PoppedOff ==
  LET off == IF headOff = PageElts THEN 1 ELSE headOff + 1
  IN  IF off = PageElts /\ Len(finQue) > 1 THEN 0 ELSE off

RunFinalizer ==
  /\ pc = "post" /\ finQue # <<>>
  /\ finQue' = Tail(finQue) /\ headOff' = PoppedOff
  /\ IF missed > 0
     THEN pc' = "crash" /\ missed' = missed - 1 /\ UNCHANGED roots
     ELSE pc' = "run" /\ roots' = roots \cup {Head(finQue).fin} /\ UNCHANGED missed
  /\ UNCHANGED <<edges, here, wp, current, unused, freed, given, ptrList, post, gcvars, exitvars>>

\* one finalizer is run for each collection
BugEndFinalizer ==
  /\ pc = "run" /\ post
  /\ post' = FALSE
  /\ UNCHANGED <<pc, heapvars, ptrList, quevars, gcvars, exitvars>>

EndFinalizer ==
  /\ pc = "run" /\ post
  /\ pc' = "post"
  /\ UNCHANGED <<post, heapvars, ptrList, quevars, gcvars, exitvars>>

EndPost ==
  /\ pc = "post" /\ finQue = <<>>
  /\ post' = FALSE /\ pc' = "run"
  /\ UNCHANGED <<heapvars, ptrList, quevars, gcvars, exitvars>>

----------------------------------------------------------------------------
(* mm_weakPtr_List_FinalizAlleWeakPtr.                                     *)
Exit ==
  /\ pc = "run" /\ ~ post /\ ~ exiting
  /\ exiting' = TRUE /\ exitLeft' = ptrList
  /\ pc' = "exit"
  /\ UNCHANGED <<heapvars, ptrList, quevars, post, gcvars, exitGCs>>

\* After a second collection the entry points into memory that is reused;
\* a weak pointer of the runtime that was finalized is a panic.
ExitFinalize(w) ==
  /\ pc = "exit"
  /\ w \in exitLeft /\ exitLeft' = exitLeft \ {w}
  /\ IF exitGCs = 2 \/ (wp[w].val = None /\ wp[w].fin = None)
     THEN pc' = "crash" /\ UNCHANGED <<roots, wp, freed, given>>
     ELSE IF wp[w].val = None
     THEN Freed(w) /\ UNCHANGED <<roots, pc>>
     ELSE /\ wp' = Tombstoned(w) /\ given' = Counted(w)
          /\ roots' = roots \cup ({Returned(w)} \ {None})
          /\ pc' = IF Returned(w) = None THEN "exit" ELSE "run"
          /\ UNCHANGED freed
  /\ UNCHANGED <<edges, here, current, unused, ptrList, quevars, post, gcvars, exiting, exitGCs>>

EndExitFinalizer ==
  /\ pc = "run" /\ exiting /\ ~ post
  /\ pc' = "exit"
  /\ UNCHANGED <<heapvars, ptrList, quevars, post, gcvars, exitvars>>

EndExit ==
  /\ pc = "exit" /\ exitLeft = {}
  /\ pc' = "done"
  /\ UNCHANGED <<heapvars, ptrList, quevars, post, gcvars, exitvars>>

----------------------------------------------------------------------------
Mutator ==
  \/ \E n \in Node : Drop(n)
  \/ \E n, m \in Obj : Load(n, m)
  \/ \E w \in Wp : \/ DerefWeakPtr(w) \/ FinalizeWeakPtr(w)
                   \/ \E key \in Obj : RegisterFinalization(w, key)
                   \/ \E key, val \in Obj, fin \in Obj \cup {NoFinalizer} :
                        NewWeakPtr(w, key, val, fin)

Collector == FindLive \/ (\E w \in Wp : FinalizeDead(w)) \/ EndGC
Finalizers == RunFinalizer \/ EndFinalizer \/ EndPost
AtExit == Exit \/ (\E w \in Wp : ExitFinalize(w)) \/ EndExitFinalizer \/ EndExit

Next == Mutator \/ StartGC \/ Collector \/ Finalizers \/ AtExit

(* The collector is sequential code, and every finalizer ends, whatever    *)
(* collections it brings about.                                            *)
Fairness == WF_vars(Collector) /\ WF_vars(RunFinalizer) /\ SF_vars(EndFinalizer)

Spec == Init /\ [][Next]_vars /\ Fairness

----------------------------------------------------------------------------
(* No finalizer is run or handed out twice, by whatever combination of     *)
(* explicit finalization, collections and the end of the program.          *)
FinalizedOnce == \A w \in Wp : given[w] <= 1

(* What dereferencing a weak pointer yields is an object of the space in   *)
(* use: the field is not an address from before the last collection.       *)
DerefCurrent ==
  pc = "run" => \A w \in roots \cap Wp :
                  Deref(w) # None => w \in current /\ Deref(w) \in here

(* Everything the next collection starts from is in the space in use:      *)
(* roots, listed weak pointers with their keys and values, and the         *)
(* finalizers that wait, but for those that a collection missed because    *)
(* the first page of their queue had been read.  Only a collection brought *)
(* about by a finalizer of the queue can miss any.                         *)
AdminCurrent ==
  pc \in {"run", "post"} =>
    /\ roots \subseteq here
    /\ \A w \in ptrList : w \in current /\ Parts(w) \subseteq here
    /\ \A q \in Queued : q.wp \in current /\ Parts(q.wp) \cup {q.fin} \subseteq here
    /\ missed > 0 => post

(* Neither its value nor its finalizer keeps a key alive: the weak         *)
(* pointers a collection keeps are those with live keys, weakptr.ch:14.    *)
DeadKeyFound == pc = "finalize" => \A w \in ptrListNew : wp[w].key \in live

(* A finalizer whose turn comes is run: the queue is emptied also when     *)
(* finalizers bring about collections that find more, unless it comes to a *)
(* finalizer that a collection missed.                                     *)
QueueEmptied == (finQue # <<>>) ~> (finQue = <<>> \/ pc = "crash")

----------------------------------------------------------------------------
(* Weak.chs:44-50: "if the key is considered to be alive by the garbage    *)
(* collector, then the value is also alive", and the finalizer is run      *)
(* "after the key has become unreachable by the program".                  *)
OnlyDeadFinalized == pc = "finalize" => \A w \in ptrList : wp[w].key \notin live
=============================================================================
