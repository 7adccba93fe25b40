-------------------------------- MODULE Deque --------------------------------
(***************************************************************************)
(* The double ended queue of words of EHC/src/rts/mm/basic/deque.{ch,cc}:  *)
(* a list of buffer pages, an offset of the first unread word in the first *)
(* page and an offset of the last written word in the last one.  Each page *)
(* header remembers the tail offset its page had when the next page was    *)
(* added.  The runtime has two such queues: the work list of the tracer,   *)
(* reset before each collection and never iterated, and the queue of       *)
(* finalizers to be run, iterated by each collection and never reset.      *)
(*                                                                         *)
(* Offsets are counted in words from the first word behind the page        *)
(* header.  A page is the sequence of the words written to it, so that its *)
(* length stands for the page header's tailOff.                            *)
(***************************************************************************)
EXTENDS Integers, Sequences, FiniteSets, SequencesExt

CONSTANTS Word,      \* the words that are queued
          Junk,      \* what an unwritten position of a malloc'ed page holds
          Cap,       \* MM_DEQue_BufMaxWords: data words in one page
          EltSize,   \* nrWordsElt as given to mm_deque_InitWithSize
          MaxElts,   \* the longest push, in elements
          MaxWords   \* bound: words in the queue

ASSUME DequeAssumption ==
  /\ EltSize \in Nat \ {0}
  /\ Cap \in Nat /\ Cap >= EltSize
  /\ MaxElts \in Nat \ {0}
  /\ Junk \notin Word

VARIABLES pages,        \* dll: the pages, each the words written to it
          headOff,      \* words of the first page already read
          nrWordsElt,   \* the element size pushes must respect
          iter,         \* the one iterator in progress, with what it visited
          result,       \* the words the last call handed back
          use           \* what the queue is for

vars == <<pages, headOff, nrWordsElt, iter, result, use>>

Use == {"worklist", "finalizers"}

----------------------------------------------------------------------------
EntierDownBy(x, m) == (x \div m) * m
MinOf(a, b) == IF a < b THEN a ELSE b

(* Definitions whose name starts with "Bug" are mutated forms: plausible   *)
(* mistakes in the definition that follows, which the properties detect.   *)
BugIsEmpty        == Len(Head(pages)) - headOff = 0

HeadTailShareBuffer == Len(pages) = 1
TailAvailWrite      == Cap - Len(Last(pages))
HeadAvailRead       == Len(Head(pages)) - headOff
IsEmpty             == HeadTailShareBuffer /\ HeadAvailRead = 0

\* The words in the queue, oldest first.
Content == SubSeq(FlattenSeq(pages), headOff + 1, Len(FlattenSeq(pages)))

NoIter == [hasData |-> FALSE, page |-> 0, off |-> 0, endPage |-> 0,
           endOff |-> 0, size |-> 0, seen |-> <<>>, from |-> <<>>]

InitWithSize(n) ==
  /\ pages' = << <<>> >>
  /\ headOff' = 0
  /\ nrWordsElt' = n
  /\ iter' = NoIter
  /\ result' = <<>>

Init ==
  /\ pages = << <<>> >>
  /\ headOff = 0
  /\ nrWordsElt = EltSize
  /\ iter = NoIter
  /\ result = <<>>
  /\ use \in Use

----------------------------------------------------------------------------
(* mm_deque_TailPush fills the tail page up to the last whole element that *)
(* fits, then adds pages and fills them likewise.                          *)
TailPushed(ws) ==
  LET n     == Len(ws)
      first == EntierDownBy(MinOf(n, TailAvailWrite), nrWordsElt)
      chunk == EntierDownBy(Cap, nrWordsElt)
      added == (n - first + chunk - 1) \div chunk
  IN  [pages EXCEPT ![Len(pages)] = @ \o SubSeq(ws, 1, first)]
        \o [j \in 1 .. added |->
              SubSeq(ws, first + (j - 1) * chunk + 1, MinOf(first + j * chunk, n))]

\* Callers push whole elements of EltSize words.
TailPush ==
  \E n \in 1 .. MaxElts : \E ws \in [1 .. n * EltSize -> Word] :
    /\ Len(Content) + Len(ws) <= MaxWords
    /\ pages' = TailPushed(ws)
    /\ result' = <<>>
    /\ UNCHANGED <<headOff, nrWordsElt, iter, use>>

(* mm_deque_HeadPop reads page by page.  A page read to its end is dropped *)
(* when it is not the last one, and the words of the next page follow.     *)
ReadUpTo(p) == Len(FlattenSeq(SubSeq(pages, 1, p))) - headOff

\* forgets that a dropped page takes its part of the words read with it
BugHeadPopped(n) ==
  LET k == MinOf(n, Len(Content))
      d == IF k >= ReadUpTo(1) /\ Len(pages) > 1 THEN 1 ELSE 0
  IN  [pages   |-> SubSeq(pages, d + 1, Len(pages)),
       headOff |-> IF d = 0 THEN headOff + k ELSE 0,
       words   |-> SubSeq(Content, 1, k)]

HeadPopped(n) ==
  LET k == MinOf(n, Len(Content))
      d == CHOOSE p \in 0 .. Len(pages) - 1 :
             /\ p > 0 => ReadUpTo(p) <= k
             /\ \A q \in p + 1 .. Len(pages) - 1 : ReadUpTo(q) > k
  IN  [pages   |-> SubSeq(pages, d + 1, Len(pages)),
       headOff |-> IF d = 0 THEN headOff + k ELSE k - ReadUpTo(d),
       words   |-> SubSeq(Content, 1, k)]

\* No caller pops while it iterates.
HeadPop ==
  \E n \in 1 .. MaxElts :
    /\ ~ iter.hasData
    /\ pages' = HeadPopped(n * EltSize).pages
    /\ headOff' = HeadPopped(n * EltSize).headOff
    /\ result' = HeadPopped(n * EltSize).words
    /\ iter' = NoIter
    /\ UNCHANGED <<nrWordsElt, use>>

\* mm_deque_Reset frees the pages and initialises anew, through mm_deque_Init.
Reset ==
  /\ use = "worklist"
  /\ InitWithSize(1)
  /\ UNCHANGED use

----------------------------------------------------------------------------
(* Iteration.  The iterator keeps the page and offset it is at and the     *)
(* page and offset of the tail at its creation.                            *)
EltAt(p, off, size) ==
  [w \in 1 .. size |-> IF off + w <= Len(pages[p]) THEN pages[p][off + w] ELSE Junk]

IteratorStart ==
  /\ use = "finalizers"
  /\ ~ iter.hasData
  /\ iter' = IF HeadAvailRead > 0
             THEN [hasData |-> TRUE, page |-> 1, off |-> headOff,
                   endPage |-> Len(pages), endOff |-> Len(Last(pages)),
                   size |-> nrWordsElt, from |-> Content,
                   seen |-> <<EltAt(1, headOff, nrWordsElt)>>]
             ELSE [NoIter EXCEPT !.from = Content]
  /\ UNCHANGED <<pages, headOff, nrWordsElt, result, use>>

\* reads the tail offset of the last page when it gets there
BugEndOff(p) == Len(pages[p])

\* The end offset of page p as the iterator sees it.
EndOff(p) == IF p = iter.endPage THEN iter.endOff ELSE Len(pages[p])

\* The page at which the iterator finds its next element, if any.
NextPage(off) ==
  IF off < EndOff(iter.page)
  THEN iter.page
  ELSE CHOOSE p \in iter.page + 1 .. iter.endPage + 1 :
         /\ p > iter.endPage \/ EndOff(p) > 0
         /\ \A q \in iter.page + 1 .. p - 1 : EndOff(q) = 0

IteratorStep ==
  /\ iter.hasData
  /\ LET off  == iter.off + iter.size
         page == NextPage(off)
         at   == IF page = iter.page THEN off ELSE 0
     IN  iter' = IF page > iter.endPage
                 THEN [iter EXCEPT !.hasData = FALSE]
                 ELSE [iter EXCEPT !.page = page, !.off = at,
                         !.seen = Append(@, EltAt(page, at, iter.size))]
  /\ UNCHANGED <<pages, headOff, nrWordsElt, result, use>>

Next ==
  \/ TailPush \/ HeadPop \/ Reset
  \/ IteratorStart \/ IteratorStep

Spec == Init /\ [][Next]_vars

----------------------------------------------------------------------------
\* The words of the queue, cut in elements.
Elements(ws) == [e \in 1 .. Len(ws) \div EltSize |-> SubSeq(ws, (e - 1) * EltSize + 1, e * EltSize)]

(* The elements an iterator visits are those that were in the queue when   *)
(* it was created, in order and each whole, whatever is pushed meanwhile,  *)
(* as long as the iterator had something to start with.                    *)
IteratorVisitsSnapshot ==
  LET want == Elements(iter.from)
  IN  /\ IsPrefix(iter.seen, want)
      /\ iter.seen # <<>> /\ ~ iter.hasData => iter.seen = want

(* mm_deque_IsEmpty tells exactly whether there are words to pop; the loop *)
(* that drains the tracer's work list ends on it.                          *)
IsEmptyExact == IsEmpty <=> Content = <<>>

\* The deque is a first-in first-out sequence of words.
Abstract == INSTANCE WordQueue WITH content <- Content, MaxPush <- MaxElts * EltSize
ImplementsWordQueue == Abstract!Spec
=============================================================================
