# Verification of UHC

This directory models the parts of the Utrecht Haskell Compiler in which state
changes over time: the C run-time system (`src/EHC/src/rts`), with its memory
manager, its bytecode interpreter and its primitives, and the driver of the
compiler, which decides what to compile again. The transformations of the
compiler are pure functions and are not modelled.

Files ending in `.cc`, `.ch` and `.chs` are chunked sources; line numbers here
refer to them. Paths are relative to `src/EHC/src/rts`, those of the driver to
`src/EHC/src/ehc`, unless they start with `src/`. Where variants differ, the last
one (99 and up) with the bytecode backend is meant.

## The system

| component | state | operations | what makes it correct |
|---|---|---|---|
| bytecode interpreter `bc/interpreter` | stack, frames, code pointer, heap, exception | calls, evaluation, application, update, tail evaluation, C calls, catch and throw | programs end as their lazy meaning says; nodes are updated with their own values; frames and marked nodes agree |
| trace supplies of stack, registers, modules `mm/gbm` | stack frames, registers, tables | visit every pointer in them | each word that may hold an object is visited once, no other |
| primitives `bc/prim*` | C variables, groups of local roots | handles, arrays, big numbers, weak pointers, strings | an object kept over a collection is registered, groups are left on every way out |
| integer primitives `bc/prim`, `priminline`, `bc/interpreter` | tagged words | arithmetic, division, bits, conversions | a word stays tagged and stands for the number Haskell promises |
| double ended queue `mm/basic/deque` | pages of words, offsets | push, pop, reset, iterate | it is a first-in first-out queue; an iterator sees what was there when it was made |
| copying collector `mm/semispace`, `mm/gbm`, `mm/tracesupply` | two spaces, roots, work list | swap, trace roots, follow indirections, copy, forward, scan | the graph is preserved, sharing included; nothing refers to the old space; it ends |
| bump allocator and policy `mm/allocator/bump`, `mm/semispace/ss` | fragments, cursor, limit | alloc, ensure, alloc ensured, reset, resize, finalizers before the retry | collecting and resizing make room for the allocation that asked; spaces stay within the limit |
| weak pointers `mm/weakptr`, `mm/tracesupply/weakptrfinalizeque` | weak pointers, list of them, queue of finalizers | make, dereference, finalize, find live ones, run finalizers, finalize all at exit | a finalizer runs once at most; no stale address is used; dead keys are found |
| buddy pages `mm/pages/buddy` | tag, size and group of pages, free lists, groups | allocate, free, recombine, grow | blocks are disjoint, cover each group, and are found again |
| size class allocator `mm/allocator/listoffree` | classes, free lists, user data of pages | malloc, free, realloc | chunks are disjoint, none is lost, an address leads back to its size |
| spaces `mm/space`, `mm/basic/rangemap`, `mm/basic/flexarray` | fragments, table from frame to space | grow, register, look up | an address is found in the space it belongs to, and in no other |
| compiler driver `EHC.chs`, `EHC/CompileRun`, `EHC/CompileUnit`, `EHC/CompilePhase` | sources, interfaces, objects and their times; compile units | import, decide, order, compile, write interfaces, link | nothing out of date is linked; what is current is not compiled again |
| transformations, libraries, tools | - | - | not modelled, see the end |

How they interact: the interpreter (the mutator) allocates by cutting words off
the current fragment. When there is none, the allocator calls the plan
(`mm_plan_SS_DoGC`), which calls the collector, which lets every trace supply
hand over its pointers: the stack, the local roots of primitives, the modules;
the tracer copies objects with the same allocator and pushes them on the work
list, a deque. When tracing is done the weak pointers with live keys are looked
for and their values traced in turn; dead ones are handed to the queue of
finalizers, and their C finalizers called. After the collection and the resizing
of the spaces the queued finalizers are evaluated, that is, Haskell code runs and
may allocate and collect again. At exit `mm_plan_SS_Exit` finalizes every weak
pointer there is. A primitive may evaluate (`gb_eval`), which starts a loop of
the interpreter inside the one that called it, and an exception may leave
several such loops. Memory of the run-time system itself comes from the size
class allocator, over fragments of the buddy pages, which copy spaces get their
frames from too. Everything runs in one thread: concurrency here is the
re-entrance of collector, allocator, interpreter and finalizers.

The driver shares nothing with that but files. Its runs are separated in time and
interact through interfaces (`.hi`) and objects that earlier runs left, finished
or killed.

Hard behaviours: re-entrance; references in C variables across a collection;
forwarding pointers that look like the mutator's indirections; loops over lists
that the loop body extends; packing and rounding at the limits of a space; page
boundaries in the queue; nodes under evaluation when an exception passes; a
table that is looked up while it moves; tags in words that overflow; times in
whole seconds and half-written files.

## Modules

| module | models | builds on |
|---|---|---|
| `WordQueue` | what a queue of words promises: a sequence | |
| `Deque` | `mm/basic/deque.{cc,ch}`, refines `WordQueue` | `WordQueue` |
| `Deque_proofs` | theorems on `Deque`, and the facts about sequences they rest on | `Deque`, `Induction` |
| `SemiSpace` | `mm_collector_SS_Collect`, `mm_trace_GBM_*`, `mm_traceSupply_*` and a mutator | |
| `SemiSpace_proofs` | theorems on `SemiSpace`: nothing dangling, the graph is preserved, only reachable objects are copied, each once, every step of a collection advances | `SemiSpace`, `Induction` |
| `Bump` | `mm_allocator_Bump_*`, `mm_plan_SS_DoGC` (room and resizing) | |
| `WeakPtr` | `mm_weakPtr_*`, finalizer queue, `mm_plan_SS_Exit` | |
| `WeakPtr_proofs` | theorems on `WeakPtr` | `WeakPtr`, `TLAPS` |
| `PageAllocator` | what the page interface promises: disjoint, aligned blocks | |
| `Powers` | powers of two, the sizes of blocks | |
| `Buddy` | `mm/pages/buddy.{cc,ch}`, refines `PageAllocator` | `PageAllocator`, `Powers` |
| `Allocators_proofs` | theorems on `Buddy` (sets of blocks that descriptions and free lists stand for, what keeps them so, and that the actions do) and, at its end, on `Bump` | `Buddy`, `Bump`, `Induction` |
| `Lof` | `mm_allocator_LOF_*`, `mm_space_Fragment_*`, over the promise of the pages | `Powers` |
| `Spaces` | `mm_space_CopySpace_*`, `mm_Spaces_*`, `mm_rangeMap_*`, `mm_flexArray_*` | `Lof` |
| `Spaces_proofs` | theorems on `Spaces` and `Lof`: lists in memory, what each operation of the allocator keeps, and what is found back | `Spaces`, `Induction` |
| `Interp` | the loop of the interpreter, `gb_eval`, exceptions | |
| `StackTrace` | `mm_traceSupply_GBStack_Run4` | `Interp` |
| `HsInts` | what the integer types promise | |
| `IntPrims` | instructions and primitives on integers, refines `HsInts` | `HsInts` |
| `PrimCode` | the C functions of primitives, as steps on objects | |
| `PrimRoots` | local roots, and the machine that does those steps | `PrimCode` |
| `PrimDiscipline` | no code: a discipline for the C functions of primitives, evaluated along a walk over each of them | `PrimRoots` |
| `PrimRoots_proofs` | theorems on `PrimRoots`, for code that obeys the discipline | `PrimDiscipline`, `TLAPS` |
| `Driver` | gathering, deciding, compiling and linking | |
| `Driver_proofs` | theorems on `Driver` | `Driver`, `TLAPS` |
| `Induction` | induction over numbers, iterates of a step, descending sequences, division and powers of two | `Powers`, `TLAPS` |
| `MC*` | constants for TLC that a `.cfg` cannot hold; `MCInterp` also has the reference meaning of programs and properties that mention it | the module of that name |

Operators named `Bug...` are plausible errors in the definition that follows
them, used nowhere; substituting one must make a property fail.

### Deque

State: `pages` with the words of each page, `headOff`, `nrWordsElt`, and an
iterator `iter`; `result` is what the last call returned, and `use` says which
of the two queues of the program it is: the tracer's work list, which is reset
and never iterated, or the queue of finalizers, which is iterated and never
reset. Actions are the functions of the C interface. `Cap` is the number of
words of a page; in the code it is 1021, so the run takes an odd number and
elements of two words, which leaves one word of each page unused as in the code.
`MaxElts` and `MaxWords` bound the run. `mm_deque_TailEnsure`,
`mm_deque_HeadExtend` and `mm_deque_TailShrink` have no callers outside the
module and are left out.

### SemiSpace

An address is a pair of a space and an index: objects have equal size here, and
`Bump` deals with the room that objects of different sizes need. A node is a
constructor whose fields are traced, raw data, or an indirection; the
forwarding pointer that the collector leaves in a copied node is an indirection
too, as it is in the code (`mm_trace_GBM_TraceKnownToBeObject`). The mutator
allocates, updates a node with an indirection (`GB_UpdWithIndirection_Code_Ind`,
the variant the interpreter uses), writes fields (mutable variables, arrays,
`letrec`) and follows references. The collector is cut into steps at every slot:
take a root or a field, follow an indirection, copy, store. `snap`, the heap
when the collection began, is a history variable read by properties only; from it
`Reachable`, the least set closed under what roots and fields lead to, is defined,
and with it that no garbage is copied (`ExactlyTheForwarded`).
The stack, registers and modules are a set of roots. `CollectionAdvances` says
that every step of a collection brings its end nearer; with it a collection ends
whatever the heap.

### Bump

Objects are their sizes; a space is its number of fragments. Which objects are
live is a free choice, and so is the order in which they are copied: `left` is
the bag still to be copied. The percentages of `mm_plan_SS_DoGC` are computed
with the code's integer arithmetic. A collection inside a collection is what the
code makes it, a panic.

`mm_plan_SS_DoGC` runs the queued finalizers (`collectPost`, ss.cc:325) before it
returns to the allocation that called it. So `EndGC` leads to the phase "collected",
and from there `CollectPost` makes that allocation wait (`outer`) while the mutator
goes on as finalizers (`post`), which allocate, ensure and collect like any mutator;
`EndPost` lets it try again. A collection that a finalizer brings about runs no
finalizers, its allocation is tried again at once. `RoomAfterResizing` says that
there is room before finalizers run and when none can have.

### WeakPtr

Objects keep their identity, and `here` and `current` say which objects and
weak pointer objects have been copied to the space in use; a field that is not
traced holds a stale address. The heap is a fixed graph, chosen in the
initial state. Reachability stands for the work list that `SemiSpace` takes
apart. `pc` says where the program is: running, in a collection, in a finalizer
that the collection queued, or in a finalizer at exit; a collection may start in
each of those. The order of the list of weak pointers is abstracted, so every
order is explored; the queue of finalizers keeps its order. Keys that are static
or unboxed are left out.

Of the pages of the queue `headOff` is kept, the part of the first page that has
been read: when that is all of it, the iterator by which a collection traces the
queue visits nothing (`Visited`), the finalizers in it keep their addresses, and
`missed` counts them. Where such a finalizer is run, and where the code reads at
address 0, the model ends, as "crash"; the program goes on with memory that is no
longer its own.

### Buddy

State: `extl`, the array that describes the pages, indexed from `firstPage`;
`freePages`, the free lists, as sets; the `groups`; and the allocation in
progress (`pc`, `want`, `level`). The two allocation functions are cut at their
attempts: find a block, recombine pair by pair, find again, grow, find again
(`TakeBlock`, `NothingFree`, `RecombinePair`, `RecombineNextSize`,
`NewBuddyGroup`). Where malloc places memory is a free choice, and memory need
not start at a page, so a group has one page more or less. `BlocksOf` states
what the loop of `mm_pages_Buddy_InitPages` computes: the aligned blocks that
cannot be doubled. `pc = "too large"` is the panic of that function.
`PageAllocator` is the promise: `KeepsPromise` maps the blocks tagged `Alloced`,
with the size that `DeallocPages` would find, to its blocks.

### Lof and Spaces

`Lof` is the `malloc` of the run-time system on top of what `PageAllocator`
promises. The allocator is one record, `lof`: memory, a function from addresses
to words, through which the free lists are threaded as in the code; blocks of
pages; the table of fragments; the classes; the user data of pages. Its operators
map a record to a record, for `Spaces` makes several calls in one step: to add a
frame to a copy space is to get pages, to extend the flexible array of the
space, which may move, and to register the frame, for which the table may grow
below or above and move as well. The spaces are set up one after the other when the
run-time system starts (`SpaceInit`); what follows waits for that (`Running`). Where pages are found is one of two choices, the
lowest or the highest place, so that frames come in any order. Clients allocate,
free and resize chunks of the same allocator at the same time, and what they
wrote must still be there. `MM_RangeMap_Inx` is a number of `InxMod` values and
wraps around as it does in the code.

### Interp and StackTrace

`Interp` has one action for each instruction and each of the places of the loop
reached by `goto` or by returning to code of the run-time system (update after
evaluation, application after evaluation, and so on). A word of the stack is
tagged with what it is (pointer, integer, code, saved `bp`), for properties to
tell; the machine looks only where the code looks. Addresses are places in the
heap; nothing moves, since `StackTrace` shows that each word is a root.
`UserCode` is the program's code. C functions are represented by three: one that
evaluates its argument with `gb_eval`, the catch and the throw of exceptions.
An update during unwinding, of nodes that were being evaluated, is `Patched`.

`StackTrace` is the walk that `mm_traceSupply_GBStack_Run4` makes over a stack of
that machine; `StackTraced` says that it visits every word that is not part of
a frame's linkage, once.

`MCInterp` has a library of functions, compiled as the code generator compiles
them (order of operands, tail calls, call infos), among them one that throws,
one that catches, one that loops through itself and one with the same value under
two names, and takes all heaps of three thunks over them. `den` is the meaning of
every node by a lazy reference semantics with a bound `Fuel` on depth; deeper
means "bottom". The machine is compared with that.

### HsInts and IntPrims

`IntPrims` computes on words as bit patterns, with the macros and primitives of
the code: tagged arithmetic without untagging, sign extension, the promotion
of small types to a C int, shifts by more than the width, rotations. `HsInts` is
the program's view: numbers of a type, wrap-around, division as the class
`Integral` states it, `Data.Bits`. `ImplementsHsInts` is the refinement of a
sequence of operations. Where the code is known to differ (`DivDiffers`, rotations
of negative numbers) `HsInts` leaves the result open, and "disagreements" below
tells how.

### PrimCode and PrimRoots

`PrimCode` gives each C function as a sequence of the steps that bear on objects:
entering and leaving groups of roots, registering a variable, allocating,
ensuring room, filling and reading nodes, evaluating, calling, passing exceptions
on. `PrimRoots` runs them. A collection makes every variable that is not
registered `Stale`; `gb_eval` hands over to an interpreter that may allocate, call
another primitive (`MaxNested` deep), throw, or come back. A collection ends as
`mm_plan_SS_DoGC` does (ss.cc:325): the function whose allocation brought it about
waits (`Collect`), queued finalizers are run by `gb_runIO` (`RunFinalizer`), that is, the
interpreter and primitives run in the midst of the allocation, which may collect but run no
further finalizers; then the allocation is tried again (`AllocAfterGC`, `EnsureAfterGC`).
The allocations of the interpreter itself do the same, and those at exit
(`FinalizAlleWeakPtr`). How many finalizers are queued is a choice. The exception thrown is
kept in a variable that is no root. A finalizer may throw and catch; when an
exception leaves it, the machine stops there (`Escaped`, see "disagreements"). What
the tests in the code depend on outside the heap is a choice.

`PrimDiscipline` says what a C function must do for this to go well whatever happens
around it. `Walk` follows the code of each function from its entry along all branches,
without running what it calls, and keeps what is known at each place: the groups
entered and the variables in them, what variables hold (a word, an object of the start,
a new node, some valid object, or nothing one can rely on), the words ensured,
and whether an exception is pending. After what may collect, nothing is known of a
variable that is an object and in no group (`AfterGC`). `Obeys` then asks of every
place that what is read and what is registered be known, groups be left before the
function is, nothing be allocated while an exception is pending, words be
ensured before they are taken. `Disciplined`, that all places of the walk obey, is an
assumption which TLC evaluates before `prim_roots` starts.

### Driver

Files are `hs`, `hi`, `obj`, `exec`, with times in seconds; `NoFile` and `None` say
that there is none. A source is what decisions depend on: its imports, the modules whose
entities it uses, whether it compiles, and a text. What a compilation makes is
represented by what it was made from. Edits happen between runs and in a later
second than the last write of an interface. A run imports module after
module (`Import`, `cu` are the compile units), refuses cycles, then for each module
in order of imports reads the interface or compiles (`UseHI`, `Compile`), where
the object is written, the old interface removed, the new one opened and closed
(`RemoveHI`, `OpenHI`, `CloseHI`), and links. `Kill` ends it anywhere, and what
has been written stays. An interface that was cut short makes the next run fail
until it is removed: decoding is lazy, and happens outside of the `catch` of
`cpDecodeHIInfo`. When a source is removed its interface and object are too.
Options are the same in all runs.

The reference is `MadeAnew`, what compiling all modules of the program, those that
the main module imports or uses, directly or not (`Program`), would make. It is a
recursive function, and what is reached is a least closed set (`Reached`), so that
proofs can speak of both.

## Runs

| run | question | bounds, and why they are enough |
|---|---|---|
| `deque` | does each use of the queue refine a queue, does an iterator visit what was there | pages of 5 words, elements of 2, pushes of up to 3 elements, 7 words in the queue: a page is left with a word unused, a push spans pages, a pop drops one |
| `semispace` | is the graph preserved, is nothing dangling, are only reachable objects copied, and once, does every step advance, is the invariant of the proof an invariant | 2 roots, 3 objects of 2 fields, 3 mutator operations: sharing, cycles, chains of indirections of length 2 and more, collections that follow collections |
| `bump_policy` | does resizing make room for the allocation that waits | fragments of 512 words, objects of 64 and 128, at first one fragment, 3 collections, finalizers after each: shrinking, growing, a full space, collections inside finalizers |
| `weakptr` | once, never stale, dead keys are found, the queue is emptied | 2 objects, 2 weak pointers, collections anywhere, no symmetry; pages of the queue with 1 entry (510 in the code), so that a collection comes upon a page read to its end |
| `weakptr_premature` | a promise of `UHC/Weak.chs` that does not hold | 3 objects, which are symmetric |
| `buddy` | are blocks disjoint, aligned and never lost, is memory asked for only when needed, and is it then enough | blocks of up to 4 pages, requests of 1 and 3, 3 blocks in use, up to 2 groups beside the reuse of descriptions: cut off blocks, recombination over all sizes, a group in front of the first |
| `memspaces` | are chunks, pages and frames accounted for, are contents kept, is the table exact | pages of 8 words in two classes of sizes and larger ones, 12 pages, 2 clients, 2 spaces of 2 frames, arrays that start with one slot: the table and the arrays move, pages go back and are cut anew |
| `interp` | do programs end as they mean; is the stack visible to the collector | more than four thousand programs, a stack of 60 words, `HeapLimit` 22 nodes, `Fuel` 10: a program that needs more is one that the reference takes for infinite |
| `interp_nested` | a promise of the documentation that does not hold | as `interp` |
| `intprims` | are words well tagged, do they compute what Haskell promises | words of 6 bits, C ints of 5, small types of 3: tag, promotion and sign extension all differ, and every pair of numbers is tried |
| `prim_roots` | are C variables roots when it matters | eighteen primitives and `gb_runIO`, numbers of 4 digits, one evaluation inside another: a primitive called by what a primitive evaluates; a finalizer in any allocation where at most 3 C functions are in progress (`FinalizerDepth`), so in that of a primitive's helper and in that of a primitive called by `gb_eval`, and in it any of 3 primitives (`FinalizerPrims`): one that throws, one that allocates, one that evaluates and passes exceptions on; a walk of 90 steps (`Longest`), which is long enough because `Disciplined` also says that the walk is closed |
| `driver` | is what is linked current, is what is current left alone | 3 modules, 2 edits, 3 runs, 4 seconds: a run, an edit of what is used indirectly, a run killed anywhere, an edit, a run |

The two runs named in `PROJECT.json` as `violation` refute one property each: the
counterexample is the finding. All others pass. `deque`, `semispace`, `interp`,
`intprims` and `prim_roots` check deadlock (a machine that has ended is given a
step of its own in `MCInterp`); `bump_policy` does not, where a behaviour stops at
a panic or at the bound on collections, nor `weakptr`, where the program ends or
crashes, `buddy` and `memspaces`, where it stops at the end of the address space,
and `driver`, where time, edits and runs come to an end.

The bounds are guards of actions, and each module says so where they are declared:
`MaxWords`, `MaxElts` (queue); `MaxOps` (mutator operations); `MaxGC` (collections);
`MaxBlocks`, `MaxGroups`, `MallocAt`, `AfterAll` (pages); `NrPages`, `MaxFrags`,
`MaxFragments` (spaces); `HeapLimit` and `Fuel` (interpreter; `StackLimit` is the
code's own); `Digits`, `MaxNested`, `FinalizerDepth`, `FinalizerPrims`, `Longest`
(primitives); `MaxTime`, `MaxEdits`, `MaxRuns` (driver). `WeakPtr` needs none; it
counts the collections that happen at exit no further than two, because a second one
frees the memory that the list walked at exit is in, and a third changes nothing
more.

Fairness: `WeakPtr` assumes that a collection, once called, and a queue of
finalizers, once being emptied, go on, and that a finalizer returns:
`QueueEmptied` depends on it, and a finalizer that loops does block the program.
`Interp` assumes that the loop of the interpreter goes on (`Terminates`).
Both are loops in one thread. `SemiSpace` states the same of a collection.
Nothing is assumed of the program, nor in the other modules.

## Findings

* `weakptr_premature`: values of live weak pointers are copied while live keys
  are looked for, but what they refer to is only traced afterwards
  (mm/semispace/sscollector.cc:77).
* `interp_nested`: an exception that leaves a loop started by `gb_eval` is stored
  over the saved `bp` of the frame of the handler (bc/interpreter.cc:487), against
  EHC/text/TopicGrinBytecode.cltex:2545.

### Disagreements seen while modelling, without a run

Each is followed by the model (or left out of it where it says so); a property
that states the intention would not hold.

Memory:

* An iterator of a queue looks at the first page only to decide whether there are
  data (mm/basic/deque.cc:173), though "iteration starts at the head and stops at the
  tail" (deque.cc:131). When a finalizer that was the last of its page brings about
  two collections, the first may queue finalizers, in a new page, that the second
  does not trace (mm/tracesupply/weakptrfinalizeque.cc:56); they are then run at an
  address of a space that is gone. `WeakPtr` follows this (`missed`, "crash"), and
  `AdminCurrent` and `QueueEmptied` except just these finalizers. A reset forgets
  the size of elements (deque.cc:39); the only queue that is reset is not iterated.
* Live objects that just fitted when they were allocated need not fit in the order
  of copying; the collector then calls for a collection and the program panics
  (mm/allocator/bump.cc:50; ss.cc:285 takes it for impossible). It is the phase
  "panic" of `Bump`.
* The allocation that asked for a collection "should (cannot) not fail" when it is
  tried again (mm/allocator/bump.cc:56). The finalizers that the collection has
  queued run before that (mm/semispace/ss.cc:327) and may take the room that
  resizing made; the allocator then collects again, and finalizers run again.
  `EndPost` of `Bump` leads to such states.
* To ensure room also allocates it, so the block that follows may come out below
  its fragment (mm/allocator/bump.ch:44).
* Memory of a dead object is freed though a finalizer that is about to run may use
  it (mm/weakptr/weakptrlist.cc:115). A collection by a finalizer at exit meets a
  key that was set to 0 (weakptrlist.cc:110, 142). UHC/Weak.chs:54 says that no
  attempt is made to run finalizers at exit; ss.cc:251 does make it.
* `mm_pages_Buddy_NewBuddyGroup` keeps a pointer into an array that may move
  (mm/pages/buddy.cc:243); a request of the largest size panics when a group
  holds an aligned block of twice that size (buddy.cc:111); returning a page reads
  the description of the page behind it, which the last page does not have
  (buddy.cc:374). These are not in the model.
* `mm_Roots_RegisterN` registers one root whatever number it is given
  (mm/roots.ch:51); slots of fragments are never used again
  (mm/space/fragment.cc:66); frame numbers have 32 bits (mm/space.ch:102); to ensure
  a slot that is there already makes a flexible array shorter
  (mm/basic/flexarray.cc:59). None of these can be met as the code is used.

Interpreter and primitives:

* Nodes that a C function evaluates stay marked as black holes after an
  exception (bc/interpreter.cc:1978), and evaluating one again panics (1467).
* A node that an exception has turned into a throwing one and that a primitive
  then evaluates through `gb_eval` leads to the same loss of a frame as
  `interp_nested` shows (bc/interpreter.cc:1440). Such programs are left out of
  `interp` (`RethrowPrograms`).
* An exception that leaves a finalizer which a collection runs inside an allocation
  unwinds the interpreter's stack to a handler further out (bc/interpreter.cc:2017),
  while the C functions in between, from `gb_runIO` (526) on, which does not look for an
  exception, to the primitive that allocates, go on with the stack of something
  else and with `gb_ThrownException` set, which is no root and which their next
  collection leaves behind; with no handler the program ends. `PrimRoots` comes to
  that point and stops (`Escaped`): its invariants hold as long as this has not happened.
* `div` looks at the sign of the truncated quotient only (priminline.ch:196):
  (-4) `div` 2 is -3, one too small, and (-1) `div` 2 is 0, one too large.
  `divMod` of big numbers subtracts one whenever the signs differ, exact quotients
  included (bc/prim-integer.cc:248).
* Rotation of negative numbers brings in sign bits (priminline.ch:358, against
  Data/Bits.hs:128).
* `primNewArray` keeps its initial value unregistered over an allocation
  (bc/prim-array.cc:252): with it among `Prims`, `LocalsCurrent` fails, and the
  code does not obey `Disciplined`.
* `gb_listForceEval` registers its parameter, a reference into a node that may
  move (bc/interpreter.cc:338 suspects as much); `gb_copyCStringFromEvalString`
  returns no value; some lazy strings refer to static buffers that later calls
  write.

Driver:

* Imports of an old interface are followed though the source is newer
  (EHC/CompileUnit.chs:295, EHC/CompilePhase/Semantics.chs:174): when the module
  that an old version imported is gone, or now imports this one, the run is
  refused for what the sources do not say, until the interface is removed.
* An interface cut short is not taken for absent: the error comes outside of the
  `catch` (EHC/CompilePhase/Parsers.chs:215).
* Opts.chs:772 says of the options written to an interface "difference means
  recompile"; they are read (HI.chs:388) and compared with nothing.
* Edits within the second of the last write are not seen, nor are those made
  while a run is between reading a source and writing its interface.

## Proofs

TLC checks small instances; the theorems hold for all values of the constants that
satisfy the assumptions of the module, which TLC evaluates on the runs.

### Technique

`Induction` states induction with a set of numbers in place of a predicate
(`SetInduction`), for the provers cannot instantiate an operator parameter. It
follows from the library's theorem that strict inclusion of finite sets is well
founded. A recursive function is unfolded once, where it is introduced: the
function of which the definition takes a value exists (`IterateExists`), so that
`CHOOSE` finds one, and from then on a table of its values stands for it
(`TargetChain`, `HopsTable`, `FlattenEntry`). `DescentBounded` says that a sequence
of numbers that goes down at every step is no longer than its first member.
Reachability in `WeakPtr` is a least closed set, not a recursion.

`Deque_proofs` starts with what it needs to know of sequences: cutting in two,
dropping the first members, and `FlattenSeq` of a sequence of pages when a page
is appended, dropped or replaced. `Allocators_proofs` and `Spaces_proofs` need division,
multiples and powers of two, which are in `Induction` as far as they share them; powers
are a function (`Pow2`), for the provers know nothing of `2^k` when `k` is not a number.

### Deque

For any page size, any element size that fits in a page, any words and any
bounds. `DequeIsAQueue` (`ImplementsWordQueue`) and `EmptyIffNothingToPop`
(`IsEmptyExact`) rest on `PagesInv`: only the first page can be empty, pages hold no
more than `Cap` words, and the first unread word is in the first page. Without
the last part a pop could find the offset behind the page it looks in, and the
test for emptiness, which looks at one page, would be wrong. Initial states map
to initial states, and each of the calls maps to the push, pop or reset of
`WordQueue`, or to a stutter; a push and a pop that span pages are lemmas of their own
(`SpillFacts`, `DrainFacts` and what they cite).

`SnapshotVisited` (`IteratorVisitsSnapshot`) needs `IterInv` in addition: in the
queue that is iterated every page holds whole elements, the part of the pages that
the iterator still has to visit is what was there when it was made
(`SnapshotOf`), what it has visited is a prefix of the elements of that
(`VisitedInOrder`), and the iterator stands at the last element visited
(`AtLastSeen`). The unused rest of a page is why elements have to be whole: the
iterator adds the size of an element to its offset and compares with the end of
the page.

### SemiSpace

For any finite set of roots and any number of objects, fields and operations.

`TypeCorrect` (`TypeOK`), `Invariance` (`IInv`) and
`CollectorSafe` (`NoDangling`). `NoDangling` speaks of the time between
collections and is not inductive. During a collection, references to the old
space are everywhere; what is invariant is who still has to deal with them. `IInv`
says, in parts: `Control`, where the collector is and that only allocated nodes
with fields to trace are grey; `Untraced`, memory not yet allocated and raw nodes
hold nothing to trace; every word leads to an allocated node or to the old space
(`Known`); and every field that is `Scanned` - its node allocated, not grey, and the
collector past that field - and every root not in `todo` leads to an allocated
node of the new space (`Valid`). When the collection ends nothing is grey, nothing
is in `todo`, so all is valid. The proof has a lemma per action. TLC checks `IInv`
too, in `semispace`.

`GraphInvariance` (`GInv`), `CollectorPreservesGraph`
(`GraphPreserved`) and `CopiesOnce` (`ExactlyTheForwarded`). `GInv` adds two
halves to `IInv`. Between collections the indirections can be ranked
(`ChainsRanked`), that is, there is no circle of them: the code updates a thunk
only with what does not lead back to it, and without this `Target` has no value to
preserve. During a collection `snap` relates old and new memory (`GraphInv`): an
object of the old space is as it was or forwards to its copy; forwarding is one to
one, and onto the allocated part of the new space, which is why as many objects are
allocated as were forwarded; and a slot holds what it held, or, once scanned, the
copy of what that led to. For the other half of `ExactlyTheForwarded`, that only
`Reachable` objects are copied, `LInv` adds to `GInv` that what has been copied was
reachable (`LiveInv`). `Copy` is the one step that could break it: the slot being
traced is a root or a field of a copy, what it held leads to the object copied
(`SlotRight`), and every set closed under reachability holds the end of each chain
whose beginning it holds (`ChainClosed`).

Its second part: `CollectionEnds` (`CollectionAdvances`), from `GInv`: a
chain of indirections is followed in `N` steps at most, since its members differ
(`DescentBounded` on their ranks), and each step of the collector takes more from one
part of `WorkLeft` than it adds to the others. The weights of those parts, which the
definition explains, are what makes the loop over a list that its body extends come
to an end.

### Bump

For any fragment size, margin, set of sizes and initial limit:
`TypeCorrect`, `NeverBeyondTheLimit` (`SpaceBounded`) and `ResizingMakesRoom`
(`RoomAfterResizing`), from `BumpInv`, their conjunction with `Serving` (a request is in
progress when one is served) and `Limit` (the limit never falls below a
hundred bytes, so that the percentages mean something). The argument: after a
collection, when less than 40 percent are free the limit grows by a fragment at
least, so a new fragment can be had; otherwise, in a space that has all its
fragments, what is free lies in the last one and is at least `40 * (FragmentSize
\div 100)`. Finalizers that run then are mutator code and keep the invariant as
such; what is lost by them is the room, so the theorem says nothing of the retry
that comes after them. `BumpAssumption` asks that every request with its margin fits in that;
with the code's fragments (a page size times 16) objects of ordinary size do by far.
An array that is larger does not, and is outside of the theorem.

### WeakPtr

For any number of objects and weak pointers, and any graph.

`NeverFinalizedTwice` (`FinalizedOnce`): `IInv` consists of `Types`, `InOrder(w)` of
every weak pointer (its finalizer has been given away once at most, and then the
mark that says so is in the field that the next reader looks at, which differs
for weak pointers of the program and of the run-time system) and `DeadHaveKeys`
(those found dead in a
collection still have their key, so they have not been given away).

`DereferencedCurrent` (`DerefCurrent`) and `StartsCurrent` (`AdminCurrent`):
`SpaceInv` says who answers for each address outside and inside a collection.
Outside, the roots, the finalizers queued that no collection missed and everything
a listed weak pointer refers to is in the space in use, which is closed under references; inside, the same
holds of what has been copied and of the weak pointers already kept. A weak pointer
that can be dereferenced is on one of the two lists (`Listed`): the one that is taken
off has a tombstone for its finalizer. `Idle` says that the queue is empty unless it is
being emptied, so that only a collection inside a finalizer can miss any.

`KeptHaveLiveKeys` (`DeadKeyFound`): `LiveInv` says that while the collector looks for
live keys, it has copied nothing that is dead, and that every weak pointer whose key
is live has a live value and finalizer; so one more round finds live keys only.

### Buddy

For any largest size, size of the first group and of the descriptions, any requests
up to the largest size, and any places that malloc may choose.

The descriptions of the pages tell of a block only in part: its size is with its
first page, a page in the middle has a tag and a group, and where a block was cut off
shows in the tags behind its middle. So the invariant `BInv` does not read blocks
off the descriptions; it says that there is a set `B` of blocks, free and in use,
that is `Good`: each block is aligned, lies in one group, and shows in the
descriptions of its pages as it should; every page of every group is in exactly one of
them; and the free ones are those on the lists. The first part of `Allocators_proofs` says what becomes of
`B` when a block is halved (`SplitKeeps`), cut off (`CutOffKeeps`), returned
(`FreeKeeps`), joined with its other half (`RecombineKeeps`), or made of new pages
(`AddKeeps`), or when descriptions move (`MovedKeeps`), whatever the
descriptions were; the second part shows that the actions do these things to the array
and the lists. `BuddyInvariance` puts them together.

`PagesTiled` (`BlocksTile`) reads the tiling off `B`. `PromiseKept` (`KeepsPromise`)
maps `B`'s blocks in use to those of `PageAllocator`: each step of the code takes one
(`Granted`), gives one back (`Released`), asks (`Asked`), or leaves them all alone
(`Kept`), and that is a step of the promise or a stutter.

`GrowthJustified` (`GrowsOnlyWhenFull`) needs to know how far recombination has come:
below the size `level`, no two free blocks are each other's halves (`NoPairs`,
in `Searched`), and joining two of size `level` makes none below it. At the end
there are none of any size. Suppose an aligned run of free pages, of the size asked
for, were left. No free block contains it, since the lists from that size on are
empty, so it is covered by smaller ones; a smallest of these that lies in it has an
other half that lies in it too, is free, and is a block itself, for what covers it is
neither smaller nor, being disjoint from the first, larger. That is such a pair.

`GrowthSuffices` (`AllocSucceeds`): a group of at least two and a half times the size
asked for, less the page lost to the start of memory, holds an aligned run of that
size (`RoomForBlock`), and the loop that divides the group makes blocks no smaller
of it (`BlocksCover`).

### Lof and Spaces

For any size of pages and frames, any number and grouping of classes that fit in a
page, any number of pages, clients, requests and spaces. A behaviour ends where the
run-time system panics for want of pages.

`SpacesInvariant`: the invariant `Sound(m, h, tb, rm)` has the allocator, what clients
hold, the arrays of the spaces and the range map for parameters, since a step is a
sequence of calls with states in between. Its core is `Good(m, U, Fr)`, of an
allocator with the chunks `U` in use and the frames `Fr`: fragments and frames are the
blocks, and have no pages in common (`PagesInv`); user data of every page of a fragment
tell which fragment or class it is (`UserInv`); the pages of a class are threaded in a
list, each cut in chunks of its size, and the free list has just those chunks that are
not in `U` (`ClassInv`). `IsList` says what a list in memory is by its members in order,
without recursion: a function from `0..n`, the head first and NULL last, in which each
leads to the next and none comes twice. Writing where no member is leaves a list alone
(`ListFrame`).

The lemmas go along the operators of `Lof`: a fragment is added or given back, user data
are set, a page is cut and its chunks are linked (`RefillGood`), a chunk is taken and returned.
They come together in what a caller relies on (`AllocGood`, `DeallocGood`, `ReallocGood`): after
`Alloc`, `Dealloc` and `Realloc` the allocator is `Good` with one chunk more, less
or replaced, and all other chunks in use have their words and sizes (`Keeps`). That
chunks have no words in common is not stated in `Good`; it follows from where they
lie (`RoomsApart`): two of one fragment are multiples of one size apart, others are in
different fragments. No step forgets that pages were refused (`Sticky`), so that what is
true of a step at its end was true between its calls. On this the arrays (`Slotted`), the range map (`Extended`, which treats the
old table as in use until its entries are copied) and clients build; `OtherSpaces`,
`HeldKept` and `MappedKept` carry what belongs to others over each call.

`ContentIsKept` (`KeepsContent`), `SizeIsFoundBack` (`SizeFoundBack`), `PagesAreAccounted`
(`PagesAccounted`) and `MapIsExact` (`MapExact`) read parts of `Sound`. The last uses
that an index is in range for no other multiple of `InxMod`: there are fewer pages than
values of an index. `ChunksAreConserved` (`ChunksConserved`) also relates the walk that
TLC follows through memory (`Chain`) to the members of the list (`ListChain`): the list is
no longer than there are chunks or pages, so the walk ends at its end.

### Driver

For any modules, any sources, of any shape, that are edited into one another, and
any number of edits and runs, each of which may be killed anywhere.
`DriverAssumption` says what sources are, `NoneAssumption` that the mark for "no file"
is neither a time nor the way a run ends.

What an interface was made from says nothing about whether that is still so, and
what the driver compares are times only. The invariant therefore speaks of the modules
that are up to date (`UpToDate`), by times alone: the largest set of modules whose
interface is no older than the source and than the interfaces it depends on, which
belong to the set too. `FileInv`, on the files, which holds while nothing runs as well,
says that an interface no older than its source was made from it, and one no older than
another it depends on was made with that one (`MadeInv`); that the object of a module
that is up to date is the one made with the interface (`ObjInv`); and that an interface
written in the present second belongs to a module that is up to date (`YoungInv`).
The last is what makes whole seconds do: an edit or a removal comes later than every
write, so it makes modules outdated and none up to date; and an interface that is
written anew is strictly younger than those it makes outdated, or else these would
be up to date, hence not depend on one that is not.

`RunInv`, on a run, relates the units in memory to the files, which were read
before other modules were written. All that is done is up to date, is closed under what
it depends on and can be put in an order (`DoneInv`, `OrderInv`); a unit read from an
interface has that interface's time, and one just compiled has a time a fraction
later, by which every module that still depends on an older interface is seen to
(`Done1`); a module being written has what it needs behind it, and nothing up to
date depends on it (`WriteInv`); and the main module, which every other unit is
imported from (`ImportedInv`), comes last. `LinkedInv` keeps of this what is true of
the executable after the run.

`ExecutableIsCurrent` (`ExecutableCurrent`) then follows because the equations for what
a program is made of have one solution when its modules can be ordered
(`OnlyOneMaking`), and both the executable and `MadeAnew` are one. `SuccessIsQuiet`
(`QuietAfterSuccess`) reads `LinkedInv`: a unit made of a module that is up to date does
not need compiling.

`ObjInv` rests on the order of writing: the object comes first, and while it is new
the old interface is still there but not up to date, so that a run killed in
between leaves a module to be compiled again.

### PrimRoots

For any of the primitives in `PrimCode` called in any order, any depth of
evaluations inside each other, any collections, and any finalizers run by them,
under `Disciplined`. That assumption is about the code alone, not about what happens
while it runs; TLC evaluates it on the eighteen primitives of the run and
`gb_runIO`, with numbers of 4 digits, and it has been evaluated with 1, 2, 3 and 8
as well.

Running code is compared with the walk over it. `IInv` says that places of the walk
can be assigned to the functions in progress such that `PInv` holds: each C function
in progress, with what remains of it to do, is at a place of the walk, and what is
known there is true of its variables, of the words ensured and of the pending
exception (`Holds`, `Fits`); of one that waits for a call, an evaluation or a
collection, what is known after a collection is true already (`Pending`), so that
nothing the callee or a finalizer does can spoil it; a finalizer is answered by the
allocation or the interpreter it was run in (`Answers`); no exception is pending
where a collection runs finalizers (`ThrownInv`); the groups on the chain are those
known of the functions in progress, in the order of the calls (`RootsInv`); what is
in the heap is in order (`HeapInv`); and an evaluation is begun with the heap no
lower than those outside of it (`HeightInv`), so that what is dropped from the
model's heap when it ends is younger than all that waits. A collection is the one
event that disturbs all of it at once: it makes stale what is not registered, which
is what `AfterGC` forgot.

`LocalsStayCurrent` (`LocalsCurrent`), `RootsStayValid` (`RootsValid`),
`GroupsStayBalanced` (`GroupsBalanced`), `EnsuredWordsSuffice` (`EnsuredSuffices`) and
`ThrownStaysCurrent` (`ThrownCurrent`) each read off `IInv` what one conjunct of
`Obeys` says of the place the running function is at. All five speak of what can be
reached without an exception that leaves a finalizer: the machine stops at `Escaped`.

What the discipline is worth shows in what it rejects: `primNewArray` (see
"disagreements"), and the errors that `PrimCode` was tried with, a variable not
registered in `primNewMutVar` and in `primStringToByteArray`, a group not left in
`copyCStringFromEvalString`, too few words ensured (`AllocSlack`), and an allocation after
the throw in `gb_intl_throwException`.

### Model-checked only

* Liveness, which needs fairness and `ENABLED`: `QueueEmptied`, `Terminates`.
* `ResultCorrect`, `NodesKeepMeaning` and `FramesLinked`: `MCInterp` states the meaning
  of nodes with recursive operators, with which the prover has no arithmetic.
* `StackTraced`: for every program it would need a discipline for the compiled code,
  as `PrimRoots` has for the C functions; TLC checks it for the programs of the runs.
* `IntPrims`, which computes with `Bitwise`.
* That the C functions obey the discipline (`Disciplined`): a walk over finitely many
  lines of code, which is evaluated.

## Plan

1. Done: all modules above; proofs on `Deque`, `SemiSpace`, `Bump`, `WeakPtr`,
   `Buddy`, `Lof` and `Spaces`, `Driver` and `PrimRoots`.
2. Proofs: room of `SemiSpace` (`top` stays within `N` because there is a forwarding
   pointer per copy); the actions of the interpreter that need no recursion.
3. Models: an abstract collector (the reachable graph up to isomorphism) which
   `SemiSpace` implements; the stack descriptions by which the compiler takes dead
   words off a frame; the free list array.

## Not modelled

* The C and LLVM backends' mutators: same collector, other layouts.
* Startup, options, loading of modules and profiling: sequential code and I/O.
* `mm/tracesupply/bumpsupply.cc`: a Cheney scan no plan creates. The tables of
  function pointers that plan, collector, mutator and allocators are called
  through: the models are of the instances behind them.
* What primitives compute beyond integers: leaf calls into C libraries.
* Containers of `mm/basic` with no state of their own interest (doubly linked lists,
  iterators): the models see sets and sequences.
* The transformations of the compiler, shuffle, ruler and text2text: pure functions
  over syntax trees, written as attribute grammars; in the driver, packages,
  preprocessing, C files and whole-program optimization.
* Third-party code in `helium`, `lvm`, `top` and `extlibs`; the Haskell libraries;
  prototypes in `jazy`, `javascript`, `grini`.

Much of the C code of the repository is of these kinds, the vendored library of big
numbers with its tests and demos first of all; the models cover the parts of the
run-time system that keep state. The driver is written in Haskell.
