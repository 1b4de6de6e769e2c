# A verification of MiniProjects

Three student projects share the repository. `484_proj_3` is a buffer manager
for a small database, `283_proj_3` (P3Search) a search queue over a heap with
history, `283_proj_4` (P4Server) a ranking of servers by a bit-vector distance.
The buffer manager carries most of the state and all of the failure handling;
the other two are smaller and have their difficulty in data structures.

## Inventory

| component | state | operations | what is hard |
|---|---|---|---|
| `BufMgr` (buf.cpp, buf.h) | clock hand, table of `BufDesc`, `BufMap`, page pool, counters | readPage, allocPage, unPinPage, disposePage, flushFile, clearBufStats, constructor, destructor | three records of which page is where; late writes of dirty frames; errors in the middle of a call; the clock with love hints |
| `BufMap` (bufMap.cpp) | two vectors, indexed by frame | insert, lookup, remove | insert looks at the slot and not for the page |
| `File` (db.cpp) | one Unix file: a header page, pages, a free list through the pages | create, allocatePage, disposePage, readPage, writePage, open, close | a linked list on disk changed by two writes, either of which can fail; a page disposed of twice |
| `DB` (db.cpp) | open files by name, open counts | createFile, destroyFile, openFile, closeFile, destructor | File objects that outlive their descriptor; flush that can fail on close |
| `testbuf` | the client | a fixed sequence of calls | a second buffer manager over one file |
| `myheap`, `CompleteBinaryTree` | heap array, dumpster, history, save point; each datapoint keeps its own node number | addtoheap, print, clear, save, revert, printhistory | index fields that go stale, ownership of datapoints, revert without heapify |
| `commandexec` | map of names, outstanding prints | one input line | print results owed from before |
| `mergeSort`, `mymap`, `mybitvec` | vector of servers | addtomap, sort, printOut | an order made of three keys |

How they interact: a client calls `BufMgr` with a `File*` it got from `DB`;
`BufMgr` calls `BufMap` and `File` synchronously; `File::close` calls back
`BufMgr::flushFile` through the global `bufMgr`. All of it is sequential. What
varies is the order of the calls, the pages they name and which Unix calls
fail. In P3Search, `commandexec` drives one `myheap`, which owns a
`CompleteBinaryTree` of pointers.

What makes each part correct: the pool must never lose a page that was
reported dirty, show one page in two frames, or take a page from a client that
pinned it; the map must agree with the table; the free list on disk must stay
a list; the sweep must end and find a frame if there is one; the table of open
files must agree with the open counts, and a descriptor must lead to the file
it was opened for. For P3Search, the heap must be a heap after every command,
each datapoint must be deleted once, and a file goes to a waiting request
first. For P4Server, the output must be the sorted permutation of the servers.

## Modules

| module | models |
|---|---|
| `DBFile` | class `File` on the contents of one Unix file: a record with the header fields and the pages. Each operation is a condition for success, the file it leaves, and the set of files it may leave when it returns UNIXERR. `FreeList(d)` is the set of pages the loop of onFreeList visits, defined as the least set closed under links, so that the module has no recursion and works for cyclic lists too. |
| `BufMap` | class `BufMap`: the two vectors are one function from frames to entries. |
| `Clock` | the sweep of allocBuf in closed form: which frame it finds and which loved bits it clears. |
| `ClockSweep` | the same loop step by step; shows that `Clock` is right about it and that it ends. |
| `BufMgr` | class `BufMgr` over the three. One action per public method, from entry to return, and `WritePage` for the client's store through a `Page*`. |
| `PageStore` | what a client may rely on: pages that are gone, blank or hold a value, and a read that gives the value last written. |
| `BufMgrClaims` | a sentence of the assignment that the code does not keep. |
| `DB` | class `DB` and open/close of class `File`, composed with `BufMgr`: named files, File objects, open counts, descriptor numbers that the system gives out again. |
| `CompleteTree` | class `CompleteBinaryTree` as operators on the sequence of its elements. |
| `Heapify` | the sifting loops of `myheap`, each as one operator on the tree and the `third` fields. |
| `Sift` | the same loops one iteration at a time, under addtoheap and print. |
| `MyHeap` | the methods of `myheap`: tree, dumpster, history, save point, and which datapoints were deleted. |
| `CommandExec` | `commandexec` and the loop of main over one `myheap`: one action per kind of line, and one per iteration of the loop that serves outstanding prints. |
| `SearchQueue` | what P3Search promises: a set of ranked files, waiting requests, a save point, and the changes since. |
| `Servers` | relevance (`mybitvec`) and order (`myCompare`) of servers. |
| `MergeSort` | `mergeSort` as a stack of calls and `merge` as a loop, on the vector. |
| `P4Server` | main: reads, computes each relevance byte by byte, sorts, prints. |
| `Ranking` | what P4Server promises: a bag of servers, then a sorted list of exactly these. |
| `MCBufMgr`, `MCDB`, `MCSift`, `MCCommandExec`, `MCP4Server` | constants for TLC. |
| `BufMgrProof`, `PageStoreProof`, `ClockSweepProof`, `DBProof`, `SiftProof`, `CommandExecProof`, `RankingProof` | theorems. |
| `HeapifyProof` | lemmas about the operators of `Heapify`: what the folds and recursive functions do, and that each loop leaves a heap in order. |

How they compose: `DB` extends `BufMgr`, which extends `Clock`, `BufMap` and
`DBFile`, and adds its own variables; `CommandExec` extends `MyHeap`, which
extends `Heapify`, which extends `CompleteTree`; `P4Server` extends
`MergeSort`, which extends `Servers`. `Sift` stands beside `MyHeap` over the
same `Heapify`: it shows that the operators `MyHeap` uses in one step are what
the loops compute.

State of `BufMgr` and the code: `clockHand`, `bufTable`, `bufMap`, `bufPool`
and `bufStats` are the members of the class. `disk` is what the Unix files
hold. `unixFile` says which file the descriptor of a `File` object leads to
(constant in `BufMgr` alone, changed by open and close in `DB`). `process` is *running*, *exited* (after the
destructor), *crashed* (an access outside of the pool or through a null
`File*`) or *hung* (in the loop of onFreeList on a cyclic list). `ret` is the
operation, status and page of the last call.

Data is abstracted as follows. A page is the `Value` a client stored, or a
number: a page whose first word is that number and whose rest is zero. That is
what the free list and freshly allocated pages consist of. Client bytes read
as a link are `Garbage`, a number beyond the file. Reading beyond the end of a
Unix file gives `Absent`.

**DB.** `openFiles` is the member of the class; `openCnt`, `fileName` and `fd`
are the fields of the File objects, `dir` is the directory of the Unix file
system. `::open` returns the lowest free number. closeFile leaves the object,
its number and its frames behind, and `unixFile` follows the number: it is
NULL after the close and another file's when the number was given out again.
File objects are never deleted; one that no frame and no open name refers to
stands for the next new object, so that two objects are enough for two names.
The calls of DB that are refused and change nothing have one reply, `Refusal`;
their errors are named beside it, and no property tells them apart.

**P3Search.** A datapoint is its file name, a number in the order of strcmp;
`heap.tree` is the array of `bintree` and `heap.third` the field of that name.
`maxElts` and `historicaldocsize` are the capacities, so that a write beyond
an array can be seen. `freed` collects what clear deleted: a datapoint that is
deleted twice, or read when it is deleted, ends the run in *undefined*.
`stale` is the one variable without a counterpart: it says that clear left a
save point of earlier contents behind. `printint` is local to the two loops
that use it. `Careful` is a user who gives revert and history only when the
code does them right (`RevertIsSafe`, `HistoryIsSafe`): no clear since the last
save, and the unsaved entries are all prints, or all adds whose datapoints
are still where they were appended.

**P4Server.** A property is a sequence of bits and a server a record. Numbers
are unbounded; distances are compared as squares. `stack` holds the calls of
mergeSort that have not returned, each with what it does next.

**Errors.** `Faults` names the groups of Unix calls that may fail in an
instance; each may fail or succeed at every call. A failed write leaves the
page as it was; torn writes within one page are not modelled. Where allocBuf returns
UNIXERR and its caller goes on with an uninitialized frame number, the model
takes every frame of the pool (`Unset`) or a crash (`FrameOutOfRange`).

**The client.** It stores into a page while it is pinned, and by the time the
last pin is gone it has reported the store as dirty (`Reported`); it disposes
of a page once. `Misuse` lifts the rule on disposing (db.cpp:219 says that the
code does not catch it) and the one on reading pages that were never
allocated, which testbuf does to provoke an error. In `DB`, `Reuse` is a client
that goes on using the pool after it closed a file with dirty pages in it.
Without it the client opens and reads on only when no such frame is there:
before it closed the file, its dirty frames were evicted, or flushed and then
read and released as clean. `db` checks what holds for that client,
`claim_close` what happens to the other.

**Mutants.** Beside some definitions stands a variant marked *Mutant*, the
definition with one plausible mistake. None of them is used by the
specification; each is there to be put in the place of the definition, and
then violates the property it is listed with in `PROJECT.json`.

## Runs

| run | bounds | checks |
|---|---|---|
| `sweep` | 4 frames, every table and hand | the loop of allocBuf meets its closed form (`LoopMeetsClosedForm`) and ends (`SweepEnds`) |
| `pool` | 1 file, 2 pages, 2 frames, 2 pins per page, love hints, faults of read, alloc, dispose and flush | `MapMirrorsTable`, `NoDuplicatePages`, `BufferedPagesAllocated`, `CallsReturn`, `PinnedFramesStay`, `LovedFramesSpared`, `SecondCallSucceeds` |
| `free_list` | 1 file, 3 pages, 1 frame, every fault of allocatePage and disposePage | `FreeListsSound`, `BufferedPagesAllocated`, `CallsReturn` |
| `page_store` | 2 pages, 2 frames, 2 values (symmetric), 2 pins, the faults of `pool` | `CleanFramesMatchDisk`, and `ImplementsPageStore`: the refinement of `PageStore` |
| `adverse` | 2 pages, 2 frames, writes of victims fail, pages are disposed of twice, nothing is stored | `TypeOK` in the presence of unset frame numbers and cyclic lists |
| `db` | 2 names, 2 Unix files, 2 File objects (all symmetric), 2 opens of a file at a time, 1 page, 2 frames, writes of flushFile fail (`FlushedSpec`) | `DBTypeOK`, `OpenTableSound`, `DescriptorsApart`, `FlushedIsDurable`, `OneCopyOfAPage`, and `ImplementsFileStore`: named files refine `PageStore` |
| `sift` | 5 files, 2 relevances | `TypeOK`, `NoDocTwice`, `OrderedWhenIdle`, `LoopsMeetOperators`, `PrintsTheBest`, `LoopsEnd` |
| `heap` | 3 files, 2 relevances, 2 outstanding prints, arrays of 2 that grow, a careful user | `TypeOK`, `HistoryFits`, `OwnedOnce`, `OwedOnlyWhenEmpty`, `DrainEnds`, and `ImplementsSearchQueue` |
| `sort` | up to 4 servers at 2 locations, 2 names, 2 places, 2 properties of 9 bits | `TypeOK`, `ZeroIffSame`, `HalvesSorted`, `PrintedInOrder`, `Finishes`, and `ImplementsRanking` |

Why the bounds are enough. Two pages and one or two frames make every page
compete with another for a frame; three pages give a free list of two (the
first page cannot be disposed of), the shortest that has a link between free
pages. Two pins distinguish a first from a last unPin. Two values tell a lost
store from a kept one. Two names, two opens and two frames let one file be
open twice, or both at once with the pages of both in the pool, and a number
that one closed go to the other. Five files make a tree of three levels with
a node that has two children, and ties are many with two relevances; the
history of three files grows from 2 to 8 entries, through both resizes. Four
servers take the recursion to depth three, with halves of equal and of unequal
length; nine bits are the smallest property with a byte that is partly used.
The proofs take over for larger instances.

The bounds are `MaxPin`, `MaxPage` (a full disk: allocatePage then fails),
`StatMod` (the counters modulo; 1 in every run, so the statistics are in the
model and in `TypeCorrect`, and no run asks anything of them), `MaxOpen`,
`MaxOwed`, `MaxLocations` and `MaxServers`. A free list that a careless client
made lead to page 0 is the one state in which the model does not allocate (see
`AllocRefused`).

Deadlock is checked in `sift` only; the other programs may stop: they exit,
crash, hang or have printed their result.

Fairness. All programs are sequential and nothing but the loop in question
runs in its call, so the assumption is each time that the processor goes on:
`ClockSweep` and `Sift` for their loops, `CommandExec` for the loop that
serves outstanding prints (not for the lines, which nobody needs to type),
and `P4Server` for the whole program, whose input is a file that has all the
counts promise. `BufMgr` and `DB` have no fairness: no client needs to call.

`page_store` uses as its refinement: a page is *gone* when it is not
allocated; when a frame holds it, its content is the frame's if the frame is
dirty or the disk holds a value; otherwise it is what the disk holds. A store
into a freshly allocated page counts from its dirty unPin on, as the frame
of a new page starts with unrelated bytes. After the destructor the mapping
reads the disk only, so the refinement also says that the destructor leaves
everything on disk. disposePage may do anything to its own page, since it
drops dirty data before it knows that the file accepts.

`db` uses the same mapping by name: the pages of a name are those of the Unix
file the directory has for it, or of the frame that its open File object
holds. A closed file is therefore what the disk says, and opening it again
under another object gives the same pages. That is so only if the flush of the
close that lets go of a file writes everything: closeFile and `~DB` say OK after a
failed write too (buf.cpp:167), and then the file has lost its pages. So `db` checks
`FlushedSpec`, which leaves out exactly the closes and the end of the program with
such a failure (`LastsAreWritten`); the writes of every other flush fail at will, and
cost nothing, as the frames stay dirty. In the same way `FlushedIsDurable` says
what an OK means when none of the writes of that call failed. `heap` maps the queue to the files
in the tree, the save point to the files whose history up to lastsaveat has an
add and no print, and the changes to what printhistory would print; the tree,
the arrays, the indices and the dumpster are hidden. `sort` maps the bag to
what mapvec holds and the list to what was printed: every step of merge is a
stutter, except that CopyBack must leave the bag as it was.

### What the code does not do as documented

Each `claim_*` run shows a counterexample to one sentence.

| run | the sentence | what happens |
|---|---|---|
| `claim_unixerr` | projectDesc.pdf p. 5-6: UNIXERR is returned on | buf.cpp:106 and 209 test for BUFFEREXCEEDED only |
| `claim_close` | db.h:55 "Write page pageNo to file" | a dirty frame of a closed file (db.cpp:512 keeps its File object) is written to the file that was given the descriptor; `claim_close` takes a client with `Reuse` |
| `claim_revert` | myheap.h:38 "Reverts heap to last save" | add a, save, add b, print (a comes out), revert: a is put back and rises past b, whose `third` keeps the number of the root, so that undoing the add of b removes the node of a; the heap then holds b, which was never saved, and not a, and quit deletes b twice |

The last one was also seen in the compiled program: after the lines
`a.txt 1`, `$ save`, `b.txt 1`, `$ print`, `$ revert`, a `$ print` shows b.txt, and
`$ quit` ends in a double free.

Seen in the code and not checked by a run of its own:

* allocBuf answers BUFFEREXCEEDED after one sweep that only cleared loved bits
  (buf.cpp:88), where projectDesc.pdf p. 5 says that all frames are pinned;
  `SecondCallSucceeds` is what holds.
* flushFile answers PAGEPINNED for a page of any file (buf.cpp:163), where p. 6
  means a page of the file; it writes the dirty frames of all files, and
  answers OK after a failed write (buf.cpp:168).
* disposePage answers OK for a page that the file refuses to dispose of, whose
  frame it dropped with its dirty data (buf.cpp:200); it is never counted
  (buf.cpp:196 is behind a return).
* readPage answers OK and passes no page back when the file says BADPAGENO
  (buf.cpp:125); the page of allocPage shows the old bytes of the frame
  (buf.cpp:227, modelled in `AllocInto`).
* A page disposed of twice is allocated twice and entered in two slots of the
  map, as insert looks only at the slot (bufMap.cpp:21), after which removing
  the entry of one frame takes away that of the other.
* clear resets the history and keeps lastsaveat (myheap.cpp:91), where
  Project3.pdf lets clear erase the history: until the next save, history
  prints nothing for as many changes as the lost save point counts.
* The loop of commandexec.cpp:66 prints before it counts. After a revert that
  puts more files back than prints are outstanding, one file too many is
  printed; `OnlyPrints` keeps the careful user from it.
* myCompare says "a comes first" (mymap.cpp:42) where it returns that it does not.
* bitset.txt:5-7 calls the relevance an exclusive or; byte i weighs
  256*(globalsize-i-1) plus its difference (mybitvec.cpp:51), so that with two
  bytes the differences (1, 255) rank after (2, 0), which is the larger number.

## Proofs

All are for every number of frames, files, pages and values and every choice
of `Faults`, unless said otherwise. They assume what the modules assume of
the constants: there is a frame (`BufsAssumption`), values are not page numbers
(`ValueAssumption`) nor the contents `PageStore` names (`StoreAssumption`),
NULL is not a file, and bounds are positive (`PinAssumption` and its like).

* `TypeCorrect` (`BufMgrProof`): `Spec => []TypeOK`. `TypeOK` is inductive;
  there is a lemma for each call. What it takes is that `BufMap` and `File`
  never produce a page number outside of the file, and that a pin count is
  only lowered when it is positive.
* `PoolCoherent` (`BufMgrProof`), for a client that does not misuse the
  interface and when victims can be written (`WellBehaved`): always
  `MapMirrorsTable`, `NoDuplicatePages`, `BufferedPagesAllocated` and
  `FreeListsSound`. None of them is inductive alone: that no page is in two
  frames needs that allocatePage gives a page that is not buffered, which
  needs that buffered pages are not on the free list and below `numPages`,
  which needs that no late write of a frame breaks the list. The invariant
  `CoherentInv` is their conjunction with `TypeOK`, that invalid frames are
  cleared, and that no two File objects share a Unix file. It is a predicate
  of a table, a map and a disk, so that it can be carried through the states
  inside of a call: lemma `EvictedCoherent` for the eviction, `SetUpCoherent`
  for Set and insert, `ClearedCoherent` for Clear and remove,
  `RewrittenCoherent` for a write that leaves the list alone. The module
  begins with the facts about the least set `FreeList(d)` they rest on: popping
  and pushing a page changes it by that page, and writes elsewhere leave it.
* `EveryCallReturns` (`PageStoreProof`), for `WellBehaved`: `CallsReturn`. A
  call crashes only when it writes a frame without a file, and `CoherentInv` has
  none; it hangs only on a cyclic free list. That a sound list ends is
  `SoundListEnds`: by soundness two links never lead to the same page, and none
  to the first, so if every page of the list had a successor, links would map the
  list one to one onto a proper part of itself, which no finite set allows.
* `CleanFramesMatch` (`PageStoreProof`), for `WellBehaved`:
  `CleanFramesMatchDisk`. It is inductive beside `CoherentInv` (`CleanInv`): a write of
  one frame leaves every other clean frame right only because no page is in two
  frames and no two File objects lead to one Unix file, and popping or pushing a
  free page changes no buffered page.
* `PoolImplementsStore` (`PageStoreProof`): `Spec => ImplementsPageStore`, for
  `WellBehaved` and when the writes of the destructor succeed (`"shutdown"` is not in
  `Faults`, as in every run of it: the destructor has no way to report a failure).
  The proof writes the mapping as `View` of a table, a pool and a disk, so
  that a call is taken apart into evicting, which changes no view, and reading,
  allocating or disposing, which change the view of one page. Each call is then a
  step of `PageStore` or a stutter.
* `LoopIsClock` (`ClockSweepProof`): `LoopMeetsClosedForm`, from every table and
  hand. In the loop, `Swept` says that none of the frames between the start and the
  hand was replaceable, and that exactly these have lost their loved bit. It
  needs the arithmetic of the ring (`Modulus`, `AdvanceIs`, `AheadIs`): the frame
  k steps from the start is (start + k) mod `numBufs`, and two of them less than
  a turn apart differ.
* `SecondCall` (`BufMgrProof`): `Spec => SecondCallSucceeds`, with no
  condition on client or disk. The invariant is that after a BUFFEREXCEEDED every
  frame is valid and unloved.
* `PinnedStay` and `LovedSpared` (`BufMgrProof`), for `WellBehaved`:
  `PinnedFramesStay` and `LovedFramesSpared`. They rest on `CoherentInv`,
  which ties a lookup to the frame it names, and on the lemma that allocBuf's
  victim is neither pinned nor loved.

* `MapMirrors`, `BufferedStayAllocated` and `FreeListsStaySound`
  (`BufMgrProof`): the parts of `PoolCoherent`, each a property of a run.
* `DBTypes`, `OpenTable` and `Descriptors` (`DBProof`): `DBTypeOK`,
  `OpenTableSound` and `DescriptorsApart` for every client, `Reuse` included, and
  any faults. They are inductive together (`DBInv`): openFile needs that the number
  it gets is used by no open file, closeFile that only its own object is open
  under its number; the calls on pages leave all of it alone.
* `OneCopy`, `Durable`, `CarefulWrites` and `FilesImplementStore` (`DBProof`): the pool
  under `DB`, whose files are closed, destroyed, created and opened again while
  frames of the closed ones stay behind. `BufMgrProof` and
  `PageStoreProof` state the coherence of the pool for a set `L` of `File` objects:
  all of them in `BufMgr` alone, those that are open (`Live`) under `DB`. A frame of
  an object outside of `L` is never found by a lookup, has no file to be written to
  if it is dirty, and no page is taken while it is dirty (`NoStale`). The invariant (`PoolInv`) is `DBInv`, that no two names lead to one
  Unix file (`DirApart`), and `CleanInv(Live)`. Opening gives the file an object
  that no frame mentions; closing takes the object out of `L` after its pages
  are flushed. All are for a `CarefulClient`: `WellBehaved`, and not `Reuse`, the client
  that goes on taking pages after a close that left pages behind (the run
  `claim_close` shows what happens to that one). `WellBehaved` leaves out failing
  writes of victims, here as in `BufMgr`. flushFile goes on after a failed write and
  says OK, so `Durable` is about the calls none of whose writes failed, whatever
  failed before (`FlushedIsDurable`), and `FilesImplementStore` is
  `FlushedSpec => ImplementsFileStore`. `DurableIfFlushed` and
  `FilesImplementStoreIfFlushed` add that on a disk where no write of a flush fails
  (`"flush"` is not in `Faults`) every OK means it, and every behaviour of `DBSpec`
  refines the store. In the refinement a file is what its `File` object
  sees through the pool while it is open, and its pages on disk while it is not
  (`NamedAs`); page calls change it as in `PoolImplementsStore`, opening and closing
  swap one reading for the other, where the two agree (`ScanFlushed`,
  `OpenFileStep`, `CloseFileStep`).
* `SiftTypes`, `HeapIsOrdered`, `DatapointsApart`, `BestIsPrinted` (`SiftProof`): for every
  set of files and relevances. In the middle of a loop the heap is out of
  order at one place: on the way up between `node` and its parent, on the way
  down between `node` and its children, and the parent of `node` is above
  those children (`SiftInv`). That the root of an ordered heap is above every
  other element needs an induction on the path to the root; it is done by the
  least counterexample, whose parent is a smaller one.
* `LoopsAreOperators` (`SiftProof`): `LoopsMeetOperators`, so that the one-step
  operators of `MyHeap` are the loops of the code, for trees of every size. The
  invariant (`LeftToDo`) is that the operator, begun at the node the loop has come to,
  leads to `goal`; an iteration is its first swap. On the way down this needs that a swap
  leaves the nodes below the child alone (`DownFromBelow`). `HeapifyProof` shows that
  the fold and the two recursive functions of `Heapify` do what their bodies say
  (`SwapsAlongFirst`, `NodesUpFirst`, `DownFromFirst`): by induction over sets of
  numbers (`SetInduction`) a function that meets the recursion exists, and by the
  least node where two of them differ it is the only one.
* `HistoryStaysInside` and `OwedPrintsWaitForFiles` (`CommandExecProof`): for
  every user, careful or not, and every initial size. `HistoryInv` is
  `HistoryFits` and the types of the three numbers; the second adds the type of
  outstandingprints.
* `CommandTypes` (`CommandExecProof`): `TypeOK`, for every user. `TypeInv` says that tree,
  dumpster and history hold datapoints of `map` only, and how long the history is.
  `revert` is a fold over the unsaved entries; `UndoIsAWay` gives the states it goes
  through, and `Undoing` holds in each, also when entries and datapoints no
  longer fit. The loops of the heap only change the order of a tree (`SameElements`,
  `SwapsAlongKeeps` in `HeapifyProof`).
* `DatapointsOwnedOnce` (`CommandExecProof`): `OwnedOnce`, for a user who reverts only when
  `RevertIsSafe` (`Careful`); any other revert may lose a datapoint or own it twice,
  as the run `claim_revert` shows. `OwnedOnce` is not inductive: what revert
  does depends on the history, so `OwnInv` adds that what is in the tree has an entry,
  that among the unsaved entries `added` tells adds and prints apart
  (`EntriesTell`), and that, when all of them are prints of saved files, they are the last
  ones of the dumpster (`PrintedLast`). Then a safe revert moves the end of the
  dumpster back (`PrintsUndone`) or the end of the tree away (`AddsUndone`).
* `SearchImplementsQueue` (`CommandExecProof`): `Spec => ImplementsSearchQueue` for the same
  user, every list of files and every initial size: what is printed is what a
  queue of documents with one save point prints. Each line of input is one step of
  `SearchQueue` or none (`StepIsQueueStep`, with a lemma per kind of line:
  `AddIsAdd`, `TakeTopIsTakes`, `RevertIsRevert` and so on). Beside `TypeInv` and `OwnInv`
  it takes `QueueInv`: the heap is in order; `added` tells the two kinds of
  entries of the history apart (`Told`); no datapoint has more than two entries
  (`AtMostTwice`); and a datapoint is in the tree if and only if it has exactly one
  (`Once`). The last two are why revert, which only looks at
  `added`, restores the queue of the last save, and why the lines that
  `history` prints name what was added and removed. The order comes from `HeapifyProof`:
  `SiftUpOrders`, `SinksOrders`, `InsertedOrders` and `PrintedOrders` say that the operators
  which stand for addtoheap, heapifyDown, adddatapointtoheap and print leave a heap in order.
  They rest on the same lemmas about one swap as `HeapIsOrdered` in `SiftProof`.
* `TypesHold`, `OutputIsRanked`, `MergeIsSound`, `ZeroMeansSame`
  (`RankingProof`): for every input. `RankInv` is about the stack: the
  calls nest, each inner call is the half its caller waits for, what a caller
  had sorted before is sorted still, and in the top call `result` is sorted
  and below what is left of both arrays. It uses that `MyCompare` is a total
  preorder. That relevance zero means no difference needs that every bit
  belongs to a byte below `GlobalSize`.
* `ListingImplementsRanking` (`RankingProof`): `Spec => ImplementsRanking`, that the
  list which is printed is the bag which was read, in order. While merge
  runs, each element of `result` comes from a place of one of the halves, no
  place is taken twice (`TakenPlace`), and the places left are those from which merge has
  not read yet; when they are used up, `result` is as long as both halves,
  so by counting every place was taken, and copying back permutes the vector
  (`MovedAbout`). A permuted vector is the same bag.

Only model-checked: all liveness (`SweepEnds`, `LoopsEnd`, `DrainEnds`, `Finishes`),
which is out of the prover's reach. The theorems of the library about induction
take an operator, which the provers cannot instantiate; where an induction is
needed, it is one over sets of numbers (`LeastNumber`, `SetInduction`), and the
free list of `DBFile` is a least fixed point for that reason.

## Not modelled

* What changes no state or only formats: `printSelf`, `getBufStats`, `Error::print`,
  the printing operators, `comlineparse`, `generator.cpp`.
* `File::getFirstPage`, `CompleteBinaryTree::clear` and `size`: no caller.
* `numBufs = 0`, which makes every access to the pool undefined.
* A failing `::close`, whose effect on the descriptor is the system's, and a
  failing write in `File::create`.
* What `~DB` does through a `bufMgr` that is deleted while files are open:
  undefined, the model ends there (`DeleteBufMgr`). testbuf closes its files before.
* The second buffer manager of testbuf.cpp:249 over the same file. Two pools
  over one disk promise nothing to each other.
* Lines of P3Search without a blank, longer than 199 characters, and the end of
  the input without `$ quit` (the loop of main.cpp:21 then goes on for ever).
* Rounding in `sqrt` and `pow`, and the overflow of int.
* `mergeSortArray.cpp`, `error_binary_tree.cpp`, `seg_fault.cpp`: in no program.

## Plan

What could follow: two buffer managers over one disk, as testbuf has them, with a
client that alternates between flushing one and reading through the other.
