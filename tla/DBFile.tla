------------------------------- MODULE DBFile -------------------------------
(***************************************************************************)
(* One Unix file of the database as class File keeps it on disk            *)
(* (484_proj_3/db.cpp): page 0 is a header with the fields of DBPage, the  *)
(* pages that were disposed of form a linked list that starts at the       *)
(* header and runs through the first word of each free page.               *)
(*                                                                         *)
(* The module has no state.  A file is a record; each operation of class   *)
(* File is given by the condition under which it succeeds, the file it     *)
(* then leaves, and the set of files it can leave when it returns UNIXERR. *)
(* The names in Faults say which Unix calls may fail.                      *)
(***************************************************************************)
EXTENDS Integers, FiniteSets

CONSTANTS
  Value,    (* what a client can store in a page                           *)
  MaxPage,  (* the capacity of the disk: the highest page number of a file *)
  Faults    (* the Unix calls that may fail, see FaultNames                *)

ASSUME ValueAssumption == \A n \in -2 .. MaxPage + 1 : n \notin Value
ASSUME MaxPageAssumption == MaxPage \in Nat \ {0}

FaultNames ==
  {"read",            (* intread of the page asked for, in readPage        *)
   "alloc",           (* any call of allocatePage but the one below        *)
   "allocHeader",     (* the header write after the file was extended      *)
   "dispose",         (* any call of disposePage but the one below         *)
   "disposeHeader",   (* the header write after the page was linked        *)
   "evict",           (* the write of a dirty victim in allocBuf           *)
   "flush",           (* a write in flushFile                              *)
   "shutdown"}        (* a write in ~BufMgr                                *)

ASSUME FaultsAssumption == Faults \subseteq FaultNames

Page == 1 .. MaxPage

Nil     == -1           (* end of the free list, or no first page          *)
Absent  == -2           (* a page beyond the end of the Unix file          *)
Garbage == MaxPage + 1  (* client bytes read as a page number: never a page*)

(* A page of zeros whose first word is n is written n; the page a client   *)
(* filled is the Value it stored.                                          *)
Link == Nil .. Garbage
Content == Value \cup Link

File_ == [nextFree : Link, firstPage : {Nil} \cup Page,
          numPages : 1 .. MaxPage + 1, page : [Page -> Content \cup {Absent}]]

(* File::create writes a header page and nothing else.                     *)
NewFile == [nextFree |-> Nil, firstPage |-> Nil, numPages |-> 1,
            page |-> [p \in Page |-> Absent]]

(* DBP(page).nextFree: the first word of a page read as a page number.     *)
LinkOf(c) == IF c \in Link THEN c ELSE Garbage

-----------------------------------------------------------------------------
(* The free list.  FreeList(d) is the least set that holds the page the    *)
(* header points to and is closed under links: the pages that the loop of  *)
(* onFreeList visits.                                                      *)

HoldsChain(d, S) ==
  /\ d.nextFree \in Page => d.nextFree \in S
  /\ \A p \in S : LinkOf(d.page[p]) \in Page => LinkOf(d.page[p]) \in S

FreeList(d) == {p \in Page : \A S \in SUBSET Page : HoldsChain(d, S) => p \in S}

(* Page p belongs to the client.                                           *)
Allocates(d, p) == p < d.numPages /\ p \notin FreeList(d)

(* The loop of onFreeList ends, for a page that is not on the list, when   *)
(* it meets the -1 at the end of the list; on a cyclic list it never does. *)
WalkEnds(d) ==
  d.nextFree = Nil \/ \E p \in FreeList(d) : LinkOf(d.page[p]) = Nil

(* ... and it returns UNIXERR when a link leads beyond the end of the file.*)
WalkFails(d) ==
  d.nextFree = Garbage \/ \E p \in FreeList(d) : LinkOf(d.page[p]) = Garbage

-----------------------------------------------------------------------------
(* File::readPage *)

ReadRejected(d, p) == p < 1 \/ p \in FreeList(d)                 \* BADPAGENO

(* Mutant: a page is read without a look at the free list.                 *)
ReadUnchecked(d, p) == p \in Page /\ d.page[p] # Absent

ReadSucceeds(d, p) ==
  p \in Page /\ p \notin FreeList(d) /\ WalkEnds(d) /\ d.page[p] # Absent

ReadFails(d, p) ==                                               \* UNIXERR
  /\ p \in Page
  /\ \/ "read" \in Faults
     \/ p \notin FreeList(d) /\ WalkFails(d)
     \/ p \notin FreeList(d) /\ WalkEnds(d) /\ d.page[p] = Absent

ReadHangs(d, p) ==                   \* the loop of onFreeList never ends
  p \in Page /\ p \notin FreeList(d) /\ ~WalkEnds(d) /\ ~WalkFails(d)

(* File::writePage, when the write succeeds *)
Written(d, p, c) == [d EXCEPT !.page[p] = c]

-----------------------------------------------------------------------------
(* File::allocatePage takes the first free page, or extends the file.      *)

Extends(d) == d.nextFree = Nil

AllocPageNo(d) == IF Extends(d) THEN d.numPages ELSE d.nextFree

AllocSucceeds(d) ==
  AllocPageNo(d) \in Page /\ (~Extends(d) => d.page[d.nextFree] # Absent)

(* The disk is full, or the free list leads beyond the end of the file.    *)
(* Bound: a list that a careless client made lead to page 0 is not used to *)
(* allocate, for the header itself would be the page.                      *)
AllocRefused(d) ==
  \/ Extends(d) /\ d.numPages > MaxPage
  \/ d.nextFree # 0 /\ ~Extends(d) /\ ~AllocSucceeds(d)

Extended(d) ==
  [d EXCEPT !.page[d.numPages] = 0, !.numPages = d.numPages + 1,
            !.firstPage = IF d.firstPage = Nil THEN d.numPages ELSE d.firstPage]

(* Mutant: the header is not written back.                                 *)
PoppedUnsaved(d) == d

Popped(d) == [d EXCEPT !.nextFree = LinkOf(d.page[d.nextFree])]

Allocated(d) == IF Extends(d) THEN Extended(d) ELSE Popped(d)

(* What is left on disk by an allocatePage that returns UNIXERR: the file  *)
(* as it was, or a file that grew by a page its header does not count.     *)
AllocFailures(d) ==
  (IF "alloc" \in Faults \/ AllocRefused(d) THEN {d} ELSE {}) \cup
  (IF "allocHeader" \in Faults /\ Extends(d) /\ AllocSucceeds(d)
   THEN {[d EXCEPT !.page[d.numPages] = 0]} ELSE {})

-----------------------------------------------------------------------------
(* File::disposePage links the page in front of the free list.             *)

DisposeRejected(d, p) == p < 1 \/ p = d.firstPage \/ p >= d.numPages

(* Mutant: the header is updated first, and the page linked to itself.     *)
DisposedSwapped(d, p) == [d EXCEPT !.page[p] = p, !.nextFree = p]

Disposed(d, p) == [d EXCEPT !.page[p] = d.nextFree, !.nextFree = p]

(* Mutant: the header is written before the page is.                       *)
HeaderFirst(d, p) ==
  (IF "dispose" \in Faults THEN {d} ELSE {}) \cup
  (IF "disposeHeader" \in Faults THEN {[d EXCEPT !.nextFree = p]} ELSE {})

(* What is left by a disposePage that returns UNIXERR: the file as it was, *)
(* or a file whose page was overwritten but is not on the free list.       *)
DisposeFailures(d, p) ==
  (IF "dispose" \in Faults THEN {d} ELSE {}) \cup
  (IF "disposeHeader" \in Faults THEN {[d EXCEPT !.page[p] = d.nextFree]} ELSE {})

-----------------------------------------------------------------------------
(* The shape allocatePage and disposePage keep: no two links lead to the   *)
(* same page and every free page is a page of the file that holds a link.  *)

FreeListSound(d) ==
  /\ d.nextFree \in Page \cup {Nil}
  /\ \A p \in FreeList(d) :
       /\ p < d.numPages /\ d.page[p] \in Page \cup {Nil}
       /\ d.page[p] = d.nextFree => d.nextFree = Nil
       /\ \A q \in FreeList(d) : d.page[p] = d.page[q] => p = q \/ d.page[p] = Nil
=============================================================================
