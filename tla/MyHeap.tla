------------------------------- MODULE MyHeap -------------------------------
(***************************************************************************)
(* Class myheap (283_proj_3/myheap.cpp): the heap of datapoints, the       *)
(* history of what was added and printed, and the save point.  One action  *)
(* is one call; Heapify has the loops that restore the heap.               *)
(*                                                                         *)
(* A datapoint is allocated once per file name and stands for it.  It is   *)
(* in the tree, or printed and in the dumpster, or deleted by clear; the   *)
(* history points to it all the while.                                     *)
(***************************************************************************)
EXTENDS Heapify

CONSTANT InitialSize   (* of the arrays, 10 in the code *)

ASSUME SizeAssumption == InitialSize \in Nat \ {0}

VARIABLES
  heap,              (* bintree, and the field third of the datapoints     *)
  maxElts,           (* of bintree                                         *)
  second, added,     (* fields of the datapoints                           *)
  dumpster,
  historicaldoc,     (* the entries that can still be read                 *)
  numhistoricaldoc, lastsaveat, historicaldocsize,
  freed,             (* the datapoints that were deleted                   *)
  stale              (* clear left a save point behind (not a variable of  *)
                     (* the code)                                          *)

heapVars == <<heap, maxElts, second, added, dumpster, historicaldoc, numhistoricaldoc,
              lastsaveat, historicaldocsize, freed, stale>>

InTree == ToSet(heap.tree)

HeapInit ==
  /\ heap = [tree |-> <<>>, third |-> [d \in Doc |-> -1]]
  /\ maxElts = InitialSize
  /\ second = [d \in Doc |-> 0] /\ added = [d \in Doc |-> 0]
  /\ dumpster = <<>> /\ historicaldoc = <<>>
  /\ numhistoricaldoc = 0 /\ lastsaveat = 0 /\ historicaldocsize = InitialSize
  /\ freed = {} /\ stale = FALSE

-----------------------------------------------------------------------------
(* The history *)

(* Mutant: the vector grows when it is full already.                       *)
ResizedLate == IF numhistoricaldoc = historicaldocsize THEN 2 * historicaldocsize ELSE historicaldocsize

Resized ==
  IF numhistoricaldoc + 1 = historicaldocsize THEN 2 * historicaldocsize ELSE historicaldocsize

Record(d) ==
  /\ historicaldocsize' = Resized
  /\ historicaldoc' = IF numhistoricaldoc < Len(historicaldoc)
                      THEN [historicaldoc EXCEPT ![numhistoricaldoc + 1] = d]
                      ELSE Append(historicaldoc, d)
  /\ numhistoricaldoc' = numhistoricaldoc + 1

(* Of the entries beyond the n first none is read before it is written.    *)
Forget(n) == historicaldoc' = SubSeq(historicaldoc, 1, n)

Unsaved == SubSeq(historicaldoc, lastsaveat + 1, numhistoricaldoc)

Dangling == \E i \in 1 .. numhistoricaldoc : historicaldoc[i] \in freed

-----------------------------------------------------------------------------
AddToHeap(d, r) ==
  /\ second' = [second EXCEPT ![d] = r]
  /\ added' = [added EXCEPT ![d] = 2]
  /\ heap' = Inserted(heap, second', d)
  /\ maxElts' = GrownFor(maxElts, heap.tree)
  /\ Record(d)
  /\ UNCHANGED <<dumpster, lastsaveat, freed, stale>>

(* print, when there is something to print.                                *)
TakeTop ==
  LET top == Element(heap.tree, 0) IN
  /\ added' = [added EXCEPT ![top] = 1]
  /\ Record(top)
  /\ dumpster' = Append(dumpster, top)
  /\ heap' = Printed(heap, second)
  /\ UNCHANGED <<maxElts, second, lastsaveat, freed, stale>>

(* Every datapoint that clear finds is deleted, so none may be found twice.*)
Found == heap.tree \o dumpster

DeletedTwice == ~IsInjective(Found) \/ ToSet(Found) \cap freed # {}

(* Mutant: the printed datapoints are forgotten.                           *)
TreeOnly == InTree

Deleted == ToSet(Found)

Clear ==
  /\ heap' = [heap EXCEPT !.tree = <<>>]
  /\ dumpster' = <<>>
  /\ freed' = freed \cup Deleted
  /\ numhistoricaldoc' = 0 /\ Forget(lastsaveat)
  /\ stale' = (lastsaveat > 0)
  /\ UNCHANGED <<maxElts, second, added, lastsaveat, historicaldocsize>>

Save ==
  /\ lastsaveat' = numhistoricaldoc /\ Forget(numhistoricaldoc)
  /\ stale' = FALSE
  /\ UNCHANGED <<heap, maxElts, second, added, dumpster, numhistoricaldoc, historicaldocsize, freed>>

-----------------------------------------------------------------------------
(* revert goes through the unsaved entries from the last to the first.     *)
(* printint counts down which entry of a datapoint it meets: an entry of a *)
(* print is undone first, then the one of the add.                         *)

TakeBack(x, d) ==
  [x EXCEPT !.dumpster = Append(@, d),
            !.heap.tree = LET t == Swap(@, x.heap.third[d], LastLeaf(@))
                          IN IF t = <<>> THEN t ELSE RemoveLast(t)]

(* The back of the dumpster is popped, whichever datapoint it is; an empty *)
(* vector has none.                                                        *)
PutBack(x, d) ==
  [x EXCEPT !.undefined = @ \/ x.dumpster = <<>>,
            !.dumpster = IF @ = <<>> THEN @ ELSE Front(@),
            !.maxElts = GrownFor(@, x.heap.tree),
            !.heap = Inserted(@, second, d),
            !.printint[d] = 2]

Undo(x, d) ==
  IF x.printint[d] = 2 THEN TakeBack(x, d)
  ELSE IF x.printint[d] = 1 THEN PutBack(x, d) ELSE x

Reverted ==
  FoldLeft(Undo,
           [heap |-> heap, dumpster |-> dumpster, maxElts |-> maxElts, printint |-> added,
            undefined |-> FALSE],
           Reverse(Unsaved))

PutsBack == \E d \in ToSet(Unsaved) : added[d] = 1

(* What revert does reads a datapoint that was deleted, or pops an empty   *)
(* vector.                                                                 *)
RevertUndefined == Dangling \/ Reverted.undefined

Revert ==
  /\ heap' = Reverted.heap /\ dumpster' = Reverted.dumpster /\ maxElts' = Reverted.maxElts
  /\ historicaldocsize' = IF PutsBack THEN Resized ELSE historicaldocsize
  /\ numhistoricaldoc' = lastsaveat /\ Forget(lastsaveat)
  /\ UNCHANGED <<second, added, lastsaveat, freed, stale>>

-----------------------------------------------------------------------------
(* printhistory.  printint starts as "added" and goes down at each entry   *)
(* of the datapoint.                                                       *)

EntriesBefore(i) == Cardinality({j \in 1 .. i - 1 : historicaldoc[j] = historicaldoc[i]})

(* Mutant: each line says what became of its file in the end.              *)
HistoryLineAtEnd(i) ==
  <<IF added[historicaldoc[i]] = 2 THEN "Added" ELSE "Removed", historicaldoc[i]>>

HistoryLine(i) ==
  <<IF EntriesBefore(i) < added[historicaldoc[i]] THEN "Added" ELSE "Removed", historicaldoc[i]>>

HistoryLines(from) ==
  [k \in 1 .. (IF numhistoricaldoc > from THEN numhistoricaldoc - from ELSE 0) |-> HistoryLine(from + k)]

HistoryUndefined == numhistoricaldoc > lastsaveat /\ Dangling
=============================================================================
