----------------------------- MODULE MergeSort ------------------------------
(***************************************************************************)
(* mergeSort and merge (283_proj_4/mergeSortContainer.cpp) on the vector   *)
(* mapvec.  Positions count from 0, end is past the last one; position k   *)
(* is mapvec[k + 1].  The recursion is a stack of the calls that have not  *)
(* returned, each with what it does next.                                  *)
(***************************************************************************)
EXTENDS Servers

VARIABLES
  mapvec,
  stack,                       (* the calls of mergeSort                   *)
  left, right, result,         (* the arrays of merge, result up to i      *)
  leftCtr, rightCtr,
  pc                           (* what main is doing                       *)

mergeVars == <<left, right, result, leftCtr, rightCtr>>

Call(begin, end) == [begin |-> begin, end |-> end, next |-> "sortLeft"]

Top == stack[Len(stack)]
Mid(c) == c.begin + (c.end - c.begin) \div 2
Then(next) == [stack EXCEPT ![Len(stack)].next = next]

SortInit ==
  /\ mapvec = <<>> /\ stack = <<>>
  /\ left = <<>> /\ right = <<>> /\ result = <<>> /\ leftCtr = 0 /\ rightCtr = 0

(* The call at the top returns; the last one to main.                      *)
Return ==
  /\ stack' = SubSeq(stack, 1, Len(stack) - 1)
  /\ pc' = IF Len(stack) = 1 THEN "print" ELSE "sort"

Running(next) == pc = "sort" /\ Top.next = next

-----------------------------------------------------------------------------
(* mergeSort *)

SortNothing ==
  /\ Running("sortLeft") /\ Top.end - Top.begin <= 1
  /\ Return /\ UNCHANGED <<mapvec, mergeVars>>

SortLeft ==
  /\ Running("sortLeft") /\ Top.end - Top.begin > 1
  /\ stack' = Append(Then("sortRight"), Call(Top.begin, Mid(Top)))
  /\ UNCHANGED <<mapvec, mergeVars, pc>>

(* Mutant: the second half is not sorted.                                  *)
SortRightSkipped ==
  /\ Running("sortRight")
  /\ stack' = Then("merge")
  /\ UNCHANGED <<mapvec, mergeVars, pc>>

SortRight ==
  /\ Running("sortRight")
  /\ stack' = Append(Then("merge"), Call(Mid(Top), Top.end))
  /\ UNCHANGED <<mapvec, mergeVars, pc>>

-----------------------------------------------------------------------------
(* merge *)

Populate ==
  /\ Running("merge")
  /\ left'  = [k \in 1 .. Mid(Top) - Top.begin |-> mapvec[Top.begin + k]]
  /\ right' = [k \in 1 .. Top.end - Mid(Top) |-> mapvec[Mid(Top) + k]]
  /\ result' = <<>> /\ leftCtr' = 0 /\ rightCtr' = 0
  /\ stack' = Then("take")
  /\ UNCHANGED <<mapvec, pc>>

(* Mutant: compare gets its arguments the wrong way round.                 *)
LeftGoesLast == MyCompare(right[rightCtr + 1], left[leftCtr + 1])

LeftGoesFirst == MyCompare(left[leftCtr + 1], right[rightCtr + 1])

(* While both halves have elements left, compare decides.                  *)
FromLeft == leftCtr < Len(left) /\ (rightCtr < Len(right) => LeftGoesFirst)

Take ==
  /\ Running("take") /\ Len(result) < Len(left) + Len(right)
  /\ \/ /\ FromLeft
        /\ result' = Append(result, left[leftCtr + 1])
        /\ leftCtr' = leftCtr + 1 /\ UNCHANGED rightCtr
     \/ /\ ~FromLeft
        /\ result' = Append(result, right[rightCtr + 1])
        /\ rightCtr' = rightCtr + 1 /\ UNCHANGED leftCtr
  /\ UNCHANGED <<mapvec, stack, left, right, pc>>

(* Mutant: the copy stops before the last element.                         *)
CopiedShort(c) ==
  [k \in 1 .. Len(mapvec) |->
    IF c.begin < k /\ k < c.end THEN result[k - c.begin] ELSE mapvec[k]]

Copied(c) ==
  [k \in 1 .. Len(mapvec) |->
    IF c.begin < k /\ k <= c.end THEN result[k - c.begin] ELSE mapvec[k]]

CopyBack ==
  /\ Running("take") /\ Len(result) = Len(left) + Len(right)
  /\ mapvec' = Copied(Top)
  /\ Return /\ UNCHANGED mergeVars

SortStep == SortNothing \/ SortLeft \/ SortRight \/ Populate \/ Take \/ CopyBack
=============================================================================
