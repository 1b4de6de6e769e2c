---------------------------- MODULE CompleteTree ----------------------------
(***************************************************************************)
(* Class CompleteBinaryTree (283_proj_3/complete_binary_tree.cpp): a       *)
(* complete binary tree in an array, data[0 .. numElts - 1].  A tree is    *)
(* the sequence of its elements; a CBTNODE n is the index of data, which   *)
(* is place n + 1 of the sequence.                                         *)
(***************************************************************************)
EXTENDS Integers, Sequences

CBTNODE_DNE == -1

Valid(t, n) == n >= 0 /\ n < Len(t)

Element(t, n) == t[n + 1]

LastLeaf(t) == Len(t) - 1

LeftChild(t, n) == IF 2 * n + 1 < Len(t) THEN 2 * n + 1 ELSE CBTNODE_DNE
RightChild(t, n) == IF 2 * n + 2 < Len(t) THEN 2 * n + 2 ELSE CBTNODE_DNE
ParentOf(n) == IF n = 0 THEN CBTNODE_DNE ELSE (n - 1) \div 2

(* Mutant: the first element is overwritten before it is copied.           *)
SwapOverwrites(t, m, n) ==
  IF Valid(t, m) /\ Valid(t, n) THEN [t EXCEPT ![m + 1] = t[n + 1]] ELSE t

(* A node that is not there is refused, and the tree stays as it is.       *)
Swap(t, m, n) ==
  IF Valid(t, m) /\ Valid(t, n)
  THEN [t EXCEPT ![m + 1] = t[n + 1], ![n + 1] = t[m + 1]]
  ELSE t

RemoveLast(t) == SubSeq(t, 1, Len(t) - 1)

(* maxElts after append: the array doubles when it is full.                *)
GrownFor(maxElts, t) == IF Len(t) >= maxElts THEN 2 * maxElts ELSE maxElts
=============================================================================
