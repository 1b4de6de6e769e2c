------------------------------ MODULE Heapify -------------------------------
(***************************************************************************)
(* How class myheap (283_proj_3/myheap.cpp) restores the order of its      *)
(* heap: the loops of addtoheap, adddatapointtoheap and heapifyDown, each  *)
(* one an operator on a heap h, the tree together with the fields "third"  *)
(* of its datapoints.  The field "second" holds the relevances.  A         *)
(* datapoint is the number of its file name in the order of strcmp.        *)
(***************************************************************************)
EXTENDS CompleteTree, SequencesExt

CONSTANTS
  Doc,       (* file names, numbers in the order of strcmp                 *)
  Relevance  (* what atoi makes of the number after the name, if > 0       *)

ASSUME DocAssumption == Doc \subseteq Nat
ASSUME RelevanceAssumption == Relevance \subseteq Nat \ {0}

(* Datapoint c belongs above p: it is more relevant or, if both are        *)
(* equally relevant, its name comes first.                                 *)
Above(second, c, p) == second[c] > second[p] \/ (second[c] = second[p] /\ c < p)

(* After the swap, element(child) is the old parent: its own index is      *)
(* assigned to itself, and the child gets the place where its parent was   *)
(* last known to be.                                                       *)
Exchanged(h, child, parent) ==
  LET c == Element(h.tree, child)
      p == Element(h.tree, parent)
  IN [tree |-> Swap(h.tree, child, parent), third |-> [h.third EXCEPT ![c] = h.third[p]]]

CheckNeedHeapify(h, second, child, parent) ==
  IF /\ Valid(h.tree, parent) /\ Valid(h.tree, child)
     /\ Above(second, Element(h.tree, child), Element(h.tree, parent))
  THEN Exchanged(h, child, parent) ELSE h

(* The child that heapifyDown compares with node n; left if there is no    *)
(* right one.                                                              *)
HigherChild(t, second, n) ==
  LET l == LeftChild(t, n)
      r == RightChild(t, n)
  IN IF r = CBTNODE_DNE \/ Above(second, Element(t, l), Element(t, r)) THEN l ELSE r

-----------------------------------------------------------------------------
(* The loops in one step.  Each visits nodes that the swaps before it left *)
(* alone, so the nodes are known when it starts.                           *)

SwapsAlong(h, second, nodes) ==
  FoldLeft(LAMBDA x, k : CheckNeedHeapify(x, second, k, ParentOf(k)), h, nodes)

NodesUp(n) ==
  LET up[k \in 0 .. n] == IF k = 0 THEN <<>> ELSE <<k>> \o up[ParentOf(k)]
  IN up[n]

SiftUp(h, second, n) == SwapsAlong(h, second, NodesUp(n))

NodesDown(t, second) ==
  LET down[k \in 0 .. Len(t)] ==
        IF LeftChild(t, k) = CBTNODE_DNE THEN <<>>
        ELSE <<HigherChild(t, second, k)>> \o down[HigherChild(t, second, k)]
  IN down[0]

HeapifyDown(h, second) == SwapsAlong(h, second, NodesDown(h.tree, second))

(* A datapoint becomes the last leaf and rises.                            *)
Inserted(h, second, d) ==
  SiftUp([tree |-> Append(h.tree, d), third |-> [h.third EXCEPT ![d] = Len(h.tree)]],
         second, Len(h.tree))

(* print: the last leaf takes the place of the root ...                    *)
RootTaken(h) ==
  LET last == Element(h.tree, LastLeaf(h.tree))
  IN [tree  |-> RemoveLast(Swap(h.tree, 0, LastLeaf(h.tree))),
      third |-> [[h.third EXCEPT ![Element(h.tree, 0)] = -1] EXCEPT
                  ![last] = IF Len(h.tree) > 1 THEN 0 ELSE -1]]

(* ... and sinks.                                                          *)
Printed(h, second) == HeapifyDown(RootTaken(h), second)

HeapOrdered(t, second) ==
  \A k \in 1 .. Len(t) - 1 : ~Above(second, Element(t, k), Element(t, ParentOf(k)))
=============================================================================
