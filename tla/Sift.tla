-------------------------------- MODULE Sift --------------------------------
(***************************************************************************)
(* The loops of class myheap (283_proj_3/myheap.cpp), one iteration at a   *)
(* time: addtoheap and adddatapointtoheap let a new leaf rise, print lets  *)
(* the last leaf sink from the root.  Heapify holds each loop as one       *)
(* operator, which module MyHeap uses.                                     *)
(***************************************************************************)
EXTENDS Heapify

VARIABLES
  heap,    (* bintree, and the field third of each datapoint               *)
  second,  (* the field second                                             *)
  pc,      (* idle, or in the loop that goes up or down                    *)
  node,    (* lastadded or headnode                                        *)
  goal     (* what the operators of Heapify say the loop will leave        *)

vars == <<heap, second, pc, node, goal>>

InTree == {heap.tree[k] : k \in 1 .. Len(heap.tree)}

Init ==
  /\ heap = [tree |-> <<>>, third |-> [d \in Doc |-> -1]]
  /\ second = [d \in Doc |-> 0]
  /\ pc = "idle" /\ node = 0 /\ goal = heap

(* addtoheap, up to its loop.  A lone root has no parent to compare with.  *)
Add(d, r) ==
  /\ pc = "idle" /\ d \notin InTree
  /\ second' = [second EXCEPT ![d] = r]
  /\ heap' = [tree |-> Append(heap.tree, d), third |-> [heap.third EXCEPT ![d] = Len(heap.tree)]]
  /\ node' = Len(heap.tree)
  /\ pc' = IF Len(heap.tree) = 0 THEN "idle" ELSE "up"
  /\ goal' = Inserted(heap, second', d)

(* Mutant: the loop ends before it compares with the root.                 *)
UpToRoot(parent) == parent = 0 \/ ParentOf(parent) = 0

LoopAtRoot(parent) == parent = 0

(* Mutant: lastadded is not moved to the parent.                           *)
RiseStuck ==
  /\ pc = "up"
  /\ heap' = CheckNeedHeapify(heap, second, node, ParentOf(node))
  /\ pc' = IF LoopAtRoot(ParentOf(node)) THEN "idle" ELSE "up"
  /\ UNCHANGED <<second, node, goal>>

(* The loop goes on to the root, swap or not.                              *)
Rise ==
  /\ pc = "up"
  /\ heap' = CheckNeedHeapify(heap, second, node, ParentOf(node))
  /\ node' = ParentOf(node)
  /\ pc' = IF LoopAtRoot(ParentOf(node)) THEN "idle" ELSE "up"
  /\ UNCHANGED <<second, goal>>

(* print, up to heapifyDown.                                               *)
PrintRoot ==
  /\ pc = "idle" /\ heap.tree # <<>>
  /\ heap' = RootTaken(heap)
  /\ node' = 0
  /\ pc' = IF heap'.tree = <<>> THEN "idle" ELSE "down"
  /\ goal' = Printed(heap, second)
  /\ UNCHANGED second

(* Mutant: heapifyDown looks at the left child only.                       *)
LeftOnly(t, n) == LeftChild(t, n)

Sinks(t, n) == HigherChild(t, second, n)

(* Mutant: a node without children is not noticed.                         *)
SinkUnchecked ==
  LET child == Sinks(heap.tree, node) IN
  /\ pc = "down"
  /\ heap' = CheckNeedHeapify(heap, second, child, node)
  /\ node' = child
  /\ pc' = IF RightChild(heap.tree, node) = CBTNODE_DNE THEN "idle" ELSE "down"
  /\ UNCHANGED <<second, goal>>

Sink ==
  /\ pc = "down"
  /\ IF LeftChild(heap.tree, node) = CBTNODE_DNE
     THEN pc' = "idle" /\ UNCHANGED <<heap, node>>
     ELSE LET child == Sinks(heap.tree, node) IN
          /\ heap' = CheckNeedHeapify(heap, second, child, node)
          /\ node' = child
          /\ pc' = IF RightChild(heap.tree, node) = CBTNODE_DNE THEN "idle" ELSE "down"
  /\ UNCHANGED <<second, goal>>

Next ==
  \/ \E d \in Doc, r \in Relevance : Add(d, r)
  \/ Rise
  \/ PrintRoot
  \/ Sink

Spec == Init /\ [][Next]_vars /\ WF_vars(Rise \/ Sink)

-----------------------------------------------------------------------------
(* The type invariant.                                                     *)
TypeOK ==
  /\ heap \in [tree : Seq(Doc), third : [Doc -> Int]]
  /\ second \in [Doc -> Nat]
  /\ pc \in {"idle", "up", "down"}
  /\ node \in Nat

(* No datapoint is in the tree twice: ~myheap deletes each one it finds.   *)
NoDocTwice ==
  \A k, l \in 1 .. Len(heap.tree) : heap.tree[k] = heap.tree[l] => k = l

(* When no loop is running, no datapoint belongs above its parent.         *)
OrderedWhenIdle == pc = "idle" => HeapOrdered(heap.tree, second)

(* print takes the datapoint that belongs above all the others.            *)
PrintsTheBest ==
  [][PrintRoot => \A d \in InTree \ {heap.tree[1]} : Above(second, heap.tree[1], d)]_vars

(* Each loop, iteration by iteration, leaves what the operator that stands *)
(* for it in MyHeap says, the indices third included.                      *)
LoopsMeetOperators == pc = "idle" => heap = goal

(* Every loop ends.                                                        *)
LoopsEnd == pc # "idle" ~> pc = "idle"
=============================================================================
