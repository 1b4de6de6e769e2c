----------------------------- MODULE SiftProof ------------------------------
(* Theorems about Sift: the heap is in order whenever no loop is running,  *)
(* whatever its size, the names and the relevances, and so print takes     *)
(* the best datapoint.                                                     *)
EXTENDS Sift, HeapifyProof

-----------------------------------------------------------------------------
(* The inductive invariant: in order, but for the node that moves.         *)
SiftInv ==
  /\ TypeOK
  /\ Injective(heap.tree)
  /\ pc = "idle" => HeapOrdered(heap.tree, second)
  /\ pc = "up" => node \in 1 .. Len(heap.tree) - 1 /\ RisingAt(heap.tree, second, node)
  /\ pc = "down" => node \in 0 .. Len(heap.tree) - 1 /\ SinkingAt(heap.tree, second, node)

LEMMA InitInv == Init => SiftInv
<1>. SUFFICES ASSUME Init PROVE SiftInv
  OBVIOUS
<1>1. TypeOK /\ Len(heap.tree) = 0 /\ pc = "idle"
  BY DEF Init, TypeOK
<1>. QED BY <1>1 DEF SiftInv, Injective, HeapOrdered

LEMMA AddStep ==
  ASSUME SiftInv, NEW d \in Doc, NEW r \in Relevance, Add(d, r)
  PROVE  SiftInv'
<1> DEFINE t == heap.tree
           u == Append(t, d)
<1>1. /\ t \in Seq(Doc) /\ Len(t) \in Nat /\ heap.third \in [Doc -> Int]
      /\ second \in [Doc -> Nat] /\ HeapOrdered(t, second) /\ Injective(t)
  BY DEF SiftInv, TypeOK, Add
<1>2. /\ heap' = [tree |-> u, third |-> [heap.third EXCEPT ![d] = Len(t)]]
      /\ second' = [second EXCEPT ![d] = r]
      /\ node' = Len(t) /\ pc' = IF Len(t) = 0 THEN "idle" ELSE "up"
  BY DEF Add
<1>3. heap'.tree = u
  BY <1>2
<1>4. u \in Seq(Doc) /\ Len(u) = Len(t) + 1
  BY <1>1
<1>5. TypeOK'
  BY <1>1, <1>2, <1>4, RelevanceAssumption DEF TypeOK
<1>6. ASSUME NEW k \in 0 .. Len(t) - 1
      PROVE  Element(u, k) = Element(t, k) /\ Element(t, k) # d
  <2>1. k + 1 \in 1 .. Len(t)
    BY <1>1
  <2>2. u[k + 1] = t[k + 1]
    BY <1>1, <2>1
  <2>3. t[k + 1] # d
    BY <2>1 DEF Add, InTree
  <2>. QED BY <2>2, <2>3 DEF Element
<1>7. Element(u, Len(t)) = d
  BY <1>1 DEF Element
<1>. HIDE DEF t, u
<1>8. Injective(u)
  <2>. SUFFICES ASSUME NEW k \in 0 .. Len(u) - 1, NEW l \in 0 .. Len(u) - 1,
                       Element(u, k) = Element(u, l)
                PROVE  k = l
    BY DEF Injective
  <2>1. (k \in 0 .. Len(t) - 1 \/ k = Len(t)) /\ (l \in 0 .. Len(t) - 1 \/ l = Len(t))
    BY <1>1, <1>4
  <2>2. k = Len(t) <=> l = Len(t)
    BY <1>6, <1>7, <2>1
  <2>3. k \in 0 .. Len(t) - 1 /\ l \in 0 .. Len(t) - 1 => Element(t, k) = Element(t, l)
    BY <1>6
  <2>. QED BY <1>1, <2>1, <2>2, <2>3 DEF Injective
<1>9. ASSUME NEW k \in 1 .. Len(u) - 1, k # Len(t) PROVE InOrder(u, second', k)
  <2>1. k \in 1 .. Len(t) - 1 /\ k \in 0 .. Len(t) - 1
    BY <1>1, <1>4, <1>9
  <2>2. ParentOf(k) \in 0 .. Len(t) - 1
    BY <1>1, <2>1, ParentIsBefore
  <2>3. Element(t, k) \in Doc /\ Element(t, ParentOf(k)) \in Doc
    BY <1>1, <2>1, <2>2, ElementIsDoc
  <2>4. /\ second'[Element(t, k)] = second[Element(t, k)]
        /\ second'[Element(t, ParentOf(k))] = second[Element(t, ParentOf(k))]
    BY <1>1, <1>2, <1>6, <2>1, <2>2, <2>3
  <2>5. ~Above(second, Element(t, k), Element(t, ParentOf(k)))
    BY <1>1, <2>1 DEF HeapOrdered
  <2>6. Element(u, k) = Element(t, k) /\ Element(u, ParentOf(k)) = Element(t, ParentOf(k))
    BY <1>6, <2>1, <2>2
  <2>. QED BY <2>4, <2>5, <2>6 DEF InOrder, Above
<1>10. CASE Len(t) = 0
  <2>1. Len(u) = 1 /\ pc' = "idle"
    BY <1>2, <1>4, <1>10
  <2>. QED BY <1>3, <1>5, <1>8, <2>1 DEF SiftInv, HeapOrdered
<1>11. CASE Len(t) # 0
  <2>1. pc' = "up" /\ node' = Len(t) /\ Len(t) \in 1 .. Len(u) - 1
    BY <1>1, <1>2, <1>4, <1>11
  <2>2. \A k \in 1 .. Len(u) - 1 : ParentOf(k) # Len(t)
    <3>. SUFFICES ASSUME NEW k \in 1 .. Len(u) - 1 PROVE ParentOf(k) # Len(t)
      OBVIOUS
    <3>0. Len(t) \in Nat /\ Len(u) = Len(t) + 1
      BY <1>1, <1>4
    <3>1. k \in Nat \ {0} /\ k <= Len(t)
      BY <3>0
    <3>2. ParentOf(k) < k /\ ParentOf(k) \in Nat
      BY <3>1, ParentIsBefore
    <3>. QED BY <1>1, <3>1, <3>2
  <2>3. RisingAt(u, second', Len(t))
    BY <1>9, <2>2 DEF RisingAt, SpansNode
  <2>. QED BY <1>3, <1>5, <1>8, <2>1, <2>3 DEF SiftInv
<1>. QED BY <1>10, <1>11

LEMMA RiseStep ==
  ASSUME SiftInv, Rise
  PROVE  SiftInv'
<1> DEFINE t == heap.tree
           u == CheckNeedHeapify(heap, second, node, ParentOf(node)).tree
<1>1. /\ heap \in [tree : Seq(Doc), third : [Doc -> Int]] /\ t \in Seq(Doc) /\ Len(t) \in Nat
      /\ second \in [Doc -> Nat] /\ Injective(t)
      /\ node \in 1 .. Len(t) - 1 /\ RisingAt(t, second, node)
  BY DEF SiftInv, TypeOK, Rise
<1>2. ParentOf(node) \in 0 .. Len(t) - 1 /\ ParentOf(node) < node /\ ParentOf(node) \in Nat
  BY <1>1, ParentIsBefore
<1>3. /\ heap' = CheckNeedHeapify(heap, second, node, ParentOf(node))
      /\ node' = ParentOf(node) /\ second' = second
      /\ pc' = IF ParentOf(node) = 0 THEN "idle" ELSE "up"
  BY DEF Rise, LoopAtRoot
<1>4. /\ heap' \in [tree : Seq(Doc), third : [Doc -> Int]] /\ heap'.tree = u
      /\ Exchanges(t, u, second, node, ParentOf(node))
  <2>1. node \in 0 .. Len(t) - 1
    BY <1>1
  <2>. QED BY <1>1, <1>2, <1>3, <2>1, CheckExchanges
<1>5. TypeOK'
  BY <1>1, <1>2, <1>3, <1>4 DEF TypeOK
<1>. HIDE DEF t, u
<1>6. RisingAt(u, second, ParentOf(node))
  BY <1>1, <1>4, RiseKeepsOrder
<1>7. Injective(u) /\ Len(u) = Len(t)
  <2>1. node \in 0 .. Len(t) - 1
    BY <1>1
  <2>. QED BY <1>1, <1>2, <1>4, <2>1, ExchangeKeepsApart DEF Exchanges
<1>8. CASE ParentOf(node) = 0
  <2>1. HeapOrdered(u, second)
    BY <1>6, <1>8 DEF RisingAt, InOrder, HeapOrdered
  <2>. QED BY <1>3, <1>4, <1>5, <1>7, <1>8, <2>1 DEF SiftInv
<1>9. CASE ParentOf(node) # 0
  <2>1. ParentOf(node) \in 1 .. Len(u) - 1
    BY <1>1, <1>2, <1>7, <1>9
  <2>. QED BY <1>3, <1>4, <1>5, <1>6, <1>7, <1>9, <2>1 DEF SiftInv
<1>. QED BY <1>8, <1>9

LEMMA PrintRootStep ==
  ASSUME SiftInv, PrintRoot
  PROVE  SiftInv'
<1> DEFINE t == heap.tree
           u == RootTaken(heap).tree
<1>1. /\ heap \in [tree : Seq(Doc), third : [Doc -> Int]] /\ t \in Seq(Doc) /\ Len(t) \in Nat
      /\ second \in [Doc -> Nat] /\ Injective(t) /\ HeapOrdered(t, second) /\ t # <<>>
  BY DEF SiftInv, TypeOK, PrintRoot
<1>2. /\ heap' = RootTaken(heap) /\ node' = 0 /\ second' = second
      /\ pc' = IF heap'.tree = <<>> THEN "idle" ELSE "down"
  BY DEF PrintRoot
<1>3. /\ heap' \in [tree : Seq(Doc), third : [Doc -> Int]]
      /\ u \in Seq(Doc) /\ Len(u) = Len(t) - 1 /\ Len(u) \in Nat
      /\ \A k \in 0 .. Len(t) - 2 :
           Element(u, k) = IF k = 0 THEN Element(t, Len(t) - 1) ELSE Element(t, k)
  <2>1. heap' \in [tree : Seq(Doc), third : [Doc -> Int]] /\ heap'.tree = u
    BY <1>1, <1>2, RootTakenKeeps
  <2>2. u \in Seq(Doc) /\ Len(u) \in Nat
    BY <2>1
  <2>. QED BY <1>1, <2>1, <2>2, RootTakenKeeps
<1>4. TypeOK' /\ heap'.tree = u
  BY <1>1, <1>2, <1>3 DEF TypeOK
<1>. HIDE DEF t, u
<1>5. Injective(u)
  <2>. SUFFICES ASSUME NEW k \in 0 .. Len(u) - 1, NEW l \in 0 .. Len(u) - 1,
                       Element(u, k) = Element(u, l)
                PROVE  k = l
    BY DEF Injective
  <2> DEFINE Was(j) == IF j = 0 THEN Len(t) - 1 ELSE j
  <2>1. k \in 0 .. Len(t) - 2 /\ l \in 0 .. Len(t) - 2
    BY <1>1, <1>3
  <2>2. Element(u, k) = Element(t, Was(k)) /\ Element(u, l) = Element(t, Was(l))
    BY <1>3, <2>1
  <2>0. Len(t) \in Nat
    BY <1>1
  <2>3. Was(k) \in 0 .. Len(t) - 1 /\ Was(l) \in 0 .. Len(t) - 1
    BY <2>0, <2>1
  <2>4. Was(k) = Was(l)
    <3>. HIDE DEF Was
    <3>. QED BY <1>1, <2>2, <2>3 DEF Injective
  <2>5. k \in Int /\ l \in Int /\ k # Len(t) - 1 /\ l # Len(t) - 1
    BY <2>0, <2>1
  <2>. QED BY <2>4, <2>5
<1>6. SinkingAt(u, second, 0)
  <2>. SUFFICES ASSUME NEW k \in 1 .. Len(u) - 1, ParentOf(k) # 0
                PROVE  InOrder(u, second, k)
    BY DEF SinkingAt, SpansNode
  <2>1. k \in 1 .. Len(t) - 2 /\ k \in 0 .. Len(t) - 2 /\ k # 0 /\ k \in Nat \ {0}
    BY <1>1, <1>3
  <2>2. ParentOf(k) \in Nat /\ ParentOf(k) < k
    BY <2>1, ParentIsBefore
  <2>3. ParentOf(k) \in 0 .. Len(t) - 2
    BY <1>1, <2>1, <2>2
  <2>4. Element(u, k) = Element(t, k) /\ Element(u, ParentOf(k)) = Element(t, ParentOf(k))
    BY <1>3, <2>1, <2>3
  <2>5. k \in 1 .. Len(t) - 1
    BY <1>1, <2>1
  <2>. QED BY <1>1, <2>4, <2>5 DEF HeapOrdered, InOrder
<1>7. CASE u = <<>>
  <2>1. Len(u) = 0
    BY <1>7
  <2>. QED BY <1>2, <1>4, <1>5, <1>7, <2>1 DEF SiftInv, HeapOrdered
<1>8. CASE u # <<>>
  <2>1. 0 \in 0 .. Len(u) - 1
    BY <1>3, <1>8
  <2>. QED BY <1>2, <1>4, <1>5, <1>6, <1>8, <2>1 DEF SiftInv
<1>. QED BY <1>7, <1>8

LEMMA SinkStep ==
  ASSUME SiftInv, Sink
  PROVE  SiftInv'
<1> DEFINE t == heap.tree
           c == HigherChild(t, second, node)
           u == CheckNeedHeapify(heap, second, c, node).tree
<1>1. /\ heap \in [tree : Seq(Doc), third : [Doc -> Int]] /\ t \in Seq(Doc) /\ Len(t) \in Nat
      /\ second \in [Doc -> Nat] /\ Injective(t) /\ second' = second
      /\ node \in 0 .. Len(t) - 1 /\ SinkingAt(t, second, node)
  BY DEF SiftInv, TypeOK, Sink
<1>2. CASE LeftChild(t, node) = CBTNODE_DNE
  <2>1. heap' = heap /\ node' = node /\ pc' = "idle"
    BY <1>2 DEF Sink
  <2>2. \A k \in 1 .. Len(t) - 1 : ParentOf(k) # node
    <3>. SUFFICES ASSUME NEW k \in 1 .. Len(t) - 1, ParentOf(k) = node PROVE FALSE
      OBVIOUS
    <3>1. k = 2 * node + 1 \/ k = 2 * node + 2
      BY <1>1, ParentIsBefore
    <3>2. ~(2 * node + 1 < Len(t))
      BY <1>1, <1>2 DEF LeftChild, CBTNODE_DNE
    <3>. QED BY <1>1, <3>1, <3>2
  <2>3. HeapOrdered(t, second)
    BY <1>1, <2>2 DEF SinkingAt, InOrder, HeapOrdered
  <2>4. TypeOK'
    BY <1>1, <2>1 DEF SiftInv, TypeOK
  <2>. QED BY <1>1, <2>1, <2>3, <2>4 DEF SiftInv
<1>3. CASE LeftChild(t, node) # CBTNODE_DNE
  <2>1. /\ heap' = CheckNeedHeapify(heap, second, c, node) /\ node' = c
        /\ pc' = IF RightChild(t, node) = CBTNODE_DNE THEN "idle" ELSE "down"
    BY <1>3 DEF Sink, Sinks
  <2>2. c \in 1 .. Len(t) - 1 /\ ParentOf(c) = node
    BY <1>1, <1>3, HigherChildIsHigher
  <2>3. c \in 0 .. Len(t) - 1 /\ c \in Nat
    BY <1>1, <2>2
  <2>4. /\ heap' \in [tree : Seq(Doc), third : [Doc -> Int]] /\ heap'.tree = u
        /\ Exchanges(t, u, second, c, node)
    BY <1>1, <2>1, <2>3, CheckExchanges
  <2>5. TypeOK'
    BY <1>1, <2>1, <2>3, <2>4 DEF TypeOK
  <2>. HIDE DEF t, u
  <2>6. SinkingAt(u, second, c)
    BY <1>1, <1>3, <2>4, SinkKeepsOrder
  <2>7. Injective(u) /\ Len(u) = Len(t)
    BY <1>1, <2>3, <2>4, ExchangeKeepsApart DEF Exchanges
  <2>8. CASE RightChild(t, node) # CBTNODE_DNE
    BY <1>1, <2>1, <2>3, <2>4, <2>5, <2>6, <2>7, <2>8 DEF SiftInv
  <2>9. CASE RightChild(t, node) = CBTNODE_DNE
    <3>1. c = 2 * node + 1 /\ ~(2 * node + 2 < Len(t))
      BY <1>1, <1>3, <2>9 DEF HigherChild, LeftChild, RightChild, CBTNODE_DNE
    <3>2. \A k \in 1 .. Len(u) - 1 : ParentOf(k) # c
      <4>. SUFFICES ASSUME NEW k \in 1 .. Len(u) - 1, ParentOf(k) = c PROVE FALSE
        OBVIOUS
      <4>. HIDE DEF c
      <4>0. Len(t) \in Nat /\ Len(u) = Len(t)
        BY <1>1, <2>7
      <4>1. k \in Nat \ {0} /\ k < Len(t)
        BY <4>0
      <4>2. k = 2 * c + 1 \/ k = 2 * c + 2
        BY <2>3, <4>1, ParentIsBefore
      <4>3. c \in Nat /\ node \in Nat /\ k \in Nat /\ Len(t) \in Nat
        BY <1>1, <2>3, <4>1
      <4>. QED BY <3>1, <4>1, <4>2, <4>3
    <3>3. HeapOrdered(u, second)
      BY <2>6, <3>2 DEF SinkingAt, InOrder, HeapOrdered
    <3>. QED BY <1>1, <2>1, <2>4, <2>5, <2>7, <2>9, <3>3 DEF SiftInv
  <2>. QED BY <2>8, <2>9
<1>. QED BY <1>2, <1>3

LEMMA SiftStep == SiftInv /\ [Next]_vars => SiftInv'
<1>. SUFFICES ASSUME SiftInv, [Next]_vars PROVE SiftInv'
  OBVIOUS
<1>1. CASE UNCHANGED vars
  BY <1>1 DEF vars, SiftInv, TypeOK
<1>2. CASE Next
  BY <1>2, AddStep, RiseStep, PrintRootStep, SinkStep DEF Next
<1>. QED BY <1>1, <1>2

LEMMA SiftInvariant == Spec => []SiftInv
BY InitInv, SiftStep, PTL DEF Spec

(* After every add and every print, of any number of datapoints, no        *)
(* datapoint belongs above its parent.                                     *)
THEOREM HeapIsOrdered == Spec => []OrderedWhenIdle
<1>1. SiftInv => OrderedWhenIdle
  BY DEF SiftInv, OrderedWhenIdle
<1>. QED BY <1>1, SiftInvariant, PTL

(* No swap and no move of the last leaf brings a datapoint twice into the  *)
(* tree or loses its slot to another.                                      *)
THEOREM DatapointsApart == Spec => []NoDocTwice
<1>1. SiftInv => NoDocTwice
  <2>. SUFFICES ASSUME SiftInv, NEW k \in 1 .. Len(heap.tree), NEW l \in 1 .. Len(heap.tree),
                       heap.tree[k] = heap.tree[l]
                PROVE  k = l
    BY DEF NoDocTwice
  <2>1. Len(heap.tree) \in Nat
    BY DEF SiftInv, TypeOK
  <2>2. k - 1 \in 0 .. Len(heap.tree) - 1 /\ l - 1 \in 0 .. Len(heap.tree) - 1
    BY <2>1
  <2>3. Element(heap.tree, k - 1) = Element(heap.tree, l - 1)
    BY DEF Element
  <2>4. k - 1 = l - 1
    BY <2>2, <2>3 DEF SiftInv, Injective
  <2>. QED BY <2>1, <2>4
<1>. QED BY <1>1, SiftInvariant, PTL

(* print takes the datapoint that belongs above all the others.            *)
THEOREM BestIsPrinted == Spec => PrintsTheBest
<1>1. SiftInv /\ PrintRoot
        => \A d \in InTree \ {heap.tree[1]} : Above(second, heap.tree[1], d)
  <2>. SUFFICES ASSUME SiftInv, PrintRoot, NEW d \in InTree, d # heap.tree[1]
                PROVE  Above(second, heap.tree[1], d)
    OBVIOUS
  <2>1. /\ heap.tree \in Seq(Doc) /\ Len(heap.tree) \in Nat /\ heap.tree # <<>>
        /\ second \in [Doc -> Nat] /\ HeapOrdered(heap.tree, second)
    BY DEF SiftInv, TypeOK, PrintRoot
  <2>2. PICK k \in 1 .. Len(heap.tree) : d = heap.tree[k]
    BY DEF InTree
  <2>3. k - 1 \in 0 .. Len(heap.tree) - 1 /\ Element(heap.tree, k - 1) = d
        /\ Element(heap.tree, 0) = heap.tree[1]
    BY <2>1, <2>2 DEF Element
  <2>4. ~Above(second, d, heap.tree[1])
    BY <2>1, <2>3, RootIsBest
  <2>5. d \in Doc /\ heap.tree[1] \in Doc
    BY <2>1, <2>2
  <2>. QED BY <2>1, <2>4, <2>5, AboveIsAnOrder
<1>2. SiftInv => [PrintRoot => \A d \in InTree \ {heap.tree[1]} :
                                 Above(second, heap.tree[1], d)]_vars
  BY <1>1
<1>. QED BY <1>2, SiftInvariant, PTL DEF PrintsTheBest

(* The loops of addtoheap and print keep every variable in its range.      *)
THEOREM SiftTypes == Spec => []TypeOK
<1>1. SiftInv => TypeOK
  BY DEF SiftInv
<1>. QED BY <1>1, SiftInvariant, PTL

-----------------------------------------------------------------------------
(* What is left of a loop: the operator that stands for the whole of it,   *)
(* from the node it has come to.                                           *)
LeftToDo ==
  /\ pc = "idle" => goal = heap
  /\ pc = "up" => goal = SiftUp(heap, second, node)
  /\ pc = "down" => goal = SwapsAlong(heap, second, DownFrom(heap.tree, second, node))

LEMMA AddLeaves ==
  ASSUME SiftInv, NEW d \in Doc, NEW r \in Relevance, Add(d, r)
  PROVE  LeftToDo'
<1>1. /\ goal' = SiftUp(heap', second', Len(heap.tree)) /\ node' = Len(heap.tree)
      /\ pc' = IF Len(heap.tree) = 0 THEN "idle" ELSE "up"
  BY DEF Add, Inserted
<1>2. SiftUp(heap', second', 0) = heap'
  BY SiftUpFirst
<1>. QED BY <1>1, <1>2 DEF LeftToDo

LEMMA RiseLeaves ==
  ASSUME SiftInv, LeftToDo, Rise
  PROVE  LeftToDo'
<1>1. node \in Nat \ {0}
  <2>1. Len(heap.tree) \in Nat /\ node \in 1 .. Len(heap.tree) - 1
    BY DEF SiftInv, TypeOK, Rise
  <2>. QED BY <2>1
<1>2. /\ heap' = CheckNeedHeapify(heap, second, node, ParentOf(node))
      /\ node' = ParentOf(node) /\ second' = second /\ goal' = goal
      /\ pc' = IF ParentOf(node) = 0 THEN "idle" ELSE "up"
      /\ goal = SiftUp(heap, second, node)
  BY DEF Rise, LoopAtRoot, LeftToDo
<1>3. goal = SiftUp(CheckNeedHeapify(heap, second, node, ParentOf(node)), second, ParentOf(node))
  BY <1>1, <1>2, SiftUpFirst
<1>4. goal' = SiftUp(heap', second', node')
  BY <1>2, <1>3
<1>5. SiftUp(heap', second', 0) = heap'
  BY SiftUpFirst
<1>. QED BY <1>2, <1>4, <1>5 DEF LeftToDo

LEMMA PrintRootLeaves ==
  ASSUME SiftInv, PrintRoot
  PROVE  LeftToDo'
<1>1. /\ heap' = RootTaken(heap) /\ node' = 0 /\ second' = second
      /\ pc' = IF heap'.tree = <<>> THEN "idle" ELSE "down"
      /\ goal' = HeapifyDown(heap', second')
  BY DEF PrintRoot, Printed
<1>2. goal' = SwapsAlong(heap', second', DownFrom(heap'.tree, second', 0))
  BY <1>1, NodesDownIsDownFrom DEF HeapifyDown
<1>3. CASE heap'.tree = <<>>
  <2>1. Len(heap'.tree) = 0
    BY <1>3
  <2>2. LeftChild(heap'.tree, 0) = CBTNODE_DNE
    BY <2>1 DEF LeftChild
  <2>3. DownFrom(heap'.tree, second', 0) = <<>>
    <3>1. Len(heap'.tree) \in Nat /\ 0 \in 0 .. Len(heap'.tree)
      BY <2>1
    <3>. QED BY <2>2, <3>1, DownFromFirst
  <2>4. goal' = heap'
    BY <1>2, <2>3, SwapsAlongNothing
  <2>. QED BY <1>1, <1>3, <2>4 DEF LeftToDo
<1>4. CASE heap'.tree # <<>>
  BY <1>1, <1>2, <1>4 DEF LeftToDo
<1>. QED BY <1>3, <1>4

LEMMA SinkLeaves ==
  ASSUME SiftInv, LeftToDo, Sink
  PROVE  LeftToDo'
<1> DEFINE t == heap.tree
           c == HigherChild(t, second, node)
           u == CheckNeedHeapify(heap, second, c, node).tree
<1>1. /\ heap \in [tree : Seq(Doc), third : [Doc -> Int]] /\ t \in Seq(Doc) /\ Len(t) \in Nat
      /\ second \in [Doc -> Nat] /\ second' = second /\ goal' = goal
      /\ node \in 0 .. Len(t) - 1
      /\ goal = SwapsAlong(heap, second, DownFrom(t, second, node))
  BY DEF SiftInv, TypeOK, Sink, LeftToDo
<1>2. node \in 0 .. Len(t) /\ node \in Nat
  BY <1>1
<1>3. CASE LeftChild(t, node) = CBTNODE_DNE
  <2>1. heap' = heap /\ pc' = "idle"
    BY <1>3 DEF Sink
  <2>2. DownFrom(t, second, node) = <<>>
    BY <1>1, <1>2, <1>3, DownFromFirst
  <2>3. goal = heap
    BY <1>1, <2>2, SwapsAlongNothing
  <2>. QED BY <1>1, <2>1, <2>3 DEF LeftToDo
<1>4. CASE LeftChild(t, node) # CBTNODE_DNE
  <2>1. /\ heap' = CheckNeedHeapify(heap, second, c, node) /\ heap'.tree = u /\ node' = c
        /\ pc' = IF RightChild(t, node) = CBTNODE_DNE THEN "idle" ELSE "down"
    BY <1>4 DEF Sink, Sinks
  <2>2. c \in node + 1 .. Len(t) - 1 /\ ParentOf(c) = node
    BY <1>1, <1>2, <1>4, ChildIsAfter
  <2>3. c \in 0 .. Len(t) - 1 /\ c \in 0 .. Len(t) /\ c \in Nat \ {0} /\ c > node
    <3>1. PICK l \in Nat : l = Len(t)
      BY <1>1
    <3>2. c \in node + 1 .. l - 1 /\ node \in Nat
      BY <1>1, <1>2, <2>2, <3>1
    <3>. HIDE DEF t, c, u
    <3>. QED BY <3>1, <3>2
  <2>4. Exchanges(t, u, second, c, node)
    BY <1>1, <2>3, CheckExchanges
  <2>5. DownFrom(t, second, node) = <<c>> \o DownFrom(t, second, c)
    BY <1>1, <1>2, <1>4, DownFromFirst
  <2>6. DownFrom(t, second, c) \in Seq(Nat \ {0})
    BY <1>1, <2>3, DownFromType
  <2>7. heap' = Check(heap, second, c)
    BY <2>1, <2>2 DEF Check
  <2>. HIDE DEF t, c, u
  <2>8. SwapsAlong(heap, second, <<c>> \o DownFrom(t, second, c)) =
          SwapsAlong(Check(heap, second, c), second, DownFrom(t, second, c))
    BY <2>3, <2>6, SwapsAlongFirst
  <2>9. goal = SwapsAlong(heap', second, DownFrom(t, second, c))
    BY <1>1, <2>5, <2>7, <2>8
  <2>10. Len(u) = Len(t) /\ \A k \in c + 1 .. Len(t) - 1 : Element(u, k) = Element(t, k)
    <3>1. \A k \in c + 1 .. Len(t) - 1 : k \in 0 .. Len(t) - 1 /\ k # c /\ k # node
      <4>1. PICK n \in Nat : n = Len(t)
        BY <1>1
      <4>2. \A k \in c + 1 .. n - 1 : k \in 0 .. n - 1 /\ k # c /\ k # node
        BY <1>2, <2>3
      <4>. QED BY <4>1, <4>2
    <3>. QED BY <2>4, <3>1 DEF Exchanges
  <2>11. DownFrom(u, second, c) = DownFrom(t, second, c)
    BY <1>1, <2>3, <2>10, DownFromBelow
  <2>12. goal' = SwapsAlong(heap', second', DownFrom(heap'.tree, second', node'))
    BY <1>1, <2>1, <2>9, <2>11
  <2>13. CASE RightChild(t, node) # CBTNODE_DNE
    BY <2>1, <2>12, <2>13 DEF LeftToDo
  <2>14. CASE RightChild(t, node) = CBTNODE_DNE
    <3>1. ~(2 * node + 2 < Len(t))
      BY <1>1, <1>2, <2>14 DEF RightChild, CBTNODE_DNE
    <3>2. LeftChild(u, c) = CBTNODE_DNE
      <4>1. Len(u) \in Nat /\ Len(u) = Len(t)
        BY <1>1, <2>10
      <4>2. ~(2 * c + 1 < Len(t))
        BY <1>1, <1>2, <2>3, <3>1
      <4>. QED BY <4>1, <4>2 DEF LeftChild
    <3>3. DownFrom(u, second, c) = <<>>
      <4>1. Len(u) \in Nat /\ c \in 0 .. Len(u)
        BY <1>1, <2>3, <2>10
      <4>. QED BY <3>2, <4>1, DownFromFirst
    <3>4. goal = heap'
      BY <2>9, <2>11, <3>3, SwapsAlongNothing
    <3>. QED BY <1>1, <2>1, <2>14, <3>4 DEF LeftToDo
  <2>. QED BY <2>13, <2>14
<1>. QED BY <1>3, <1>4

LEMMA LeftStep == SiftInv /\ LeftToDo /\ [Next]_vars => LeftToDo'
<1>. SUFFICES ASSUME SiftInv, LeftToDo, [Next]_vars PROVE LeftToDo'
  OBVIOUS
<1>1. CASE UNCHANGED vars
  BY <1>1 DEF vars, LeftToDo
<1>2. CASE Next
  BY <1>2, AddLeaves, RiseLeaves, PrintRootLeaves, SinkLeaves DEF Next
<1>. QED BY <1>1, <1>2

(* The loops of addtoheap and of print, iteration by iteration, leave what *)
(* Inserted and Printed say they leave, whatever the tree: so MyHeap, and  *)
(* all that is built on it, may take each loop for one operator.           *)
THEOREM LoopsAreOperators == Spec => []LoopsMeetOperators
<1>1. Init => LeftToDo
  BY DEF Init, LeftToDo
<1>2. LeftToDo => LoopsMeetOperators
  BY DEF LeftToDo, LoopsMeetOperators
<1>. QED BY <1>1, <1>2, LeftStep, SiftInvariant, PTL DEF Spec
=============================================================================
