---------------------------- MODULE HeapifyProof ----------------------------
(* Lemmas about the operators of Heapify: that they do, node after node,   *)
(* what the loops do that they stand for.  What a fold or a recursive      *)
(* function is has to be shown to exist first; this is done by induction   *)
(* on sets of numbers.                                                     *)
EXTENDS Heapify, FiniteSetTheorems, WellFoundedInduction, TLAPS

-----------------------------------------------------------------------------
(* Induction                                                               *)

(* A set of numbers that is not empty has a least one: what induction over *)
(* the nodes of the tree needs.  It follows from the order of finite sets  *)
(* by inclusion, a number standing for the set 0 .. n.                     *)
LEMMA LeastNumber ==
  ASSUME NEW S, S \subseteq Nat, S # {}
  PROVE  \E m \in S : \A k \in S : m <= k
<1> DEFINE R == StrictSubsetOrdering(Nat)
           T == {0 .. n : n \in S}
<1>1. IsWellFoundedOn(R, FiniteSubsetsOf(Nat))
  BY FS_StrictSubsetOrderingWellFounded
<1>2. T \subseteq FiniteSubsetsOf(Nat)
  <2>. SUFFICES ASSUME NEW n \in S PROVE 0 .. n \in FiniteSubsetsOf(Nat)
    OBVIOUS
  <2>1. n \in Int /\ 0 \in Int /\ 0 .. n \subseteq Nat
    OBVIOUS
  <2>2. IsFiniteSet(0 .. n)
    BY <2>1, FS_Interval
  <2>. QED BY <2>1, <2>2 DEF FiniteSubsetsOf
<1>3. T # {}
  OBVIOUS
<1>4. \E x \in T : \A y \in T : <<y, x>> \notin R
  <2>. HIDE DEF R, T
  <2>. QED BY <1>1, <1>2, <1>3, WFMin
<1>5. PICK m \in S : \A k \in S : <<0 .. k, 0 .. m>> \notin R
  BY <1>4
<1>6. ASSUME NEW k \in S, k < m PROVE FALSE
  <2>1. 0 .. k \subseteq 0 .. m /\ m \in 0 .. m /\ m \notin 0 .. k
    BY <1>6
  <2>2. 0 .. k \in SUBSET Nat /\ 0 .. m \in SUBSET Nat
    OBVIOUS
  <2>3. <<0 .. k, 0 .. m>> \in R
    BY <2>1, <2>2 DEF StrictSubsetOrdering
  <2>. QED BY <1>5, <2>3
<1>7. \A k \in S : m <= k
  BY <1>6
<1>. QED BY <1>5, <1>7

LEMMA SetInduction ==
  ASSUME NEW P, P \subseteq Nat, 0 \in P, \A m \in P : m + 1 \in P
  PROVE  \A m \in Nat : m \in P
<1>1. SUFFICES ASSUME NEW n \in Nat, n \notin P PROVE FALSE
  OBVIOUS
<1>2. PICK m \in Nat \ P : \A k \in Nat \ P : m <= k
  <2>1. Nat \ P \subseteq Nat /\ Nat \ P # {}
    BY <1>1
  <2>. QED BY <2>1, LeastNumber
<1>3. m # 0
  BY <1>2
<1>4. m - 1 \in Nat /\ m - 1 < m
  BY <1>2, <1>3
<1>5. m - 1 \in P
  BY <1>2, <1>4
<1>6. m - 1 + 1 = m
  BY <1>2
<1>. QED BY <1>2, <1>5, <1>6

LEMMA MaxIsGreatest ==
  ASSUME NEW n \in Nat, NEW S, S \subseteq 1 .. n, S # {}
  PROVE  Max(S) \in S /\ \A y \in S : y <= Max(S)
<1>0. PICK x : x \in S /\ x \in Nat /\ x > 0
  <2>1. PICK x : x \in S
    OBVIOUS
  <2>2. x \in 1 .. n
    BY <2>1
  <2>. QED BY <2>1, <2>2
<1>. DEFINE B == {j \in Nat : \A y \in S : y <= j}
<1>1. B \subseteq Nat /\ n \in B
  OBVIOUS
<1>2. PICK m \in B : \A k \in B : m <= k
  BY <1>1, LeastNumber
<1>3. m \in Nat /\ \A y \in S : y <= m
  BY <1>2
<1>4. m \in S
  <2>1. SUFFICES ASSUME m \notin S PROVE FALSE
    OBVIOUS
  <2>3. m > 0
    BY <1>0, <1>3
  <2>4. \A z \in S : z <= m - 1
    BY <1>3, <2>1
  <2>5. m - 1 \in B
    BY <1>3, <2>3, <2>4
  <2>. QED BY <1>2, <1>3, <2>5
<1>5. \E z \in S : \A y \in S : z >= y
  BY <1>3, <1>4
<1>6. Max(S) \in S /\ \A y \in S : Max(S) >= y
  BY <1>5 DEF Max
<1>. QED BY <1>6

-----------------------------------------------------------------------------
(* Swaps along a path                                                      *)

Check(h, s, k) == CheckNeedHeapify(h, s, k, ParentOf(k))

(* What the fold looks for, over the first m nodes.                        *)
Iterates(it, h, s, nodes, m) ==
  it = [S \in SUBSET (1 .. m) |->
         IF S = {} THEN h ELSE Check(it[S \ {Max(S)}], s, nodes[Max(S)])]

LEMMA IterateExists ==
  ASSUME NEW h, NEW s, NEW nodes
  PROVE  \A m \in Nat : \E it : Iterates(it, h, s, nodes, m)
<1>. DEFINE P == {m \in Nat : \E it : Iterates(it, h, s, nodes, m)}
<1>1. 0 \in P
  <2>. DEFINE it == [S \in SUBSET (1 .. 0) |-> h]
  <2>1. \A S \in SUBSET (1 .. 0) : S = {}
    OBVIOUS
  <2>2. Iterates(it, h, s, nodes, 0)
    BY <2>1 DEF Iterates
  <2>. HIDE DEF it
  <2>. QED BY <2>2
<1>2. ASSUME NEW m \in P PROVE m + 1 \in P
  <2>1. PICK g : Iterates(g, h, s, nodes, m)
    BY <1>2
  <2>2. m \in Nat /\ m + 1 \in Nat
    BY <1>2
  <2>. DEFINE it == [S \in SUBSET (1 .. m + 1) |->
                       IF m + 1 \in S THEN Check(g[S \ {m + 1}], s, nodes[m + 1]) ELSE g[S]]
  <2>3. ASSUME NEW S \in SUBSET (1 .. m + 1)
        PROVE  it[S] = IF S = {} THEN h ELSE Check(it[S \ {Max(S)}], s, nodes[Max(S)])
    <3>1. CASE m + 1 \in S
      <4>1. Max(S) = m + 1
        <5>1. S \subseteq 1 .. m + 1 /\ S # {}
          BY <3>1
        <5>2. Max(S) \in S /\ \A y \in S : y <= Max(S)
          BY <2>2, <5>1, MaxIsGreatest
        <5>3. Max(S) \in 1 .. m + 1 /\ m + 1 <= Max(S)
          BY <3>1, <5>1, <5>2
        <5>. QED BY <2>2, <5>3
      <4>2. S \ {m + 1} \in SUBSET (1 .. m + 1) /\ m + 1 \notin S \ {m + 1}
        OBVIOUS
      <4>3. it[S \ {m + 1}] = g[S \ {m + 1}]
        BY <4>2
      <4>. QED BY <3>1, <4>1, <4>3
    <3>2. CASE m + 1 \notin S
      <4>1. S \in SUBSET (1 .. m)
        BY <2>2, <3>2
      <4>2. g[S] = IF S = {} THEN h ELSE Check(g[S \ {Max(S)}], s, nodes[Max(S)])
        BY <2>1, <4>1 DEF Iterates
      <4>3. it[S] = g[S] /\ it[S \ {Max(S)}] = g[S \ {Max(S)}]
        BY <3>2
      <4>. QED BY <4>2, <4>3
    <3>. QED BY <3>1, <3>2
  <2>4. it = [S \in SUBSET (1 .. m + 1) |-> it[S]]
    OBVIOUS
  <2>. HIDE DEF it
  <2>5. Iterates(it, h, s, nodes, m + 1)
    BY <2>3, <2>4 DEF Iterates
  <2>. QED BY <2>2, <2>5
<1>3. P \subseteq Nat
  OBVIOUS
<1>4. \A m \in Nat : m \in P
  <2>. HIDE DEF P
  <2>. QED BY <1>1, <1>2, <1>3, SetInduction
<1>. QED BY <1>4

(* The heaps on the way.                                                   *)
Way(r, h, s, nodes) ==
  r[0] = h /\ \A k \in 1 .. Len(nodes) : r[k] = Check(r[k - 1], s, nodes[k])

LEMMA SwapsAreAWay ==
  ASSUME NEW h, NEW s, NEW N, NEW nodes \in Seq(N)
  PROVE  \E r : Way(r, h, s, nodes) /\ SwapsAlong(h, s, nodes) = r[Len(nodes)]
<1>1. PICK n \in Nat : n = Len(nodes) /\ DOMAIN nodes = 1 .. n
  OBVIOUS
<1>2. SwapsAlong(h, s, nodes) = (CHOOSE it : Iterates(it, h, s, nodes, n))[1 .. n]
  BY <1>1, Zenon DEF SwapsAlong, FoldLeft, MapThenFoldSet, Iterates, Check
<1>3. PICK it : Iterates(it, h, s, nodes, n) /\ SwapsAlong(h, s, nodes) = it[1 .. n]
  BY <1>1, <1>2, IterateExists
<1>. DEFINE r == [k \in 0 .. n |-> it[1 .. k]]
<1>4. r[0] = h /\ r[n] = it[1 .. n]
  <2>1. 1 .. 0 = {} /\ {} \in SUBSET (1 .. n)
    OBVIOUS
  <2>2. it[{}] = h
    BY <1>3, <2>1 DEF Iterates
  <2>3. 0 \in 0 .. n /\ n \in 0 .. n
    BY <1>1
  <2>. QED BY <2>1, <2>2, <2>3
<1>5. ASSUME NEW k \in 1 .. n PROVE r[k] = Check(r[k - 1], s, nodes[k])
  <2>1. 1 .. k \in SUBSET (1 .. n) /\ k \in 1 .. k /\ k - 1 \in 0 .. n /\ (1 .. k) \ {k} = 1 .. k - 1
    BY <1>1
  <2>2. Max(1 .. k) = k
    <3>1. Max(1 .. k) \in 1 .. k /\ \A y \in 1 .. k : y <= Max(1 .. k)
      BY <2>1, MaxIsGreatest
    <3>. QED BY <2>1, <3>1
  <2>3. it[1 .. k] = Check(it[1 .. k - 1], s, nodes[k])
    BY <1>3, <2>1, <2>2 DEF Iterates
  <2>. QED BY <2>1, <2>3
<1>. HIDE DEF r
<1>. QED BY <1>1, <1>3, <1>4, <1>5 DEF Way

LEMMA OneWay ==
  ASSUME NEW h, NEW s, NEW N, NEW nodes \in Seq(N), NEW q, NEW r,
         Way(q, h, s, nodes), Way(r, h, s, nodes)
  PROVE  q[Len(nodes)] = r[Len(nodes)]
<1>1. PICK n \in Nat : n = Len(nodes)
  OBVIOUS
<1>. DEFINE P == {m \in Nat : m <= n => q[m] = r[m]}
<1>2. P \subseteq Nat /\ 0 \in P
  BY DEF Way
<1>3. ASSUME NEW m \in P PROVE m + 1 \in P
  <2>1. m \in Nat /\ (m <= n => q[m] = r[m])
    BY <1>3
  <2>2. CASE m + 1 <= n
    <3>1. m + 1 \in 1 .. n /\ m + 1 - 1 = m /\ m <= n
      BY <1>1, <2>1, <2>2
    <3>2. /\ q[m + 1] = Check(q[m + 1 - 1], s, nodes[m + 1])
          /\ r[m + 1] = Check(r[m + 1 - 1], s, nodes[m + 1])
      BY <1>1, <3>1 DEF Way
    <3>. QED BY <2>1, <3>1, <3>2
  <2>. QED BY <2>1, <2>2
<1>4. n \in P
  <2>. HIDE DEF P
  <2>. QED BY <1>2, <1>3, SetInduction
<1>. QED BY <1>1, <1>4

(* No node: nothing happens.  Else the first node is checked, and then the *)
(* others.                                                                 *)
LEMMA SwapsAlongNothing ==
  ASSUME NEW h, NEW s
  PROVE  SwapsAlong(h, s, <<>>) = h
<1>1. PICK q : q = <<>>
  OBVIOUS
<1>2. q \in Seq(Nat) /\ Len(q) = 0
  BY <1>1
<1>3. PICK r : Way(r, h, s, q) /\ SwapsAlong(h, s, q) = r[Len(q)]
  BY <1>2, SwapsAreAWay
<1>. QED BY <1>1, <1>2, <1>3 DEF Way

LEMMA SwapsAlongFirst ==
  ASSUME NEW h, NEW s, NEW N, NEW nodes \in Seq(N), NEW k \in N
  PROVE  SwapsAlong(h, s, <<k>> \o nodes) = SwapsAlong(Check(h, s, k), s, nodes)
<1>1. PICK n \in Nat : n = Len(nodes)
  OBVIOUS
<1>2. PICK all : all = <<k>> \o nodes
  OBVIOUS
<1>3. /\ all \in Seq(N) /\ Len(all) = n + 1 /\ all[1] = k
      /\ \A j \in 1 .. n : all[j + 1] = nodes[j]
  BY <1>1, <1>2
<1>4. PICK r : Way(r, h, s, all) /\ SwapsAlong(h, s, all) = r[n + 1]
  BY <1>3, SwapsAreAWay
<1>5. PICK q : Way(q, Check(h, s, k), s, nodes) /\ SwapsAlong(Check(h, s, k), s, nodes) = q[n]
  BY <1>1, SwapsAreAWay
<1>6. r[0] = h /\ \A j \in 1 .. n + 1 : r[j] = Check(r[j - 1], s, all[j])
  BY <1>3, <1>4 DEF Way
<1>. DEFINE u == [j \in 0 .. n |-> r[j + 1]]
<1>7. u[0] = Check(h, s, k) /\ u[n] = r[n + 1]
  <2>1. 1 \in 1 .. n + 1 /\ 1 - 1 = 0 /\ 0 + 1 = 1
    BY <1>1
  <2>2. r[1] = Check(r[1 - 1], s, all[1])
    BY <1>6, <2>1
  <2>3. r[1] = Check(h, s, k)
    BY <1>3, <1>6, <2>1, <2>2
  <2>. QED BY <1>1, <2>1, <2>3
<1>8. \A j \in 1 .. n : u[j] = Check(u[j - 1], s, nodes[j])
  <2>. TAKE j \in 1 .. n
  <2>1. j + 1 \in 1 .. n + 1 /\ j + 1 - 1 = j /\ j - 1 + 1 = j /\ j \in 0 .. n /\ j - 1 \in 0 .. n
    BY <1>1
  <2>2. r[j + 1] = Check(r[j + 1 - 1], s, all[j + 1])
    BY <1>6, <2>1
  <2>3. r[j + 1] = Check(r[j], s, nodes[j])
    BY <1>3, <2>1, <2>2
  <2>. QED BY <2>1, <2>3
<1>. HIDE DEF u
<1>9. Way(u, Check(h, s, k), s, nodes)
  BY <1>1, <1>7, <1>8 DEF Way
<1>10. u[n] = q[n]
  BY <1>1, <1>5, <1>9, OneWay
<1>. QED BY <1>2, <1>4, <1>5, <1>7, <1>10

-----------------------------------------------------------------------------
(* The way up                                                              *)

(* What the recursive function looks for.                                  *)
Ups(up, n) == up = [k \in 0 .. n |-> IF k = 0 THEN <<>> ELSE <<k>> \o up[ParentOf(k)]]

LEMMA ParentIsLess ==
  ASSUME NEW k \in Nat \ {0}
  PROVE  ParentOf(k) \in Nat /\ ParentOf(k) < k
BY DEF ParentOf

LEMMA UpsExist == \A n \in Nat : \E up : Ups(up, n)
<1>. DEFINE P == {n \in Nat : \E up : Ups(up, n)}
<1>1. 0 \in P
  <2>. DEFINE up == [k \in 0 .. 0 |-> <<>>]
  <2>1. \A k \in 0 .. 0 : k = 0
    OBVIOUS
  <2>2. Ups(up, 0)
    BY <2>1 DEF Ups
  <2>. HIDE DEF up
  <2>. QED BY <2>2
<1>2. ASSUME NEW n \in P PROVE n + 1 \in P
  <2>1. PICK g : Ups(g, n)
    BY <1>2
  <2>2. n \in Nat /\ n + 1 \in Nat \ {0}
    BY <1>2
  <2>. DEFINE up == [k \in 0 .. n + 1 |-> IF k = n + 1 THEN <<n + 1>> \o g[ParentOf(n + 1)] ELSE g[k]]
  <2>3. ASSUME NEW k \in 0 .. n + 1
        PROVE  up[k] = IF k = 0 THEN <<>> ELSE <<k>> \o up[ParentOf(k)]
    <3>1. CASE k = n + 1
      <4>1. ParentOf(n + 1) \in 0 .. n
        BY <2>2, ParentIsLess
      <4>2. up[ParentOf(n + 1)] = g[ParentOf(n + 1)]
        BY <2>2, <4>1
      <4>. QED BY <2>2, <3>1, <4>2
    <3>2. CASE k # n + 1
      <4>1. k \in 0 .. n
        BY <2>2, <3>2
      <4>2. g[k] = IF k = 0 THEN <<>> ELSE <<k>> \o g[ParentOf(k)]
        BY <2>1, <4>1 DEF Ups
      <4>3. k # 0 => ParentOf(k) \in 0 .. n
        BY <4>1, ParentIsLess
      <4>4. up[k] = g[k] /\ (k # 0 => up[ParentOf(k)] = g[ParentOf(k)])
        BY <2>2, <3>2, <4>3
      <4>. QED BY <4>2, <4>4
    <3>. QED BY <3>1, <3>2
  <2>4. up = [k \in 0 .. n + 1 |-> up[k]]
    OBVIOUS
  <2>. HIDE DEF up
  <2>5. Ups(up, n + 1)
    BY <2>3, <2>4 DEF Ups
  <2>. QED BY <2>2, <2>5
<1>3. \A n \in Nat : n \in P
  <2>1. P \subseteq Nat
    OBVIOUS
  <2>. HIDE DEF P
  <2>. QED BY <1>1, <1>2, <2>1, SetInduction
<1>. QED BY <1>3

LEMMA UpsAgree ==
  ASSUME NEW m \in Nat, NEW n \in Nat, NEW f, NEW g, Ups(f, m), Ups(g, n), m <= n
  PROVE  f[m] = g[m]
<1>. DEFINE S == {k \in 0 .. m : f[k] # g[k]}
<1>1. SUFFICES ASSUME S # {} PROVE FALSE
  OBVIOUS
<1>2. PICK k \in S : \A j \in S : k <= j
  <2>1. S \subseteq Nat
    OBVIOUS
  <2>. QED BY <1>1, <2>1, LeastNumber
<1>3. k \in 0 .. m /\ k \in 0 .. n /\ f[k] # g[k]
  BY <1>2
<1>4. /\ f[k] = IF k = 0 THEN <<>> ELSE <<k>> \o f[ParentOf(k)]
      /\ g[k] = IF k = 0 THEN <<>> ELSE <<k>> \o g[ParentOf(k)]
  BY <1>3 DEF Ups
<1>5. k # 0
  BY <1>3, <1>4
<1>6. ParentOf(k) \in 0 .. m /\ ParentOf(k) < k
  BY <1>3, <1>5, ParentIsLess
<1>7. ParentOf(k) \notin S
  BY <1>2, <1>3, <1>6
<1>8. f[ParentOf(k)] = g[ParentOf(k)]
  BY <1>6, <1>7
<1>. QED BY <1>3, <1>4, <1>8

LEMMA NodesUpAre ==
  ASSUME NEW n \in Nat
  PROVE  \E up : Ups(up, n) /\ NodesUp(n) = up[n]
<1>1. NodesUp(n) = (CHOOSE up : Ups(up, n))[n]
  BY Zenon DEF NodesUp, Ups
<1>. QED BY <1>1, UpsExist

LEMMA NodesUpFirst ==
  /\ NodesUp(0) = <<>>
  /\ \A n \in Nat \ {0} : NodesUp(n) = <<n>> \o NodesUp(ParentOf(n))
<1>1. NodesUp(0) = <<>>
  <2>1. PICK f : Ups(f, 0) /\ NodesUp(0) = f[0]
    BY NodesUpAre
  <2>2. 0 \in 0 .. 0
    OBVIOUS
  <2>. QED BY <2>1, <2>2 DEF Ups
<1>2. ASSUME NEW n \in Nat \ {0} PROVE NodesUp(n) = <<n>> \o NodesUp(ParentOf(n))
  <2>1. ParentOf(n) \in Nat /\ ParentOf(n) <= n /\ n \in 0 .. n
    BY ParentIsLess
  <2>2. PICK f : Ups(f, n) /\ NodesUp(n) = f[n]
    BY NodesUpAre
  <2>3. PICK g : Ups(g, ParentOf(n)) /\ NodesUp(ParentOf(n)) = g[ParentOf(n)]
    BY <2>1, NodesUpAre
  <2>4. g[ParentOf(n)] = f[ParentOf(n)]
    BY <2>1, <2>2, <2>3, UpsAgree
  <2>5. f[n] = <<n>> \o f[ParentOf(n)]
    BY <2>1, <2>2 DEF Ups
  <2>. QED BY <2>2, <2>3, <2>4, <2>5
<1>. QED BY <1>1, <1>2

LEMMA NodesUpType ==
  \A n \in Nat : NodesUp(n) \in Seq(Nat \ {0})
<1>. DEFINE S == {n \in Nat : NodesUp(n) \notin Seq(Nat \ {0})}
<1>1. SUFFICES ASSUME S # {} PROVE FALSE
  OBVIOUS
<1>2. PICK n \in S : \A j \in S : n <= j
  <2>1. S \subseteq Nat
    OBVIOUS
  <2>. QED BY <1>1, <2>1, LeastNumber
<1>3. n \in Nat /\ n # 0 /\ NodesUp(n) \notin Seq(Nat \ {0})
  <2>1. n \in Nat /\ NodesUp(n) \notin Seq(Nat \ {0})
    BY <1>2
  <2>2. PICK q : q = <<>>
    OBVIOUS
  <2>3. q \in Seq(Nat \ {0})
    BY <2>2
  <2>. QED BY <2>1, <2>2, <2>3, NodesUpFirst
<1>4. ParentOf(n) \in Nat /\ ParentOf(n) < n
  BY <1>3, ParentIsLess
<1>5. NodesUp(ParentOf(n)) \in Seq(Nat \ {0})
  BY <1>2, <1>3, <1>4
<1>6. <<n>> \o NodesUp(ParentOf(n)) \in Seq(Nat \ {0})
  BY <1>3, <1>5
<1>. QED BY <1>3, <1>6, NodesUpFirst

(* An iteration of the loop that goes up is the first swap of SiftUp.      *)
LEMMA SiftUpFirst ==
  ASSUME NEW h, NEW s
  PROVE  /\ SiftUp(h, s, 0) = h
         /\ \A n \in Nat \ {0} :
              SiftUp(h, s, n) = SiftUp(CheckNeedHeapify(h, s, n, ParentOf(n)), s, ParentOf(n))
<1>1. SiftUp(h, s, 0) = h
  BY NodesUpFirst, SwapsAlongNothing DEF SiftUp
<1>2. ASSUME NEW n \in Nat \ {0}
      PROVE  SiftUp(h, s, n) = SiftUp(CheckNeedHeapify(h, s, n, ParentOf(n)), s, ParentOf(n))
  <2>1. NodesUp(n) = <<n>> \o NodesUp(ParentOf(n))
    BY NodesUpFirst
  <2>2. NodesUp(ParentOf(n)) \in Seq(Nat \ {0})
    BY ParentIsLess, NodesUpType
  <2>3. SwapsAlong(h, s, <<n>> \o NodesUp(ParentOf(n))) =
          SwapsAlong(Check(h, s, n), s, NodesUp(ParentOf(n)))
    BY <2>2, SwapsAlongFirst
  <2>. QED BY <2>1, <2>3 DEF SiftUp, Check
<1>. QED BY <1>1, <1>2
-----------------------------------------------------------------------------
(* The way down                                                            *)

(* What the recursive function looks for, from node i on.                  *)
Downs(down, t, s, i) ==
  down = [k \in i .. Len(t) |->
           IF LeftChild(t, k) = CBTNODE_DNE THEN <<>>
           ELSE <<HigherChild(t, s, k)>> \o down[HigherChild(t, s, k)]]

(* The nodes below n that the loop visits; NodesDown begins at the root.   *)
DownFrom(t, s, n) == (CHOOSE down : Downs(down, t, s, 0))[n]

LEMMA ChildIsAfter ==
  ASSUME NEW t, Len(t) \in Nat, NEW s, NEW k \in Nat, LeftChild(t, k) # CBTNODE_DNE
  PROVE  /\ HigherChild(t, s, k) \in k + 1 .. Len(t) - 1
         /\ ParentOf(HigherChild(t, s, k)) = k
<1>1. \/ HigherChild(t, s, k) = 2 * k + 1
      \/ HigherChild(t, s, k) = 2 * k + 2 /\ 2 * k + 2 < Len(t)
  BY DEF HigherChild, LeftChild, RightChild
<1>2. 2 * k + 1 < Len(t)
  BY DEF LeftChild
<1>3. PICK n \in Nat : n = Len(t)
  OBVIOUS
<1>4. PICK c \in Nat : c = HigherChild(t, s, k)
  BY <1>1
<1>5. c \in k + 1 .. n - 1 /\ (c = 2 * k + 1 \/ c = 2 * k + 2)
  BY <1>1, <1>2, <1>3, <1>4
<1>6. ParentOf(c) = k
  BY <1>5 DEF ParentOf
<1>. QED BY <1>3, <1>4, <1>5, <1>6

LEMMA DownsExist ==
  ASSUME NEW t, Len(t) \in Nat, NEW s
  PROVE  \E down : Downs(down, t, s, 0)
<1>. DEFINE N == Len(t)
            P == {j \in Nat : j <= N => \E down : Downs(down, t, s, N - j)}
<1>1. 0 \in P
  <2>. DEFINE down == [k \in N .. N |-> <<>>]
  <2>1. \A k \in N .. N : LeftChild(t, k) = CBTNODE_DNE
    BY DEF LeftChild
  <2>2. Downs(down, t, s, N)
    BY <2>1 DEF Downs
  <2>3. N - 0 = N
    OBVIOUS
  <2>. HIDE DEF down
  <2>. QED BY <2>2, <2>3
<1>2. ASSUME NEW j \in P PROVE j + 1 \in P
  <2>1. j \in Nat /\ j + 1 \in Nat
    BY <1>2
  <2>2. SUFFICES ASSUME j + 1 <= N PROVE \E down : Downs(down, t, s, N - (j + 1))
    BY <2>1
  <2>3. PICK g : Downs(g, t, s, N - j)
    BY <1>2, <2>1, <2>2
  <2>4. PICK i \in Nat : i = N - (j + 1) /\ N - j = i + 1 /\ i < N
    <3>1. N \in Nat
      OBVIOUS
    <3>. HIDE DEF N, P
    <3>2. N - (j + 1) \in Nat /\ N - j = N - (j + 1) + 1 /\ N - (j + 1) < N
      BY <2>1, <2>2, <3>1
    <3>. QED BY <3>2
  <2>. DEFINE Next(f, k) == IF LeftChild(t, k) = CBTNODE_DNE THEN <<>>
                            ELSE <<HigherChild(t, s, k)>> \o f[HigherChild(t, s, k)]
              down == [k \in i .. N |-> IF k = i THEN Next(g, i) ELSE g[k]]
  <2>5. ASSUME NEW k \in i .. N PROVE down[k] = Next(down, k)
    <3>1. LeftChild(t, k) # CBTNODE_DNE => HigherChild(t, s, k) \in i + 1 .. N
      <4>1. k \in Nat /\ i <= k
        BY <2>4
      <4>2. LeftChild(t, k) # CBTNODE_DNE => HigherChild(t, s, k) \in k + 1 .. N - 1
        BY <4>1, ChildIsAfter
      <4>. QED BY <2>4, <4>1, <4>2
    <3>2. LeftChild(t, k) # CBTNODE_DNE => down[HigherChild(t, s, k)] = g[HigherChild(t, s, k)]
      <4>1. \A c \in i + 1 .. N : c \in i .. N /\ c # i
        BY <2>4
      <4>2. \A c \in i + 1 .. N : down[c] = g[c]
        BY <4>1
      <4>. QED BY <3>1, <4>2
    <3>3. k # i => g[k] = Next(g, k)
      <4>1. k # i => k \in i + 1 .. N
        BY <2>4
      <4>. QED BY <2>3, <2>4, <4>1 DEF Downs
    <3>4. down[k] = Next(g, k)
      BY <3>3
    <3>. QED BY <3>2, <3>4
  <2>6. down = [k \in i .. N |-> down[k]]
    OBVIOUS
  <2>. HIDE DEF down
  <2>7. Downs(down, t, s, i)
    BY <2>5, <2>6 DEF Downs
  <2>. QED BY <2>4, <2>7
<1>3. N \in P
  <2>1. P \subseteq Nat
    OBVIOUS
  <2>. HIDE DEF P
  <2>. QED BY <1>1, <1>2, <2>1, SetInduction
<1>4. N - N = 0
  OBVIOUS
<1>. QED BY <1>3, <1>4

LEMMA DownFromFirst ==
  ASSUME NEW t, Len(t) \in Nat, NEW s, NEW n \in 0 .. Len(t)
  PROVE  DownFrom(t, s, n) =
           IF LeftChild(t, n) = CBTNODE_DNE THEN <<>>
           ELSE <<HigherChild(t, s, n)>> \o DownFrom(t, s, HigherChild(t, s, n))
<1>1. PICK down : Downs(down, t, s, 0) /\ down = CHOOSE d : Downs(d, t, s, 0)
  BY DownsExist
<1>2. \A k : DownFrom(t, s, k) = down[k]
  BY <1>1 DEF DownFrom
<1>3. down[n] = IF LeftChild(t, n) = CBTNODE_DNE THEN <<>>
                ELSE <<HigherChild(t, s, n)>> \o down[HigherChild(t, s, n)]
  BY <1>1 DEF Downs
<1>. QED BY <1>2, <1>3

LEMMA NodesDownIsDownFrom ==
  ASSUME NEW t, NEW s
  PROVE  NodesDown(t, s) = DownFrom(t, s, 0)
BY Zenon DEF NodesDown, DownFrom, Downs

(* Two trees that are alike below node n have the same way down from it.   *)
LEMMA DownFromBelow ==
  ASSUME NEW t, NEW u, NEW s, Len(t) \in Nat, Len(u) = Len(t), NEW n \in 0 .. Len(t),
         \A k \in n + 1 .. Len(t) - 1 : Element(u, k) = Element(t, k)
  PROVE  DownFrom(u, s, n) = DownFrom(t, s, n)
<1>. DEFINE N == Len(t)
            S == {j \in 0 .. N : N - j >= n /\ DownFrom(u, s, N - j) # DownFrom(t, s, N - j)}
<1>1. SUFFICES ASSUME DownFrom(u, s, n) # DownFrom(t, s, n) PROVE FALSE
  OBVIOUS
<1>2. N - n \in S
  <2>1. N - n \in 0 .. N /\ N - (N - n) = n
    OBVIOUS
  <2>. QED BY <1>1, <2>1
<1>3. PICK j \in S : \A i \in S : j <= i
  <2>1. S \subseteq Nat
    OBVIOUS
  <2>. HIDE DEF S
  <2>. QED BY <1>2, <2>1, LeastNumber
<1>4. PICK k \in 0 .. N : k = N - j /\ k >= n /\ DownFrom(u, s, k) # DownFrom(t, s, k)
  BY <1>3
<1>5. LeftChild(u, k) = LeftChild(t, k) /\ RightChild(u, k) = RightChild(t, k)
  BY DEF LeftChild, RightChild
<1>6. LeftChild(t, k) # CBTNODE_DNE
  BY <1>4, <1>5, DownFromFirst
<1>7. HigherChild(u, s, k) = HigherChild(t, s, k)
  <2>1. LeftChild(t, k) = 2 * k + 1 /\ 2 * k + 1 < N
    BY <1>6 DEF LeftChild
  <2>2. Element(u, 2 * k + 1) = Element(t, 2 * k + 1)
    BY <1>4, <2>1
  <2>3. CASE 2 * k + 2 < N
    <3>1. Element(u, 2 * k + 2) = Element(t, 2 * k + 2) /\ RightChild(t, k) = 2 * k + 2
      BY <1>4, <2>3 DEF RightChild
    <3>. QED BY <1>5, <2>1, <2>2, <3>1 DEF HigherChild, Above
  <2>4. CASE ~(2 * k + 2 < N)
    BY <1>5, <2>4 DEF HigherChild, RightChild
  <2>. QED BY <2>3, <2>4
<1>8. PICK c \in Nat : c = HigherChild(t, s, k) /\ c > k /\ c < N
  BY <1>6, ChildIsAfter
<1>9. DownFrom(u, s, c) # DownFrom(t, s, c)
  <2>1. DownFrom(t, s, k) = <<c>> \o DownFrom(t, s, c)
    BY <1>4, <1>6, <1>8, DownFromFirst
  <2>2. DownFrom(u, s, k) = <<c>> \o DownFrom(u, s, c)
    <3>1. LeftChild(u, k) # CBTNODE_DNE /\ HigherChild(u, s, k) = c /\ k \in 0 .. Len(u)
      BY <1>4, <1>5, <1>6, <1>7, <1>8
    <3>. QED BY <3>1, DownFromFirst
  <2>. QED BY <1>4, <2>1, <2>2
<1>10. N - c \in S /\ N - c < j
  <2>1. N - c \in 0 .. N /\ N - (N - c) = c /\ c >= n
    BY <1>4, <1>8
  <2>2. N - c < j
    BY <1>3, <1>4, <1>8
  <2>. QED BY <1>9, <2>1, <2>2
<1>11. j <= N - c
  <2>. HIDE DEF S
  <2>. QED BY <1>3, <1>10
<1>12. j \in Nat /\ N - c \in Int
  BY <1>3, <1>8
<1>. QED BY <1>10, <1>11, <1>12

LEMMA DownFromType ==
  ASSUME NEW t, NEW s, Len(t) \in Nat
  PROVE  \A n \in 0 .. Len(t) : DownFrom(t, s, n) \in Seq(Nat \ {0})
<1>. DEFINE N == Len(t)
            S == {j \in 0 .. N : DownFrom(t, s, N - j) \notin Seq(Nat \ {0})}
<1>1. SUFFICES ASSUME NEW n \in 0 .. N, DownFrom(t, s, n) \notin Seq(Nat \ {0}) PROVE FALSE
  OBVIOUS
<1>2. N - n \in S
  <2>1. N - n \in 0 .. N /\ N - (N - n) = n
    OBVIOUS
  <2>. QED BY <1>1, <2>1
<1>3. PICK j \in S : \A i \in S : j <= i
  <2>1. S \subseteq Nat
    OBVIOUS
  <2>. HIDE DEF S
  <2>. QED BY <1>2, <2>1, LeastNumber
<1>4. PICK k \in 0 .. N : k = N - j /\ DownFrom(t, s, k) \notin Seq(Nat \ {0})
  BY <1>3
<1>5. LeftChild(t, k) # CBTNODE_DNE
  <2>1. PICK q : q = <<>>
    OBVIOUS
  <2>2. q \in Seq(Nat \ {0})
    BY <2>1
  <2>. QED BY <1>4, <2>1, <2>2, DownFromFirst
<1>6. PICK c \in Nat : c = HigherChild(t, s, k) /\ c > k /\ c < N
  BY <1>5, ChildIsAfter
<1>7. DownFrom(t, s, k) = <<c>> \o DownFrom(t, s, c)
  BY <1>5, <1>6, DownFromFirst
<1>8. DownFrom(t, s, c) \in Seq(Nat \ {0})
  <2>0. N \in Nat /\ j \in Nat /\ k \in Nat /\ j <= N
    BY <1>3, <1>4
  <2>1. N - c \in 0 .. N /\ N - (N - c) = c /\ N - c < j
    <3>. HIDE DEF N, S
    <3>. QED BY <1>4, <1>6, <2>0
  <2>2. N - c \notin S
    <3>1. N - c \in Nat /\ j \in Nat
      BY <2>0, <2>1
    <3>. HIDE DEF S
    <3>. QED BY <1>3, <2>1, <3>1
  <2>. QED BY <2>1, <2>2
<1>9. <<c>> \o DownFrom(t, s, c) \in Seq(Nat \ {0})
  BY <1>6, <1>8
<1>. QED BY <1>4, <1>7, <1>9

-----------------------------------------------------------------------------
(* What the swaps keep: they only change the order of the tree.            *)

HeapOf(D, E) == [tree : Seq(D), third : [E -> Int]]

SameElements(t, u) ==
  Len(u) = Len(t) /\ ToSet(u) = ToSet(t) /\ (IsInjective(t) => IsInjective(u))

LEMMA SwapKeeps ==
  ASSUME NEW D, NEW t \in Seq(D), NEW m \in Int, NEW n \in Int
  PROVE  Swap(t, m, n) \in Seq(D) /\ SameElements(t, Swap(t, m, n))
<1>1. CASE ~(Valid(t, m) /\ Valid(t, n))
  BY <1>1 DEF Swap, SameElements
<1>2. CASE Valid(t, m) /\ Valid(t, n)
  <2>1. PICK l \in Nat : l = Len(t) /\ DOMAIN t = 1 .. l
    OBVIOUS
  <2>2. PICK a \in 1 .. l : a = m + 1
    BY <1>2, <2>1 DEF Valid
  <2>3. PICK b \in 1 .. l : b = n + 1
    BY <1>2, <2>1 DEF Valid
  <2>4. PICK u : u = Swap(t, m, n)
    OBVIOUS
  <2>5. u = [[t EXCEPT ![a] = t[b]] EXCEPT ![b] = t[a]]
    BY <1>2, <2>2, <2>3, <2>4 DEF Swap
  <2>6. u \in Seq(D) /\ Len(u) = l /\ DOMAIN u = 1 .. l
    <3>1. t[a] \in D /\ t[b] \in D
      BY <2>1
    <3>. QED BY <2>1, <2>5, <3>1
  <2>7. \A k \in 1 .. l : u[k] = IF k = b THEN t[a] ELSE IF k = a THEN t[b] ELSE t[k]
    BY <2>1, <2>5
  <2>8. ToSet(u) = ToSet(t)
    <3>1. \A k \in 1 .. l : \E j \in 1 .. l : u[k] = t[j]
      BY <2>7
    <3>2. \A k \in 1 .. l : \E j \in 1 .. l : t[k] = u[j]
      <4>. TAKE k \in 1 .. l
      <4>1. u[IF k = b THEN a ELSE IF k = a THEN b ELSE k] = t[k]
        BY <2>7
      <4>2. (IF k = b THEN a ELSE IF k = a THEN b ELSE k) \in 1 .. l
        OBVIOUS
      <4>. QED BY <4>1, <4>2
    <3>3. ToSet(u) = {u[k] : k \in 1 .. l} /\ ToSet(t) = {t[k] : k \in 1 .. l}
      BY <2>1, <2>6 DEF ToSet
    <3>4. {u[k] : k \in 1 .. l} \subseteq {t[k] : k \in 1 .. l}
      <4>. SUFFICES ASSUME NEW k \in 1 .. l PROVE u[k] \in {t[j] : j \in 1 .. l}
        OBVIOUS
      <4>. QED BY <3>1
    <3>5. {t[k] : k \in 1 .. l} \subseteq {u[k] : k \in 1 .. l}
      <4>. SUFFICES ASSUME NEW k \in 1 .. l PROVE t[k] \in {u[j] : j \in 1 .. l}
        OBVIOUS
      <4>. QED BY <3>2
    <3>. QED BY <3>3, <3>4, <3>5
  <2>9. ASSUME IsInjective(t) PROVE IsInjective(u)
    <3>1. \A j, k \in 1 .. l : t[j] = t[k] => j = k
      BY <2>1, <2>9 DEF IsInjective
    <3>2. \A j, k \in 1 .. l : u[j] = u[k] => j = k
      BY <2>7, <3>1
    <3>. QED BY <2>6, <3>2 DEF IsInjective
  <2>. QED BY <2>1, <2>4, <2>6, <2>8, <2>9 DEF SameElements
<1>. QED BY <1>1, <1>2

LEMMA CheckKeeps ==
  ASSUME NEW D, NEW E, D \subseteq E, NEW h \in HeapOf(D, E), NEW s, NEW c \in Int, NEW p \in Int
  PROVE  /\ CheckNeedHeapify(h, s, c, p) \in HeapOf(D, E)
         /\ SameElements(h.tree, CheckNeedHeapify(h, s, c, p).tree)
<1>1. h.tree \in Seq(D) /\ h.third \in [E -> Int]
  BY DEF HeapOf
<1>2. CASE CheckNeedHeapify(h, s, c, p) = h
  BY <1>1, <1>2 DEF SameElements
<1>3. CASE CheckNeedHeapify(h, s, c, p) # h
  <2>1. Valid(h.tree, c) /\ Valid(h.tree, p) /\ CheckNeedHeapify(h, s, c, p) = Exchanged(h, c, p)
    BY <1>3 DEF CheckNeedHeapify
  <2>2. Element(h.tree, c) \in E /\ Element(h.tree, p) \in E
    <3>1. c + 1 \in 1 .. Len(h.tree) /\ p + 1 \in 1 .. Len(h.tree)
      BY <1>1, <2>1 DEF Valid
    <3>. QED BY <1>1, <3>1 DEF Element
  <2>3. [h.third EXCEPT ![Element(h.tree, c)] = h.third[Element(h.tree, p)]] \in [E -> Int]
    BY <1>1, <2>2
  <2>4. Swap(h.tree, c, p) \in Seq(D) /\ SameElements(h.tree, Swap(h.tree, c, p))
    BY <1>1, SwapKeeps
  <2>5. Exchanged(h, c, p) \in HeapOf(D, E) /\ Exchanged(h, c, p).tree = Swap(h.tree, c, p)
    BY <2>3, <2>4 DEF Exchanged, HeapOf
  <2>. QED BY <2>1, <2>4, <2>5
<1>. QED BY <1>2, <1>3

LEMMA SameElementsTwice ==
  ASSUME NEW t, NEW u, NEW v, SameElements(t, u), SameElements(u, v)
  PROVE  SameElements(t, v)
BY DEF SameElements

LEMMA SwapsAlongKeeps ==
  ASSUME NEW D, NEW E, D \subseteq E, NEW h \in HeapOf(D, E), NEW s, NEW nodes \in Seq(Nat \ {0})
  PROVE  SwapsAlong(h, s, nodes) \in HeapOf(D, E) /\ SameElements(h.tree, SwapsAlong(h, s, nodes).tree)
<1>1. PICK n \in Nat : n = Len(nodes) /\ \A k \in 1 .. n : nodes[k] \in Nat \ {0}
  OBVIOUS
<1>2. PICK r : Way(r, h, s, nodes) /\ SwapsAlong(h, s, nodes) = r[n]
  BY <1>1, SwapsAreAWay
<1>. DEFINE Good(x) == x \in HeapOf(D, E) /\ SameElements(h.tree, x.tree)
            P == {m \in Nat : m <= n => Good(r[m])}
<1>3. 0 \in P
  BY <1>2 DEF Way, SameElements
<1>4. ASSUME NEW m \in P PROVE m + 1 \in P
  <2>1. m \in Nat /\ (m <= n => Good(r[m]))
    BY <1>4
  <2>2. SUFFICES ASSUME m + 1 <= n PROVE Good(r[m + 1])
    BY <2>1
  <2>3. m + 1 \in 1 .. n /\ m + 1 - 1 = m /\ m <= n
    BY <1>1, <2>1, <2>2
  <2>4. PICK k \in Nat \ {0} : k = nodes[m + 1]
    BY <1>1, <2>3
  <2>5. r[m + 1] = CheckNeedHeapify(r[m], s, k, ParentOf(k))
    <3>1. r[m + 1] = Check(r[m + 1 - 1], s, nodes[m + 1])
      BY <1>1, <1>2, <2>3 DEF Way
    <3>. QED BY <2>3, <2>4, <3>1 DEF Check
  <2>6. ParentOf(k) \in Int /\ k \in Int
    BY ParentIsLess
  <2>7. r[m + 1] \in HeapOf(D, E) /\ SameElements(r[m].tree, r[m + 1].tree)
    BY <2>1, <2>3, <2>5, <2>6, CheckKeeps
  <2>. QED BY <2>1, <2>3, <2>7, SameElementsTwice
<1>5. n \in P
  <2>1. P \subseteq Nat
    OBVIOUS
  <2>. HIDE DEF P
  <2>. QED BY <1>1, <1>3, <1>4, <2>1, SetInduction
<1>. QED BY <1>2, <1>5

(* A datapoint that is put into the heap is added to what was there.       *)
LEMMA InsertedKeeps ==
  ASSUME NEW D, NEW E, D \subseteq E, NEW h \in HeapOf(D, E), NEW s, NEW d \in D
  PROVE  Inserted(h, s, d) \in HeapOf(D, E) /\ SameElements(Append(h.tree, d), Inserted(h, s, d).tree)
<1>1. h.tree \in Seq(D) /\ h.third \in [E -> Int] /\ Len(h.tree) \in Nat
  BY DEF HeapOf
<1>2. PICK g : g = [tree |-> Append(h.tree, d), third |-> [h.third EXCEPT ![d] = Len(h.tree)]]
  OBVIOUS
<1>3. g \in HeapOf(D, E) /\ g.tree = Append(h.tree, d)
  <2>1. Append(h.tree, d) \in Seq(D) /\ [h.third EXCEPT ![d] = Len(h.tree)] \in [E -> Int]
    BY <1>1
  <2>. QED BY <1>2, <2>1 DEF HeapOf
<1>4. NodesUp(Len(h.tree)) \in Seq(Nat \ {0})
  BY <1>1, NodesUpType
<1>5. Inserted(h, s, d) = SwapsAlong(g, s, NodesUp(Len(h.tree)))
  BY <1>2 DEF Inserted, SiftUp
<1>. QED BY <1>3, <1>4, <1>5, SwapsAlongKeeps

(* Printing takes the root away from what was there.                       *)
LEMMA PrintedKeeps ==
  ASSUME NEW D, NEW E, D \subseteq E, NEW h \in HeapOf(D, E), NEW s, h.tree # <<>>
  PROVE  LET u == Printed(h, s).tree IN
         /\ Printed(h, s) \in HeapOf(D, E)
         /\ Len(u) = Len(h.tree) - 1
         /\ ToSet(u) \cup {h.tree[1]} = ToSet(h.tree)
         /\ IsInjective(h.tree) => IsInjective(u) /\ h.tree[1] \notin ToSet(u)
<1>. DEFINE t == h.tree
<1>1. h.tree \in Seq(D) /\ h.third \in [E -> Int]
  BY DEF HeapOf
<1>2. PICK l \in Nat \ {0} : l = Len(t) /\ DOMAIN t = 1 .. l
  BY <1>1
<1>3. PICK w : w = Swap(t, 0, LastLeaf(t))
  OBVIOUS
<1>4. /\ w \in Seq(D) /\ Len(w) = l /\ DOMAIN w = 1 .. l /\ ToSet(w) = ToSet(t)
      /\ IsInjective(t) => IsInjective(w)
      /\ w[l] = t[1]
  <2>1. LastLeaf(t) \in Int /\ LastLeaf(t) = l - 1
    BY <1>2 DEF LastLeaf
  <2>2. w \in Seq(D) /\ SameElements(t, w)
    BY <1>1, <1>3, <2>1, SwapKeeps
  <2>3. w = [[t EXCEPT ![1] = t[l]] EXCEPT ![l] = t[1]]
    <3>1. Valid(t, 0) /\ Valid(t, LastLeaf(t)) /\ LastLeaf(t) + 1 = l
      BY <1>2, <2>1 DEF Valid
    <3>. QED BY <1>3, <3>1 DEF Swap
  <2>4. w[l] = t[1]
    BY <1>1, <1>2, <2>3
  <2>. QED BY <1>2, <2>2, <2>4 DEF SameElements
<1>5. PICK v : v = RemoveLast(w)
  OBVIOUS
<1>6. /\ v \in Seq(D) /\ Len(v) = l - 1 /\ DOMAIN v = 1 .. l - 1
      /\ \A k \in 1 .. l - 1 : v[k] = w[k]
  BY <1>4, <1>5 DEF RemoveLast
<1>7. ToSet(v) \cup {t[1]} = ToSet(t)
  <2>1. 1 .. l = (1 .. l - 1) \cup {l}
    OBVIOUS
  <2>2. ToSet(w) = ToSet(v) \cup {w[l]}
    BY <1>4, <1>6, <2>1 DEF ToSet
  <2>. QED BY <1>4, <2>2
<1>8. ASSUME IsInjective(t) PROVE IsInjective(v) /\ t[1] \notin ToSet(v)
  <2>1. \A j, k \in 1 .. l : w[j] = w[k] => j = k
    BY <1>4, <1>8 DEF IsInjective
  <2>2. \A k \in 1 .. l - 1 : k \in 1 .. l /\ k # l
    OBVIOUS
  <2>3. l \in 1 .. l
    OBVIOUS
  <2>. QED BY <1>4, <1>6, <2>1, <2>2, <2>3 DEF IsInjective, ToSet
<1>9. RootTaken(h) \in HeapOf(D, E) /\ RootTaken(h).tree = v
  <2>1. 1 \in 1 .. l /\ l \in 1 .. l /\ LastLeaf(t) + 1 = l
    BY <1>2 DEF LastLeaf
  <2>2. Element(t, 0) \in E /\ Element(t, LastLeaf(t)) \in E
    BY <1>1, <1>2, <2>1 DEF Element
  <2>3. \A z \in {0, -1} : [[h.third EXCEPT ![Element(t, 0)] = -1] EXCEPT
                              ![Element(t, LastLeaf(t))] = z] \in [E -> Int]
    BY <1>1, <2>2
  <2>. QED BY <1>3, <1>5, <1>6, <2>3 DEF RootTaken, HeapOf
<1>10. NodesDown(v, s) \in Seq(Nat \ {0})
  <2>1. Len(v) \in Nat /\ 0 \in 0 .. Len(v)
    BY <1>6
  <2>. QED BY <2>1, NodesDownIsDownFrom, DownFromType
<1>11. Printed(h, s) = SwapsAlong(RootTaken(h), s, NodesDown(v, s))
  BY <1>9 DEF Printed, HeapifyDown
<1>12. Printed(h, s) \in HeapOf(D, E) /\ SameElements(v, Printed(h, s).tree)
  BY <1>9, <1>10, <1>11, SwapsAlongKeeps
<1>. QED BY <1>2, <1>6, <1>7, <1>8, <1>12 DEF SameElements
-----------------------------------------------------------------------------
(* Above orders the datapoints, and a node is above its children.          *)

LEMMA AboveIsAnOrder ==
  ASSUME NEW s \in [Doc -> Nat], NEW a \in Doc, NEW b \in Doc, NEW c \in Doc
  PROVE  /\ Above(s, a, b) => ~Above(s, b, a)
         /\ a # b /\ ~Above(s, a, b) => Above(s, b, a)
         /\ ~Above(s, a, b) /\ ~Above(s, b, c) => ~Above(s, a, c)
<1>1. a \in Nat /\ b \in Nat /\ c \in Nat /\ s[a] \in Nat /\ s[b] \in Nat /\ s[c] \in Nat
  BY DocAssumption
<1>. QED BY <1>1 DEF Above

LEMMA ParentIsBefore ==
  ASSUME NEW k \in Nat \ {0}
  PROVE  /\ ParentOf(k) \in Nat /\ ParentOf(k) < k
         /\ \A n \in Nat : ParentOf(k) = n <=> k = 2 * n + 1 \/ k = 2 * n + 2
BY DEF ParentOf, CBTNODE_DNE

LEMMA ElementIsDoc ==
  ASSUME NEW t \in Seq(Doc), NEW k \in 0 .. Len(t) - 1
  PROVE  Element(t, k) \in Doc
BY DEF Element

LEMMA SwapExchanges ==
  ASSUME NEW t \in Seq(Doc), NEW m \in 0 .. Len(t) - 1, NEW n \in 0 .. Len(t) - 1
  PROVE  /\ Swap(t, m, n) \in Seq(Doc) /\ Len(Swap(t, m, n)) = Len(t)
         /\ \A k \in 0 .. Len(t) - 1 :
              Element(Swap(t, m, n), k) = IF k = m THEN Element(t, n)
                                          ELSE IF k = n THEN Element(t, m) ELSE Element(t, k)
<1>1. Swap(t, m, n) = [t EXCEPT ![m + 1] = t[n + 1], ![n + 1] = t[m + 1]]
  BY DEF Swap, Valid
<1>2. m + 1 \in 1 .. Len(t) /\ n + 1 \in 1 .. Len(t) /\ t[m + 1] \in Doc /\ t[n + 1] \in Doc
  OBVIOUS
<1>. QED BY <1>1, <1>2 DEF Element

(* What checkNeedHeapify makes of tree t, at a node c and its parent p.    *)
Exchanges(t, u, s, c, p) ==
  /\ Len(u) = Len(t)
  /\ IF Above(s, Element(t, c), Element(t, p))
     THEN \A k \in 0 .. Len(t) - 1 :
            Element(u, k) = IF k = c THEN Element(t, p)
                            ELSE IF k = p THEN Element(t, c) ELSE Element(t, k)
     ELSE u = t

LEMMA CheckExchanges ==
  ASSUME NEW h \in [tree : Seq(Doc), third : [Doc -> Int]], NEW s \in [Doc -> Nat],
         NEW c \in 0 .. Len(h.tree) - 1, NEW p \in 0 .. Len(h.tree) - 1
  PROVE  /\ CheckNeedHeapify(h, s, c, p) \in [tree : Seq(Doc), third : [Doc -> Int]]
         /\ Exchanges(h.tree, CheckNeedHeapify(h, s, c, p).tree, s, c, p)
<1>1. Valid(h.tree, c) /\ Valid(h.tree, p)
  BY DEF Valid
<1>2. h.tree \in Seq(Doc) /\ h.third \in [Doc -> Int]
  OBVIOUS
<1>3. Element(h.tree, c) \in Doc /\ Element(h.tree, p) \in Doc
  BY <1>2, ElementIsDoc
<1>4. CASE Above(s, Element(h.tree, c), Element(h.tree, p))
  <2>1. CheckNeedHeapify(h, s, c, p) =
          [tree |-> Swap(h.tree, c, p),
           third |-> [h.third EXCEPT ![Element(h.tree, c)] = h.third[Element(h.tree, p)]]]
    BY <1>1, <1>4 DEF CheckNeedHeapify, Exchanged
  <2>2. [h.third EXCEPT ![Element(h.tree, c)] = h.third[Element(h.tree, p)]] \in [Doc -> Int]
    BY <1>2, <1>3
  <2>3. Swap(h.tree, c, p) \in Seq(Doc)
    BY <1>2, SwapExchanges
  <2>4. CheckNeedHeapify(h, s, c, p).tree = Swap(h.tree, c, p)
    BY <2>1
  <2>5. CheckNeedHeapify(h, s, c, p) \in [tree : Seq(Doc), third : [Doc -> Int]]
    BY <2>1, <2>2, <2>3
  <2>6. Exchanges(h.tree, Swap(h.tree, c, p), s, c, p)
    <3>. DEFINE t == h.tree
                u == Swap(t, c, p)
    <3>1. /\ Len(u) = Len(t)
          /\ \A k \in 0 .. Len(t) - 1 :
               Element(u, k) = IF k = c THEN Element(t, p)
                               ELSE IF k = p THEN Element(t, c) ELSE Element(t, k)
      BY <1>2, SwapExchanges
    <3>2. Above(s, Element(t, c), Element(t, p))
      BY <1>4
    <3>3. Exchanges(t, u, s, c, p)
      <4>. HIDE DEF t, u
      <4>. QED BY <3>1, <3>2 DEF Exchanges
    <3>. QED BY <3>3
  <2>. QED BY <2>4, <2>5, <2>6
<1>5. CASE ~Above(s, Element(h.tree, c), Element(h.tree, p))
  BY <1>5 DEF CheckNeedHeapify, Exchanges
<1>. QED BY <1>4, <1>5

-----------------------------------------------------------------------------
(* The order while a loop runs.  A new leaf that rises may be above its    *)
(* parent; a leaf that sinks from the root may be below its children.      *)
(* Around it the order holds as if the node were taken out.                *)

InOrder(t, s, k) == ~Above(s, Element(t, k), Element(t, ParentOf(k)))

SpansNode(t, s, n) ==
  n # 0 => \A k \in 1 .. Len(t) - 1 :
             ParentOf(k) = n => ~Above(s, Element(t, k), Element(t, ParentOf(n)))

RisingAt(t, s, n) ==
  SpansNode(t, s, n) /\ \A k \in 1 .. Len(t) - 1 : k # n => InOrder(t, s, k)

SinkingAt(t, s, n) ==
  SpansNode(t, s, n) /\ \A k \in 1 .. Len(t) - 1 : ParentOf(k) # n => InOrder(t, s, k)

(* One iteration of the loop of addtoheap.                                 *)
LEMMA RiseKeepsOrder ==
  ASSUME NEW t \in Seq(Doc), NEW u, NEW s \in [Doc -> Nat],
         NEW n \in 1 .. Len(t) - 1, NEW p, p = ParentOf(n),
         RisingAt(t, s, n), Exchanges(t, u, s, n, p)
  PROVE  RisingAt(u, s, p)
<1> DEFINE E(k) == Element(t, k)
<1>0. Len(t) \in Nat
  OBVIOUS
<1>1. p \in 0 .. Len(t) - 1 /\ p < n
  BY <1>0, ParentIsBefore
<1>2. \A k \in 1 .. Len(t) - 1 : ParentOf(k) \in 0 .. Len(t) - 1 /\ ParentOf(k) < k
  <2>. TAKE k \in 1 .. Len(t) - 1
  <2>1. k \in Nat \ {0}
    BY <1>0
  <2>2. ParentOf(k) \in Nat /\ ParentOf(k) < k
    BY <2>1, ParentIsBefore
  <2>. QED BY <1>0, <2>2
<1>3. (\A k \in 0 .. Len(t) - 1 : E(k) \in Doc) /\ E(n) \in Doc /\ E(p) \in Doc
  BY <1>0, <1>1, ElementIsDoc
<1>. HIDE DEF E
<1>4. CASE ~Above(s, E(n), E(p))
  <2>1. u = t
    BY <1>4 DEF Exchanges, E
  <2>2. \A k \in 1 .. Len(t) - 1 : InOrder(t, s, k)
    BY <1>4 DEF RisingAt, InOrder, E
  <2>3. SpansNode(t, s, p)
    <3>. SUFFICES ASSUME p # 0, NEW k \in 1 .. Len(t) - 1, ParentOf(k) = p
                  PROVE  ~Above(s, E(k), E(ParentOf(p)))
      BY DEF SpansNode, E
    <3>1. ~Above(s, E(k), E(p)) /\ ~Above(s, E(p), E(ParentOf(p)))
      BY <1>1, <2>2 DEF InOrder, E
    <3>2. p \in 1 .. Len(t) - 1
      BY <1>1
    <3>3. ParentOf(p) \in 0 .. Len(t) - 1 /\ k \in 0 .. Len(t) - 1
      BY <1>0, <1>2, <3>2, SMTT(20)
    <3>4. E(k) \in Doc /\ E(p) \in Doc /\ E(ParentOf(p)) \in Doc
      BY <1>3, <3>3
    <3>. QED BY <3>1, <3>4, AboveIsAnOrder
  <2>. QED BY <2>1, <2>2, <2>3 DEF RisingAt
<1>5. CASE Above(s, E(n), E(p))
  <2>1. /\ Len(u) = Len(t)
        /\ \A k \in 0 .. Len(t) - 1 :
             Element(u, k) = IF k = n THEN E(p) ELSE IF k = p THEN E(n) ELSE E(k)
    BY <1>5 DEF Exchanges, E
  <2>2. \A k \in 1 .. Len(t) - 1 : k # n => ~Above(s, E(k), E(ParentOf(k)))
    BY DEF RisingAt, InOrder, E
  <2>3. \A k \in 1 .. Len(t) - 1 : ParentOf(k) = n => ~Above(s, E(k), E(p))
    BY DEF RisingAt, SpansNode, E
  <2>4. \A k \in 1 .. Len(t) - 1 : ParentOf(k) = p /\ k # n => ~Above(s, E(k), E(n))
    <3>. SUFFICES ASSUME NEW k \in 1 .. Len(t) - 1, ParentOf(k) = p, k # n
                  PROVE  ~Above(s, E(k), E(n))
      OBVIOUS
    <3>1. ~Above(s, E(k), E(p))
      BY <2>2
    <3>2. ~Above(s, E(p), E(n))
      BY <1>3, <1>5, AboveIsAnOrder
    <3>3. E(k) \in Doc
      BY <1>0, <1>3
    <3>. QED BY <1>3, <3>3, <3>1, <3>2, AboveIsAnOrder
  <2>5. ASSUME NEW k \in 1 .. Len(t) - 1, k # p PROVE InOrder(u, s, k)
    <3>. DEFINE q == ParentOf(k)
    <3>1. q \in 0 .. Len(t) - 1 /\ q # k /\ k \in 0 .. Len(t) - 1
      BY <1>2
    <3>2. CASE k = n
      <4>1. Element(u, k) = E(p) /\ Element(u, q) = E(n)
        BY <1>1, <2>1, <3>1, <3>2
      <4>. QED BY <1>3, <1>5, <3>2, <4>1, AboveIsAnOrder DEF InOrder, E
    <3>3. CASE k # n /\ q = n
      <4>1. Element(u, k) = E(k) /\ Element(u, q) = E(p)
        BY <2>1, <2>5, <3>1, <3>3
      <4>. QED BY <2>3, <3>3, <4>1 DEF InOrder, E
    <3>4. CASE k # n /\ q = p
      <4>1. Element(u, k) = E(k) /\ Element(u, q) = E(n)
        BY <1>1, <2>1, <2>5, <3>1, <3>4
      <4>. QED BY <2>4, <3>4, <4>1 DEF InOrder, E
    <3>5. CASE k # n /\ q # n /\ q # p
      <4>1. Element(u, k) = E(k) /\ Element(u, q) = E(q)
        BY <2>1, <2>5, <3>1, <3>5
      <4>. QED BY <2>2, <3>5, <4>1 DEF InOrder, E
    <3>. QED BY <3>2, <3>3, <3>4, <3>5
  <2>6. SpansNode(u, s, p)
    <3>. SUFFICES ASSUME p # 0, NEW k \in 1 .. Len(t) - 1, ParentOf(k) = p
                  PROVE  ~Above(s, Element(u, k), Element(u, ParentOf(p)))
      BY <2>1 DEF SpansNode, E
    <3>. DEFINE g == ParentOf(p)
    <3>1. /\ p \in 1 .. Len(t) - 1 /\ g \in 0 .. Len(t) - 1 /\ g # p /\ g # n
          /\ k \in 0 .. Len(t) - 1 /\ k # p
      <4>1. p \in 1 .. Len(t) - 1
        BY <1>0, <1>1
      <4>2. g \in 0 .. Len(t) - 1 /\ g < p
        BY <1>2, <4>1
      <4>3. k \in 0 .. Len(t) - 1 /\ p < k
        BY <1>0, <1>2
      <4>. HIDE DEF g
      <4>. QED BY <1>0, <1>1, <4>1, <4>2, <4>3, SMTT(20)
    <3>. HIDE DEF g
    <3>2. Element(u, g) = E(g) /\ Element(u, k) = IF k = n THEN E(p) ELSE E(k)
      BY <1>0, <1>1, <2>1, <3>1
    <3>3. ~Above(s, E(p), E(g))
      BY <1>1, <2>2, <3>1 DEF g
    <3>4. k # n => ~Above(s, E(k), E(p))
      BY <2>2
    <3>5. E(k) \in Doc /\ E(p) \in Doc /\ E(g) \in Doc
      BY <1>1, <1>3, <3>1
    <3>6. ~Above(s, Element(u, k), E(g))
      <4>1. CASE k = n
        BY <3>2, <3>3, <4>1
      <4>2. CASE k # n
        <5>1. ~Above(s, E(k), E(p))
          BY <3>4, <4>2
        <5>2. ~Above(s, E(k), E(g))
          <6>. HIDE DEF E
          <6>. QED BY <3>3, <3>5, <5>1, AboveIsAnOrder
        <5>. QED BY <3>2, <4>2, <5>2
      <4>. QED BY <4>1, <4>2
    <3>. QED BY <3>2, <3>6 DEF g
  <2>. QED BY <2>1, <2>5, <2>6 DEF RisingAt
<1>. QED BY <1>4, <1>5

(* What heapifyDown takes for the child of node n.                         *)
LEMMA HigherChildIsHigher ==
  ASSUME NEW t \in Seq(Doc), NEW s \in [Doc -> Nat], NEW n \in 0 .. Len(t) - 1,
         LeftChild(t, n) # CBTNODE_DNE, NEW c, c = HigherChild(t, s, n)
  PROVE  /\ c \in 1 .. Len(t) - 1 /\ ParentOf(c) = n
         /\ \A k \in 1 .. Len(t) - 1 :
              ParentOf(k) = n /\ k # c => ~Above(s, Element(t, k), Element(t, c))
<1> DEFINE l == 2 * n + 1
           r == 2 * n + 2
<1>0. Len(t) \in Nat
  OBVIOUS
<1>1. LeftChild(t, n) = l /\ l \in 1 .. Len(t) - 1
  BY <1>0 DEF LeftChild, CBTNODE_DNE
<1>2. RightChild(t, n) = (IF r < Len(t) THEN r ELSE CBTNODE_DNE) /\ r \in Nat \ {0}
  BY <1>0 DEF RightChild
<1>3. \A k \in 1 .. Len(t) - 1 : ParentOf(k) = n <=> k = l \/ k = r
  BY <1>0, ParentIsBefore
<1>. HIDE DEF l, r
<1>4. CASE ~(r < Len(t))
  BY <1>0, <1>1, <1>2, <1>3, <1>4 DEF HigherChild
<1>5. CASE r < Len(t)
  <2>1. r \in 1 .. Len(t) - 1 /\ RightChild(t, n) = r /\ r # CBTNODE_DNE
    BY <1>0, <1>2, <1>5 DEF CBTNODE_DNE
  <2>2. Element(t, l) \in Doc /\ Element(t, r) \in Doc
    BY <1>0, <1>1, <2>1, ElementIsDoc
  <2>3. c = IF Above(s, Element(t, l), Element(t, r)) THEN l ELSE r
    BY <1>1, <2>1 DEF HigherChild
  <2>4. Above(s, Element(t, l), Element(t, r)) => ~Above(s, Element(t, r), Element(t, l))
    BY <2>2, AboveIsAnOrder
  <2>. QED BY <1>1, <1>3, <2>1, <2>3, <2>4
<1>. QED BY <1>4, <1>5

(* One iteration of heapifyDown.                                           *)
LEMMA SinkKeepsOrder ==
  ASSUME NEW t \in Seq(Doc), NEW u, NEW s \in [Doc -> Nat],
         NEW n \in 0 .. Len(t) - 1, LeftChild(t, n) # CBTNODE_DNE,
         NEW c, c = HigherChild(t, s, n),
         SinkingAt(t, s, n), Exchanges(t, u, s, c, n)
  PROVE  SinkingAt(u, s, c)
<1> DEFINE E(k) == Element(t, k)
<1>0. Len(t) \in Nat
  OBVIOUS
<1>1. /\ c \in 1 .. Len(t) - 1 /\ ParentOf(c) = n
      /\ \A k \in 1 .. Len(t) - 1 : ParentOf(k) = n /\ k # c => ~Above(s, E(k), E(c))
  BY HigherChildIsHigher
<1>2. \A k \in 1 .. Len(t) - 1 : ParentOf(k) \in 0 .. Len(t) - 1 /\ ParentOf(k) < k
  <2>. TAKE k \in 1 .. Len(t) - 1
  <2>1. k \in Nat \ {0}
    BY <1>0
  <2>2. ParentOf(k) \in Nat /\ ParentOf(k) < k
    BY <2>1, ParentIsBefore
  <2>. QED BY <1>0, <2>2
<1>3. (\A k \in 0 .. Len(t) - 1 : E(k) \in Doc) /\ E(n) \in Doc /\ E(c) \in Doc
  BY <1>0, <1>1, ElementIsDoc
<1>4. \A k \in 1 .. Len(t) - 1 : ParentOf(k) # n => ~Above(s, E(k), E(ParentOf(k)))
  BY DEF SinkingAt, InOrder
<1>. HIDE DEF E
<1>5. CASE ~Above(s, E(c), E(n))
  <2>1. u = t
    BY <1>5 DEF Exchanges, E
  <2>2. ASSUME NEW k \in 1 .. Len(t) - 1 PROVE InOrder(t, s, k)
    <3>1. CASE ParentOf(k) # n
      BY <1>4, <3>1 DEF InOrder, E
    <3>2. CASE ParentOf(k) = n /\ k # c
      <4>1. ~Above(s, E(k), E(c)) /\ E(k) \in Doc
        BY <1>0, <1>1, <1>3, <3>2
      <4>. QED BY <1>3, <1>5, <3>2, <4>1, AboveIsAnOrder DEF InOrder, E
    <3>3. CASE k = c
      BY <1>1, <1>5, <3>3 DEF InOrder, E
    <3>. QED BY <3>1, <3>2, <3>3
  <2>3. ASSUME NEW k \in 1 .. Len(t) - 1, ParentOf(k) = c
        PROVE  ~Above(s, E(k), E(n))
    <3>1. ~Above(s, E(k), E(c)) /\ E(k) \in Doc
      BY <1>0, <1>3, <2>2, <2>3 DEF InOrder, E
    <3>. QED BY <1>3, <1>5, <3>1, AboveIsAnOrder
  <2>. QED BY <1>1, <2>1, <2>2, <2>3 DEF SinkingAt, SpansNode, E
<1>6. CASE Above(s, E(c), E(n))
  <2>1. /\ Len(u) = Len(t)
        /\ \A k \in 0 .. Len(t) - 1 :
             Element(u, k) = IF k = c THEN E(n) ELSE IF k = n THEN E(c) ELSE E(k)
    BY <1>6 DEF Exchanges, E
  <2>2. n # c /\ n \in 0 .. Len(t) - 1 /\ c \in 0 .. Len(t) - 1
    BY <1>0, <1>1, <1>2
  <2>3. ~Above(s, E(n), E(c))
    BY <1>3, <1>6, AboveIsAnOrder
  <2>4. ASSUME NEW k \in 1 .. Len(t) - 1, ParentOf(k) # c PROVE InOrder(u, s, k)
    <3>. DEFINE q == ParentOf(k)
    <3>1. q \in 0 .. Len(t) - 1 /\ q # k /\ k \in 0 .. Len(t) - 1
      BY <1>0, <1>2
    <3>2. CASE k = c
      <4>1. Element(u, k) = E(n) /\ Element(u, q) = E(c)
        BY <1>1, <2>1, <2>2, <3>1, <3>2
      <4>. QED BY <2>3, <4>1 DEF InOrder
    <3>3. CASE k # c /\ q = n
      <4>1. Element(u, k) = E(k) /\ Element(u, q) = E(c)
        BY <2>1, <2>2, <3>1, <3>3
      <4>. QED BY <1>1, <3>3, <4>1 DEF InOrder
    <3>4. CASE k = n
      <4>1. Element(u, k) = E(c) /\ Element(u, q) = E(q)
        BY <2>1, <2>2, <2>4, <3>1, <3>4
      <4>2. ~Above(s, E(c), E(q))
        BY <1>1, <3>4 DEF SinkingAt, SpansNode, E
      <4>. QED BY <4>1, <4>2 DEF InOrder
    <3>5. CASE k # c /\ k # n /\ q # n
      <4>1. Element(u, k) = E(k) /\ Element(u, q) = E(q)
        BY <2>1, <2>4, <3>1, <3>5
      <4>. QED BY <1>4, <3>5, <4>1 DEF InOrder
    <3>. QED BY <3>2, <3>3, <3>4, <3>5
  <2>5. ASSUME NEW k \in 1 .. Len(t) - 1, ParentOf(k) = c
        PROVE  ~Above(s, Element(u, k), Element(u, n))
    <3>0. c < k /\ n < c /\ k \in Int /\ c \in Int /\ n \in Int
      <4>1. c < k
        BY <1>2, <2>5
      <4>2. n < c
        BY <1>1, <1>2
      <4>. QED BY <1>0, <1>1, <4>1, <4>2
    <3>1. k # c /\ k # n /\ k \in 0 .. Len(t) - 1
      BY <1>0, <3>0
    <3>2. Element(u, k) = E(k) /\ Element(u, n) = E(c)
      BY <2>1, <2>2, <3>1
    <3>3. ~Above(s, E(k), E(ParentOf(k)))
      BY <1>4, <2>2, <2>5, Zenon
    <3>. QED BY <2>5, <3>2, <3>3
  <2>. QED BY <1>1, <2>1, <2>4, <2>5 DEF SinkingAt, SpansNode
<1>. QED BY <1>5, <1>6

-----------------------------------------------------------------------------
(* The root of an ordered heap belongs above every other node: the node    *)
(* with the least number that is above it would have its parent above it.  *)
LEMMA RootIsBest ==
  ASSUME NEW t \in Seq(Doc), NEW s \in [Doc -> Nat], HeapOrdered(t, s),
         NEW k \in 0 .. Len(t) - 1
  PROVE  ~Above(s, Element(t, k), Element(t, 0))
<1> DEFINE S == {m \in 0 .. Len(t) - 1 : Above(s, Element(t, m), Element(t, 0))}
<1>0. Len(t) \in Nat /\ S \subseteq Nat
  OBVIOUS
<1>1. CASE S = {}
  BY <1>1
<1>2. CASE S # {}
  <2>1. PICK m \in S : \A j \in S : m <= j
    BY <1>0, <1>2, LeastNumber
  <2>. HIDE DEF S
  <2>2. m \in 0 .. Len(t) - 1 /\ Above(s, Element(t, m), Element(t, 0))
    BY <2>1 DEF S
  <2>3. Element(t, m) \in Doc /\ Element(t, 0) \in Doc
    BY <1>0, <2>2, ElementIsDoc
  <2>4. m # 0
    BY <2>2, <2>3, AboveIsAnOrder
  <2>5. ParentOf(m) \in Nat /\ ParentOf(m) < m
    BY <2>2, <2>4, ParentIsBefore
  <2>6. ParentOf(m) \in 0 .. Len(t) - 1 /\ ParentOf(m) \notin S
    BY <1>0, <2>1, <2>2, <2>5
  <2>7. ~Above(s, Element(t, ParentOf(m)), Element(t, 0))
    BY <2>6 DEF S
  <2>8. ~Above(s, Element(t, m), Element(t, ParentOf(m)))
    BY <1>0, <2>2, <2>4 DEF HeapOrdered
  <2>9. Element(t, ParentOf(m)) \in Doc
    BY <2>6, ElementIsDoc
  <2>. QED BY <2>2, <2>3, <2>7, <2>8, <2>9, AboveIsAnOrder
<1>. QED BY <1>1, <1>2

Injective(t) == \A k, l \in 0 .. Len(t) - 1 : Element(t, k) = Element(t, l) => k = l

(* A swap brings no datapoint twice into the tree.                         *)
LEMMA ExchangeKeepsApart ==
  ASSUME NEW t \in Seq(Doc), NEW u, NEW s,
         NEW c \in 0 .. Len(t) - 1, NEW p \in 0 .. Len(t) - 1,
         Injective(t), Exchanges(t, u, s, c, p)
  PROVE  Injective(u)
<1>1. CASE u = t
  BY <1>1
<1>2. CASE /\ Len(u) = Len(t)
           /\ \A k \in 0 .. Len(t) - 1 :
                Element(u, k) = IF k = c THEN Element(t, p)
                                ELSE IF k = p THEN Element(t, c) ELSE Element(t, k)
  BY <1>2 DEF Injective
<1>. QED BY <1>1, <1>2 DEF Exchanges

(* print moves the last leaf to the root and leaves the other nodes.       *)
LEMMA RootTakenKeeps ==
  ASSUME NEW h \in [tree : Seq(Doc), third : [Doc -> Int]], h.tree # <<>>
  PROVE  /\ RootTaken(h) \in [tree : Seq(Doc), third : [Doc -> Int]]
         /\ Len(RootTaken(h).tree) = Len(h.tree) - 1
         /\ \A k \in 0 .. Len(h.tree) - 2 :
              Element(RootTaken(h).tree, k) =
                IF k = 0 THEN Element(h.tree, Len(h.tree) - 1) ELSE Element(h.tree, k)
<1> DEFINE t == h.tree
           u == Swap(t, 0, Len(t) - 1)
           th == [[h.third EXCEPT ![Element(t, 0)] = -1] EXCEPT
                    ![Element(t, Len(t) - 1)] = IF Len(t) > 1 THEN 0 ELSE -1]
<1>1. t \in Seq(Doc) /\ h.third \in [Doc -> Int] /\ Len(t) \in Nat /\ Len(t) > 0
  OBVIOUS
<1>2. RootTaken(h) = [tree |-> RemoveLast(u), third |-> th]
  BY DEF RootTaken, LastLeaf
<1>. HIDE DEF t
<1>3. 0 \in 0 .. Len(t) - 1 /\ Len(t) - 1 \in 0 .. Len(t) - 1
  BY <1>1
<1>4. /\ u \in Seq(Doc) /\ Len(u) = Len(t)
      /\ \A k \in 0 .. Len(t) - 1 :
           Element(u, k) = IF k = 0 THEN Element(t, Len(t) - 1)
                           ELSE IF k = Len(t) - 1 THEN Element(t, 0) ELSE Element(t, k)
  <2>1. \A m, n \in 0 .. Len(t) - 1 :
          /\ Swap(t, m, n) \in Seq(Doc) /\ Len(Swap(t, m, n)) = Len(t)
          /\ \A k \in 0 .. Len(t) - 1 :
               Element(Swap(t, m, n), k) = IF k = m THEN Element(t, n)
                                           ELSE IF k = n THEN Element(t, m) ELSE Element(t, k)
    BY <1>1, SwapExchanges
  <2>. QED BY <1>3, <2>1, ZenonT(30)
<1>5. th \in [Doc -> Int]
  BY <1>1, <1>3, ElementIsDoc
<1>. HIDE DEF u, th
<1>6. /\ RemoveLast(u) \in Seq(Doc) /\ Len(RemoveLast(u)) = Len(t) - 1
      /\ \A k \in 1 .. Len(t) - 1 : RemoveLast(u)[k] = u[k]
  <2>1. Len(u) = Len(t) /\ Len(t) \in Nat /\ u \in Seq(Doc) /\ Len(t) > 0
    BY <1>1, <1>4
  <2>2. RemoveLast(u) = SubSeq(u, 1, Len(t) - 1)
    BY <2>1 DEF RemoveLast
  <2>. QED BY <2>1, <2>2
<1>7. ASSUME NEW k \in 0 .. Len(t) - 2
      PROVE  Element(RemoveLast(u), k) = IF k = 0 THEN Element(t, Len(t) - 1) ELSE Element(t, k)
  <2>1. k + 1 \in 1 .. Len(t) - 1 /\ k \in 0 .. Len(t) - 1 /\ k # Len(t) - 1
    BY <1>1
  <2>2. Element(RemoveLast(u), k) = Element(u, k)
    BY <1>6, <2>1 DEF Element
  <2>. QED BY <1>4, <2>1, <2>2
<1>. QED BY <1>1, <1>2, <1>5, <1>6, <1>7 DEF t
-----------------------------------------------------------------------------
(* The loops as a whole: what they leave is in order.  If a loop from some *)
(* node did not do this, the first such node on its way would be one from  *)
(* which the rest of the way does.                                         *)

LEMMA SiftUpOrders ==
  ASSUME NEW s \in [Doc -> Nat]
  PROVE  \A n \in Nat : \A h \in HeapOf(Doc, Doc) :
           n < Len(h.tree) /\ RisingAt(h.tree, s, n) => HeapOrdered(SiftUp(h, s, n).tree, s)
<1>. DEFINE Fails(n) == \E h \in HeapOf(Doc, Doc) :
                          /\ n < Len(h.tree) /\ RisingAt(h.tree, s, n)
                          /\ ~HeapOrdered(SiftUp(h, s, n).tree, s)
            S == {n \in Nat : Fails(n)}
<1>1. SUFFICES ASSUME S # {} PROVE FALSE
  OBVIOUS
<1>2. PICK n \in S : \A j \in S : n <= j
  <2>1. S \subseteq Nat
    OBVIOUS
  <2>. HIDE DEF S
  <2>. QED BY <1>1, <2>1, LeastNumber
<1>3. n \in Nat /\ Fails(n)
  BY <1>2
<1>4. PICK h \in HeapOf(Doc, Doc) : /\ n < Len(h.tree) /\ RisingAt(h.tree, s, n)
                                   /\ ~HeapOrdered(SiftUp(h, s, n).tree, s)
  BY <1>3
<1>5. h \in [tree : Seq(Doc), third : [Doc -> Int]] /\ h.tree \in Seq(Doc) /\ Len(h.tree) \in Nat
  BY DEF HeapOf
<1>6. CASE n = 0
  <2>1. SiftUp(h, s, n) = h
    BY <1>6, SiftUpFirst
  <2>2. HeapOrdered(h.tree, s)
    BY <1>4, <1>6 DEF RisingAt, InOrder, HeapOrdered
  <2>. QED BY <1>4, <2>1, <2>2
<1>7. CASE n # 0
  <2>1. n \in Nat \ {0} /\ n \in 1 .. Len(h.tree) - 1 /\ n \in 0 .. Len(h.tree) - 1
    BY <1>3, <1>4, <1>5, <1>7
  <2>2. PICK p \in Nat : p = ParentOf(n) /\ p < n
    BY <2>1, ParentIsLess
  <2>3. p \in 0 .. Len(h.tree) - 1
    BY <2>1, <2>2
  <2>4. PICK g : g = CheckNeedHeapify(h, s, n, p)
    OBVIOUS
  <2>5. g \in HeapOf(Doc, Doc) /\ Exchanges(h.tree, g.tree, s, n, p)
    BY <1>5, <2>1, <2>3, <2>4, CheckExchanges DEF HeapOf
  <2>6. RisingAt(g.tree, s, p)
    BY <1>4, <1>5, <2>1, <2>2, <2>5, RiseKeepsOrder
  <2>7. p < Len(g.tree)
    <3>1. Len(g.tree) = Len(h.tree)
      BY <2>5 DEF Exchanges
    <3>. QED BY <1>4, <1>5, <2>1, <2>2, <3>1
  <2>8. SiftUp(h, s, n) = SiftUp(g, s, p)
    <3>1. \A m \in Nat \ {0} :
            SiftUp(h, s, m) = SiftUp(CheckNeedHeapify(h, s, m, ParentOf(m)), s, ParentOf(m))
      BY SiftUpFirst
    <3>2. SiftUp(h, s, n) = SiftUp(CheckNeedHeapify(h, s, n, ParentOf(n)), s, ParentOf(n))
      BY <2>1, <3>1
    <3>. QED BY <2>2, <2>4, <3>2
  <2>9. Fails(p)
    BY <1>4, <2>5, <2>6, <2>7, <2>8
  <2>10. p \in S
    BY <2>2, <2>9
  <2>11. n <= p
    <3>. HIDE DEF S
    <3>. QED BY <1>2, <2>10
  <2>. QED BY <1>3, <2>2, <2>11
<1>. QED BY <1>6, <1>7

LEMMA SinksOrders ==
  ASSUME NEW s \in [Doc -> Nat]
  PROVE  \A h \in HeapOf(Doc, Doc) : \A n \in 0 .. Len(h.tree) - 1 :
           SinkingAt(h.tree, s, n) => HeapOrdered(SwapsAlong(h, s, DownFrom(h.tree, s, n)).tree, s)
<1>. DEFINE Fails(j) == \E h \in HeapOf(Doc, Doc) : \E n \in 0 .. Len(h.tree) - 1 :
                          /\ j = Len(h.tree) - n /\ SinkingAt(h.tree, s, n)
                          /\ ~HeapOrdered(SwapsAlong(h, s, DownFrom(h.tree, s, n)).tree, s)
            S == {j \in Nat : Fails(j)}
<1>1. SUFFICES ASSUME NEW h \in HeapOf(Doc, Doc), NEW n \in 0 .. Len(h.tree) - 1,
                      SinkingAt(h.tree, s, n),
                      ~HeapOrdered(SwapsAlong(h, s, DownFrom(h.tree, s, n)).tree, s)
               PROVE  FALSE
  OBVIOUS
<1>2. S # {}
  <2>1. h.tree \in Seq(Doc)
    BY DEF HeapOf
  <2>2. Len(h.tree) - n \in Nat
    BY <2>1
  <2>3. Fails(Len(h.tree) - n)
    BY <1>1
  <2>. QED BY <2>2, <2>3
<1>3. PICK j \in S : \A i \in S : j <= i
  <2>1. S \subseteq Nat
    OBVIOUS
  <2>. HIDE DEF S
  <2>. QED BY <1>2, <2>1, LeastNumber
<1>4. j \in Nat /\ Fails(j)
  BY <1>3
<1>5. PICK f \in HeapOf(Doc, Doc) : \E k \in 0 .. Len(f.tree) - 1 :
             /\ j = Len(f.tree) - k /\ SinkingAt(f.tree, s, k)
             /\ ~HeapOrdered(SwapsAlong(f, s, DownFrom(f.tree, s, k)).tree, s)
  BY <1>4
<1>6. PICK k \in 0 .. Len(f.tree) - 1 :
             /\ j = Len(f.tree) - k /\ SinkingAt(f.tree, s, k)
             /\ ~HeapOrdered(SwapsAlong(f, s, DownFrom(f.tree, s, k)).tree, s)
  BY <1>5
<1>7. f \in [tree : Seq(Doc), third : [Doc -> Int]] /\ f.tree \in Seq(Doc)
  BY DEF HeapOf
<1>8. PICK t \in Seq(Doc) : t = f.tree
  BY <1>7
<1>9. PICK l \in Nat : l = Len(t) /\ k \in Nat /\ k < l /\ j = l - k
  <2>1. PICK l \in Nat : l = Len(t)
    OBVIOUS
  <2>. QED BY <1>6, <1>8, <2>1
<1>. HIDE DEF S
<1>10. CASE LeftChild(t, k) = CBTNODE_DNE
  <2>1. DownFrom(t, s, k) = <<>>
    <3>1. Len(t) \in Nat /\ k \in 0 .. Len(t)
      BY <1>9
    <3>. QED BY <1>10, <3>1, DownFromFirst
  <2>2. SwapsAlong(f, s, <<>>) = f
    BY SwapsAlongNothing
  <2>3. \A m \in 1 .. Len(t) - 1 : ParentOf(m) # k
    <3>. SUFFICES ASSUME NEW m \in 1 .. Len(t) - 1, ParentOf(m) = k PROVE FALSE
      OBVIOUS
    <3>1. m \in Nat \ {0} /\ m < l
      <4>. HIDE DEF Fails
      <4>1. m \in 1 .. l - 1
        BY <1>9
      <4>. QED BY <1>9, <4>1
    <3>2. m = 2 * k + 1 \/ m = 2 * k + 2
      BY <1>9, <3>1, ParentIsBefore
    <3>3. ~(2 * k + 1 < l)
      BY <1>9, <1>10 DEF LeftChild, CBTNODE_DNE
    <3>. QED BY <1>9, <3>1, <3>2, <3>3
  <2>4. HeapOrdered(t, s)
    BY <1>6, <1>8, <2>3 DEF SinkingAt, InOrder, HeapOrdered
  <2>. QED BY <1>6, <1>8, <2>1, <2>2, <2>4
<1>11. CASE LeftChild(t, k) # CBTNODE_DNE
  <2>1. PICK c : c = HigherChild(t, s, k)
    OBVIOUS
  <2>2. c \in 1 .. Len(t) - 1 /\ ParentOf(c) = k
    <3>1. k \in 0 .. Len(t) - 1
      BY <1>9
    <3>. QED BY <1>11, <2>1, <3>1, HigherChildIsHigher
  <2>3. c \in 0 .. Len(t) - 1 /\ c \in Nat \ {0} /\ k < c /\ c < l /\ k \in 0 .. Len(t) - 1
    <3>1. c \in Nat \ {0} /\ c < l
      <4>. HIDE DEF Fails
      <4>1. c \in 1 .. l - 1
        BY <1>9, <2>2
      <4>. QED BY <1>9, <4>1
    <3>2. k < c
      BY <2>2, <3>1, ParentIsLess
    <3>. QED BY <1>9, <3>1, <3>2
  <2>4. PICK g : g = CheckNeedHeapify(f, s, c, k)
    OBVIOUS
  <2>5. g \in HeapOf(Doc, Doc) /\ Exchanges(t, g.tree, s, c, k)
    BY <1>7, <1>8, <2>3, <2>4, CheckExchanges DEF HeapOf
  <2>6. PICK u \in Seq(Doc) : u = g.tree
    BY <2>5 DEF HeapOf
  <2>7. SinkingAt(u, s, c)
    BY <1>6, <1>8, <1>11, <2>1, <2>3, <2>5, <2>6, SinkKeepsOrder
  <2>8. DownFrom(t, s, k) = <<c>> \o DownFrom(t, s, c)
    <3>1. Len(t) \in Nat /\ k \in 0 .. Len(t)
      BY <1>9
    <3>. QED BY <1>11, <2>1, <3>1, DownFromFirst
  <2>9. DownFrom(t, s, c) \in Seq(Nat \ {0})
    <3>1. Len(t) \in Nat /\ c \in 0 .. Len(t)
      BY <1>9, <2>3
    <3>. QED BY <3>1, DownFromType
  <2>10. SwapsAlong(f, s, <<c>> \o DownFrom(t, s, c)) = SwapsAlong(g, s, DownFrom(t, s, c))
    <3>1. g = Check(f, s, c)
      BY <2>2, <2>4 DEF Check
    <3>2. PICK N : N = Nat \ {0}
      OBVIOUS
    <3>3. PICK q \in Seq(N) : q = DownFrom(t, s, c)
      BY <2>9, <3>2
    <3>5. c \in N
      BY <2>3, <3>2
    <3>. HIDE DEF Fails
    <3>4. SwapsAlong(f, s, <<c>> \o q) = SwapsAlong(Check(f, s, c), s, q)
      BY <3>5, q \in Seq(N), SwapsAlongFirst
    <3>. QED BY <3>1, <3>3, <3>4
  <2>11. Len(u) = l /\ \A m \in c + 1 .. l - 1 : Element(u, m) = Element(t, m)
    <3>. HIDE DEF Fails
    <3>1. ASSUME NEW m \in c + 1 .. l - 1 PROVE m \in 0 .. l - 1 /\ m # c /\ m # k
      <4>1. c \in Nat /\ k \in Nat /\ k < c
        BY <1>9, <2>3
      <4>. QED BY <1>9, <4>1
    <3>. QED BY <1>9, <2>5, <2>6, <3>1 DEF Exchanges
  <2>12. DownFrom(u, s, c) = DownFrom(t, s, c)
    <3>1. Len(t) \in Nat /\ Len(u) = Len(t) /\ c \in 0 .. Len(t)
      BY <1>9, <2>3, <2>11
    <3>2. \A m \in c + 1 .. Len(t) - 1 : Element(u, m) = Element(t, m)
      BY <1>9, <2>11
    <3>. QED BY <3>1, <3>2, DownFromBelow
  <2>13. ~HeapOrdered(SwapsAlong(g, s, DownFrom(g.tree, s, c)).tree, s)
    BY <1>6, <1>8, <2>6, <2>8, <2>10, <2>12
  <2>14. l - c \in Nat /\ l - c < j /\ c \in 0 .. Len(g.tree) - 1 /\ l - c = Len(g.tree) - c
    <3>1. Len(g.tree) = l
      BY <2>6, <2>11
    <3>2. c \in Nat /\ k \in Nat /\ k < c /\ c < l
      BY <1>9, <2>3
    <3>. HIDE DEF Fails
    <3>3. l - c \in Nat /\ l - c < l - k /\ c \in 0 .. l - 1
      BY <3>2
    <3>. QED BY <1>9, <3>1, <3>3
  <2>15. Fails(l - c)
    BY <2>5, <2>6, <2>7, <2>13, <2>14
  <2>16. l - c \in S
    BY <2>14, <2>15 DEF S
  <2>17. j <= l - c
    BY <1>3, <2>16
  <2>. QED BY <1>4, <2>14, <2>17
<1>. QED BY <1>10, <1>11

LEMMA InsertedOrders ==
  ASSUME NEW s \in [Doc -> Nat], NEW h \in HeapOf(Doc, Doc), HeapOrdered(h.tree, s), NEW d \in Doc
  PROVE  HeapOrdered(Inserted(h, s, d).tree, s)
<1>1. PICK t \in Seq(Doc) : t = h.tree
  BY DEF HeapOf
<1>2. PICK l \in Nat : l = Len(t)
  OBVIOUS
<1>3. PICK u \in Seq(Doc) : u = Append(t, d) /\ Len(u) = l + 1 /\ \A k \in 1 .. l : u[k] = t[k]
  <2>1. PICK u : u = Append(t, d)
    OBVIOUS
  <2>2. u \in Seq(Doc) /\ Len(u) = l + 1 /\ \A k \in 1 .. l : u[k] = t[k]
    BY <1>2, <2>1
  <2>. QED BY <2>1, <2>2
<1>4. PICK g : g = [tree |-> u, third |-> [h.third EXCEPT ![d] = l]]
  OBVIOUS
<1>5. g \in HeapOf(Doc, Doc) /\ g.tree = u
  BY <1>1, <1>2, <1>4 DEF HeapOf
<1>6. ASSUME NEW k \in 1 .. l - 1 PROVE InOrder(u, s, k)
  <2>1. k \in Nat \ {0} /\ k + 1 \in 1 .. l
    BY <1>2
  <2>2. ParentOf(k) \in Nat /\ ParentOf(k) < k
    BY <2>1, ParentIsLess
  <2>3. ParentOf(k) + 1 \in 1 .. l
    BY <1>2, <2>1, <2>2
  <2>4. ~Above(s, Element(t, k), Element(t, ParentOf(k)))
    BY <1>1, <1>2 DEF HeapOrdered
  <2>. QED BY <1>3, <2>1, <2>3, <2>4 DEF InOrder, Element
<1>7. ASSUME NEW k \in 1 .. Len(u) - 1 PROVE ParentOf(k) # l
  <2>1. k \in Nat \ {0} /\ k <= l
    BY <1>2, <1>3
  <2>2. ParentOf(k) \in Nat /\ ParentOf(k) < k
    BY <2>1, ParentIsLess
  <2>. QED BY <1>2, <2>1, <2>2
<1>8. RisingAt(u, s, l)
  <2>1. \A k \in 1 .. Len(u) - 1 : k # l => k \in 1 .. l - 1
    BY <1>2, <1>3
  <2>. QED BY <1>6, <1>7, <2>1 DEF RisingAt, SpansNode
<1>9. HeapOrdered(SiftUp(g, s, l).tree, s)
  <2>1. l < Len(g.tree) /\ RisingAt(g.tree, s, l)
    BY <1>2, <1>3, <1>5, <1>8
  <2>. QED BY <1>2, <1>5, <2>1, SiftUpOrders
<1>. QED BY <1>1, <1>2, <1>3, <1>4, <1>9 DEF Inserted

LEMMA PrintedOrders ==
  ASSUME NEW s \in [Doc -> Nat], NEW h \in HeapOf(Doc, Doc), HeapOrdered(h.tree, s), h.tree # <<>>
  PROVE  HeapOrdered(Printed(h, s).tree, s)
<1>1. PICK t \in Seq(Doc) : t = h.tree
  BY DEF HeapOf
<1>2. PICK l \in Nat : l = Len(t)
  OBVIOUS
<1>3. PICK g : g = RootTaken(h)
  OBVIOUS
<1>4. /\ g \in HeapOf(Doc, Doc) /\ Len(g.tree) = l - 1
      /\ \A k \in 0 .. l - 2 :
           Element(g.tree, k) = IF k = 0 THEN Element(t, l - 1) ELSE Element(t, k)
  BY <1>1, <1>2, <1>3, RootTakenKeeps DEF HeapOf
<1>5. PICK u \in Seq(Doc) : u = g.tree
  BY <1>4 DEF HeapOf
<1>6. Len(u) \in Nat /\ 0 \in 0 .. Len(u)
  OBVIOUS
<1>7. Printed(h, s) = SwapsAlong(g, s, DownFrom(u, s, 0))
  BY <1>3, <1>5, <1>6, NodesDownIsDownFrom DEF Printed, HeapifyDown
<1>8. ASSUME NEW k \in 1 .. l - 2, ParentOf(k) # 0 PROVE InOrder(u, s, k)
  <2>1. k \in Nat \ {0} /\ k \in 0 .. l - 2 /\ k \in 1 .. l - 1 /\ k # 0
    BY <1>2
  <2>2. ParentOf(k) \in Nat /\ ParentOf(k) < k
    BY <2>1, ParentIsLess
  <2>3. ParentOf(k) \in 0 .. l - 2
    BY <1>2, <2>1, <2>2
  <2>4. Element(u, k) = Element(t, k) /\ Element(u, ParentOf(k)) = Element(t, ParentOf(k))
    BY <1>4, <1>5, <1>8, <2>1, <2>3
  <2>5. ~Above(s, Element(t, k), Element(t, ParentOf(k)))
    BY <1>1, <1>2, <2>1 DEF HeapOrdered
  <2>. QED BY <2>4, <2>5 DEF InOrder
<1>9. SinkingAt(u, s, 0)
  <2>1. Len(u) - 1 = l - 2
    BY <1>2, <1>4, <1>5
  <2>. QED BY <1>8, <2>1 DEF SinkingAt, SpansNode
<1>10. CASE Len(u) = 0
  <2>1. LeftChild(u, 0) = CBTNODE_DNE
    BY <1>10 DEF LeftChild
  <2>2. DownFrom(u, s, 0) = <<>>
    BY <1>6, <2>1, DownFromFirst
  <2>3. Printed(h, s) = g
    BY <1>7, <2>2, SwapsAlongNothing
  <2>. QED BY <1>5, <1>10, <2>3 DEF HeapOrdered
<1>11. CASE Len(u) # 0
  <2>1. 0 \in 0 .. Len(g.tree) - 1 /\ SinkingAt(g.tree, s, 0)
    BY <1>5, <1>6, <1>9, <1>11
  <2>. QED BY <1>4, <1>5, <1>7, <2>1, SinksOrders
<1>. QED BY <1>10, <1>11
=============================================================================
