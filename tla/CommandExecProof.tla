-------------------------- MODULE CommandExecProof --------------------------
(* Theorems about CommandExec: the history stays inside of its vector,     *)
(* nobody waits for a file that is there, and every variable keeps to its  *)
(* range, whatever the user enters; and, for a user who reverts only what  *)
(* revert undoes right, each datapoint has one owner, and P3Search         *)
(* implements SearchQueue.                                                 *)
EXTENDS CommandExec, HeapifyProof

-----------------------------------------------------------------------------
(* The history *)

HistoryInv ==
  /\ numhistoricaldoc \in Nat /\ lastsaveat \in Nat /\ historicaldocsize \in Nat
  /\ HistoryFits

(* What each call makes of the three numbers.                              *)
Recorded == numhistoricaldoc' = numhistoricaldoc + 1 /\ lastsaveat' = lastsaveat /\ historicaldocsize' = Resized
Cleared == numhistoricaldoc' = 0 /\ lastsaveat' = lastsaveat /\ historicaldocsize' = historicaldocsize
Saved == numhistoricaldoc' = numhistoricaldoc /\ lastsaveat' = numhistoricaldoc /\ historicaldocsize' = historicaldocsize
Restored ==
  /\ numhistoricaldoc' = lastsaveat /\ lastsaveat' = lastsaveat
  /\ historicaldocsize' \in {historicaldocsize, Resized}
Untouched == UNCHANGED <<numhistoricaldoc, lastsaveat, historicaldocsize>>

LEMMA ResizedHasRoom ==
  ASSUME HistoryInv
  PROVE  Resized \in Nat /\ numhistoricaldoc + 1 < Resized /\ historicaldocsize <= Resized
BY DEF HistoryInv, HistoryFits, Resized

LEMMA HistoryKept ==
  ASSUME HistoryInv, Recorded \/ Cleared \/ Saved \/ Restored \/ Untouched
  PROVE  HistoryInv'
BY ResizedHasRoom DEF HistoryInv, HistoryFits, Recorded, Cleared, Saved, Restored, Untouched

LEMMA HistorySteps == [Next]_vars => Recorded \/ Cleared \/ Saved \/ Restored \/ Untouched
<1>. SUFFICES ASSUME [Next]_vars PROVE Recorded \/ Cleared \/ Saved \/ Restored \/ Untouched
  OBVIOUS
<1>u. UNCHANGED heapVars => Untouched
  BY DEF heapVars, Untouched
<1>t. TakeTop => Recorded
  BY DEF TakeTop, Record, Recorded
<1>v. Undefined => Untouched
  BY <1>u DEF Undefined
<1>c. Clear => Cleared
  BY DEF Clear, Cleared
<1>1. CASE UNCHANGED vars
  BY <1>1, <1>u DEF vars
<1>2. ASSUME NEW d \in Doc, NEW r \in Relevance, AddFile(d, r) PROVE Recorded
  BY <1>2 DEF AddFile, AddToHeap, Record, Recorded
<1>3. CASE FatalError \/ InvalidCommand \/ HistoryCommand
  BY <1>3, <1>u, <1>v DEF FatalError, InvalidCommand, HistoryCommand
<1>4. CASE PrintCommand \/ Drain
  BY <1>4, <1>t, <1>u DEF PrintCommand, Drain
<1>5. CASE ClearCommand \/ Quit
  BY <1>5, <1>c, <1>v DEF ClearCommand, Quit
<1>6. CASE SaveCommand
  BY <1>6 DEF SaveCommand, Save, Saved
<1>7. CASE RevertCommand
  <2>1. Revert => Restored
    BY DEF Revert, Restored
  <2>. QED BY <1>7, <1>v, <2>1 DEF RevertCommand
<1>. QED BY <1>1, <1>2, <1>3, <1>4, <1>5, <1>6, <1>7 DEF Next

(* However many files and prints there are, no entry of the history is     *)
(* written behind the end of the vector.                                   *)
THEOREM HistoryStaysInside == Spec => []HistoryFits
<1>1. Init => HistoryInv
  BY SizeAssumption DEF Init, HeapInit, HistoryInv, HistoryFits
<1>2. HistoryInv /\ [Next]_vars => HistoryInv'
  BY HistoryKept, HistorySteps
<1>3. HistoryInv => HistoryFits
  BY DEF HistoryInv
<1>. QED BY <1>1, <1>2, <1>3, PTL DEF Spec

-----------------------------------------------------------------------------
(* Outstanding prints *)

OwedInv == outstandingprints \in Nat /\ OwedOnlyWhenEmpty

LEMMA DoneKeeps ==
  ASSUME outstandingprints' \in Nat, Done
  PROVE  OwedInv'
BY DEF Done, OwedInv, OwedOnlyWhenEmpty

LEMMA OwedInit == Init => OwedInv
BY DEF Init, OwedInv, OwedOnlyWhenEmpty

LEMMA OwedSteps == OwedInv /\ [Next]_vars => OwedInv'
<1>. SUFFICES ASSUME OwedInv, [Next]_vars PROVE OwedInv'
  OBVIOUS
<1>n. outstandingprints \in Nat
  BY DEF OwedInv
<1>u. UNCHANGED <<heapVars, outstandingprints, pc>> => OwedInv'
  BY DEF heapVars, OwedInv, OwedOnlyWhenEmpty
<1>v. Undefined => OwedInv'
  BY <1>u DEF Undefined
<1>d. Done /\ outstandingprints' = outstandingprints => OwedInv'
  BY <1>n, DoneKeeps
<1>1. CASE UNCHANGED vars
  BY <1>1, <1>u DEF vars
<1>2. ASSUME NEW d \in Doc, NEW r \in Relevance, AddFile(d, r) PROVE OwedInv'
  BY <1>2, <1>d DEF AddFile
<1>3. CASE FatalError
  BY <1>3, <1>u DEF FatalError
<1>4. CASE PrintCommand
  <2>1. outstandingprints' \in Nat /\ Done
    BY <1>4, <1>n DEF PrintCommand
  <2>. QED BY <2>1, DoneKeeps
<1>5. CASE ClearCommand
  <2>1. CASE Undefined
    BY <1>v, <2>1
  <2>2. CASE outstandingprints' = 0 /\ Done
    BY <2>2, DoneKeeps
  <2>. QED BY <1>5, <2>1, <2>2 DEF ClearCommand
<1>6. CASE Quit
  <2>1. CASE Undefined
    BY <1>v, <2>1
  <2>2. CASE outstandingprints' = 0
    BY <2>2 DEF OwedInv, OwedOnlyWhenEmpty
  <2>. QED BY <1>6, <2>1, <2>2 DEF Quit
<1>7. CASE SaveCommand \/ InvalidCommand
  BY <1>7, <1>d DEF SaveCommand, InvalidCommand
<1>8. CASE RevertCommand \/ HistoryCommand
  BY <1>8, <1>d, <1>v DEF RevertCommand, HistoryCommand
<1>9. CASE Drain
  <2>1. CASE heap.tree = <<>> /\ UNCHANGED <<heapVars, outstandingprints>>
    BY <1>n, <2>1 DEF heapVars, OwedInv, OwedOnlyWhenEmpty
  <2>2. CASE outstandingprints > 0 /\ outstandingprints' = outstandingprints - 1 /\ UNCHANGED pc /\ pc = "drain"
    BY <1>n, <2>2 DEF OwedInv, OwedOnlyWhenEmpty
  <2>3. CASE ~(outstandingprints > 0) /\ UNCHANGED outstandingprints
    BY <1>n, <2>3 DEF OwedInv, OwedOnlyWhenEmpty
  <2>. QED BY <1>9, <2>1, <2>2, <2>3 DEF Drain
<1>. QED BY <1>1, <1>2, <1>3, <1>4, <1>5, <1>6, <1>7, <1>8, <1>9 DEF Next

(* A print that is outstanding when a line is read found the heap empty,   *)
(* and it is empty still.                                                  *)
THEOREM OwedPrintsWaitForFiles == Spec => []OwedOnlyWhenEmpty
<1>1. OwedInv => OwedOnlyWhenEmpty
  BY DEF OwedInv
<1>. QED BY <1>1, OwedInit, OwedSteps, PTL DEF Spec

-----------------------------------------------------------------------------
(* The loop of revert is a fold, which goes through the entries one after  *)
(* the other.  That there is such a fold is shown as in HeapifyProof.      *)

UndoIterates(it, x, docs, m) ==
  it = [S \in SUBSET (1 .. m) |->
         IF S = {} THEN x ELSE Undo(it[S \ {Max(S)}], docs[Max(S)])]

LEMMA UndoIterateExists ==
  ASSUME NEW x, NEW docs
  PROVE  \A m \in Nat : \E it : UndoIterates(it, x, docs, m)
<1>. DEFINE P == {m \in Nat : \E it : UndoIterates(it, x, docs, m)}
<1>1. 0 \in P
  <2>. DEFINE it == [S \in SUBSET (1 .. 0) |-> x]
  <2>1. \A S \in SUBSET (1 .. 0) : S = {}
    OBVIOUS
  <2>2. UndoIterates(it, x, docs, 0)
    BY <2>1 DEF UndoIterates
  <2>. HIDE DEF it
  <2>. QED BY <2>2
<1>2. ASSUME NEW m \in P PROVE m + 1 \in P
  <2>1. PICK g : UndoIterates(g, x, docs, m)
    BY <1>2
  <2>2. m \in Nat /\ m + 1 \in Nat
    BY <1>2
  <2>. DEFINE it == [S \in SUBSET (1 .. m + 1) |->
                       IF m + 1 \in S THEN Undo(g[S \ {m + 1}], docs[m + 1]) ELSE g[S]]
  <2>3. ASSUME NEW S \in SUBSET (1 .. m + 1)
        PROVE  it[S] = IF S = {} THEN x ELSE Undo(it[S \ {Max(S)}], docs[Max(S)])
    <3>1. CASE m + 1 \in S
      <4>1. Max(S) = m + 1
        <5>1. S \subseteq 1 .. m + 1 /\ S # {}
          BY <3>1
        <5>2. Max(S) \in S /\ \A y \in S : y <= Max(S)
          BY <2>2, <5>1, MaxIsGreatest
        <5>3. Max(S) \in 1 .. m + 1 /\ m + 1 <= Max(S)
          BY <3>1, <5>1, <5>2
        <5>. QED BY <2>2, <5>3
      <4>2. S \ {m + 1} \in SUBSET (1 .. m + 1) /\ m + 1 \notin S \ {m + 1}
        OBVIOUS
      <4>3. it[S \ {m + 1}] = g[S \ {m + 1}]
        BY <4>2
      <4>. QED BY <3>1, <4>1, <4>3
    <3>2. CASE m + 1 \notin S
      <4>1. S \in SUBSET (1 .. m)
        BY <2>2, <3>2
      <4>2. g[S] = IF S = {} THEN x ELSE Undo(g[S \ {Max(S)}], docs[Max(S)])
        BY <2>1, <4>1 DEF UndoIterates
      <4>3. it[S] = g[S] /\ it[S \ {Max(S)}] = g[S \ {Max(S)}]
        BY <3>2
      <4>. QED BY <4>2, <4>3
    <3>. QED BY <3>1, <3>2
  <2>4. it = [S \in SUBSET (1 .. m + 1) |-> it[S]]
    OBVIOUS
  <2>. HIDE DEF it
  <2>5. UndoIterates(it, x, docs, m + 1)
    BY <2>3, <2>4 DEF UndoIterates
  <2>. QED BY <2>2, <2>5
<1>3. \A m \in Nat : m \in P
  <2>1. P \subseteq Nat
    OBVIOUS
  <2>. HIDE DEF P
  <2>. QED BY <1>1, <1>2, <2>1, SetInduction
<1>. QED BY <1>3

(* What revert has made of the heap and the dumpster after each entry.     *)
UndoWay(r, x, docs) ==
  r[0] = x /\ \A k \in 1 .. Len(docs) : r[k] = Undo(r[k - 1], docs[k])

LEMMA UndoIsAWay ==
  ASSUME NEW x, NEW N, NEW docs \in Seq(N)
  PROVE  \E r : UndoWay(r, x, docs) /\ FoldLeft(Undo, x, docs) = r[Len(docs)]
<1>1. PICK n \in Nat : n = Len(docs) /\ DOMAIN docs = 1 .. n
  OBVIOUS
<1>2. FoldLeft(Undo, x, docs) = (CHOOSE it : UndoIterates(it, x, docs, n))[1 .. n]
  BY <1>1, Zenon DEF FoldLeft, MapThenFoldSet, UndoIterates
<1>3. PICK it : UndoIterates(it, x, docs, n) /\ FoldLeft(Undo, x, docs) = it[1 .. n]
  BY <1>1, <1>2, UndoIterateExists
<1>. DEFINE r == [k \in 0 .. n |-> it[1 .. k]]
<1>4. r[0] = x /\ r[n] = it[1 .. n]
  <2>1. 1 .. 0 = {} /\ {} \in SUBSET (1 .. n)
    OBVIOUS
  <2>2. it[{}] = x
    BY <1>3, <2>1 DEF UndoIterates
  <2>3. 0 \in 0 .. n /\ n \in 0 .. n
    BY <1>1
  <2>. QED BY <2>1, <2>2, <2>3
<1>5. ASSUME NEW k \in 1 .. n PROVE r[k] = Undo(r[k - 1], docs[k])
  <2>1. 1 .. k \in SUBSET (1 .. n) /\ k \in 1 .. k /\ k - 1 \in 0 .. n /\ (1 .. k) \ {k} = 1 .. k - 1
    BY <1>1
  <2>2. Max(1 .. k) = k
    <3>1. Max(1 .. k) \in 1 .. k /\ \A y \in 1 .. k : y <= Max(1 .. k)
      BY <2>1, MaxIsGreatest
    <3>. QED BY <2>1, <3>1
  <2>3. it[1 .. k] = Undo(it[1 .. k - 1], docs[k])
    BY <1>3, <2>1, <2>2 DEF UndoIterates
  <2>. QED BY <2>1, <2>3
<1>. HIDE DEF r
<1>. QED BY <1>1, <1>3, <1>4, <1>5 DEF UndoWay

-----------------------------------------------------------------------------
(* Types *)

(* What revert works on, with the datapoints of M.                         *)
Undoing(x, M) ==
  /\ x \in [heap : HeapOf(M, Doc), dumpster : Seq(M), maxElts : Nat \ {0},
            printint : [Doc -> 0 .. 2], undefined : BOOLEAN]
  /\ Len(x.heap.tree) <= x.maxElts

LEMMA GrownHasRoom ==
  ASSUME NEW n \in Nat \ {0}, NEW t, Len(t) \in Nat, Len(t) <= n
  PROVE  GrownFor(n, t) \in Nat \ {0} /\ Len(t) + 1 <= GrownFor(n, t)
BY DEF GrownFor

LEMMA TakeBackType ==
  ASSUME NEW M, M \subseteq Doc, NEW x, Undoing(x, M), NEW d \in M
  PROVE  Undoing(TakeBack(x, d), M)
<1>1. /\ x.heap \in HeapOf(M, Doc) /\ x.heap.tree \in Seq(M) /\ x.heap.third \in [Doc -> Int]
      /\ x.dumpster \in Seq(M) /\ Len(x.heap.tree) \in Nat /\ x.maxElts \in Nat
  BY DEF Undoing, HeapOf
<1>2. x.heap.third[d] \in Int /\ LastLeaf(x.heap.tree) \in Int
  BY <1>1 DEF LastLeaf
<1>3. PICK t : t = Swap(x.heap.tree, x.heap.third[d], LastLeaf(x.heap.tree))
  OBVIOUS
<1>4. t \in Seq(M) /\ Len(t) = Len(x.heap.tree)
  BY <1>1, <1>2, <1>3, SwapKeeps DEF SameElements
<1>5. PICK u : u = IF t = <<>> THEN t ELSE RemoveLast(t)
  OBVIOUS
<1>6. u \in Seq(M) /\ Len(u) <= Len(x.heap.tree)
  <2>1. CASE t = <<>>
    BY <1>1, <1>4, <1>5, <2>1
  <2>2. CASE t # <<>>
    <3>1. t \in Seq(M) /\ Len(t) # 0 /\ Len(t) \in Nat
      BY <1>4, <2>2
    <3>2. PICK n \in Nat : Len(t) = n + 1
      BY <3>1
    <3>3. SubSeq(t, 1, n) \in Seq(M) /\ Len(SubSeq(t, 1, n)) = n
      BY <3>1, <3>2
    <3>4. u = SubSeq(t, 1, n)
      BY <1>5, <2>2, <3>2 DEF RemoveLast
    <3>. QED BY <1>1, <1>4, <3>2, <3>3, <3>4
  <2>. QED BY <2>1, <2>2
<1>7. TakeBack(x, d) = [x EXCEPT !.dumpster = Append(x.dumpster, d), !.heap.tree = u]
  BY <1>3, <1>5 DEF TakeBack
<1>8. [x.heap EXCEPT !.tree = u] \in HeapOf(M, Doc) /\ Append(x.dumpster, d) \in Seq(M)
  BY <1>1, <1>6 DEF HeapOf
<1>9. TakeBack(x, d) = [[x EXCEPT !.dumpster = Append(x.dumpster, d)] EXCEPT !.heap = [x.heap EXCEPT !.tree = u]]
  BY <1>7 DEF Undoing
<1>10. TakeBack(x, d).heap.tree = u /\ TakeBack(x, d).maxElts = x.maxElts
  BY <1>1, <1>9 DEF Undoing, HeapOf
<1>11. Len(u) \in Nat
  BY <1>6
<1>12. Len(u) <= x.maxElts
  BY <1>1, <1>6, <1>11 DEF Undoing
<1>. QED BY <1>8, <1>9, <1>10, <1>12 DEF Undoing

LEMMA PutBackType ==
  ASSUME NEW M, M \subseteq Doc, NEW x, Undoing(x, M), NEW d \in M
  PROVE  Undoing(PutBack(x, d), M)
<1>1. /\ x.heap \in HeapOf(M, Doc) /\ x.heap.tree \in Seq(M) /\ Len(x.heap.tree) \in Nat
      /\ x.dumpster \in Seq(M) /\ x.maxElts \in Nat \ {0} /\ Len(x.heap.tree) <= x.maxElts
      /\ x.printint \in [Doc -> 0 .. 2] /\ x.undefined \in BOOLEAN
  BY DEF Undoing, HeapOf
<1>2. PICK g : g = Inserted(x.heap, second, d)
  OBVIOUS
<1>3. g \in HeapOf(M, Doc) /\ Len(g.tree) = Len(x.heap.tree) + 1
  <2>1. g \in HeapOf(M, Doc) /\ SameElements(Append(x.heap.tree, d), g.tree)
    BY <1>1, <1>2, InsertedKeeps
  <2>. QED BY <1>1, <2>1 DEF SameElements
<1>4. PICK q : q = IF x.dumpster = <<>> THEN x.dumpster ELSE Front(x.dumpster)
  OBVIOUS
<1>5. q \in Seq(M)
  BY <1>1, <1>4 DEF Front
<1>6. PICK n : n = GrownFor(x.maxElts, x.heap.tree)
  OBVIOUS
<1>7. n \in Nat \ {0} /\ Len(g.tree) <= n
  BY <1>1, <1>3, <1>6, GrownHasRoom
<1>8. [x.printint EXCEPT ![d] = 2] \in [Doc -> 0 .. 2]
  BY <1>1
<1>9. PICK z \in BOOLEAN : z = (x.undefined \/ x.dumpster = <<>>)
  OBVIOUS
<1>10. PutBack(x, d) = [x EXCEPT !.undefined = z, !.dumpster = q, !.maxElts = n, !.heap = g,
                                 !.printint[d] = 2]
  BY <1>2, <1>4, <1>6, <1>9, Zenon DEF PutBack
<1>11. PutBack(x, d) = [heap |-> g, dumpster |-> q, maxElts |-> n,
                        printint |-> [x.printint EXCEPT ![d] = 2], undefined |-> z]
  BY <1>10 DEF Undoing
<1>. QED BY <1>3, <1>5, <1>7, <1>8, <1>11 DEF Undoing

LEMMA UndoType ==
  ASSUME NEW M, M \subseteq Doc, NEW x, Undoing(x, M), NEW d \in M
  PROVE  Undoing(Undo(x, d), M)
BY TakeBackType, PutBackType DEF Undo

LEMMA UndoneType ==
  ASSUME NEW M, M \subseteq Doc, NEW x, Undoing(x, M), NEW docs \in Seq(M)
  PROVE  Undoing(FoldLeft(Undo, x, docs), M)
<1>1. PICK n \in Nat : n = Len(docs) /\ \A k \in 1 .. n : docs[k] \in M
  OBVIOUS
<1>2. PICK r : UndoWay(r, x, docs) /\ FoldLeft(Undo, x, docs) = r[n]
  BY <1>1, UndoIsAWay
<1>. DEFINE P == {m \in Nat : m <= n => Undoing(r[m], M)}
<1>3. 0 \in P
  BY <1>2 DEF UndoWay
<1>4. ASSUME NEW m \in P PROVE m + 1 \in P
  <2>1. m \in Nat /\ (m <= n => Undoing(r[m], M))
    BY <1>4
  <2>2. SUFFICES ASSUME m + 1 <= n PROVE Undoing(r[m + 1], M)
    BY <2>1
  <2>3. m + 1 \in 1 .. n /\ m + 1 - 1 = m /\ m <= n
    BY <1>1, <2>1, <2>2
  <2>4. r[m + 1] = Undo(r[m], docs[m + 1]) /\ docs[m + 1] \in M
    <3>1. r[m + 1] = Undo(r[m + 1 - 1], docs[m + 1])
      BY <1>1, <1>2, <2>3 DEF UndoWay
    <3>. QED BY <1>1, <2>3, <3>1
  <2>. QED BY <2>1, <2>3, <2>4, UndoType
<1>5. n \in P
  <2>1. P \subseteq Nat
    OBVIOUS
  <2>. HIDE DEF P
  <2>. QED BY <1>1, <1>3, <1>4, <2>1, SetInduction
<1>. QED BY <1>1, <1>2, <1>5

(* The inductive invariant: what is in the tree, in the dumpster and in    *)
(* the history is in map, and the history has an entry for every number    *)
(* below numhistoricaldoc, and below a save point that clear left behind.  *)
HeapTypes ==
  /\ heap \in HeapOf(map, Doc) /\ dumpster \in Seq(map)
  /\ maxElts \in Nat \ {0} /\ Len(heap.tree) <= maxElts

HistoryTypes ==
  /\ historicaldoc \in Seq(map)
  /\ numhistoricaldoc \in Nat /\ lastsaveat \in Nat /\ historicaldocsize \in Nat
  /\ Len(historicaldoc) = IF lastsaveat < numhistoricaldoc THEN numhistoricaldoc ELSE lastsaveat

OtherTypes ==
  /\ second \in [Doc -> Relevance \cup {0}] /\ added \in [Doc -> 0 .. 2]
  /\ freed \subseteq map /\ map \subseteq Doc
  /\ outstandingprints \in 0 .. MaxOwed
  /\ pc \in {"read", "drain"} /\ process \in {"running", "exited", "undefined"}

TypeInv == HeapTypes /\ HistoryTypes /\ OtherTypes

LEMMA RecordTypes ==
  ASSUME HistoryTypes, NEW d \in map', Record(d), map \subseteq map', lastsaveat' = lastsaveat
  PROVE  HistoryTypes'
<1>1. /\ historicaldoc \in Seq(map) /\ Len(historicaldoc) \in Nat
      /\ numhistoricaldoc \in Nat /\ lastsaveat \in Nat /\ historicaldocsize \in Nat
      /\ Len(historicaldoc) = IF lastsaveat < numhistoricaldoc THEN numhistoricaldoc ELSE lastsaveat
  BY DEF HistoryTypes
<1>2. historicaldoc \in Seq(map')
  BY <1>1
<1>3. /\ historicaldocsize' = Resized /\ numhistoricaldoc' = numhistoricaldoc + 1
      /\ historicaldoc' = IF numhistoricaldoc < Len(historicaldoc)
                          THEN [historicaldoc EXCEPT ![numhistoricaldoc + 1] = d]
                          ELSE Append(historicaldoc, d)
  BY DEF Record
<1>4. historicaldocsize' \in Nat
  BY <1>1, <1>3 DEF Resized
<1>5. CASE numhistoricaldoc < Len(historicaldoc)
  <2>1. historicaldoc' \in Seq(map') /\ Len(historicaldoc') = Len(historicaldoc)
    <3>1. PICK q \in Seq(map') : q = historicaldoc
      BY <1>2
    <3>2. numhistoricaldoc + 1 \in 1 .. Len(q)
      BY <1>1, <1>5, <3>1
    <3>3. [q EXCEPT ![numhistoricaldoc + 1] = d] \in Seq(map')
          /\ Len([q EXCEPT ![numhistoricaldoc + 1] = d]) = Len(q)
      BY <3>2
    <3>. QED BY <1>3, <1>5, <3>1, <3>3
  <2>2. Len(historicaldoc) = lastsaveat /\ ~(lastsaveat < numhistoricaldoc + 1)
    BY <1>1, <1>5
  <2>. QED BY <1>1, <1>3, <1>4, <2>1, <2>2 DEF HistoryTypes
<1>6. CASE ~(numhistoricaldoc < Len(historicaldoc))
  <2>1. historicaldoc' \in Seq(map') /\ Len(historicaldoc') = Len(historicaldoc) + 1
    BY <1>2, <1>3, <1>6
  <2>2. Len(historicaldoc) = numhistoricaldoc /\ lastsaveat < numhistoricaldoc + 1
    BY <1>1, <1>6
  <2>. QED BY <1>1, <1>3, <1>4, <2>1, <2>2 DEF HistoryTypes
<1>. QED BY <1>5, <1>6

LEMMA ForgetTypes ==
  ASSUME HistoryTypes, NEW n \in {lastsaveat, numhistoricaldoc}, Forget(n), map' = map
  PROVE  n \in Nat /\ historicaldoc' \in Seq(map') /\ Len(historicaldoc') = n
<1>1. /\ historicaldoc \in Seq(map) /\ Len(historicaldoc) \in Nat /\ n \in Nat
      /\ n <= Len(historicaldoc)
  BY DEF HistoryTypes
<1>. QED BY <1>1 DEF Forget

LEMMA AddType ==
  ASSUME TypeInv, NEW d \in Doc, NEW r \in Relevance, AddFile(d, r)
  PROVE  TypeInv'
<1>1. map' = map \cup {d} /\ map \subseteq map' /\ d \in map' /\ map' \subseteq Doc
  BY DEF AddFile, TypeInv, OtherTypes
<1>2. AddToHeap(d, r) /\ Done /\ UNCHANGED outstandingprints
  BY DEF AddFile
<1>3. HistoryTypes'
  BY <1>1, <1>2, RecordTypes DEF AddToHeap, TypeInv
<1>4. HeapTypes'
  <2>1. heap \in HeapOf(map', Doc) /\ dumpster' \in Seq(map') /\ Len(heap.tree) \in Nat
    BY <1>1, <1>2 DEF TypeInv, HeapTypes, HeapOf, AddToHeap
  <2>2. heap' \in HeapOf(map', Doc) /\ SameElements(Append(heap.tree, d), heap'.tree)
    <3>1. heap' = Inserted(heap, second', d)
      BY <1>2 DEF AddToHeap
    <3>. QED BY <1>1, <2>1, <3>1, InsertedKeeps
  <2>3. Len(heap'.tree) = Len(heap.tree) + 1
    BY <2>1, <2>2 DEF SameElements, HeapOf
  <2>4. maxElts' \in Nat \ {0} /\ Len(heap.tree) + 1 <= maxElts'
    BY <1>2, <2>1, GrownHasRoom DEF TypeInv, HeapTypes, AddToHeap
  <2>. QED BY <2>1, <2>2, <2>3, <2>4 DEF HeapTypes
<1>5. OtherTypes'
  <2>1. second' \in [Doc -> Relevance \cup {0}] /\ added' \in [Doc -> 0 .. 2] /\ freed' = freed
    BY <1>2 DEF AddToHeap, TypeInv, OtherTypes
  <2>. QED BY <1>1, <1>2, <2>1 DEF Done, TypeInv, OtherTypes
<1>. QED BY <1>3, <1>4, <1>5 DEF TypeInv

LEMMA TakeTopType ==
  ASSUME TypeInv, TakeTop, heap.tree # <<>>, map' = map
  PROVE  /\ HeapTypes' /\ HistoryTypes'
         /\ second' = second /\ freed' = freed /\ added' \in [Doc -> 0 .. 2]
<1>1. /\ heap \in HeapOf(map, Doc) /\ heap.tree \in Seq(map) /\ map \subseteq Doc
      /\ Len(heap.tree) \in Nat /\ Len(heap.tree) <= maxElts
      /\ dumpster \in Seq(map) /\ added \in [Doc -> 0 .. 2] /\ maxElts \in Nat \ {0}
  BY DEF TypeInv, HeapTypes, HeapOf, OtherTypes
<1>2. PICK top \in map : top = Element(heap.tree, 0)
  BY <1>1 DEF Element
<1>3. /\ added' = [added EXCEPT ![top] = 1] /\ Record(top) /\ dumpster' = Append(dumpster, top)
      /\ heap' = Printed(heap, second)
      /\ UNCHANGED <<maxElts, second, lastsaveat, freed, stale>>
  BY <1>2 DEF TakeTop
<1>4. HistoryTypes'
  BY <1>2, <1>3, RecordTypes DEF TypeInv
<1>5. heap' \in HeapOf(map, Doc) /\ Len(heap'.tree) = Len(heap.tree) - 1
  BY <1>1, <1>3, PrintedKeeps
<1>6. HeapTypes'
  <2>1. Len(heap'.tree) <= maxElts'
    BY <1>1, <1>3, <1>5
  <2>2. dumpster' \in Seq(map')
    BY <1>1, <1>2, <1>3
  <2>. QED BY <1>1, <1>3, <1>5, <2>1, <2>2 DEF HeapTypes
<1>7. added' \in [Doc -> 0 .. 2]
  BY <1>1, <1>2, <1>3
<1>. QED BY <1>3, <1>4, <1>6, <1>7

LEMMA ClearType ==
  ASSUME TypeInv, Clear, map' = map
  PROVE  /\ HeapTypes' /\ HistoryTypes'
         /\ second' = second /\ added' = added /\ freed' \subseteq map
<1>1. /\ heap \in HeapOf(map, Doc) /\ heap.tree \in Seq(map) /\ dumpster \in Seq(map)
      /\ heap.third \in [Doc -> Int] /\ freed \subseteq map
  BY DEF TypeInv, HeapTypes, HeapOf, OtherTypes
<1>2. HistoryTypes'
  <2>1. lastsaveat \in Nat /\ historicaldoc' \in Seq(map') /\ Len(historicaldoc') = lastsaveat
    BY ForgetTypes DEF Clear, TypeInv
  <2>. QED BY <2>1 DEF Clear, TypeInv, HistoryTypes
<1>3. HeapTypes'
  <2>1. PICK q : q = <<>>
    OBVIOUS
  <2>2. q \in Seq(map) /\ Len(q) = 0
    BY <2>1
  <2>3. heap' = [heap EXCEPT !.tree = q] /\ dumpster' = q /\ maxElts' = maxElts
    BY <2>1 DEF Clear
  <2>4. heap' \in HeapOf(map, Doc) /\ heap'.tree = q
    BY <1>1, <2>2, <2>3 DEF HeapOf
  <2>. QED BY <2>2, <2>3, <2>4 DEF TypeInv, HeapTypes
<1>4. ToSet(Found) \subseteq map
  <2>1. heap.tree \o dumpster \in Seq(map)
    BY <1>1
  <2>. QED BY <2>1 DEF Found, ToSet
<1>. QED BY <1>1, <1>2, <1>3, <1>4 DEF Clear, Deleted

LEMMA RevertedType ==
  ASSUME TypeInv
  PROVE  Undoing(Reverted, map)
<1>1. /\ historicaldoc \in Seq(map) /\ numhistoricaldoc \in Nat /\ lastsaveat \in Nat
      /\ Len(historicaldoc) \in Nat /\ numhistoricaldoc <= Len(historicaldoc)
  BY DEF TypeInv, HistoryTypes
<1>2. Unsaved \in Seq(map)
  <2>1. \A i \in lastsaveat + 1 .. numhistoricaldoc : i \in 1 .. Len(historicaldoc)
    BY <1>1
  <2>. QED BY <1>1, <2>1 DEF Unsaved
<1>3. PICK docs \in Seq(map) : docs = Reverse(Unsaved)
  <2>1. PICK q \in Seq(map) : q = Unsaved
    BY <1>2
  <2>2. Reverse(q) \in Seq(map)
    BY DEF Reverse
  <2>. QED BY <2>1, <2>2
<1>4. PICK x : x = [heap |-> heap, dumpster |-> dumpster, maxElts |-> maxElts,
                    printint |-> added, undefined |-> FALSE]
  OBVIOUS
<1>5. Undoing(x, map)
  BY <1>4 DEF Undoing, TypeInv, HeapTypes, OtherTypes
<1>6. Undoing(FoldLeft(Undo, x, docs), map)
  BY <1>5, UndoneType DEF TypeInv, OtherTypes
<1>7. Reverted = FoldLeft(Undo, x, docs)
  BY <1>3, <1>4, Zenon DEF Reverted
<1>. QED BY <1>6, <1>7

LEMMA RevertType ==
  ASSUME TypeInv, Revert, map' = map
  PROVE  /\ HeapTypes' /\ HistoryTypes'
         /\ second' = second /\ added' = added /\ freed' = freed
<1>1. HeapTypes'
  <2>1. PICK x : x = Reverted
    OBVIOUS
  <2>2. heap' = x.heap /\ dumpster' = x.dumpster /\ maxElts' = x.maxElts
    BY <2>1 DEF Revert
  <2>3. Undoing(x, map)
    BY <2>1, RevertedType
  <2>. QED BY <2>2, <2>3 DEF Undoing, HeapTypes
<1>2. HistoryTypes'
  <2>1. lastsaveat \in Nat /\ historicaldoc' \in Seq(map') /\ Len(historicaldoc') = lastsaveat
    BY ForgetTypes DEF Revert, TypeInv
  <2>2. historicaldocsize' \in Nat
    BY DEF Revert, Resized, TypeInv, HistoryTypes
  <2>3. numhistoricaldoc' = lastsaveat /\ lastsaveat' = lastsaveat
    BY DEF Revert
  <2>. QED BY <2>1, <2>2, <2>3 DEF HistoryTypes
<1>. QED BY <1>1, <1>2 DEF Revert

LEMMA SaveType ==
  ASSUME TypeInv, Save, map' = map
  PROVE  HeapTypes' /\ HistoryTypes'
<1>1. numhistoricaldoc \in Nat /\ historicaldoc' \in Seq(map') /\ Len(historicaldoc') = numhistoricaldoc
  BY ForgetTypes DEF Save, TypeInv
<1>. QED BY <1>1 DEF Save, TypeInv, HeapTypes, HistoryTypes

LEMMA TypeStep == TypeInv /\ [Next]_vars => TypeInv'
<1>. SUFFICES ASSUME TypeInv, [Next]_vars PROVE TypeInv'
  OBVIOUS
<1>n. outstandingprints \in 0 .. MaxOwed /\ MaxOwed \in Nat
  BY CommandAssumption DEF TypeInv, OtherTypes
<1>o. ASSUME second' = second, added' \in [Doc -> 0 .. 2], freed' \subseteq map, map' = map,
             outstandingprints' \in 0 .. MaxOwed, pc' \in {"read", "drain"},
             process' \in {"running", "exited", "undefined"}
      PROVE  OtherTypes'
  BY <1>o DEF TypeInv, OtherTypes
<1>p. /\ freed \subseteq map /\ added \in [Doc -> 0 .. 2] /\ pc \in {"read", "drain"}
      /\ process \in {"running", "exited", "undefined"}
  BY DEF TypeInv, OtherTypes
<1>d. Done => pc' \in {"read", "drain"} /\ process' = process
  BY DEF Done
<1>u. ASSUME UNCHANGED <<heapVars, map>>, outstandingprints' \in 0 .. MaxOwed,
             pc' \in {"read", "drain"}, process' \in {"running", "exited", "undefined"}
      PROVE  TypeInv'
  BY <1>u DEF heapVars, TypeInv, HeapTypes, HistoryTypes, OtherTypes
<1>v. Undefined => TypeInv'
  BY <1>n, <1>p, <1>u DEF Undefined
<1>1. CASE UNCHANGED vars
  BY <1>1, <1>n, <1>p, <1>u DEF vars
<1>2. ASSUME NEW d \in Doc, NEW r \in Relevance, AddFile(d, r) PROVE TypeInv'
  BY <1>2, AddType
<1>3. CASE FatalError \/ InvalidCommand
  BY <1>3, <1>d, <1>n, <1>p, <1>u DEF FatalError, InvalidCommand
<1>4. CASE HistoryCommand
  BY <1>4, <1>d, <1>n, <1>p, <1>u, <1>v DEF HistoryCommand
<1>5. ASSUME heap.tree # <<>>, TakeTop, map' = map, process' = process,
             outstandingprints' \in 0 .. MaxOwed, pc' \in {"read", "drain"}
      PROVE  TypeInv'
  <2>1. /\ HeapTypes' /\ HistoryTypes'
        /\ second' = second /\ freed' = freed /\ added' \in [Doc -> 0 .. 2]
    BY <1>5, TakeTopType
  <2>. QED BY <1>5, <1>o, <1>p, <2>1 DEF TypeInv
<1>6. CASE PrintCommand
  <2>1. map' = map /\ Done
    BY <1>6 DEF PrintCommand
  <2>2. CASE heap.tree # <<>> /\ TakeTop /\ UNCHANGED outstandingprints
    BY <1>5, <1>d, <1>n, <2>1, <2>2
  <2>3. CASE /\ outstandingprints < MaxOwed /\ outstandingprints' = outstandingprints + 1
             /\ UNCHANGED heapVars
    <3>1. outstandingprints' \in 0 .. MaxOwed
      BY <1>n, <2>3
    <3>. QED BY <1>d, <1>p, <1>u, <2>1, <2>3, <3>1
  <2>. QED BY <1>6, <2>2, <2>3 DEF PrintCommand
<1>7. ASSUME Clear, map' = map, outstandingprints' = 0, pc' \in {"read", "drain"},
             process' \in {"running", "exited", "undefined"}
      PROVE  TypeInv'
  <2>1. /\ HeapTypes' /\ HistoryTypes'
        /\ second' = second /\ added' = added /\ freed' \subseteq map
    BY <1>7, ClearType
  <2>2. outstandingprints' \in 0 .. MaxOwed
    BY <1>7, <1>n
  <2>. QED BY <1>7, <1>o, <1>p, <2>1, <2>2 DEF TypeInv
<1>8. CASE ClearCommand
  BY <1>7, <1>8, <1>d, <1>p, <1>v DEF ClearCommand
<1>9. CASE Quit
  BY <1>7, <1>9, <1>p, <1>v DEF Quit
<1>10. CASE SaveCommand
  <2>1. Save /\ Done /\ map' = map /\ outstandingprints' = outstandingprints
    BY <1>10 DEF SaveCommand
  <2>2. HeapTypes' /\ HistoryTypes'
    BY <2>1, SaveType
  <2>. QED BY <1>d, <1>n, <1>o, <1>p, <2>1, <2>2 DEF Save, TypeInv
<1>11. CASE RevertCommand
  <2>1. CASE Undefined
    BY <1>v, <2>1
  <2>2. CASE Revert /\ Done /\ map' = map /\ outstandingprints' = outstandingprints
    <3>1. /\ HeapTypes' /\ HistoryTypes'
          /\ second' = second /\ added' = added /\ freed' = freed
      BY <2>2, RevertType
    <3>. QED BY <1>d, <1>n, <1>o, <1>p, <2>2, <3>1 DEF TypeInv
  <2>. QED BY <1>11, <2>1, <2>2 DEF RevertCommand
<1>12. CASE Drain
  <2>1. map' = map /\ process' = process
    BY <1>12 DEF Drain
  <2>2. CASE pc' = "read" /\ UNCHANGED <<heapVars, outstandingprints>>
    BY <1>n, <1>p, <1>u, <2>1, <2>2
  <2>3. CASE heap.tree # <<>> /\ TakeTop
    <3>1. outstandingprints' \in 0 .. MaxOwed /\ pc' \in {"read", "drain"}
      BY <1>12, <1>n, <1>p, <2>3 DEF Drain
    <3>. QED BY <1>5, <2>1, <2>3, <3>1
  <2>. QED BY <1>12, <2>2, <2>3 DEF Drain
<1>. QED BY <1>1, <1>2, <1>3, <1>4, <1>6, <1>8, <1>9, <1>10, <1>11, <1>12 DEF Next

LEMMA TypeInit == Init => TypeInv
<1>. SUFFICES ASSUME Init PROVE TypeInv
  OBVIOUS
<1>1. PICK q : q = <<>>
  OBVIOUS
<1>2. q \in Seq(map) /\ Len(q) = 0
  BY <1>1
<1>3. /\ heap = [tree |-> q, third |-> [d \in Doc |-> -1]] /\ dumpster = q
      /\ historicaldoc = q /\ maxElts = InitialSize
  BY <1>1 DEF Init, HeapInit
<1>4. HeapTypes
  BY <1>2, <1>3, SizeAssumption DEF HeapTypes, HeapOf
<1>5. HistoryTypes
  BY <1>2, <1>3, SizeAssumption DEF HistoryTypes, Init, HeapInit
<1>6. OtherTypes
  BY CommandAssumption DEF OtherTypes, Init, HeapInit
<1>. QED BY <1>4, <1>5, <1>6 DEF TypeInv

LEMMA TypeHolds == Spec => []TypeInv
BY TypeInit, TypeStep, PTL DEF Spec

(* No command, a revert that is not safe included, takes a variable out of *)
(* its range: the tree always fits into its array, and only files of the   *)
(* list are deleted.                                                       *)
THEOREM CommandTypes == Spec => []TypeOK
<1>1. TypeInv => TypeOK
  <2>. SUFFICES ASSUME TypeInv PROVE TypeOK
    OBVIOUS
  <2>1. map \subseteq Doc
    BY DEF TypeInv, OtherTypes
  <2>2. heap \in [tree : Seq(Doc), third : [Doc -> Int]] /\ dumpster \in Seq(Doc) /\ historicaldoc \in Seq(Doc)
    BY <2>1 DEF TypeInv, HeapTypes, HistoryTypes, HeapOf
  <2>. QED BY <2>2 DEF TypeInv, HeapTypes, HistoryTypes, OtherTypes, TypeOK
<1>. QED BY <1>1, TypeHolds, PTL

LEMMA RelevanceIsNat == Relevance \cup {0} \subseteq Nat
BY RelevanceAssumption

(* The types that the lemmas about the order of the heap need.             *)
LEMMA OrderTypes ==
  ASSUME TypeInv
  PROVE  /\ heap \in HeapOf(Doc, Doc) /\ heap.tree \in Seq(Doc) /\ Len(heap.tree) \in Nat
         /\ second \in [Doc -> Nat] /\ map \subseteq Doc
<1>1. map \subseteq Doc /\ second \in [Doc -> Relevance \cup {0}]
  BY DEF TypeInv, OtherTypes
<1>2. heap.tree \in Seq(map) /\ heap \in HeapOf(map, Doc)
  BY DEF TypeInv, HeapTypes, HeapOf
<1>3. heap.tree \in Seq(Doc)
  BY <1>1, <1>2
<1>4. second \in [Doc -> Nat]
  BY <1>1, RelevanceIsNat
<1>. QED BY <1>1, <1>2, <1>3, <1>4 DEF HeapOf

-----------------------------------------------------------------------------
(* Ownership: S are the datapoints of a tree t and a dumpster q, each one  *)
(* is in one place of one of the two.                                      *)

Owned(t, q, S) ==
  /\ ToSet(t) \cup ToSet(q) = S /\ ToSet(t) \cap ToSet(q) = {}
  /\ IsInjective(t) /\ IsInjective(q)

LEMMA OwnedShuffled ==
  ASSUME NEW t, NEW u, NEW q, NEW S, Owned(t, q, S), SameElements(t, u)
  PROVE  Owned(u, q, S)
BY DEF Owned, SameElements

LEMMA AppendedElements ==
  ASSUME NEW D, NEW t \in Seq(D), NEW d \in D
  PROVE  /\ ToSet(Append(t, d)) = ToSet(t) \cup {d}
         /\ IsInjective(t) /\ d \notin ToSet(t) => IsInjective(Append(t, d))
<1>1. PICK n \in Nat : n = Len(t) /\ DOMAIN t = 1 .. n
  OBVIOUS
<1>2. PICK u : u = Append(t, d)
  OBVIOUS
<1>3. u[n + 1] = d /\ (\A k \in 1 .. n : u[k] = t[k]) /\ DOMAIN u = 1 .. n + 1
  BY <1>1, <1>2
<1>4. 1 .. n + 1 = (1 .. n) \cup {n + 1}
  BY <1>1
<1>5. ToSet(u) = ToSet(t) \cup {d}
  BY <1>1, <1>3, <1>4 DEF ToSet
<1>6. ASSUME IsInjective(t), d \notin ToSet(t) PROVE IsInjective(u)
  <2>1. \A k \in 1 .. n : t[k] # d
    BY <1>1, <1>6 DEF ToSet
  <2>2. \A j, k \in 1 .. n : t[j] = t[k] => j = k
    BY <1>1, <1>6 DEF IsInjective
  <2>3. \A j, k \in 1 .. n + 1 : u[j] = u[k] => j = k
    BY <1>3, <1>4, <2>1, <2>2
  <2>. QED BY <1>3, <2>3 DEF IsInjective
<1>. QED BY <1>2, <1>5, <1>6

(* The sequence without its last element.                                  *)
LEMMA ShortenedElements ==
  ASSUME NEW D, NEW t \in Seq(D), NEW n \in Nat, Len(t) = n + 1
  PROVE  /\ ToSet(SubSeq(t, 1, n)) \cup {t[n + 1]} = ToSet(t)
         /\ IsInjective(t) => IsInjective(SubSeq(t, 1, n)) /\ t[n + 1] \notin ToSet(SubSeq(t, 1, n))
<1>1. PICK u : u = SubSeq(t, 1, n)
  OBVIOUS
<1>2. u \in Seq(D) /\ Len(u) = n /\ \A k \in 1 .. n : u[k] = t[k]
  BY <1>1
<1>3. DOMAIN t = 1 .. n + 1 /\ DOMAIN u = 1 .. n /\ 1 .. n + 1 = (1 .. n) \cup {n + 1} /\ n + 1 \notin 1 .. n
  BY <1>2
<1>4. ToSet(u) \cup {t[n + 1]} = ToSet(t)
  BY <1>2, <1>3 DEF ToSet
<1>5. ASSUME IsInjective(t) PROVE IsInjective(u) /\ t[n + 1] \notin ToSet(u)
  <2>1. \A j, k \in 1 .. n + 1 : t[j] = t[k] => j = k
    BY <1>3, <1>5 DEF IsInjective
  <2>. QED BY <1>2, <1>3, <2>1 DEF IsInjective, ToSet
<1>. QED BY <1>1, <1>4, <1>5

(* What revert does with an entry of a print: the last one of the dumpster *)
(* goes into the tree.                                                     *)
LEMMA OwnedPutBack ==
  ASSUME NEW D, NEW t \in Seq(D), NEW q \in Seq(D), NEW S, Owned(t, q, S),
         NEW n \in Nat, Len(q) = n + 1
  PROVE  Owned(Append(t, q[n + 1]), SubSeq(q, 1, n), S)
<1>1. q[n + 1] \in D
  OBVIOUS
<1>2. PICK p : p = SubSeq(q, 1, n)
  OBVIOUS
<1>3. /\ ToSet(p) \cup {q[n + 1]} = ToSet(q) /\ IsInjective(p) /\ q[n + 1] \notin ToSet(p)
  <2>1. IsInjective(q)
    BY DEF Owned
  <2>2. /\ ToSet(SubSeq(q, 1, n)) \cup {q[n + 1]} = ToSet(q)
        /\ IsInjective(q) => IsInjective(SubSeq(q, 1, n)) /\ q[n + 1] \notin ToSet(SubSeq(q, 1, n))
    BY ShortenedElements
  <2>. QED BY <1>2, <2>1, <2>2
<1>4. q[n + 1] \notin ToSet(t)
  BY <1>3 DEF Owned
<1>5. /\ ToSet(Append(t, q[n + 1])) = ToSet(t) \cup {q[n + 1]}
      /\ IsInjective(Append(t, q[n + 1]))
  BY <1>1, <1>4, AppendedElements DEF Owned
<1>. QED BY <1>2, <1>3, <1>4, <1>5 DEF Owned

(* An entry of an add: the last leaf goes into the dumpster.               *)
LEMMA OwnedTakenBack ==
  ASSUME NEW D, NEW t \in Seq(D), NEW q \in Seq(D), NEW S, Owned(t, q, S),
         NEW n \in Nat, Len(t) = n + 1
  PROVE  Owned(SubSeq(t, 1, n), Append(q, t[n + 1]), S)
<1>1. t[n + 1] \in D
  OBVIOUS
<1>2. PICK p : p = SubSeq(t, 1, n)
  OBVIOUS
<1>3. /\ ToSet(p) \cup {t[n + 1]} = ToSet(t) /\ IsInjective(p) /\ t[n + 1] \notin ToSet(p)
  <2>1. IsInjective(t)
    BY DEF Owned
  <2>2. /\ ToSet(SubSeq(t, 1, n)) \cup {t[n + 1]} = ToSet(t)
        /\ IsInjective(t) => IsInjective(SubSeq(t, 1, n)) /\ t[n + 1] \notin ToSet(SubSeq(t, 1, n))
    BY ShortenedElements
  <2>. QED BY <1>2, <2>1, <2>2
<1>4. t[n + 1] \notin ToSet(q)
  BY <1>3 DEF Owned
<1>5. /\ ToSet(Append(q, t[n + 1])) = ToSet(q) \cup {t[n + 1]}
      /\ IsInjective(Append(q, t[n + 1]))
  BY <1>1, <1>4, AppendedElements DEF Owned
<1>. QED BY <1>2, <1>3, <1>4, <1>5 DEF Owned

(* Together they are what clear finds.                                     *)
LEMMA OwnedIsFound ==
  ASSUME NEW D, NEW t \in Seq(D), NEW q \in Seq(D), NEW S
  PROVE  Owned(t, q, S) => ToSet(t \o q) = S /\ IsInjective(t \o q)
<1>. SUFFICES ASSUME Owned(t, q, S) PROVE ToSet(t \o q) = S /\ IsInjective(t \o q)
  OBVIOUS
<1>1. PICK m \in Nat : m = Len(t) /\ DOMAIN t = 1 .. m
  OBVIOUS
<1>2. PICK n \in Nat : n = Len(q) /\ DOMAIN q = 1 .. n
  OBVIOUS
<1>3. PICK w : w = t \o q
  OBVIOUS
<1>4. /\ DOMAIN w = 1 .. m + n /\ \A k \in 1 .. m : w[k] = t[k]
      /\ \A k \in 1 .. n : w[m + k] = q[k]
  BY <1>1, <1>2, <1>3
<1>5. ASSUME NEW k \in 1 .. m + n
      PROVE  \/ k \in 1 .. m /\ w[k] = t[k]
             \/ k - m \in 1 .. n /\ w[k] = q[k - m]
  <2>1. CASE k <= m
    BY <1>4, <2>1
  <2>2. CASE k > m
    <3>1. k - m \in 1 .. n /\ m + (k - m) = k
      BY <1>1, <1>2, <2>2
    <3>2. w[m + (k - m)] = q[k - m]
      BY <1>4, <3>1
    <3>. QED BY <3>1, <3>2
  <2>. QED BY <1>1, <2>1, <2>2
<1>6. ToSet(w) = S
  <2>1. ToSet(w) \subseteq ToSet(t) \cup ToSet(q)
    <3>. SUFFICES ASSUME NEW k \in 1 .. m + n PROVE w[k] \in ToSet(t) \cup ToSet(q)
      BY <1>4 DEF ToSet
    <3>. QED BY <1>1, <1>2, <1>5 DEF ToSet
  <2>2. ToSet(t) \subseteq ToSet(w)
    <3>. SUFFICES ASSUME NEW k \in 1 .. m PROVE t[k] \in ToSet(w)
      BY <1>1 DEF ToSet
    <3>1. k \in 1 .. m + n
      BY <1>1, <1>2
    <3>. QED BY <1>4, <3>1 DEF ToSet
  <2>3. ToSet(q) \subseteq ToSet(w)
    <3>. SUFFICES ASSUME NEW k \in 1 .. n PROVE q[k] \in ToSet(w)
      BY <1>2 DEF ToSet
    <3>1. m + k \in 1 .. m + n
      BY <1>1, <1>2
    <3>. QED BY <1>4, <3>1 DEF ToSet
  <2>. QED BY <2>1, <2>2, <2>3 DEF Owned
<1>7. ASSUME NEW j \in 1 .. m + n, NEW k \in 1 .. m + n, w[j] = w[k] PROVE j = k
  <2>1. \A a \in 1 .. m, b \in 1 .. n : t[a] # q[b]
    BY <1>1, <1>2 DEF Owned, ToSet
  <2>2. (\A a, b \in 1 .. m : t[a] = t[b] => a = b) /\ (\A a, b \in 1 .. n : q[a] = q[b] => a = b)
    BY <1>1, <1>2 DEF Owned, IsInjective
  <2>3. CASE j \in 1 .. m /\ w[j] = t[j]
    <3>1. k \in 1 .. m /\ w[k] = t[k]
      BY <1>5, <1>7, <2>1, <2>3
    <3>. QED BY <1>7, <2>2, <2>3, <3>1
  <2>4. CASE j - m \in 1 .. n /\ w[j] = q[j - m]
    <3>1. k - m \in 1 .. n /\ w[k] = q[k - m]
      BY <1>5, <1>7, <2>1, <2>4
    <3>2. j - m = k - m
      BY <1>7, <2>2, <2>4, <3>1
    <3>. QED BY <1>1, <1>2, <3>2
  <2>. QED BY <1>5, <2>3, <2>4
<1>. QED BY <1>3, <1>4, <1>6, <1>7 DEF IsInjective

-----------------------------------------------------------------------------
(* What revert does when it is safe                                        *)

EndsWith(s, u) == Len(u) <= Len(s) /\ \A k \in 1 .. Len(u) : s[Len(s) - Len(u) + k] = u[k]

LEMMA SuffixEnds ==
  ASSUME NEW D, NEW s \in Seq(D), NEW u \in Seq(D), IsSuffix(u, s)
  PROVE  EndsWith(s, u)
<1>1. PICK m \in Nat : m = Len(s)
  OBVIOUS
<1>2. PICK n \in Nat : n = Len(u)
  OBVIOUS
<1>3. PICK a \in Seq(D) : a = Reverse(s) /\ Len(a) = m /\ \A i \in 1 .. m : a[i] = s[(m - i) + 1]
  <2>1. \A i \in 1 .. m : (m - i) + 1 \in 1 .. m
    BY <1>1
  <2>2. PICK z : z = [i \in 1 .. m |-> s[(m - i) + 1]]
    OBVIOUS
  <2>3. z \in Seq(D) /\ Len(z) = m /\ \A i \in 1 .. m : z[i] = s[(m - i) + 1]
    BY <1>1, <2>1, <2>2
  <2>. QED BY <1>1, <2>2, <2>3 DEF Reverse
<1>4. PICK b \in Seq(D) : b = Reverse(u) /\ Len(b) = n /\ \A i \in 1 .. n : b[i] = u[(n - i) + 1]
  <2>1. \A i \in 1 .. n : (n - i) + 1 \in 1 .. n
    BY <1>2
  <2>2. PICK z : z = [i \in 1 .. n |-> u[(n - i) + 1]]
    OBVIOUS
  <2>3. z \in Seq(D) /\ Len(z) = n /\ \A i \in 1 .. n : z[i] = u[(n - i) + 1]
    BY <1>2, <2>1, <2>2
  <2>. QED BY <1>2, <2>2, <2>3 DEF Reverse
<1>5. n <= m /\ SubSeq(b, 1, n) = SubSeq(a, 1, n)
  BY <1>3, <1>4 DEF IsSuffix, IsPrefix
<1>6. \A i \in 1 .. n : b[i] = a[i]
  <2>. TAKE i \in 1 .. n
  <2>1. SubSeq(b, 1, n)[i] = b[i] /\ SubSeq(a, 1, n)[i] = a[i]
    BY <1>3, <1>4, <1>5
  <2>. QED BY <1>5, <2>1
<1>7. ASSUME NEW k \in 1 .. n PROVE s[m - n + k] = u[k]
  <2>1. PICK i \in 1 .. n : i = (n - k) + 1
    <3>1. (n - k) + 1 \in 1 .. n
      BY <1>2
    <3>. QED BY <3>1
  <2>2. (m - i) + 1 = m - n + k /\ (n - i) + 1 = k /\ i \in 1 .. m
    BY <1>1, <1>2, <1>5, <2>1
  <2>3. b[i] = u[k] /\ a[i] = s[m - n + k]
    BY <1>3, <1>4, <2>2
  <2>. QED BY <1>6, <2>3
<1>. QED BY <1>1, <1>2, <1>5, <1>7 DEF EndsWith

LEMMA UnsavedIs ==
  ASSUME TypeInv
  PROVE  /\ Unsaved \in Seq(map)
         /\ Len(Unsaved) = IF lastsaveat < numhistoricaldoc THEN numhistoricaldoc - lastsaveat ELSE 0
         /\ \A k \in 1 .. Len(Unsaved) : Unsaved[k] = historicaldoc[lastsaveat + k]
<1>1. /\ historicaldoc \in Seq(map) /\ numhistoricaldoc \in Nat /\ lastsaveat \in Nat
      /\ Len(historicaldoc) \in Nat /\ numhistoricaldoc <= Len(historicaldoc)
  BY DEF TypeInv, HistoryTypes
<1>2. PICK h \in Seq(map) : h = historicaldoc
  BY <1>1
<1>3. PICK a \in Nat, b \in Nat : a = lastsaveat /\ b = numhistoricaldoc
  BY <1>1
<1>4. b <= Len(h)
  BY <1>1, <1>2, <1>3
<1>5. PICK u : u = SubSeq(h, a + 1, b)
  OBVIOUS
<1>6. u \in Seq(map) /\ Len(u) = IF a < b THEN b - a ELSE 0
  BY <1>4, <1>5
<1>7. \A k \in 1 .. Len(u) : u[k] = h[a + k]
  BY <1>4, <1>5, <1>6
<1>. QED BY <1>2, <1>3, <1>5, <1>6, <1>7 DEF Unsaved

(* The entries that are not saved, from the last to the first.             *)
LEMMA RevertedIsAWay ==
  ASSUME TypeInv, NEW n \in Nat, n = Len(Unsaved)
  PROVE  \E r : /\ r[0] = [heap |-> heap, dumpster |-> dumpster, maxElts |-> maxElts,
                           printint |-> added, undefined |-> FALSE]
                /\ Reverted = r[n]
                /\ \A k \in 1 .. n : r[k] = Undo(r[k - 1], Unsaved[n - k + 1])
                /\ \A k \in 0 .. n : Undoing(r[k], map)
<1>1. PICK u \in Seq(map) : u = Unsaved
  BY UnsavedIs
<1>2. PICK docs : docs = Reverse(u)
  OBVIOUS
<1>3. docs \in Seq(map) /\ Len(docs) = n /\ \A k \in 1 .. n : docs[k] = u[(n - k) + 1]
  BY <1>1, <1>2 DEF Reverse
<1>4. PICK x : x = [heap |-> heap, dumpster |-> dumpster, maxElts |-> maxElts,
                    printint |-> added, undefined |-> FALSE]
  OBVIOUS
<1>5. Undoing(x, map) /\ map \subseteq Doc
  BY <1>4 DEF Undoing, TypeInv, HeapTypes, OtherTypes
<1>6. Reverted = FoldLeft(Undo, x, docs)
  BY <1>1, <1>2, <1>4, Zenon DEF Reverted
<1>7. PICK r : UndoWay(r, x, docs) /\ Reverted = r[n]
  BY <1>3, <1>6, UndoIsAWay
<1>8. \A k \in 1 .. n : r[k] = Undo(r[k - 1], u[(n - k) + 1])
  BY <1>3, <1>7 DEF UndoWay
<1>. DEFINE P == {m \in Nat : m <= n => Undoing(r[m], map)}
<1>9. 0 \in P
  BY <1>5, <1>7 DEF UndoWay
<1>10. ASSUME NEW m \in P PROVE m + 1 \in P
  <2>1. m \in Nat /\ (m <= n => Undoing(r[m], map))
    BY <1>10
  <2>2. SUFFICES ASSUME m + 1 <= n PROVE Undoing(r[m + 1], map)
    BY <2>1
  <2>3. m + 1 \in 1 .. n /\ m + 1 - 1 = m /\ m <= n /\ (n - (m + 1)) + 1 \in 1 .. n
    BY <2>1, <2>2
  <2>4. r[m + 1] = Undo(r[m], u[(n - (m + 1)) + 1])
    BY <1>8, <2>3
  <2>5. u[(n - (m + 1)) + 1] \in map
    BY <1>1, <2>3
  <2>. QED BY <1>5, <2>1, <2>3, <2>4, <2>5, UndoType
<1>11. \A m \in Nat : m \in P
  <2>1. P \subseteq Nat
    OBVIOUS
  <2>. HIDE DEF P
  <2>. QED BY <1>9, <1>10, <2>1, SetInduction
<1>12. \A k \in 0 .. n : Undoing(r[k], map)
  BY <1>11
<1>13. r[0] = x
  BY <1>7 DEF UndoWay
<1>14. \A k \in 1 .. n : r[k] = Undo(r[k - 1], Unsaved[n - k + 1])
  BY <1>1, <1>8
<1>. QED BY <1>4, <1>7, <1>12, <1>13, <1>14

LEMMA PutBackDoes ==
  ASSUME NEW M, M \subseteq Doc, NEW x, Undoing(x, M), NEW d \in M, x.dumpster # <<>>
  PROVE  /\ SameElements(Append(x.heap.tree, d), PutBack(x, d).heap.tree)
         /\ PutBack(x, d).dumpster = Front(x.dumpster)
         /\ \A e \in Doc \ {d} : PutBack(x, d).printint[e] = x.printint[e]
<1>1. x.heap \in HeapOf(M, Doc) /\ x.printint \in [Doc -> 0 .. 2]
  BY DEF Undoing
<1>2. PutBack(x, d).heap = Inserted(x.heap, second, d)
  BY DEF PutBack, Undoing
<1>3. SameElements(Append(x.heap.tree, d), PutBack(x, d).heap.tree)
  BY <1>1, <1>2, InsertedKeeps
<1>4. PutBack(x, d).dumpster = Front(x.dumpster)
  BY DEF PutBack, Undoing
<1>5. PutBack(x, d).printint = [x.printint EXCEPT ![d] = 2]
  BY DEF PutBack, Undoing
<1>. QED BY <1>1, <1>3, <1>4, <1>5

LEMMA PutBackOrders ==
  ASSUME second \in [Doc -> Nat], NEW M, M \subseteq Doc, NEW x, Undoing(x, M), NEW d \in M,
         HeapOrdered(x.heap.tree, second)
  PROVE  HeapOrdered(PutBack(x, d).heap.tree, second)
<1>1. x.heap \in HeapOf(M, Doc) /\ x.heap.tree \in Seq(M) /\ d \in Doc
  BY DEF Undoing, HeapOf
<1>2. x.heap \in HeapOf(Doc, Doc)
  <2>1. x.heap.tree \in Seq(Doc)
    BY <1>1
  <2>. QED BY <1>1, <2>1 DEF HeapOf
<1>3. PutBack(x, d).heap = Inserted(x.heap, second, d)
  BY DEF PutBack, Undoing
<1>. QED BY <1>1, <1>2, <1>3, InsertedOrders

LEMMA TakeBackDoes ==
  ASSUME NEW M, M \subseteq Doc, NEW x, Undoing(x, M), NEW d \in M, x.heap.tree # <<>>,
         x.heap.third[d] = Len(x.heap.tree) - 1
  PROVE  /\ TakeBack(x, d).heap.tree = SubSeq(x.heap.tree, 1, Len(x.heap.tree) - 1)
         /\ TakeBack(x, d).heap.third = x.heap.third
         /\ TakeBack(x, d).dumpster = Append(x.dumpster, d)
         /\ TakeBack(x, d).printint = x.printint
<1>1. x.heap \in HeapOf(M, Doc) /\ x.heap.tree \in Seq(M)
  BY DEF Undoing, HeapOf
<1>2. PICK t \in Seq(M) : t = x.heap.tree
  BY <1>1
<1>3. PICK n \in Nat : Len(t) = n + 1
  <2>1. Len(t) \in Nat /\ Len(t) # 0
    BY <1>2
  <2>. QED BY <2>1
<1>4. Swap(t, n, n) = t
  <2>1. [[t EXCEPT ![n + 1] = t[n + 1]] EXCEPT ![n + 1] = t[n + 1]] = t
    BY <1>3
  <2>. QED BY <2>1 DEF Swap
<1>5. x.heap.third[d] = n /\ LastLeaf(t) = n
  BY <1>2, <1>3 DEF LastLeaf
<1>6. TakeBack(x, d).heap.tree = RemoveLast(t)
  <2>1. TakeBack(x, d).heap.tree =
          LET w == Swap(x.heap.tree, x.heap.third[d], LastLeaf(x.heap.tree))
          IN IF w = <<>> THEN w ELSE RemoveLast(w)
    BY DEF TakeBack, Undoing, HeapOf
  <2>. QED BY <1>2, <1>4, <1>5, <2>1
<1>7. TakeBack(x, d).heap.third = x.heap.third /\ TakeBack(x, d).printint = x.printint
  BY DEF TakeBack, Undoing, HeapOf
<1>8. TakeBack(x, d).dumpster = Append(x.dumpster, d)
  BY DEF TakeBack, Undoing, HeapOf
<1>. QED BY <1>2, <1>6, <1>7, <1>8 DEF RemoveLast

LEMMA Countdown ==
  ASSUME NEW n \in Nat, NEW m \in Nat, m + 1 <= n
  PROVE  /\ m + 1 \in 1 .. n /\ m \in 0 .. n /\ m + 1 - 1 = m /\ n - m \in 1 .. n
         /\ n - (m + 1) + 1 = n - m
OBVIOUS

(* All entries that are not saved are prints: their datapoints leave the   *)
(* end of the dumpster q one by one.  After m entries x is left.           *)
PrintsLeft(x, m, u, q, S) ==
  /\ Owned(x.heap.tree, x.dumpster, S)
  /\ x.dumpster = SubSeq(q, 1, Len(q) - m)
  /\ \A j \in 1 .. Len(u) - m : x.printint[u[j]] = 1
  /\ HeapOrdered(heap.tree, second) => HeapOrdered(x.heap.tree, second)

LEMMA PrintsUndone ==
  ASSUME TypeInv, NEW S, Owned(heap.tree, dumpster, S), EndsWith(dumpster, Unsaved),
         \A k \in 1 .. Len(Unsaved) : added[Unsaved[k]] = 1
  PROVE  /\ Owned(Reverted.heap.tree, Reverted.dumpster, S)
         /\ Reverted.dumpster = SubSeq(dumpster, 1, Len(dumpster) - Len(Unsaved))
         /\ HeapOrdered(heap.tree, second) => HeapOrdered(Reverted.heap.tree, second)
<1>1. PICK u \in Seq(map) : u = Unsaved
  BY UnsavedIs
<1>2. PICK n \in Nat : n = Len(Unsaved)
  BY <1>1
<1>3. PICK q \in Seq(map) : q = dumpster
  BY DEF TypeInv, HeapTypes
<1>4. PICK l \in Nat : l = Len(q) /\ n <= l /\ \A k \in 1 .. n : q[l - n + k] = u[k]
  BY <1>1, <1>2, <1>3 DEF EndsWith
<1>5. PICK r : /\ r[0] = [heap |-> heap, dumpster |-> dumpster, maxElts |-> maxElts,
                          printint |-> added, undefined |-> FALSE]
               /\ Reverted = r[n]
               /\ \A k \in 1 .. n : r[k] = Undo(r[k - 1], Unsaved[n - k + 1])
               /\ \A k \in 0 .. n : Undoing(r[k], map)
  BY <1>2, RevertedIsAWay
<1>6. map \subseteq Doc
  BY DEF TypeInv, OtherTypes
<1>7. \A j, k \in 1 .. n : u[j] = u[k] => j = k
  <2>1. \A j, k \in 1 .. l : q[j] = q[k] => j = k
    BY <1>3, <1>4 DEF Owned, IsInjective
  <2>2. \A k \in 1 .. n : l - n + k \in 1 .. l
    BY <1>4
  <2>3. SUFFICES ASSUME NEW j \in 1 .. n, NEW k \in 1 .. n, u[j] = u[k] PROVE j = k
    OBVIOUS
  <2>4. q[l - n + j] = q[l - n + k]
    BY <1>4, <2>3
  <2>5. l - n + j = l - n + k
    BY <2>1, <2>2, <2>4
  <2>. QED BY <1>4, <2>5
<1>. DEFINE P == {m \in Nat : m <= n => PrintsLeft(r[m], m, u, q, S)}
<1>8. 0 \in P
  <2>1. SubSeq(q, 1, l - 0) = q
    BY <1>4
  <2>2. r[0].heap = heap /\ r[0].dumpster = q /\ r[0].printint = added
    BY <1>3, <1>5
  <2>3. n - 0 = n
    OBVIOUS
  <2>4. PrintsLeft(r[0], 0, u, q, S)
    BY <1>1, <1>2, <1>3, <1>4, <2>1, <2>2, <2>3 DEF PrintsLeft
  <2>. QED BY <2>4
<1>9. ASSUME NEW m \in P PROVE m + 1 \in P
  <2>1. m \in Nat /\ (m <= n => PrintsLeft(r[m], m, u, q, S))
    BY <1>9
  <2>2. SUFFICES ASSUME m + 1 <= n PROVE PrintsLeft(r[m + 1], m + 1, u, q, S)
    BY <2>1
  <2>. HIDE DEF P
  <2>3. m + 1 \in 1 .. n /\ m \in 0 .. n /\ m + 1 - 1 = m /\ n - (m + 1) + 1 = n - m /\ n - m \in 1 .. n
    BY <2>1, <2>2, Countdown
  <2>4. PICK x : x = r[m] /\ Undoing(x, map) /\ PrintsLeft(x, m, u, q, S)
    BY <1>5, <2>1, <2>3
  <2>5. PICK d \in map : d = u[n - m]
    <3>1. n - m \in 1 .. Len(u)
      BY <1>1, <1>2, <2>3
    <3>2. u[n - m] \in map
      BY <3>1
    <3>. QED BY <3>2
  <2>6. r[m + 1] = PutBack(x, d)
    <3>1. r[m + 1] = Undo(x, d)
      <4>1. r[m + 1] = Undo(r[m + 1 - 1], Unsaved[n - (m + 1) + 1])
        BY <1>5, <2>3
      <4>. QED BY <1>1, <2>3, <2>4, <2>5, <4>1
    <3>2. x.printint[d] = 1
      <4>1. \A j \in 1 .. n - m : x.printint[u[j]] = 1
        BY <1>1, <1>2, <2>4 DEF PrintsLeft
      <4>2. n - m \in 1 .. n - m
        BY <2>3
      <4>. QED BY <2>5, <4>1, <4>2
    <3>. QED BY <3>1, <3>2 DEF Undo
  <2>7. PICK k \in Nat : k = l - (m + 1) /\ l - m = k + 1
    <3>1. m + 1 <= l
      BY <1>4, <2>1, <2>2
    <3>. QED BY <2>1, <3>1, Countdown
  <2>8. x.dumpster \in Seq(map) /\ Len(x.dumpster) = k + 1 /\ x.dumpster[k + 1] = d
    <3>1. x.dumpster = SubSeq(q, 1, k + 1) /\ k + 1 <= l
      <4>1. x.dumpster = SubSeq(q, 1, l - m)
        BY <1>4, <2>4 DEF PrintsLeft
      <4>2. k + 1 <= l
        BY <1>4, <2>1, <2>2, <2>7
      <4>. QED BY <2>7, <4>1, <4>2
    <3>2. q[k + 1] = d
      <4>1. l - n + (n - m) = k + 1
        BY <1>4, <2>1, <2>7
      <4>. QED BY <1>4, <2>3, <2>5, <4>1
    <3>. QED BY <1>4, <3>1, <3>2
  <2>9. SubSeq(x.dumpster, 1, k) = SubSeq(q, 1, k) /\ x.dumpster # <<>> /\ Front(x.dumpster) = SubSeq(x.dumpster, 1, k)
    <3>1. x.dumpster = SubSeq(q, 1, k + 1) /\ k + 1 <= l
      <4>1. x.dumpster = SubSeq(q, 1, l - m)
        BY <1>4, <2>4 DEF PrintsLeft
      <4>2. k + 1 <= l
        BY <1>4, <2>1, <2>2, <2>7
      <4>. QED BY <2>7, <4>1, <4>2
    <3>2. PICK z \in Seq(map) : z = x.dumpster /\ Len(z) = k + 1
      BY <2>8
    <3>3. SubSeq(z, 1, k) = SubSeq(q, 1, k)
      BY <1>4, <3>1, <3>2
    <3>. QED BY <3>2, <3>3 DEF Front
  <2>10. /\ SameElements(Append(x.heap.tree, d), r[m + 1].heap.tree)
         /\ r[m + 1].dumpster = SubSeq(x.dumpster, 1, k)
         /\ \A e \in Doc \ {d} : r[m + 1].printint[e] = x.printint[e]
    <3>1. PICK z : z = PutBack(x, d)
      OBVIOUS
    <3>2. /\ SameElements(Append(x.heap.tree, d), z.heap.tree)
          /\ z.dumpster = Front(x.dumpster)
          /\ \A e \in Doc \ {d} : z.printint[e] = x.printint[e]
      <4>1. Undoing(x, map)
        BY <2>4
      <4>2. x.dumpster # <<>>
        BY <2>9
      <4>3. /\ SameElements(Append(x.heap.tree, d), PutBack(x, d).heap.tree)
            /\ PutBack(x, d).dumpster = Front(x.dumpster)
            /\ \A e \in Doc \ {d} : PutBack(x, d).printint[e] = x.printint[e]
        BY <1>6, <4>1, <4>2, PutBackDoes
      <4>. QED BY <3>1, <4>3
    <3>. QED BY <2>6, <2>9, <3>1, <3>2
  <2>11. Owned(r[m + 1].heap.tree, r[m + 1].dumpster, S)
    <3>1. x.heap.tree \in Seq(map)
      BY <2>4 DEF Undoing, HeapOf
    <3>2. Owned(x.heap.tree, x.dumpster, S)
      BY <2>4 DEF PrintsLeft
    <3>3. Owned(Append(x.heap.tree, d), SubSeq(x.dumpster, 1, k), S)
      BY <2>8, <3>1, <3>2, OwnedPutBack
    <3>. QED BY <2>10, <3>3, OwnedShuffled
  <2>12. \A j \in 1 .. n - (m + 1) : r[m + 1].printint[u[j]] = 1
    <3>. TAKE j \in 1 .. n - (m + 1)
    <3>1. j \in 1 .. n /\ j \in 1 .. n - m /\ j # n - m
      BY <2>1, <2>2
    <3>2. u[j] # d /\ u[j] \in Doc /\ x.printint[u[j]] = 1
      BY <1>1, <1>2, <1>6, <1>7, <2>3, <2>4, <2>5, <3>1 DEF PrintsLeft
    <3>. QED BY <2>10, <3>2
  <2>13. ASSUME HeapOrdered(heap.tree, second) PROVE HeapOrdered(r[m + 1].heap.tree, second)
    <3>1. HeapOrdered(x.heap.tree, second) /\ Undoing(x, map) /\ second \in [Doc -> Nat]
      BY <2>4, <2>13, OrderTypes DEF PrintsLeft
    <3>2. HeapOrdered(PutBack(x, d).heap.tree, second)
      BY <1>6, <3>1, PutBackOrders
    <3>. QED BY <2>6, <3>2
  <2>. QED BY <1>1, <1>2, <1>4, <2>7, <2>9, <2>10, <2>11, <2>12, <2>13 DEF PrintsLeft
<1>10. n \in P
  <2>1. P \subseteq Nat
    OBVIOUS
  <2>. HIDE DEF P
  <2>. QED BY <1>8, <1>9, <2>1, SetInduction
<1>11. PrintsLeft(r[n], n, u, q, S)
  BY <1>10
<1>. QED BY <1>2, <1>3, <1>4, <1>5, <1>11 DEF PrintsLeft

(* All are adds whose datapoints are where they were put: they leave the   *)
(* end of the tree t one by one.                                           *)
AddsLeft(x, m, t, S) ==
  /\ Owned(x.heap.tree, x.dumpster, S)
  /\ x.heap.tree = SubSeq(t, 1, Len(t) - m)
  /\ x.heap.third = heap.third /\ x.printint = added

LEMMA AddsUndone ==
  ASSUME TypeInv, NEW S, Owned(heap.tree, dumpster, S), EndsWith(heap.tree, Unsaved),
         \A k \in 1 .. Len(Unsaved) :
           /\ added[Unsaved[k]] = 2
           /\ heap.third[Unsaved[k]] = Len(heap.tree) - Len(Unsaved) + k - 1
  PROVE  /\ Owned(Reverted.heap.tree, Reverted.dumpster, S)
         /\ Reverted.heap.tree = SubSeq(heap.tree, 1, Len(heap.tree) - Len(Unsaved))
<1>1. PICK u \in Seq(map) : u = Unsaved
  BY UnsavedIs
<1>2. PICK n \in Nat : n = Len(Unsaved)
  BY <1>1
<1>3. PICK t \in Seq(map) : t = heap.tree
  BY DEF TypeInv, HeapTypes, HeapOf
<1>4. PICK l \in Nat : l = Len(t) /\ n <= l /\ \A k \in 1 .. n : t[l - n + k] = u[k]
  BY <1>1, <1>2, <1>3 DEF EndsWith
<1>5. PICK r : /\ r[0] = [heap |-> heap, dumpster |-> dumpster, maxElts |-> maxElts,
                          printint |-> added, undefined |-> FALSE]
               /\ Reverted = r[n]
               /\ \A k \in 1 .. n : r[k] = Undo(r[k - 1], Unsaved[n - k + 1])
               /\ \A k \in 0 .. n : Undoing(r[k], map)
  BY <1>2, RevertedIsAWay
<1>6. map \subseteq Doc
  BY DEF TypeInv, OtherTypes
<1>. DEFINE P == {m \in Nat : m <= n => AddsLeft(r[m], m, t, S)}
<1>8. 0 \in P
  <2>1. SubSeq(t, 1, l - 0) = t
    BY <1>4
  <2>2. r[0].heap = heap /\ r[0].dumpster = dumpster /\ r[0].printint = added
    BY <1>5
  <2>3. AddsLeft(r[0], 0, t, S)
    BY <1>3, <1>4, <2>1, <2>2 DEF AddsLeft
  <2>. QED BY <2>3
<1>9. ASSUME NEW m \in P PROVE m + 1 \in P
  <2>1. m \in Nat /\ (m <= n => AddsLeft(r[m], m, t, S))
    BY <1>9
  <2>2. SUFFICES ASSUME m + 1 <= n PROVE AddsLeft(r[m + 1], m + 1, t, S)
    BY <2>1
  <2>. HIDE DEF P
  <2>3. m + 1 \in 1 .. n /\ m \in 0 .. n /\ m + 1 - 1 = m /\ n - (m + 1) + 1 = n - m /\ n - m \in 1 .. n
    BY <2>1, <2>2, Countdown
  <2>4. PICK x : x = r[m] /\ Undoing(x, map) /\ AddsLeft(x, m, t, S)
    BY <1>5, <2>1, <2>3
  <2>5. PICK d \in map : d = u[n - m]
    <3>1. n - m \in 1 .. Len(u)
      BY <1>1, <1>2, <2>3
    <3>2. u[n - m] \in map
      BY <3>1
    <3>. QED BY <3>2
  <2>6. added[d] = 2 /\ heap.third[d] = l - n + (n - m) - 1
    BY <1>1, <1>2, <1>3, <1>4, <2>3, <2>5
  <2>7. r[m + 1] = TakeBack(x, d)
    <3>1. r[m + 1] = Undo(x, d)
      <4>1. r[m + 1] = Undo(r[m + 1 - 1], Unsaved[n - (m + 1) + 1])
        BY <1>5, <2>3
      <4>. QED BY <1>1, <2>3, <2>4, <2>5, <4>1
    <3>2. x.printint[d] = 2
      BY <2>4, <2>6 DEF AddsLeft
    <3>. QED BY <3>1, <3>2 DEF Undo
  <2>8. PICK k \in Nat : k = l - (m + 1) /\ l - m = k + 1
    <3>1. m + 1 <= l
      BY <1>4, <2>1, <2>2
    <3>. QED BY <2>1, <3>1, Countdown
  <2>9. PICK z \in Seq(map) : z = x.heap.tree /\ Len(z) = k + 1 /\ z[k + 1] = d /\ SubSeq(z, 1, k) = SubSeq(t, 1, k)
    <3>1. x.heap.tree = SubSeq(t, 1, k + 1) /\ k + 1 <= l
      <4>1. x.heap.tree = SubSeq(t, 1, l - m)
        BY <1>4, <2>4 DEF AddsLeft
      <4>2. k + 1 <= l
        BY <1>4, <2>1, <2>2, <2>8
      <4>. QED BY <2>8, <4>1, <4>2
    <3>2. t[k + 1] = d
      <4>1. l - n + (n - m) = k + 1
        BY <1>4, <2>1, <2>8
      <4>. QED BY <1>4, <2>3, <2>5, <4>1
    <3>3. PICK z \in Seq(map) : z = x.heap.tree /\ Len(z) = k + 1 /\ z[k + 1] = d
      <4>1. PICK z : z = SubSeq(t, 1, k + 1)
        OBVIOUS
      <4>2. z \in Seq(map) /\ Len(z) = k + 1 /\ z[k + 1] = t[k + 1]
        BY <1>4, <3>1, <4>1
      <4>. QED BY <3>1, <3>2, <4>1, <4>2
    <3>4. SubSeq(z, 1, k) = SubSeq(t, 1, k)
      BY <1>4, <3>1, <3>3
    <3>. QED BY <3>3, <3>4
  <2>10. /\ r[m + 1].heap.tree = SubSeq(z, 1, k)
         /\ r[m + 1].heap.third = heap.third /\ r[m + 1].printint = added
         /\ r[m + 1].dumpster = Append(x.dumpster, d)
    <3>1. x.heap.tree # <<>> /\ Len(x.heap.tree) - 1 = k
      BY <2>9
    <3>2. x.heap.third[d] = Len(x.heap.tree) - 1
      <4>1. l - n + (n - m) - 1 = k
        BY <1>4, <2>1, <2>8
      <4>. QED BY <2>4, <2>6, <3>1, <4>1 DEF AddsLeft
    <3>3. x.heap.third = heap.third /\ x.printint = added /\ z = x.heap.tree
      BY <2>4, <2>9 DEF AddsLeft
    <3>4. PICK y : y = TakeBack(x, d)
      OBVIOUS
    <3>5. /\ y.heap.tree = SubSeq(x.heap.tree, 1, Len(x.heap.tree) - 1)
          /\ y.heap.third = x.heap.third /\ y.dumpster = Append(x.dumpster, d)
          /\ y.printint = x.printint
      <4>1. Undoing(x, map)
        BY <2>4
      <4>2. /\ TakeBack(x, d).heap.tree = SubSeq(x.heap.tree, 1, Len(x.heap.tree) - 1)
            /\ TakeBack(x, d).heap.third = x.heap.third
            /\ TakeBack(x, d).dumpster = Append(x.dumpster, d)
            /\ TakeBack(x, d).printint = x.printint
        BY <1>6, <3>1, <3>2, <4>1, TakeBackDoes
      <4>. QED BY <3>3, <3>4, <4>2
    <3>6. y.heap.tree = SubSeq(z, 1, k)
      BY <3>1, <3>3, <3>5
    <3>. QED BY <2>7, <3>3, <3>4, <3>5, <3>6
  <2>11. Owned(r[m + 1].heap.tree, r[m + 1].dumpster, S)
    <3>1. x.dumpster \in Seq(map) /\ Owned(z, x.dumpster, S)
      BY <2>4, <2>9 DEF Undoing, AddsLeft
    <3>2. Owned(SubSeq(z, 1, k), Append(x.dumpster, d), S)
      BY <2>9, <3>1, OwnedTakenBack
    <3>. QED BY <2>10, <3>2
  <2>. QED BY <1>4, <2>8, <2>9, <2>10, <2>11 DEF AddsLeft
<1>10. n \in P
  <2>1. P \subseteq Nat
    OBVIOUS
  <2>. HIDE DEF P
  <2>. QED BY <1>8, <1>9, <2>1, SetInduction
<1>11. AddsLeft(r[n], n, t, S)
  BY <1>10
<1>. QED BY <1>2, <1>3, <1>4, <1>5, <1>11 DEF AddsLeft

-----------------------------------------------------------------------------
(* Who owns the datapoints *)

(* The inductive invariant.  A datapoint in the tree has an entry of the   *)
(* history that is kept, and as long as the save point belongs to this     *)
(* heap, "added" tells adds and prints among the unsaved entries apart.    *)
(* When all of them are prints of older files, they are the last ones that *)
(* went into the dumpster.                                                 *)
FirstEntry(i) == \A j \in 1 .. i - 1 : historicaldoc[j] # historicaldoc[i]

UnsavedEntries == lastsaveat + 1 .. numhistoricaldoc

EntriesTell ==
  \A i \in UnsavedEntries :
    /\ added[historicaldoc[i]] # 0
    /\ ~FirstEntry(i) => added[historicaldoc[i]] = 1
    /\ historicaldoc[i] \in InTree => added[historicaldoc[i]] = 2

PrintedLast ==
  LET m == numhistoricaldoc - lastsaveat IN
  /\ m <= Len(dumpster)
  /\ \A k \in 1 .. m : dumpster[Len(dumpster) - m + k] = historicaldoc[lastsaveat + k]

SaveKept ==
  /\ lastsaveat <= numhistoricaldoc
  /\ EntriesTell
  /\ (\A i \in UnsavedEntries : ~FirstEntry(i)) => PrintedLast

Listed == \A d \in InTree : \E i \in 1 .. numhistoricaldoc : historicaldoc[i] = d

Accounted ==
  /\ Owned(heap.tree, dumpster, map \ freed)
  /\ Listed
  /\ ~stale => SaveKept

OwnInv == process = "running" => Accounted

LEMMA RecordedEntries ==
  ASSUME HistoryTypes, NEW d, Record(d)
  PROVE  /\ numhistoricaldoc \in Nat /\ lastsaveat \in Nat
         /\ numhistoricaldoc' = numhistoricaldoc + 1
         /\ historicaldoc'[numhistoricaldoc + 1] = d
         /\ \A i \in 1 .. numhistoricaldoc : historicaldoc'[i] = historicaldoc[i]
<1>1. PICK h \in Seq(map) : h = historicaldoc
  BY DEF HistoryTypes
<1>2. PICK n \in Nat : n = numhistoricaldoc
  BY DEF HistoryTypes
<1>3. PICK l \in Nat : l = Len(h) /\ n <= l
  BY <1>1, <1>2 DEF HistoryTypes
<1>4. historicaldoc' = IF n < l THEN [h EXCEPT ![n + 1] = d] ELSE Append(h, d)
  BY <1>1, <1>2, <1>3 DEF Record
<1>5. historicaldoc'[n + 1] = d /\ \A i \in 1 .. n : historicaldoc'[i] = h[i]
  <2>1. CASE n < l
    <3>1. n + 1 \in 1 .. l
      BY <2>1
    <3>2. [h EXCEPT ![n + 1] = d][n + 1] = d /\ \A i \in 1 .. n : [h EXCEPT ![n + 1] = d][i] = h[i]
      BY <1>3, <3>1
    <3>. QED BY <1>4, <2>1, <3>2
  <2>2. CASE ~(n < l)
    <3>1. l = n
      BY <1>3, <2>2
    <3>2. PICK w : w = Append(h, d)
      OBVIOUS
    <3>3. w[n + 1] = d /\ \A i \in 1 .. n : w[i] = h[i]
      <4>1. PICK D : D = map \cup {d}
        OBVIOUS
      <4>2. h \in Seq(D) /\ d \in D /\ Len(h) = n
        BY <1>3, <3>1, <4>1
      <4>3. w[Len(h) + 1] = d
        BY <3>2, <4>2
      <4>4. \A i \in 1 .. Len(h) : w[i] = h[i]
        BY <3>2, <4>2
      <4>. QED BY <4>2, <4>3, <4>4
    <3>. QED BY <1>4, <2>2, <3>2, <3>3
  <2>. QED BY <2>1, <2>2
<1>. QED BY <1>1, <1>2, <1>5 DEF Record, HistoryTypes

LEMMA ForgottenEntries ==
  ASSUME HistoryTypes, NEW n \in {lastsaveat, numhistoricaldoc}, Forget(n)
  PROVE  n \in Nat /\ \A i \in 1 .. n : historicaldoc'[i] = historicaldoc[i]
<1>1. PICK h \in Seq(map) : h = historicaldoc
  BY DEF HistoryTypes
<1>2. n \in Nat /\ n <= Len(h)
  BY <1>1 DEF HistoryTypes
<1>3. \A i \in 1 .. n : SubSeq(h, 1, n)[i] = h[i]
  BY <1>2
<1>. QED BY <1>1, <1>2, <1>3 DEF Forget

LEMMA FirstKept ==
  ASSUME numhistoricaldoc \in Nat,
         \A i \in 1 .. numhistoricaldoc : historicaldoc'[i] = historicaldoc[i]
  PROVE  \A i \in 1 .. numhistoricaldoc : FirstEntry(i)' <=> FirstEntry(i)
<1>. TAKE i \in 1 .. numhistoricaldoc
<1>1. \A j \in 1 .. i - 1 : j \in 1 .. numhistoricaldoc
  OBVIOUS
<1>. QED BY <1>1 DEF FirstEntry

(* The datapoint of a new file has no entry and is nowhere yet.            *)
LEMMA AddOwned ==
  ASSUME TypeInv, Accounted, NEW d \in Doc, NEW r \in Relevance, AddFile(d, r)
  PROVE  Accounted'
<1>1. /\ d \notin map /\ map' = map \cup {d} /\ Record(d) /\ freed' = freed /\ stale' = stale
      /\ dumpster' = dumpster /\ lastsaveat' = lastsaveat
      /\ added' = [added EXCEPT ![d] = 2] /\ heap' = Inserted(heap, second', d)
  BY DEF AddFile, AddToHeap
<1>2. /\ heap \in HeapOf(map \cup {d}, Doc) /\ heap.tree \in Seq(map) /\ dumpster \in Seq(map)
      /\ map \cup {d} \subseteq Doc /\ freed \subseteq map /\ added \in [Doc -> 0 .. 2]
  BY DEF TypeInv, HeapTypes, OtherTypes, HeapOf
<1>3. SameElements(Append(heap.tree, d), heap'.tree)
  BY <1>1, <1>2, InsertedKeeps
<1>4. PICK t \in Seq(map) : t = heap.tree /\ d \notin ToSet(t)
  BY <1>1, <1>2 DEF ToSet
<1>5. d \notin ToSet(dumpster)
  <2>1. PICK q \in Seq(map) : q = dumpster
    BY <1>2
  <2>2. d \notin ToSet(q)
    BY <1>1 DEF ToSet
  <2>. QED BY <2>1, <2>2
<1>6. IsInjective(t)
  BY <1>4 DEF Accounted, Owned
<1>7. ToSet(Append(t, d)) = ToSet(t) \cup {d} /\ IsInjective(Append(t, d))
  <2>1. t \in Seq(Doc)
    BY <1>2
  <2>. QED BY <1>4, <1>6, <2>1, AppendedElements
<1>8. Owned(Append(t, d), dumpster, (map \ freed) \cup {d})
  BY <1>4, <1>5, <1>7 DEF Accounted, Owned
<1>9. Owned(heap'.tree, dumpster', map' \ freed')
  <2>1. map' \ freed' = (map \ freed) \cup {d}
    BY <1>1, <1>2
  <2>. QED BY <1>1, <1>3, <1>4, <1>8, <2>1, OwnedShuffled
<1>10. InTree' = InTree \cup {d}
  BY <1>3, <1>4, <1>7 DEF SameElements, InTree
<1>11. /\ numhistoricaldoc \in Nat /\ lastsaveat \in Nat
       /\ numhistoricaldoc' = numhistoricaldoc + 1
       /\ historicaldoc'[numhistoricaldoc + 1] = d
       /\ \A i \in 1 .. numhistoricaldoc : historicaldoc'[i] = historicaldoc[i]
  BY <1>1, RecordedEntries DEF TypeInv
<1>12. PICK n \in Nat : n = numhistoricaldoc
  BY <1>11
<1>13. Listed'
  BY <1>10, <1>11 DEF Accounted, Listed
<1>14. \A i \in 1 .. n : historicaldoc[i] \in map
  <2>1. historicaldoc \in Seq(map) /\ n <= Len(historicaldoc) /\ Len(historicaldoc) \in Nat
    BY <1>12 DEF TypeInv, HistoryTypes
  <2>. QED BY <2>1
<1>15. ASSUME ~stale PROVE SaveKept'
  <2>1. SaveKept
    BY <1>15 DEF Accounted
  <2>2. lastsaveat' <= numhistoricaldoc'
    BY <1>1, <1>11, <2>1 DEF SaveKept
  <2>3. FirstEntry(n + 1)'
    BY <1>1, <1>11, <1>12, <1>14 DEF FirstEntry
  <2>4. n + 1 \in UnsavedEntries'
    BY <1>1, <1>11, <1>12, <2>1 DEF SaveKept, UnsavedEntries
  <2>5. \A i \in 1 .. n : FirstEntry(i)' <=> FirstEntry(i)
    BY <1>11, <1>12, FirstKept
  <2>6. EntriesTell'
    <3>. SUFFICES ASSUME NEW i \in UnsavedEntries'
                  PROVE  /\ added'[historicaldoc'[i]] # 0
                         /\ ~FirstEntry(i)' => added'[historicaldoc'[i]] = 1
                         /\ historicaldoc'[i] \in InTree' => added'[historicaldoc'[i]] = 2
      BY DEF EntriesTell
    <3>1. CASE i = n + 1
      <4>1. added'[d] = 2
        BY <1>1, <1>2
      <4>. QED BY <1>11, <1>12, <2>3, <3>1, <4>1
    <3>2. CASE i # n + 1
      <4>1. i \in UnsavedEntries /\ i \in 1 .. n
        BY <1>1, <1>11, <1>12, <3>2 DEF UnsavedEntries
      <4>2. historicaldoc'[i] = historicaldoc[i] /\ historicaldoc[i] \in Doc /\ historicaldoc[i] # d
        BY <1>1, <1>2, <1>11, <1>12, <1>14, <4>1
      <4>3. added'[historicaldoc[i]] = added[historicaldoc[i]]
        BY <1>1, <1>2, <4>2
      <4>. QED BY <1>10, <2>1, <2>5, <4>1, <4>2, <4>3 DEF SaveKept, EntriesTell
    <3>. QED BY <3>1, <3>2
  <2>. QED BY <2>2, <2>3, <2>4, <2>6 DEF SaveKept
<1>. QED BY <1>1, <1>9, <1>13, <1>15 DEF Accounted

(* The datapoint that is printed has an entry of its add already.          *)
LEMMA TakeTopOwned ==
  ASSUME TypeInv, Accounted, TakeTop, heap.tree # <<>>, map' = map
  PROVE  Accounted'
<1>1. /\ heap \in HeapOf(map, Doc) /\ heap.tree \in Seq(map) /\ dumpster \in Seq(map)
      /\ map \subseteq Doc /\ added \in [Doc -> 0 .. 2]
  BY DEF TypeInv, HeapTypes, OtherTypes, HeapOf
<1>2. PICK top \in map : top = heap.tree[1] /\ top \in InTree
  BY <1>1 DEF InTree, ToSet
<1>3. /\ added' = [added EXCEPT ![top] = 1] /\ Record(top) /\ dumpster' = Append(dumpster, top)
      /\ heap' = Printed(heap, second) /\ freed' = freed /\ stale' = stale /\ lastsaveat' = lastsaveat
  BY <1>2 DEF TakeTop, Element
<1>4. IsInjective(heap.tree) /\ top \notin ToSet(dumpster) /\ IsInjective(dumpster)
  BY <1>2 DEF Accounted, Owned, InTree
<1>5. /\ ToSet(heap'.tree) \cup {top} = ToSet(heap.tree)
      /\ IsInjective(heap'.tree) /\ top \notin ToSet(heap'.tree)
  BY <1>1, <1>2, <1>3, <1>4, PrintedKeeps
<1>6. ToSet(dumpster') = ToSet(dumpster) \cup {top} /\ IsInjective(dumpster')
  BY <1>1, <1>3, <1>4, AppendedElements
<1>7. Owned(heap'.tree, dumpster', map' \ freed')
  BY <1>3, <1>5, <1>6 DEF Accounted, Owned
<1>8. InTree' = InTree \ {top}
  BY <1>5 DEF InTree
<1>9. /\ numhistoricaldoc \in Nat /\ lastsaveat \in Nat
      /\ numhistoricaldoc' = numhistoricaldoc + 1
      /\ historicaldoc'[numhistoricaldoc + 1] = top
      /\ \A i \in 1 .. numhistoricaldoc : historicaldoc'[i] = historicaldoc[i]
  BY <1>3, RecordedEntries DEF TypeInv
<1>10. PICK n \in Nat : n = numhistoricaldoc
  BY <1>9
<1>11. Listed'
  <2>. SUFFICES ASSUME NEW d \in InTree' PROVE \E i \in 1 .. n + 1 : historicaldoc'[i] = d
    BY <1>9, <1>10 DEF Listed
  <2>1. PICK i \in 1 .. n : historicaldoc[i] = d
    BY <1>8, <1>10 DEF Accounted, Listed
  <2>. QED BY <1>9, <1>10, <2>1
<1>12. \A i \in 1 .. n : historicaldoc[i] \in Doc
  <2>1. historicaldoc \in Seq(map) /\ n <= Len(historicaldoc) /\ Len(historicaldoc) \in Nat
    BY <1>10 DEF TypeInv, HistoryTypes
  <2>. QED BY <1>1, <2>1
<1>13. ASSUME ~stale PROVE SaveKept'
  <2>1. SaveKept
    BY <1>13 DEF Accounted
  <2>2. lastsaveat <= n /\ lastsaveat' <= numhistoricaldoc'
    BY <1>3, <1>9, <1>10, <2>1 DEF SaveKept
  <2>3. added'[top] = 1 /\ \A d \in Doc : d # top => added'[d] = added[d]
    BY <1>1, <1>2, <1>3
  <2>5. \A i \in 1 .. n : FirstEntry(i)' <=> FirstEntry(i)
    BY <1>9, <1>10, FirstKept
  <2>6. EntriesTell'
    <3>. SUFFICES ASSUME NEW i \in UnsavedEntries'
                  PROVE  /\ added'[historicaldoc'[i]] # 0
                         /\ ~FirstEntry(i)' => added'[historicaldoc'[i]] = 1
                         /\ historicaldoc'[i] \in InTree' => added'[historicaldoc'[i]] = 2
      BY DEF EntriesTell
    <3>1. CASE historicaldoc'[i] = top
      BY <1>8, <2>3, <3>1
    <3>2. CASE historicaldoc'[i] # top
      <4>1. i \in UnsavedEntries /\ i \in 1 .. n
        BY <1>3, <1>9, <1>10, <3>2 DEF UnsavedEntries
      <4>2. historicaldoc'[i] = historicaldoc[i] /\ historicaldoc[i] \in Doc
        BY <1>9, <1>10, <1>12, <4>1
      <4>3. added'[historicaldoc[i]] = added[historicaldoc[i]]
        BY <2>3, <3>2, <4>2
      <4>. QED BY <1>8, <2>1, <2>5, <4>1, <4>2, <4>3 DEF SaveKept, EntriesTell
    <3>. QED BY <3>1, <3>2
  <2>7. ASSUME \A i \in UnsavedEntries' : ~FirstEntry(i)' PROVE PrintedLast'
    <3>1. ASSUME NEW i \in UnsavedEntries PROVE ~FirstEntry(i)
      <4>1. i \in UnsavedEntries' /\ i \in 1 .. n
        BY <1>3, <1>9, <1>10 DEF UnsavedEntries
      <4>. QED BY <2>5, <2>7, <4>1
    <3>2. PrintedLast
      BY <2>1, <3>1 DEF SaveKept
    <3>3. PICK a \in Nat : a = lastsaveat /\ a <= n
      BY <1>9, <2>2
    <3>4. PICK q \in Seq(map) : q = dumpster
      BY <1>1
    <3>5. PICK l \in Nat : l = Len(q)
      OBVIOUS
    <3>6. n - a <= l /\ \A k \in 1 .. n - a : q[l - (n - a) + k] = historicaldoc[a + k]
      BY <1>10, <3>2, <3>3, <3>4, <3>5 DEF PrintedLast
    <3>7. PICK p : p = Append(q, top) /\ Len(p) = l + 1 /\ p[l + 1] = top /\ \A k \in 1 .. l : p[k] = q[k]
      <4>1. PICK p : p = Append(q, top)
        OBVIOUS
      <4>2. Len(p) = l + 1 /\ p[l + 1] = top /\ \A k \in 1 .. l : p[k] = q[k]
        BY <3>5, <4>1
      <4>. QED BY <4>1, <4>2
    <3>8. ASSUME NEW k \in 1 .. n + 1 - a
          PROVE  p[l + 1 - (n + 1 - a) + k] = historicaldoc'[a + k]
      <4>1. CASE k = n + 1 - a
        <5>1. l + 1 - (n + 1 - a) + k = l + 1 /\ a + k = n + 1
          BY <3>3, <4>1
        <5>. QED BY <1>9, <1>10, <3>7, <5>1
      <4>2. CASE k # n + 1 - a
        <5>1. /\ k \in 1 .. n - a /\ l + 1 - (n + 1 - a) + k = l - (n - a) + k
              /\ l - (n - a) + k \in 1 .. l /\ a + k \in 1 .. n
          BY <3>3, <3>6, <4>2
        <5>2. p[l - (n - a) + k] = q[l - (n - a) + k]
          BY <3>7, <5>1
        <5>. QED BY <1>9, <1>10, <3>6, <5>1, <5>2
      <4>. QED BY <4>1, <4>2
    <3>9. dumpster' = p /\ Len(dumpster') = l + 1 /\ lastsaveat' = a /\ numhistoricaldoc' = n + 1
      BY <1>3, <1>9, <1>10, <3>3, <3>4, <3>7
    <3>10. n + 1 - a <= l + 1
      BY <3>3, <3>6
    <3>. QED BY <3>8, <3>9, <3>10 DEF PrintedLast
  <2>. QED BY <2>2, <2>6, <2>7 DEF SaveKept
<1>. QED BY <1>3, <1>7, <1>11, <1>13 DEF Accounted

LEMMA NothingUnsaved ==
  ASSUME lastsaveat' \in Nat, numhistoricaldoc' = lastsaveat', Len(dumpster') \in Nat
  PROVE  SaveKept'
<1>1. PICK n \in Nat : n = lastsaveat' /\ n = numhistoricaldoc'
  OBVIOUS
<1>2. n + 1 .. n = {} /\ n - n = 0 /\ 1 .. 0 = {}
  OBVIOUS
<1>3. EntriesTell'
  BY <1>1, <1>2 DEF EntriesTell, UnsavedEntries
<1>4. PrintedLast'
  BY <1>1, <1>2 DEF PrintedLast
<1>. QED BY <1>1, <1>3, <1>4 DEF SaveKept

(* clear finds all datapoints that are left.                               *)
LEMMA ClearOwned ==
  ASSUME TypeInv, Accounted, Clear, map' = map
  PROVE  Accounted'
<1>1. heap.tree \in Seq(map) /\ heap \in HeapOf(map, Doc) /\ dumpster \in Seq(map) /\ lastsaveat \in Nat
  BY DEF TypeInv, HeapTypes, HistoryTypes, HeapOf
<1>2. ToSet(Found) = map \ freed
  BY <1>1, OwnedIsFound DEF Found, Accounted
<1>3. PICK q : q = <<>>
  OBVIOUS
<1>4. ToSet(q) = {} /\ IsInjective(q) /\ Len(q) = 0
  BY <1>3 DEF ToSet, IsInjective
<1>5. heap'.tree = q /\ dumpster' = q
  BY <1>1, <1>3 DEF Clear, HeapOf
<1>6. map' \ freed' = {}
  BY <1>2 DEF Clear, Deleted
<1>7. Owned(heap'.tree, dumpster', map' \ freed')
  BY <1>4, <1>5, <1>6 DEF Owned
<1>8. Listed'
  BY <1>4, <1>5 DEF Listed, InTree
<1>9. ASSUME ~stale' PROVE lastsaveat' \in Nat /\ numhistoricaldoc' = lastsaveat'
  <2>1. ~(lastsaveat > 0)
    BY <1>9, Zenon DEF Clear
  <2>2. lastsaveat' = lastsaveat /\ numhistoricaldoc' = 0
    BY DEF Clear
  <2>. QED BY <1>1, <2>1, <2>2
<1>. QED BY <1>4, <1>5, <1>7, <1>8, <1>9, NothingUnsaved DEF Accounted

LEMMA SaveOwned ==
  ASSUME TypeInv, Accounted, Save, map' = map
  PROVE  Accounted'
<1>1. numhistoricaldoc \in Nat /\ \A i \in 1 .. numhistoricaldoc : historicaldoc'[i] = historicaldoc[i]
  BY ForgottenEntries DEF Save, TypeInv
<1>2. /\ heap' = heap /\ dumpster' = dumpster /\ freed' = freed
      /\ numhistoricaldoc' = numhistoricaldoc /\ lastsaveat' = numhistoricaldoc
  BY DEF Save
<1>3. Listed'
  BY <1>1, <1>2 DEF Accounted, Listed, InTree
<1>4. SaveKept'
  <2>1. Len(dumpster) \in Nat
    BY DEF TypeInv, HeapTypes
  <2>. QED BY <1>1, <1>2, <2>1, NothingUnsaved
<1>. QED BY <1>2, <1>3, <1>4 DEF Accounted

(* The first of the entries of a datapoint.                                *)
LEMMA FirstExists ==
  ASSUME NEW n \in Nat, NEW i \in 1 .. n
  PROVE  \E j \in 1 .. n : historicaldoc[j] = historicaldoc[i] /\ FirstEntry(j)
<1>. DEFINE E == {j \in 1 .. n : historicaldoc[j] = historicaldoc[i]}
<1>1. PICK j \in E : \A k \in E : j <= k
  <2>1. E \subseteq Nat /\ i \in E
    OBVIOUS
  <2>. HIDE DEF E
  <2>. QED BY <2>1, LeastNumber
<1>2. ASSUME NEW k \in 1 .. j - 1, historicaldoc[k] = historicaldoc[j] PROVE FALSE
  <2>1. k \in E /\ ~(j <= k)
    BY <1>2
  <2>. QED BY <1>1, <2>1
<1>. QED BY <1>2 DEF FirstEntry

(* A line that says "Removed" is not about the first entry.                *)
LEMMA RemovedIsLater ==
  ASSUME NEW i \in Nat, added[historicaldoc[i]] \in Nat \ {0}, HistoryLine(i)[1] = "Removed"
  PROVE  ~FirstEntry(i)
<1>1. SUFFICES ASSUME FirstEntry(i) PROVE FALSE
  OBVIOUS
<1>2. {j \in 1 .. i - 1 : historicaldoc[j] = historicaldoc[i]} = {}
  BY <1>1 DEF FirstEntry
<1>3. EntriesBefore(i) = 0
  BY <1>2, FS_EmptySet DEF EntriesBefore
<1>4. EntriesBefore(i) < added[historicaldoc[i]]
  BY <1>3
<1>. QED BY <1>4 DEF HistoryLine

(* A sequence without repetitions, cut before its end u, has lost what is  *)
(* in u and nothing else.                                                  *)
LEMMA EndTaken ==
  ASSUME NEW D, NEW s \in Seq(D), NEW u \in Seq(D), EndsWith(s, u), IsInjective(s)
  PROVE  /\ ToSet(SubSeq(s, 1, Len(s) - Len(u))) = ToSet(s) \ ToSet(u)
         /\ ToSet(u) \subseteq ToSet(s)
<1>1. PICK m \in Nat : m = Len(s) /\ DOMAIN s = 1 .. m
  OBVIOUS
<1>2. PICK n \in Nat : n = Len(u) /\ DOMAIN u = 1 .. n
  OBVIOUS
<1>3. n <= m /\ \A k \in 1 .. n : s[m - n + k] = u[k]
  BY <1>1, <1>2 DEF EndsWith
<1>4. PICK l \in Nat : l = m - n /\ m = l + n
  BY <1>3
<1>5. PICK p : p = SubSeq(s, 1, l)
  OBVIOUS
<1>6. DOMAIN p = 1 .. l /\ \A k \in 1 .. l : p[k] = s[k]
  BY <1>1, <1>4, <1>5
<1>7. \A j, k \in 1 .. m : s[j] = s[k] => j = k
  BY <1>1 DEF IsInjective
<1>8. ASSUME NEW k \in 1 .. n PROVE u[k] \in ToSet(s) /\ u[k] \notin ToSet(p)
  <2>1. l + k \in 1 .. m /\ s[l + k] = u[k]
    <3>1. l + k \in 1 .. m
      BY <1>4
    <3>2. s[m - n + k] = u[k]
      BY <1>3
    <3>. QED BY <1>4, <3>1, <3>2
  <2>2. \A j \in 1 .. l : j \in 1 .. m /\ j # l + k
    BY <1>4
  <2>3. \A j \in 1 .. l : p[j] # u[k]
    BY <1>6, <1>7, <2>1, <2>2
  <2>. QED BY <1>1, <1>6, <2>1, <2>3 DEF ToSet
<1>9. ASSUME NEW k \in 1 .. m PROVE s[k] \in ToSet(p) \/ s[k] \in ToSet(u)
  <2>1. CASE k <= l
    <3>1. k \in 1 .. l
      BY <2>1
    <3>. QED BY <1>6, <3>1 DEF ToSet
  <2>2. CASE ~(k <= l)
    <3>1. PICK j \in 1 .. n : l + j = k
      <4>1. k - l \in 1 .. n /\ l + (k - l) = k
        BY <1>4, <2>2
      <4>. QED BY <4>1
    <3>2. u[j] = s[k]
      BY <1>3, <1>4, <3>1
    <3>. QED BY <1>2, <3>2 DEF ToSet
  <2>. QED BY <2>1, <2>2
<1>10. \A k \in 1 .. l : p[k] \in ToSet(s)
  <2>. TAKE k \in 1 .. l
  <2>1. k \in 1 .. m
    BY <1>4
  <2>. QED BY <1>1, <1>6, <2>1 DEF ToSet
<1>11. /\ \A e \in ToSet(u) : e \in ToSet(s) /\ e \notin ToSet(p)
       /\ \A e \in ToSet(s) : e \in ToSet(p) \/ e \in ToSet(u)
       /\ \A e \in ToSet(p) : e \in ToSet(s)
  <2>1. \A e : e \in ToSet(u) <=> \E k \in 1 .. n : e = u[k]
    BY <1>2 DEF ToSet
  <2>2. \A e : e \in ToSet(s) <=> \E k \in 1 .. m : e = s[k]
    BY <1>1 DEF ToSet
  <2>3. \A e : e \in ToSet(p) <=> \E k \in 1 .. l : e = p[k]
    BY <1>6 DEF ToSet
  <2>4. \A e \in ToSet(u) : e \in ToSet(s) /\ e \notin ToSet(p)
    BY <1>8, <2>1
  <2>5. \A e \in ToSet(s) : e \in ToSet(p) \/ e \in ToSet(u)
    BY <1>9, <2>2
  <2>6. \A e \in ToSet(p) : e \in ToSet(s)
    BY <1>10, <2>3
  <2>. QED BY <2>4, <2>5, <2>6
<1>12. ToSet(p) = ToSet(s) \ ToSet(u) /\ ToSet(u) \subseteq ToSet(s)
  BY <1>11
<1>. QED BY <1>1, <1>2, <1>4, <1>5, <1>12

LEMMA EntryIsDoc ==
  ASSUME TypeInv
  PROVE  \A i \in 1 .. numhistoricaldoc : historicaldoc[i] \in map /\ historicaldoc[i] \in Doc
<1>1. /\ historicaldoc \in Seq(map) /\ numhistoricaldoc \in Nat /\ lastsaveat \in Nat
      /\ numhistoricaldoc <= Len(historicaldoc) /\ Len(historicaldoc) \in Nat /\ map \subseteq Doc
  BY DEF TypeInv, HistoryTypes, OtherTypes
<1>. QED BY <1>1

(* What the user may revert: prints of files that were saved, the last     *)
(* ones in the dumpster, or adds that are at the end of the tree.          *)
LEMMA UnsavedAre ==
  ASSUME TypeInv, SaveKept
  PROVE  \A d : d \in ToSet(Unsaved) <=> \E i \in UnsavedEntries : historicaldoc[i] = d
<1>1. PICK a \in Nat, b \in Nat : a = lastsaveat /\ b = numhistoricaldoc /\ a <= b
  BY DEF TypeInv, HistoryTypes, SaveKept
<1>2. PICK u \in Seq(map) : /\ u = Unsaved /\ Len(u) = b - a /\ DOMAIN u = 1 .. b - a
                            /\ \A k \in 1 .. b - a : u[k] = historicaldoc[a + k]
  <2>1. PICK u \in Seq(map) : u = Unsaved
    BY UnsavedIs
  <2>2. Len(u) = b - a /\ \A k \in 1 .. b - a : u[k] = historicaldoc[a + k]
    BY <1>1, <2>1, UnsavedIs
  <2>. QED BY <2>1, <2>2
<1>3. ASSUME NEW d, d \in ToSet(u) PROVE \E i \in a + 1 .. b : historicaldoc[i] = d
  <2>1. PICK k \in 1 .. b - a : d = u[k]
    BY <1>2, <1>3 DEF ToSet
  <2>2. a + k \in a + 1 .. b
    BY <1>1
  <2>. QED BY <1>2, <2>1, <2>2
<1>4. ASSUME NEW i \in a + 1 .. b PROVE historicaldoc[i] \in ToSet(u)
  <2>1. PICK k \in 1 .. b - a : a + k = i
    <3>1. i - a \in 1 .. b - a /\ a + (i - a) = i
      BY <1>1
    <3>. QED BY <3>1
  <2>2. u[k] = historicaldoc[i]
    BY <1>2, <2>1
  <2>. QED BY <1>2, <2>2 DEF ToSet
<1>. QED BY <1>1, <1>2, <1>3, <1>4 DEF UnsavedEntries

LEMMA PrintsReverted ==
  ASSUME TypeInv, Accounted, ~stale, OnlyPrints
  PROVE  /\ \A i \in UnsavedEntries : ~FirstEntry(i)
         /\ Owned(Reverted.heap.tree, Reverted.dumpster, map \ freed)
         /\ ToSet(Reverted.heap.tree) = InTree \cup ToSet(Unsaved)
         /\ HeapOrdered(heap.tree, second) => HeapOrdered(Reverted.heap.tree, second)
<1>1. SaveKept /\ Owned(heap.tree, dumpster, map \ freed)
  BY DEF Accounted
<1>2. PICK a \in Nat, b \in Nat : a = lastsaveat /\ b = numhistoricaldoc /\ a <= b
  BY <1>1 DEF TypeInv, HistoryTypes, SaveKept
<1>3. PICK u \in Seq(map) : u = Unsaved /\ Len(u) = b - a /\ \A k \in 1 .. b - a : u[k] = historicaldoc[a + k]
  BY <1>2, UnsavedIs
<1>4. PICK q \in Seq(map) : q = dumpster
  BY DEF TypeInv, HeapTypes
<1>5. ASSUME NEW i \in UnsavedEntries PROVE ~FirstEntry(i) /\ added[historicaldoc[i]] = 1
  <2>1. i \in 1 .. b /\ i - a \in 1 .. b - a /\ a + (i - a) = i
    BY <1>2 DEF UnsavedEntries
  <2>2. added[historicaldoc[i]] \in Nat \ {0}
    <3>1. historicaldoc[i] \in Doc
      BY <1>2, <2>1, EntryIsDoc
    <3>2. added[historicaldoc[i]] # 0
      BY <1>1 DEF SaveKept, EntriesTell
    <3>. QED BY <3>1, <3>2 DEF TypeInv, OtherTypes
  <2>3. HistoryLine(i)[1] = "Removed"
    <3>1. HistoryLine(lastsaveat + (i - a))[1] = "Removed"
      BY <1>3, <2>1 DEF OnlyPrints
    <3>. QED BY <1>2, <2>1, <3>1
  <2>4. ~FirstEntry(i)
    BY <2>1, <2>2, <2>3, RemovedIsLater
  <2>. QED BY <1>1, <2>4 DEF SaveKept, EntriesTell
<1>6. PrintedLast
  BY <1>1, <1>5 DEF SaveKept
<1>7. PICK l \in Nat : l = Len(q)
  OBVIOUS
<1>8. b - a <= l /\ \A k \in 1 .. b - a : q[l - (b - a) + k] = u[k]
  BY <1>2, <1>3, <1>4, <1>6, <1>7 DEF PrintedLast
<1>9. EndsWith(dumpster, Unsaved)
  BY <1>3, <1>4, <1>7, <1>8 DEF EndsWith
<1>10. \A k \in 1 .. Len(Unsaved) : added[Unsaved[k]] = 1
  <2>. SUFFICES ASSUME NEW k \in 1 .. b - a PROVE added[u[k]] = 1
    BY <1>3
  <2>1. u[k] = historicaldoc[a + k] /\ a + k \in UnsavedEntries
    BY <1>2, <1>3 DEF UnsavedEntries
  <2>. QED BY <1>5, <2>1
<1>11. /\ Owned(Reverted.heap.tree, Reverted.dumpster, map \ freed)
       /\ Reverted.dumpster = SubSeq(dumpster, 1, Len(dumpster) - Len(Unsaved))
       /\ HeapOrdered(heap.tree, second) => HeapOrdered(Reverted.heap.tree, second)
  BY <1>1, <1>9, <1>10, PrintsUndone
<1>12. ToSet(Reverted.dumpster) = ToSet(dumpster) \ ToSet(Unsaved) /\ ToSet(Unsaved) \subseteq ToSet(dumpster)
  <2>1. EndsWith(q, u) /\ IsInjective(q)
    BY <1>1, <1>3, <1>4, <1>9 DEF Owned
  <2>2. ToSet(SubSeq(q, 1, Len(q) - Len(u))) = ToSet(q) \ ToSet(u) /\ ToSet(u) \subseteq ToSet(q)
    BY <2>1, EndTaken
  <2>. QED BY <1>3, <1>4, <1>11, <2>2
<1>13. ToSet(Reverted.heap.tree) = InTree \cup ToSet(Unsaved)
  BY <1>1, <1>11, <1>12 DEF Owned, InTree
<1>. QED BY <1>5, <1>11, <1>13

LEMMA AddsReverted ==
  ASSUME TypeInv, Accounted, ~stale, OnlyAddsInPlace
  PROVE  /\ Owned(Reverted.heap.tree, Reverted.dumpster, map \ freed)
         /\ ToSet(Unsaved) \subseteq InTree
         /\ ToSet(Reverted.heap.tree) = InTree \ ToSet(Unsaved)
         /\ HeapOrdered(heap.tree, second) => HeapOrdered(Reverted.heap.tree, second)
<1>1. SaveKept /\ Owned(heap.tree, dumpster, map \ freed)
  BY DEF Accounted
<1>2. PICK a \in Nat, b \in Nat : a = lastsaveat /\ b = numhistoricaldoc /\ a <= b
  BY <1>1 DEF TypeInv, HistoryTypes, SaveKept
<1>3. PICK u \in Seq(map) : u = Unsaved /\ Len(u) = b - a /\ \A k \in 1 .. b - a : u[k] = historicaldoc[a + k]
  BY <1>2, UnsavedIs
<1>4. PICK t \in Seq(map) : t = heap.tree
  BY DEF TypeInv, HeapTypes, HeapOf
<1>5. EndsWith(t, u) /\ IsInjective(t)
  BY <1>1, <1>3, <1>4, SuffixEnds DEF OnlyAddsInPlace, Owned
<1>6. ToSet(SubSeq(t, 1, Len(t) - Len(u))) = ToSet(t) \ ToSet(u) /\ ToSet(u) \subseteq ToSet(t)
  BY <1>5, EndTaken
<1>7. \A k \in 1 .. Len(Unsaved) :
        /\ added[Unsaved[k]] = 2
        /\ heap.third[Unsaved[k]] = Len(heap.tree) - Len(Unsaved) + k - 1
  <2>. SUFFICES ASSUME NEW k \in 1 .. b - a PROVE added[u[k]] = 2
    BY <1>3 DEF OnlyAddsInPlace
  <2>1. u[k] = historicaldoc[a + k] /\ a + k \in UnsavedEntries
    BY <1>2, <1>3 DEF UnsavedEntries
  <2>2. DOMAIN u = 1 .. b - a
    BY <1>3
  <2>3. u[k] \in ToSet(t)
    BY <1>6, <2>2 DEF ToSet
  <2>. QED BY <1>1, <1>4, <2>1, <2>3 DEF SaveKept, EntriesTell, InTree
<1>8. /\ Owned(Reverted.heap.tree, Reverted.dumpster, map \ freed)
      /\ Reverted.heap.tree = SubSeq(heap.tree, 1, Len(heap.tree) - Len(Unsaved))
  BY <1>1, <1>3, <1>4, <1>5, <1>7, AddsUndone
<1>9. ASSUME HeapOrdered(t, second) PROVE HeapOrdered(Reverted.heap.tree, second)
  <2>1. PICK m \in Nat : m = Len(t) - Len(u) /\ m <= Len(t) /\ Len(t) \in Nat
    <3>1. PICK y \in Nat : y = Len(u)
      OBVIOUS
    <3>2. PICK z \in Nat : z = Len(t)
      OBVIOUS
    <3>3. y <= z
      BY <1>5, <3>1, <3>2 DEF EndsWith
    <3>4. z - y \in Nat /\ z - y <= z
      BY <3>3
    <3>. QED BY <3>1, <3>2, <3>4
  <2>2. PICK p : p = SubSeq(t, 1, m)
    OBVIOUS
  <2>3. Len(p) = m /\ \A k \in 1 .. m : p[k] = t[k]
    BY <2>1, <2>2
  <2>4. ASSUME NEW k \in 1 .. m - 1 PROVE ~Above(second, Element(p, k), Element(p, ParentOf(k)))
    <3>1. k \in Nat \ {0} /\ k + 1 \in 1 .. m /\ k \in 1 .. Len(t) - 1
      BY <2>1
    <3>2. ParentOf(k) \in Nat /\ ParentOf(k) < k
      BY <3>1, ParentIsLess
    <3>3. ParentOf(k) + 1 \in 1 .. m
      BY <2>1, <3>1, <3>2
    <3>4. ~Above(second, Element(t, k), Element(t, ParentOf(k)))
      BY <1>9, <3>1 DEF HeapOrdered
    <3>. QED BY <2>3, <3>1, <3>3, <3>4 DEF Element
  <2>5. HeapOrdered(p, second)
    BY <2>3, <2>4 DEF HeapOrdered
  <2>. QED BY <1>3, <1>4, <1>8, <2>1, <2>2, <2>5
<1>. QED BY <1>3, <1>4, <1>6, <1>8, <1>9 DEF InTree

LEMMA RevertOwned ==
  ASSUME TypeInv, Accounted, Revert, map' = map, RevertIsSafe
  PROVE  Accounted'
<1>1. SaveKept /\ ~stale
  BY DEF RevertIsSafe, Accounted
<1>2. PICK a \in Nat, b \in Nat : a = lastsaveat /\ b = numhistoricaldoc /\ a <= b
  BY <1>1 DEF TypeInv, HistoryTypes, SaveKept
<1>3. /\ heap' = Reverted.heap /\ dumpster' = Reverted.dumpster /\ numhistoricaldoc' = a /\ lastsaveat' = a
      /\ map' \ freed' = map \ freed /\ \A i \in 1 .. a : historicaldoc'[i] = historicaldoc[i]
  BY <1>2, ForgottenEntries DEF Revert, TypeInv
<1>4. \A i \in 1 .. b : i \in UnsavedEntries <=> i \notin 1 .. a
  BY <1>2 DEF UnsavedEntries
<1>5. \A i \in UnsavedEntries : i \in 1 .. b
  BY <1>2 DEF UnsavedEntries
<1>6. \A d : d \in ToSet(Unsaved) <=> \E i \in UnsavedEntries : historicaldoc[i] = d
  BY <1>1, UnsavedAre
<1>7. \A d \in InTree : \E i \in 1 .. b : historicaldoc[i] = d
  BY <1>2 DEF Accounted, Listed
<1>8. /\ Owned(Reverted.heap.tree, Reverted.dumpster, map \ freed)
      /\ \A d \in ToSet(Reverted.heap.tree) : \E i \in 1 .. a : historicaldoc[i] = d
  <2>1. CASE OnlyPrints
    <3>1. /\ \A i \in UnsavedEntries : ~FirstEntry(i)
          /\ Owned(Reverted.heap.tree, Reverted.dumpster, map \ freed)
          /\ ToSet(Reverted.heap.tree) = InTree \cup ToSet(Unsaved)
      BY <1>1, <2>1, PrintsReverted
    <3>2. ASSUME NEW d \in ToSet(Reverted.heap.tree) PROVE \E i \in 1 .. a : historicaldoc[i] = d
      <4>1. PICK i \in 1 .. b : historicaldoc[i] = d
        BY <1>5, <1>6, <1>7, <3>1
      <4>2. PICK j \in 1 .. b : historicaldoc[j] = d /\ FirstEntry(j)
        BY <4>1, FirstExists
      <4>. QED BY <1>4, <3>1, <4>2
    <3>. QED BY <3>1, <3>2
  <2>2. CASE OnlyAddsInPlace
    <3>1. /\ Owned(Reverted.heap.tree, Reverted.dumpster, map \ freed)
          /\ ToSet(Reverted.heap.tree) = InTree \ ToSet(Unsaved)
      BY <1>1, <2>2, AddsReverted
    <3>2. ASSUME NEW d \in ToSet(Reverted.heap.tree) PROVE \E i \in 1 .. a : historicaldoc[i] = d
      BY <1>4, <1>6, <1>7, <3>1
    <3>. QED BY <3>1, <3>2
  <2>. QED BY <2>1, <2>2 DEF RevertIsSafe
<1>9. SaveKept'
  <2>1. Undoing(Reverted, map)
    BY RevertedType
  <2>2. Reverted.dumpster \in Seq(map)
    BY <2>1 DEF Undoing
  <2>. QED BY <1>3, <2>2, NothingUnsaved
<1>10. Listed'
  BY <1>3, <1>8 DEF Listed, InTree
<1>. QED BY <1>3, <1>8, <1>9, <1>10 DEF Accounted

LEMMA OwnStep ==
  ASSUME Careful = TRUE, TypeInv, OwnInv, [Next]_vars
  PROVE  OwnInv'
<1>1. SUFFICES ASSUME process' = "running" PROVE Accounted'
  BY DEF OwnInv
<1>2. process = "running" => Accounted
  BY DEF OwnInv
<1>u. ASSUME Accounted, UNCHANGED <<heapVars, map>> PROVE Accounted'
  <2>1. UnsavedEntries' = UnsavedEntries /\ \A i : FirstEntry(i)' <=> FirstEntry(i)
    BY <1>u DEF heapVars, UnsavedEntries, FirstEntry
  <2>2. SaveKept' <=> SaveKept
    BY <1>u, <2>1 DEF heapVars, SaveKept, EntriesTell, PrintedLast, InTree
  <2>. QED BY <1>u, <2>2 DEF heapVars, Accounted, Listed, InTree
<1>v. ~Undefined
  BY <1>1 DEF Undefined
<1>3. CASE UNCHANGED vars
  BY <1>1, <1>2, <1>3, <1>u DEF vars
<1>4. ASSUME NEW d \in Doc, NEW r \in Relevance, AddFile(d, r) PROVE Accounted'
  <2>1. process = "running"
    BY <1>4 DEF AddFile, Reading
  <2>. QED BY <1>2, <1>4, <2>1, AddOwned
<1>5. CASE FatalError
  BY <1>1, <1>5 DEF FatalError
<1>6. CASE InvalidCommand \/ HistoryCommand
  BY <1>2, <1>6, <1>u, <1>v DEF InvalidCommand, HistoryCommand, Reading
<1>7. CASE PrintCommand
  <2>1. process = "running" /\ map' = map
    BY <1>7 DEF PrintCommand, Reading
  <2>2. CASE heap.tree # <<>> /\ TakeTop
    BY <1>2, <2>1, <2>2, TakeTopOwned
  <2>3. CASE UNCHANGED heapVars
    BY <1>2, <1>u, <2>1, <2>3
  <2>. QED BY <1>7, <2>2, <2>3 DEF PrintCommand
<1>8. CASE Drain
  <2>1. process = "running" /\ map' = map
    BY <1>8 DEF Drain
  <2>2. CASE heap.tree # <<>> /\ TakeTop
    BY <1>2, <2>1, <2>2, TakeTopOwned
  <2>3. CASE UNCHANGED heapVars
    BY <1>2, <1>u, <2>1, <2>3
  <2>. QED BY <1>8, <2>2, <2>3 DEF Drain
<1>9. CASE ClearCommand
  <2>1. process = "running" /\ map' = map /\ Clear
    BY <1>9, <1>v DEF ClearCommand, Reading
  <2>. QED BY <1>2, <2>1, ClearOwned
<1>10. CASE SaveCommand
  <2>1. process = "running" /\ map' = map /\ Save
    BY <1>10 DEF SaveCommand, Reading
  <2>. QED BY <1>2, <2>1, SaveOwned
<1>11. CASE RevertCommand
  <2>1. process = "running" /\ map' = map /\ Revert /\ RevertIsSafe
    BY <1>11, <1>v DEF RevertCommand, Reading
  <2>. QED BY <1>2, <2>1, RevertOwned
<1>12. CASE Quit
  BY <1>1, <1>12, <1>v DEF Quit
<1>. QED BY <1>3, <1>4, <1>5, <1>6, <1>7, <1>8, <1>9, <1>10, <1>11, <1>12 DEF Next

LEMMA OwnInit == Init => OwnInv
<1>. SUFFICES ASSUME Init PROVE Accounted
  BY DEF OwnInv
<1>1. PICK q : q = <<>>
  OBVIOUS
<1>2. ToSet(q) = {} /\ IsInjective(q) /\ Len(q) = 0
  BY <1>1 DEF ToSet, IsInjective
<1>3. /\ heap.tree = q /\ dumpster = q /\ map \ freed = {}
      /\ numhistoricaldoc = 0 /\ lastsaveat = 0
  BY <1>1 DEF Init, HeapInit
<1>4. Owned(heap.tree, dumpster, map \ freed) /\ Listed
  BY <1>2, <1>3 DEF Owned, Listed, InTree
<1>5. 0 + 1 .. 0 = {} /\ 0 - 0 = 0 /\ 1 .. 0 = {}
  OBVIOUS
<1>6. SaveKept
  BY <1>2, <1>3, <1>5 DEF SaveKept, EntriesTell, UnsavedEntries, PrintedLast
<1>. QED BY <1>4, <1>6 DEF Accounted

(* For a user who reverts only what revert undoes right, each datapoint    *)
(* has one owner at all times, so clear and the end of main delete every   *)
(* one once and no one twice (myheap.cpp, clear and ~myheap).              *)
THEOREM DatapointsOwnedOnce ==
  ASSUME Careful = TRUE
  PROVE  Spec => []OwnedOnce
<1>1. TypeInv /\ OwnInv /\ [Next]_vars => OwnInv'
  BY OwnStep
<1>2. TypeInv /\ OwnInv => OwnedOnce
  <2>. SUFFICES ASSUME TypeInv, Accounted PROVE ToSet(Found) = map \ freed /\ IsInjective(Found)
    BY DEF OwnInv, OwnedOnce
  <2>1. heap.tree \in Seq(map) /\ dumpster \in Seq(map)
    BY DEF TypeInv, HeapTypes, HeapOf
  <2>. QED BY <2>1, OwnedIsFound DEF Found, Accounted
<1>. QED BY <1>1, <1>2, OwnInit, TypeHolds, PTL DEF Spec

-----------------------------------------------------------------------------
(* SearchQueue                                                             *)

(* Datapoint d has one entry among the first n.                            *)
Once(d, n) ==
  \E i \in 1 .. n : /\ historicaldoc[i] = d
                    /\ \A j \in 1 .. n : historicaldoc[j] = d => j = i

(* The inductive invariant: the heap is in order, "added" tells the adds   *)
(* and the prints of the history apart, a datapoint has an entry of its    *)
(* add and at most one of its print, and is in the tree if it has the      *)
(* first one only.                                                         *)
Told ==
  \A i \in 1 .. numhistoricaldoc :
    /\ added[historicaldoc[i]] # 0
    /\ ~FirstEntry(i) => added[historicaldoc[i]] = 1

AtMostTwice ==
  \A i, j, k \in 1 .. numhistoricaldoc :
    historicaldoc[i] = historicaldoc[j] /\ historicaldoc[j] = historicaldoc[k]
      => i = j \/ j = k \/ i = k

QueueKept ==
  /\ HeapOrdered(heap.tree, second)
  /\ Told /\ AtMostTwice
  /\ \A d \in Doc : d \in InTree <=> Once(d, numhistoricaldoc)

QueueInv == process = "running" => QueueKept

(* SavedDocs, read off the history, are the datapoints that               *)
(* had one entry, the one of their add, at the last save.                  *)
LEMMA SavedDocsAreOnce ==
  ASSUME lastsaveat \in Nat
  PROVE  SavedDocs = {d \in Doc : Once(d, lastsaveat)}
<1>. SUFFICES ASSUME NEW d \in Doc
              PROVE  Cardinality({i \in 1 .. lastsaveat : historicaldoc[i] = d}) = 1 <=> Once(d, lastsaveat)
  BY DEF SavedDocs
<1>. DEFINE S == {i \in 1 .. lastsaveat : historicaldoc[i] = d}
<1>1. IsFiniteSet(S)
  <2>1. IsFiniteSet(1 .. lastsaveat)
    BY FS_Interval
  <2>. QED BY <2>1, FS_Subset
<1>2. Cardinality(S) = 1 <=> \E i : S = {i}
  <2>1. ASSUME Cardinality(S) = 1 PROVE \E i : S = {i}
    BY <1>1, <2>1, FS_Singleton
  <2>2. ASSUME NEW i, S = {i} PROVE Cardinality(S) = 1
    BY <2>2, FS_Singleton
  <2>. QED BY <2>1, <2>2
<1>3. (\E i : S = {i}) <=> Once(d, lastsaveat)
  <2>1. ASSUME NEW i, S = {i} PROVE Once(d, lastsaveat)
    <3>1. i \in S /\ \A j \in S : j = i
      BY <2>1
    <3>. QED BY <3>1 DEF Once
  <2>2. ASSUME Once(d, lastsaveat) PROVE \E i : S = {i}
    <3>1. PICK i \in 1 .. lastsaveat : /\ historicaldoc[i] = d
                    /\ \A j \in 1 .. lastsaveat : historicaldoc[j] = d => j = i
      BY <2>2 DEF Once
    <3>2. S = {i}
      BY <3>1
    <3>. QED BY <3>2
  <2>. QED BY <2>1, <2>2
<1>. QED BY <1>2, <1>3

(* What printhistory prints of entry i.                                    *)
Line(i) == <<IF FirstEntry(i) THEN "Added" ELSE "Removed", historicaldoc[i]>>

LEMMA LineIsRight ==
  ASSUME TypeInv, Told, NEW i \in 1 .. numhistoricaldoc
  PROVE  HistoryLine(i) = Line(i)
<1>1. added[historicaldoc[i]] \in 0 .. 2 /\ added[historicaldoc[i]] # 0 /\ numhistoricaldoc \in Nat
  <2>1. historicaldoc[i] \in Doc
    BY EntryIsDoc
  <2>. QED BY <2>1 DEF Told, TypeInv, OtherTypes, HistoryTypes
<1>. DEFINE S == {j \in 1 .. i - 1 : historicaldoc[j] = historicaldoc[i]}
<1>2. IsFiniteSet(S)
  <2>1. IsFiniteSet(1 .. i - 1)
    BY <1>1, FS_Interval
  <2>. QED BY <2>1, FS_Subset
<1>3. CASE FirstEntry(i)
  <2>1. S = {}
    BY <1>3 DEF FirstEntry
  <2>2. EntriesBefore(i) = 0
    BY <2>1, FS_EmptySet DEF EntriesBefore
  <2>3. EntriesBefore(i) < added[historicaldoc[i]]
    BY <1>1, <2>2
  <2>. QED BY <1>3, <2>3 DEF HistoryLine, Line
<1>4. CASE ~FirstEntry(i)
  <2>1. S # {}
    BY <1>4 DEF FirstEntry
  <2>2. Cardinality(S) \in Nat /\ Cardinality(S) # 0
    BY <1>2, <2>1, FS_CardinalityType, FS_EmptySet
  <2>3. added[historicaldoc[i]] = 1
    BY <1>4 DEF Told
  <2>4. ~(EntriesBefore(i) < added[historicaldoc[i]])
    BY <2>2, <2>3 DEF EntriesBefore
  <2>. QED BY <1>4, <2>4 DEF HistoryLine, Line
<1>. QED BY <1>3, <1>4

(* The changes that SearchQueue keeps.                                     *)
From == IF stale THEN 0 ELSE lastsaveat

Changes == HistoryLines(From)

ChangesTold == TypeInv /\ Told /\ From <= numhistoricaldoc

LEMMA ChangesAre ==
  ChangesTold => \A a : a = From => Changes = [k \in 1 .. numhistoricaldoc - a |-> Line(a + k)]
<1>. SUFFICES ASSUME ChangesTold, NEW z, z = From
              PROVE  Changes = [k \in 1 .. numhistoricaldoc - z |-> Line(z + k)]
  OBVIOUS
<1>1. PICK n \in Nat : n = numhistoricaldoc
  BY DEF ChangesTold, TypeInv, HistoryTypes
<1>2. PICK a \in Nat : a = From /\ a <= n
  BY <1>1 DEF ChangesTold, TypeInv, HistoryTypes, From
<1>3. (IF n > a THEN n - a ELSE 0) = n - a
  BY <1>1, <1>2
<1>4. ASSUME NEW k \in 1 .. n - a PROVE HistoryLine(a + k) = Line(a + k)
  <2>1. a + k \in 1 .. n
    BY <1>2
  <2>. QED BY <1>1, <2>1, LineIsRight DEF ChangesTold
<1>5. Changes = [k \in 1 .. n - a |-> HistoryLine(a + k)]
  BY <1>1, <1>2, <1>3 DEF HistoryLines, Changes
<1>. QED BY <1>1, <1>2, <1>4, <1>5

LEMMA ChangesAreLater ==
  ChangesTold' => \A a : a = From' => Changes' = [k \in 1 .. numhistoricaldoc' - a |-> Line(a + k)']
<1>1. (ChangesTold => \A a : a = From => Changes = [k \in 1 .. numhistoricaldoc - a |-> Line(a + k)])'
  BY ChangesAre, PTL
<1>. QED BY <1>1

(* One more entry is one more change, the ones before stay as they are.    *)
LEMMA OneMoreChange ==
  ASSUME ChangesTold, ChangesTold', stale' = stale, lastsaveat' = lastsaveat, NEW d, Record(d),
         NEW i, i = numhistoricaldoc + 1
  PROVE  Changes' = Append(Changes, <<IF FirstEntry(i)' THEN "Added" ELSE "Removed", d>>)
<1>1. /\ numhistoricaldoc' = numhistoricaldoc + 1 /\ historicaldoc'[numhistoricaldoc + 1] = d
      /\ \A j \in 1 .. numhistoricaldoc : historicaldoc'[j] = historicaldoc[j]
  BY RecordedEntries DEF ChangesTold, TypeInv
<1>2. PICK n \in Nat : n = numhistoricaldoc
  BY DEF ChangesTold, TypeInv, HistoryTypes
<1>3. PICK a \in Nat : a = From /\ a <= n /\ From' = a
  BY <1>2 DEF ChangesTold, TypeInv, HistoryTypes, From
<1>4. Changes = [k \in 1 .. n - a |-> Line(a + k)]
  BY <1>2, <1>3, ChangesAre
<1>5. Changes' = [k \in 1 .. n + 1 - a |-> Line(a + k)']
  <2>1. Changes' = [k \in 1 .. numhistoricaldoc' - a |-> Line(a + k)']
    BY <1>3, ChangesAreLater
  <2>. QED BY <1>1, <1>2, <2>1
<1>6. \A j \in 1 .. n : Line(j)' = Line(j)
  <2>1. \A j \in 1 .. n : FirstEntry(j)' <=> FirstEntry(j)
    BY <1>1, <1>2, FirstKept
  <2>. QED BY <1>1, <1>2, <2>1 DEF Line
<1>7. Line(n + 1)' = <<IF FirstEntry(n + 1)' THEN "Added" ELSE "Removed", d>>
  BY <1>1, <1>2 DEF Line
<1>8. PICK e : e = <<IF FirstEntry(n + 1)' THEN "Added" ELSE "Removed", d>>
  OBVIOUS
<1>9. PICK m \in Nat : m = n - a /\ n + 1 - a = m + 1 /\ a + (m + 1) = n + 1
  BY <1>3
<1>10. \A k \in 1 .. m : a + k \in 1 .. n
  BY <1>3, <1>9
<1>11. PICK L : L = [k \in 1 .. m + 1 |-> Line(a + k)']
  OBVIOUS
<1>12. PICK c : c = [k \in 1 .. m |-> L[k]]
  OBVIOUS
<1>13. c = Changes
  <2>1. \A k \in 1 .. m : L[k] = Line(a + k)
    BY <1>6, <1>9, <1>10, <1>11
  <2>. QED BY <1>4, <1>9, <1>12, <2>1
<1>14. L[m + 1] = e
  BY <1>7, <1>8, <1>9, <1>11
<1>15. PICK V : V = {L[k] : k \in 1 .. m + 1}
  OBVIOUS
<1>16. \A k \in 1 .. m + 1 : L[k] \in V
  BY <1>15
<1>17. c \in Seq(V) /\ Len(c) = m /\ e \in V
  BY <1>12, <1>14, <1>16
<1>18. PICK w \in Seq(V) : w = Append(c, e)
  <2>1. c \in Seq(V) /\ e \in V
    BY <1>17
  <2>2. Append(c, e) \in Seq(V)
    BY <2>1
  <2>. QED BY <2>2
<1>19. Append(c, e) = L
  <2>1. Len(w) = m + 1 /\ w[m + 1] = e /\ \A k \in 1 .. m : w[k] = c[k]
    BY <1>17, <1>18
  <2>2. \A k \in 1 .. m + 1 : w[k] = L[k]
    <3>. TAKE k \in 1 .. m + 1
    <3>1. CASE k = m + 1
      BY <1>14, <2>1, <3>1
    <3>2. CASE k # m + 1
      <4>1. k \in 1 .. m
        BY <3>2
      <4>. QED BY <1>12, <2>1, <4>1
    <3>. QED BY <3>1, <3>2
  <2>3. w = [k \in 1 .. m + 1 |-> w[k]] /\ L = [k \in 1 .. m + 1 |-> L[k]]
    BY <1>11, <2>1
  <2>4. w = L
    BY <2>2, <2>3
  <2>. QED BY <1>18, <2>4
<1>. QED BY <1>2, <1>5, <1>8, <1>9, <1>11, <1>13, <1>19

LEMMA OnceMore ==
  ASSUME NEW n \in Nat, NEW d, historicaldoc'[n + 1] = d,
         \A i \in 1 .. n : historicaldoc'[i] = historicaldoc[i]
  PROVE  /\ \A e : e # d => (Once(e, n + 1)' <=> Once(e, n))
         /\ Once(d, n + 1)' <=> \A i \in 1 .. n : historicaldoc[i] # d
         /\ FirstEntry(n + 1)' <=> \A i \in 1 .. n : historicaldoc[i] # d
<1>1. 1 .. n + 1 = (1 .. n) \cup {n + 1} /\ n + 1 \notin 1 .. n /\ n + 1 - 1 = n
  OBVIOUS
<1>2. ASSUME NEW e, e # d PROVE Once(e, n + 1)' <=> Once(e, n)
  <2>1. ASSUME Once(e, n) PROVE Once(e, n + 1)'
    <3>1. PICK i \in 1 .. n : historicaldoc[i] = e /\ \A j \in 1 .. n : historicaldoc[j] = e => j = i
      BY <2>1 DEF Once
    <3>2. \A j \in 1 .. n + 1 : historicaldoc'[j] = e => j = i
      BY <1>1, <1>2, <3>1
    <3>. QED BY <1>1, <3>1, <3>2 DEF Once
  <2>2. ASSUME Once(e, n + 1)' PROVE Once(e, n)
    <3>1. PICK i \in 1 .. n + 1 : historicaldoc'[i] = e /\ \A j \in 1 .. n + 1 : historicaldoc'[j] = e => j = i
      BY <2>2 DEF Once
    <3>2. i \in 1 .. n
      BY <1>1, <1>2, <3>1
    <3>3. \A j \in 1 .. n : historicaldoc[j] = e => j = i
      BY <1>1, <3>1
    <3>. QED BY <3>1, <3>2, <3>3 DEF Once
  <2>. QED BY <2>1, <2>2
<1>3. Once(d, n + 1)' <=> \A i \in 1 .. n : historicaldoc[i] # d
  <2>1. ASSUME \A i \in 1 .. n : historicaldoc[i] # d PROVE Once(d, n + 1)'
    <3>1. n + 1 \in 1 .. n + 1 /\ \A j \in 1 .. n + 1 : historicaldoc'[j] = d => j = n + 1
      BY <1>1, <2>1
    <3>. QED BY <3>1 DEF Once
  <2>2. ASSUME Once(d, n + 1)', NEW i \in 1 .. n, historicaldoc[i] = d PROVE FALSE
    <3>1. \A j, k \in 1 .. n + 1 : historicaldoc'[j] = d /\ historicaldoc'[k] = d => j = k
      BY <2>2 DEF Once
    <3>2. i \in 1 .. n + 1 /\ n + 1 \in 1 .. n + 1 /\ i # n + 1
      BY <1>1
    <3>. QED BY <2>2, <3>1, <3>2
  <2>. QED BY <2>1, <2>2
<1>4. FirstEntry(n + 1)' <=> \A i \in 1 .. n : historicaldoc[i] # d
  BY <1>1 DEF FirstEntry
<1>. QED BY <1>2, <1>3, <1>4

(* One entry more of a datapoint that has at most one is within bounds.    *)
LEMMA TwiceMore ==
  ASSUME NEW n \in Nat, n = numhistoricaldoc, numhistoricaldoc' = n + 1,
         NEW d, historicaldoc'[n + 1] = d,
         \A i \in 1 .. n : historicaldoc'[i] = historicaldoc[i],
         AtMostTwice, \A i, j \in 1 .. n : historicaldoc[i] = d /\ historicaldoc[j] = d => i = j
  PROVE  AtMostTwice'
<1>1. 1 .. n + 1 = (1 .. n) \cup {n + 1} /\ n + 1 \notin 1 .. n
  OBVIOUS
<1>. SUFFICES ASSUME NEW i \in 1 .. n + 1, NEW j \in 1 .. n + 1, NEW k \in 1 .. n + 1,
                     historicaldoc'[i] = historicaldoc'[j], historicaldoc'[j] = historicaldoc'[k],
                     i # j, j # k, i # k
              PROVE  FALSE
  BY DEF AtMostTwice
<1>2. CASE i \in 1 .. n /\ j \in 1 .. n /\ k \in 1 .. n
  BY <1>2 DEF AtMostTwice
<1>3. CASE i = n + 1
  <2>1. j \in 1 .. n /\ k \in 1 .. n
    BY <1>1, <1>3
  <2>2. historicaldoc[j] = d /\ historicaldoc[k] = d
    BY <1>3, <2>1
  <2>. QED BY <2>1, <2>2
<1>4. CASE j = n + 1
  <2>1. i \in 1 .. n /\ k \in 1 .. n
    BY <1>1, <1>4
  <2>2. historicaldoc[i] = d /\ historicaldoc[k] = d
    BY <1>4, <2>1
  <2>. QED BY <2>1, <2>2
<1>5. CASE k = n + 1
  <2>1. i \in 1 .. n /\ j \in 1 .. n
    BY <1>1, <1>5
  <2>2. historicaldoc[i] = d /\ historicaldoc[j] = d
    BY <1>5, <2>1
  <2>. QED BY <2>1, <2>2
<1>. QED BY <1>1, <1>2, <1>3, <1>4, <1>5

(* A new file: its datapoint gets its first entry and goes into the tree.  *)
LEMMA AddQueue ==
  ASSUME TypeInv, QueueKept, NEW d \in Doc, NEW r \in Relevance, AddFile(d, r)
  PROVE  /\ QueueKept' /\ InTree' = InTree \cup {d} /\ d \notin InTree
         /\ FirstEntry(numhistoricaldoc)'
<1>1. /\ d \notin map /\ map' = map \cup {d} /\ Record(d)
      /\ added' = [added EXCEPT ![d] = 2] /\ heap' = Inserted(heap, second', d)
      /\ second' = [second EXCEPT ![d] = r]
  BY DEF AddFile, AddToHeap
<1>2. /\ heap \in HeapOf(Doc, Doc) /\ heap.tree \in Seq(Doc) /\ Len(heap.tree) \in Nat
      /\ second \in [Doc -> Nat] /\ map \subseteq Doc /\ heap.tree \in Seq(map)
      /\ added \in [Doc -> 0 .. 2]
  BY OrderTypes DEF TypeInv, HeapTypes, HeapOf, OtherTypes
<1>3. second' \in [Doc -> Nat] /\ \A e \in Doc : e # d => second'[e] = second[e]
  BY <1>1, <1>2, RelevanceIsNat
<1>4. PICK t \in Seq(map) : t = heap.tree /\ Len(t) \in Nat
  BY <1>2
<1>5. HeapOrdered(t, second')
  <2>. SUFFICES ASSUME NEW k \in 1 .. Len(t) - 1
                PROVE  ~Above(second', Element(t, k), Element(t, ParentOf(k)))
    BY DEF HeapOrdered
  <2>1. k \in Nat \ {0} /\ k + 1 \in 1 .. Len(t)
    BY <1>4
  <2>2. ParentOf(k) \in Nat /\ ParentOf(k) < k
    BY <2>1, ParentIsLess
  <2>3. ParentOf(k) + 1 \in 1 .. Len(t)
    BY <1>4, <2>1, <2>2
  <2>4. PICK a \in map, b \in map : a = Element(t, k) /\ b = Element(t, ParentOf(k))
    BY <2>1, <2>3 DEF Element
  <2>5. ~Above(second, a, b)
    BY <1>4, <2>4 DEF QueueKept, HeapOrdered
  <2>6. second'[a] = second[a] /\ second'[b] = second[b]
    BY <1>1, <1>2, <1>3, <2>4
  <2>. QED BY <2>4, <2>5, <2>6 DEF Above
<1>6. HeapOrdered(heap'.tree, second')
  BY <1>1, <1>2, <1>3, <1>4, <1>5, InsertedOrders
<1>7. InTree' = InTree \cup {d} /\ d \notin InTree
  <2>1. SameElements(Append(heap.tree, d), heap'.tree)
    BY <1>1, <1>2, InsertedKeeps
  <2>2. ToSet(Append(heap.tree, d)) = ToSet(heap.tree) \cup {d}
    BY <1>2, AppendedElements
  <2>3. d \notin ToSet(t)
    BY <1>1 DEF ToSet
  <2>. QED BY <1>4, <2>1, <2>2, <2>3 DEF SameElements, InTree
<1>8. PICK n \in Nat : n = numhistoricaldoc
  BY DEF TypeInv, HistoryTypes
<1>9. /\ numhistoricaldoc' = n + 1 /\ historicaldoc'[n + 1] = d
      /\ \A i \in 1 .. n : historicaldoc'[i] = historicaldoc[i]
  BY <1>1, <1>8, RecordedEntries DEF TypeInv
<1>10. \A i \in 1 .. n : historicaldoc[i] \in Doc /\ historicaldoc[i] # d
  BY <1>1, <1>8, EntryIsDoc
<1>11. /\ \A e : e # d => (Once(e, n + 1)' <=> Once(e, n))
       /\ Once(d, n + 1)' /\ FirstEntry(n + 1)'
  BY <1>9, <1>10, OnceMore
<1>12. FirstEntry(numhistoricaldoc)'
  BY <1>9, <1>11 DEF FirstEntry
<1>13. AtMostTwice'
  BY <1>8, <1>9, <1>10, TwiceMore DEF QueueKept
<1>14. Told'
  <2>. SUFFICES ASSUME NEW i \in 1 .. n + 1
                PROVE  /\ added'[historicaldoc'[i]] # 0
                       /\ ~FirstEntry(i)' => added'[historicaldoc'[i]] = 1
    BY <1>9 DEF Told
  <2>1. CASE i = n + 1
    BY <1>1, <1>2, <1>9, <1>11, <2>1
  <2>2. CASE i # n + 1
    <3>1. i \in 1 .. n
      BY <2>2
    <3>2. FirstEntry(i)' <=> FirstEntry(i)
      BY <1>8, <1>9, <3>1, FirstKept
    <3>3. historicaldoc'[i] = historicaldoc[i] /\ added'[historicaldoc[i]] = added[historicaldoc[i]]
      BY <1>1, <1>2, <1>9, <1>10, <3>1
    <3>. QED BY <1>8, <3>1, <3>2, <3>3 DEF QueueKept, Told
  <2>. QED BY <2>1, <2>2
<1>15. \A e \in Doc : e \in InTree' <=> Once(e, numhistoricaldoc)'
  <2>1. \A e \in Doc : e \in InTree' <=> Once(e, n + 1)'
    BY <1>7, <1>8, <1>11 DEF QueueKept
  <2>. QED BY <1>9, <2>1 DEF Once
<1>. QED BY <1>6, <1>7, <1>12, <1>13, <1>14, <1>15 DEF QueueKept

(* print takes the datapoint that the others stand below, and its entry is *)
(* the second one.                                                         *)
LEMMA TakeTopQueue ==
  ASSUME TypeInv, Accounted, QueueKept, TakeTop, heap.tree # <<>>,
         NEW top, top = Element(heap.tree, 0)
  PROVE  /\ QueueKept' /\ top \in Doc /\ top \in InTree /\ InTree' = InTree \ {top}
         /\ ~FirstEntry(numhistoricaldoc)'
         /\ \A e \in InTree \ {top} : Above(second, top, e)
<1>1. /\ added' = [added EXCEPT ![top] = 1] /\ Record(top)
      /\ heap' = Printed(heap, second) /\ second' = second
  BY DEF TakeTop
<1>2. /\ heap \in HeapOf(Doc, Doc) /\ heap.tree \in Seq(Doc) /\ Len(heap.tree) \in Nat
      /\ second \in [Doc -> Nat] /\ added \in [Doc -> 0 .. 2]
  BY OrderTypes DEF TypeInv, OtherTypes
<1>3. PICK t \in Seq(Doc) : t = heap.tree /\ Len(t) \in Nat \ {0} /\ DOMAIN t = 1 .. Len(t)
  <2>1. PICK t \in Seq(Doc) : t = heap.tree
    BY <1>2
  <2>2. t # <<>> /\ Len(t) \in Nat /\ DOMAIN t = 1 .. Len(t)
    BY <2>1
  <2>3. Len(t) # 0
    BY <2>2
  <2>. QED BY <2>1, <2>2, <2>3
<1>4. top = t[1] /\ top \in Doc /\ top \in InTree
  <2>1. 1 \in 1 .. Len(t) /\ top = t[1]
    BY <1>3 DEF Element
  <2>2. t[1] \in Doc /\ t[1] \in ToSet(t)
    BY <1>3, <2>1 DEF ToSet
  <2>. QED BY <1>3, <2>1, <2>2 DEF InTree
<1>5. HeapOrdered(heap'.tree, second')
  BY <1>1, <1>2, PrintedOrders DEF QueueKept
<1>6. InTree' = InTree \ {top}
  <2>1. IsInjective(heap.tree)
    BY DEF Accounted, Owned
  <2>2. /\ ToSet(heap'.tree) \cup {top} = ToSet(heap.tree) /\ top \notin ToSet(heap'.tree)
    <3>1. top = heap.tree[1] /\ heap \in HeapOf(map, Doc) /\ map \subseteq Doc
      BY <1>3, <1>4 DEF TypeInv, HeapTypes, OtherTypes
    <3>2. /\ ToSet(Printed(heap, second).tree) \cup {heap.tree[1]} = ToSet(heap.tree)
          /\ IsInjective(heap.tree) => heap.tree[1] \notin ToSet(Printed(heap, second).tree)
      BY <3>1, PrintedKeeps
    <3>. QED BY <1>1, <2>1, <3>1, <3>2
  <2>. QED BY <2>2 DEF InTree
<1>7. \A e \in InTree \ {top} : Above(second, top, e)
  <2>. SUFFICES ASSUME NEW e \in InTree, e # top PROVE Above(second, top, e)
    OBVIOUS
  <2>1. PICK k \in 1 .. Len(t) : e = t[k]
    BY <1>3 DEF InTree, ToSet
  <2>2. k - 1 \in 0 .. Len(t) - 1 /\ (k - 1) + 1 = k
    BY <1>3
  <2>3. Element(t, k - 1) = e /\ Element(t, 0) = top
    BY <1>3, <1>4, <2>1, <2>2 DEF Element
  <2>4. ~Above(second, Element(t, k - 1), Element(t, 0))
    BY <1>2, <1>3, <2>2, RootIsBest DEF QueueKept
  <2>5. e \in Doc /\ second[e] \in Nat /\ second[top] \in Nat /\ e \in Nat /\ top \in Nat
    BY <1>2, <1>3, <1>4, <2>1, DocAssumption
  <2>. QED BY <2>3, <2>4, <2>5 DEF Above
<1>8. PICK n \in Nat : n = numhistoricaldoc
  BY DEF TypeInv, HistoryTypes
<1>9. /\ numhistoricaldoc' = n + 1 /\ historicaldoc'[n + 1] = top
      /\ \A i \in 1 .. n : historicaldoc'[i] = historicaldoc[i]
  BY <1>1, <1>8, RecordedEntries DEF TypeInv
<1>10. \A i \in 1 .. n : historicaldoc[i] \in Doc
  BY <1>8, EntryIsDoc
<1>11. PICK m \in 1 .. n : historicaldoc[m] = top /\ \A j \in 1 .. n : historicaldoc[j] = top => j = m
  BY <1>4, <1>8 DEF QueueKept, Once
<1>12. /\ \A e : e # top => (Once(e, n + 1)' <=> Once(e, n))
       /\ ~Once(top, n + 1)' /\ ~FirstEntry(n + 1)'
  BY <1>9, <1>11, OnceMore
<1>13. ~FirstEntry(numhistoricaldoc)'
  BY <1>9, <1>12 DEF FirstEntry
<1>14. AtMostTwice'
  BY <1>8, <1>9, <1>11, TwiceMore DEF QueueKept
<1>15. Told'
  <2>. SUFFICES ASSUME NEW i \in 1 .. n + 1
                PROVE  /\ added'[historicaldoc'[i]] # 0
                       /\ ~FirstEntry(i)' => added'[historicaldoc'[i]] = 1
    BY <1>9 DEF Told
  <2>0. added'[top] = 1 /\ \A d \in Doc : d # top => added'[d] = added[d]
    BY <1>1, <1>2, <1>4
  <2>1. CASE historicaldoc'[i] = top
    BY <2>0, <2>1
  <2>2. CASE historicaldoc'[i] # top
    <3>1. i \in 1 .. n
      BY <1>9, <2>2
    <3>2. FirstEntry(i)' <=> FirstEntry(i)
      BY <1>8, <1>9, <3>1, FirstKept
    <3>3. historicaldoc'[i] = historicaldoc[i] /\ added'[historicaldoc[i]] = added[historicaldoc[i]]
      BY <1>9, <1>10, <2>0, <2>2, <3>1
    <3>. QED BY <1>8, <3>1, <3>2, <3>3 DEF QueueKept, Told
  <2>. QED BY <2>1, <2>2
<1>16. \A e \in Doc : e \in InTree' <=> Once(e, numhistoricaldoc)'
  <2>1. \A e \in Doc : e \in InTree' <=> Once(e, n + 1)'
    BY <1>6, <1>8, <1>12 DEF QueueKept
  <2>. QED BY <1>9, <2>1 DEF Once
<1>. QED BY <1>4, <1>5, <1>6, <1>7, <1>13, <1>14, <1>15, <1>16 DEF QueueKept

(* clear leaves no tree and no history.                                    *)
LEMMA ClearQueue ==
  ASSUME TypeInv, Clear
  PROVE  QueueKept' /\ InTree' = {} /\ numhistoricaldoc' = 0
<1>1. PICK q : q = <<>>
  OBVIOUS
<1>2. ToSet(q) = {} /\ Len(q) = 0
  BY <1>1 DEF ToSet
<1>3. heap'.tree = q /\ numhistoricaldoc' = 0
  BY <1>1 DEF Clear, TypeInv, HeapTypes, HeapOf
<1>4. 1 .. 0 = {} /\ 1 .. 0 - 1 = {}
  OBVIOUS
<1>5. InTree' = {}
  BY <1>2, <1>3 DEF InTree
<1>6. HeapOrdered(heap'.tree, second')
  BY <1>2, <1>3, <1>4 DEF HeapOrdered
<1>7. Told' /\ AtMostTwice'
  BY <1>3, <1>4 DEF Told, AtMostTwice
<1>8. \A e \in Doc : ~Once(e, numhistoricaldoc)'
  BY <1>3, <1>4 DEF Once
<1>. QED BY <1>3, <1>5, <1>6, <1>7, <1>8 DEF QueueKept

(* Of the first n entries of a history nothing changes.                    *)
LEMMA OnceKept ==
  ASSUME NEW n \in Nat, \A i \in 1 .. n : historicaldoc'[i] = historicaldoc[i], NEW d
  PROVE  Once(d, n)' <=> Once(d, n)
BY DEF Once

LEMMA SaveQueue ==
  ASSUME TypeInv, QueueKept, Save
  PROVE  QueueKept' /\ InTree' = InTree /\ SavedDocs' = InTree
<1>1. PICK n \in Nat : n = numhistoricaldoc
  BY DEF TypeInv, HistoryTypes
<1>2. \A i \in 1 .. n : historicaldoc'[i] = historicaldoc[i]
  BY <1>1, ForgottenEntries DEF Save, TypeInv
<1>3. /\ heap' = heap /\ second' = second /\ added' = added
      /\ numhistoricaldoc' = n /\ lastsaveat' = n
  BY <1>1 DEF Save
<1>4. \A i \in 1 .. n : FirstEntry(i)' <=> FirstEntry(i)
  BY <1>1, <1>2, FirstKept
<1>5. Told'
  BY <1>1, <1>2, <1>3, <1>4 DEF QueueKept, Told
<1>6. AtMostTwice'
  BY <1>1, <1>2, <1>3 DEF QueueKept, AtMostTwice
<1>7. \A d : Once(d, n)' <=> Once(d, n)
  BY <1>2, OnceKept
<1>8. \A d \in Doc : d \in InTree <=> Once(d, n)
  BY <1>1 DEF QueueKept
<1>9. \A d \in Doc : d \in InTree' <=> Once(d, numhistoricaldoc)'
  <2>1. \A d \in Doc : d \in InTree' <=> Once(d, n)'
    BY <1>3, <1>7, <1>8 DEF InTree
  <2>. QED BY <1>3, <2>1 DEF Once
<1>10. SavedDocs' = InTree
  <2>1. SavedDocs' = {d \in Doc : Once(d, n)'}
    <3>1. (lastsaveat \in Nat => SavedDocs = {d \in Doc : Once(d, lastsaveat)})'
      BY SavedDocsAreOnce, PTL
    <3>2. SavedDocs' = {d \in Doc : Once(d, lastsaveat)'}
      BY <1>1, <1>3, <3>1
    <3>. QED BY <1>3, <3>2 DEF Once
  <2>2. InTree \subseteq Doc
    BY OrderTypes DEF InTree, ToSet
  <2>. QED BY <1>7, <1>8, <2>1, <2>2
<1>. QED BY <1>3, <1>5, <1>6, <1>9, <1>10 DEF QueueKept, InTree

(* A safe revert: what entered the tree since the save leaves it, what     *)
(* left it comes back, in the order of the heap, and the datapoints that   *)
(* are in the tree then are those of the last save.                        *)
LEMMA RevertQueue ==
  ASSUME TypeInv, Accounted, QueueKept, Revert, RevertIsSafe
  PROVE  QueueKept' /\ InTree' = SavedDocs
<1>1. ~stale /\ SaveKept
  BY DEF RevertIsSafe, Accounted
<1>2. PICK a \in Nat, b \in Nat : a = lastsaveat /\ b = numhistoricaldoc /\ a <= b
  BY <1>1 DEF TypeInv, HistoryTypes, SaveKept
<1>3. /\ heap' = Reverted.heap /\ second' = second /\ added' = added /\ numhistoricaldoc' = a
      /\ \A i \in 1 .. a : historicaldoc'[i] = historicaldoc[i]
  BY <1>2, ForgottenEntries DEF Revert, TypeInv
<1>4. \A i \in 1 .. b : i \in UnsavedEntries <=> i \notin 1 .. a
  BY <1>2 DEF UnsavedEntries
<1>5. \A i \in 1 .. a : i \in 1 .. b
  BY <1>2
<1>6. \A i \in UnsavedEntries : i \in 1 .. b /\ i \notin 1 .. a
  BY <1>2 DEF UnsavedEntries
<1>7. \A d : d \in ToSet(Unsaved) <=> \E i \in UnsavedEntries : historicaldoc[i] = d
  BY <1>1, UnsavedAre
<1>8. \A d \in Doc : d \in InTree <=> Once(d, b)
  BY <1>2 DEF QueueKept
<1>9. ASSUME NEW d, d \notin ToSet(Unsaved) PROVE Once(d, a) <=> Once(d, b)
  <2>1. \A i \in 1 .. b : historicaldoc[i] = d => i \in 1 .. a
    BY <1>4, <1>7, <1>9
  <2>. QED BY <1>5, <2>1 DEF Once
<1>10. HeapOrdered(heap.tree, second)
  BY DEF QueueKept
<1>11. /\ \A d \in Doc : d \in ToSet(Reverted.heap.tree) <=> Once(d, a)
       /\ HeapOrdered(Reverted.heap.tree, second)
  <2>1. CASE OnlyPrints
    <3>1. /\ \A i \in UnsavedEntries : ~FirstEntry(i)
          /\ ToSet(Reverted.heap.tree) = InTree \cup ToSet(Unsaved)
          /\ HeapOrdered(Reverted.heap.tree, second)
      BY <1>1, <1>10, <2>1, PrintsReverted
    <3>2. ASSUME NEW d \in Doc, d \in ToSet(Unsaved) PROVE Once(d, a)
      <4>1. PICK i \in UnsavedEntries : historicaldoc[i] = d
        BY <1>7, <3>2
      <4>2. PICK j \in 1 .. b : historicaldoc[j] = historicaldoc[i] /\ FirstEntry(j)
        BY <1>6, FirstExists
      <4>3. j \in 1 .. a
        BY <1>4, <3>1, <4>2
      <4>4. ASSUME NEW k \in 1 .. a, historicaldoc[k] = d PROVE k = j
        <5>1. i \in 1 .. b /\ j \in 1 .. b /\ k \in 1 .. b /\ k # i /\ i # j
          BY <1>5, <1>6, <4>3
        <5>2. historicaldoc[i] = historicaldoc[j] /\ historicaldoc[j] = historicaldoc[k]
          BY <4>1, <4>2, <4>4
        <5>. QED BY <1>2, <5>1, <5>2 DEF QueueKept, AtMostTwice
      <4>. QED BY <4>1, <4>2, <4>3, <4>4 DEF Once
    <3>3. ASSUME NEW d \in Doc, d \in InTree PROVE d \notin ToSet(Unsaved)
      <4>. SUFFICES ASSUME NEW i \in UnsavedEntries, historicaldoc[i] = d PROVE FALSE
        BY <1>7
      <4>1. i \in 1 .. b /\ ~FirstEntry(i)
        BY <1>6, <3>1
      <4>2. PICK j \in 1 .. i - 1 : historicaldoc[j] = d
        BY <4>1 DEF FirstEntry
      <4>3. j \in 1 .. b /\ j # i
        BY <1>2, <4>1
      <4>4. \A k, m \in 1 .. b : historicaldoc[k] = d /\ historicaldoc[m] = d => k = m
        BY <1>8, <3>3 DEF Once
      <4>. QED BY <4>1, <4>2, <4>3, <4>4
    <3>. QED BY <1>8, <1>9, <3>1, <3>2, <3>3
  <2>2. CASE OnlyAddsInPlace
    <3>1. /\ ToSet(Unsaved) \subseteq InTree
          /\ ToSet(Reverted.heap.tree) = InTree \ ToSet(Unsaved)
          /\ HeapOrdered(Reverted.heap.tree, second)
      BY <1>1, <1>10, <2>2, AddsReverted
    <3>2. ASSUME NEW d \in Doc, d \in ToSet(Unsaved) PROVE ~Once(d, a)
      <4>1. PICK i \in UnsavedEntries : historicaldoc[i] = d
        BY <1>7, <3>2
      <4>2. \A k, m \in 1 .. b : historicaldoc[k] = d /\ historicaldoc[m] = d => k = m
        BY <1>8, <3>1, <3>2 DEF Once
      <4>3. \A j \in 1 .. a : historicaldoc[j] # d
        BY <1>5, <1>6, <4>1, <4>2
      <4>. QED BY <4>3 DEF Once
    <3>. QED BY <1>8, <1>9, <3>1, <3>2
  <2>. QED BY <2>1, <2>2 DEF RevertIsSafe
<1>12. HeapOrdered(heap'.tree, second')
  BY <1>3, <1>11
<1>13. Told'
  <2>. SUFFICES ASSUME NEW i \in 1 .. a
                PROVE  /\ added'[historicaldoc'[i]] # 0
                       /\ ~FirstEntry(i)' => added'[historicaldoc'[i]] = 1
    BY <1>3 DEF Told
  <2>1. \A j \in 1 .. i - 1 : j \in 1 .. a
    OBVIOUS
  <2>2. FirstEntry(i)' <=> FirstEntry(i)
    BY <1>3, <2>1 DEF FirstEntry
  <2>. QED BY <1>2, <1>3, <1>5, <2>2 DEF QueueKept, Told
<1>14. AtMostTwice'
  BY <1>2, <1>3, <1>5 DEF QueueKept, AtMostTwice
<1>15. \A d \in Doc : Once(d, a)' <=> Once(d, a)
  BY <1>3, OnceKept
<1>16. InTree' = ToSet(Reverted.heap.tree)
  BY <1>3 DEF InTree
<1>17. \A d \in Doc : d \in InTree' <=> Once(d, numhistoricaldoc)'
  <2>1. \A d \in Doc : d \in InTree' <=> Once(d, a)'
    BY <1>11, <1>15, <1>16
  <2>. QED BY <1>3, <2>1 DEF Once
<1>18. InTree' = SavedDocs
  <2>1. SavedDocs = {d \in Doc : Once(d, a)}
    BY <1>2, SavedDocsAreOnce
  <2>2. InTree' \subseteq Doc
    <3>1. Undoing(Reverted, map) /\ map \subseteq Doc
      BY RevertedType, OrderTypes
    <3>2. Reverted.heap.tree \in Seq(map)
      BY <3>1 DEF Undoing, HeapOf
    <3>. QED BY <1>16, <3>1, <3>2 DEF ToSet
  <2>. QED BY <1>11, <1>16, <2>1, <2>2
<1>. QED BY <1>12, <1>13, <1>14, <1>17, <1>18 DEF QueueKept

LEMMA QueueStep ==
  ASSUME Careful = TRUE, TypeInv, OwnInv, QueueInv, [Next]_vars
  PROVE  QueueInv'
<1>1. SUFFICES ASSUME process' = "running" PROVE QueueKept'
  BY DEF QueueInv
<1>2. process = "running" => Accounted /\ QueueKept
  BY DEF OwnInv, QueueInv
<1>u. ASSUME QueueKept, UNCHANGED heapVars PROVE QueueKept'
  <2>1. /\ heap' = heap /\ second' = second /\ added' = added
        /\ historicaldoc' = historicaldoc /\ numhistoricaldoc' = numhistoricaldoc
    BY <1>u DEF heapVars
  <2>2. Told' /\ AtMostTwice'
    BY <1>u, <2>1 DEF QueueKept, Told, AtMostTwice, FirstEntry
  <2>3. \A d \in Doc : d \in InTree' <=> Once(d, numhistoricaldoc)'
    BY <1>u, <2>1 DEF QueueKept, Once, InTree
  <2>. QED BY <1>u, <2>1, <2>2, <2>3 DEF QueueKept
<1>v. ~Undefined
  BY <1>1 DEF Undefined
<1>3. CASE UNCHANGED vars
  BY <1>1, <1>2, <1>3, <1>u DEF vars
<1>4. ASSUME NEW d \in Doc, NEW r \in Relevance, AddFile(d, r) PROVE QueueKept'
  <2>1. process = "running"
    BY <1>4 DEF AddFile, Reading
  <2>. QED BY <1>2, <1>4, <2>1, AddQueue
<1>5. CASE FatalError
  BY <1>1, <1>5 DEF FatalError
<1>6. CASE InvalidCommand \/ HistoryCommand
  BY <1>2, <1>6, <1>u, <1>v DEF InvalidCommand, HistoryCommand, Reading
<1>7. CASE PrintCommand \/ Drain
  <2>1. process = "running"
    BY <1>7 DEF PrintCommand, Drain, Reading
  <2>2. CASE heap.tree # <<>> /\ TakeTop
    BY <1>2, <2>1, <2>2, TakeTopQueue
  <2>3. CASE UNCHANGED heapVars
    BY <1>2, <1>u, <2>1, <2>3
  <2>. QED BY <1>7, <2>2, <2>3 DEF PrintCommand, Drain
<1>8. CASE ClearCommand
  <2>1. Clear
    BY <1>8, <1>v DEF ClearCommand
  <2>. QED BY <2>1, ClearQueue
<1>9. CASE SaveCommand
  <2>1. process = "running" /\ Save
    BY <1>9 DEF SaveCommand, Reading
  <2>. QED BY <1>2, <2>1, SaveQueue
<1>10. CASE RevertCommand
  <2>1. process = "running" /\ Revert /\ RevertIsSafe
    BY <1>10, <1>v DEF RevertCommand, Reading
  <2>. QED BY <1>2, <2>1, RevertQueue
<1>11. CASE Quit
  BY <1>1, <1>11, <1>v DEF Quit
<1>. QED BY <1>3, <1>4, <1>5, <1>6, <1>7, <1>8, <1>9, <1>10, <1>11 DEF Next

-----------------------------------------------------------------------------
(* What holds as long as the process runs.                                 *)
Kept == TypeInv /\ Accounted /\ QueueKept

LEMMA KeptTold == Kept => ChangesTold
<1>. SUFFICES ASSUME Kept PROVE ChangesTold
  OBVIOUS
<1>1. From <= numhistoricaldoc
  BY DEF Kept, Accounted, SaveKept, From, TypeInv, HistoryTypes
<1>. QED BY <1>1 DEF Kept, QueueKept, ChangesTold

LEMMA KeptToldLater == Kept' => ChangesTold'
BY KeptTold, PTL

(* The queue at the last save.                                             *)
SavedSet == IF stale THEN {} ELSE SavedDocs

LEMMA SavedLater ==
  lastsaveat' \in Nat => SavedDocs' = {d \in Doc : Once(d, lastsaveat)'}
<1>1. (lastsaveat \in Nat => SavedDocs = {d \in Doc : Once(d, lastsaveat)})'
  BY SavedDocsAreOnce, PTL
<1>. QED BY <1>1

LEMMA SavedSame ==
  ASSUME lastsaveat \in Nat, lastsaveat' = lastsaveat, stale' = stale,
         ~stale => \A i \in 1 .. lastsaveat : historicaldoc'[i] = historicaldoc[i]
  PROVE  SavedSet' = SavedSet
<1>1. CASE stale
  BY <1>1 DEF SavedSet
<1>2. CASE ~stale
  <2>1. PICK a \in Nat : a = lastsaveat
    OBVIOUS
  <2>2. \A d : Once(d, a)' <=> Once(d, a)
    BY <1>2, <2>1, OnceKept
  <2>3. SavedDocs = {d \in Doc : Once(d, a)}
    BY <2>1, SavedDocsAreOnce
  <2>4. SavedDocs' = {d \in Doc : Once(d, a)'}
    <3>1. SavedDocs' = {d \in Doc : Once(d, lastsaveat)'}
      BY SavedLater
    <3>. QED BY <2>1, <3>1 DEF Once
  <2>. QED BY <1>2, <2>2, <2>3, <2>4 DEF SavedSet
<1>. QED BY <1>1, <1>2

LEMMA NoChanges ==
  ASSUME numhistoricaldoc' \in Nat, From' \in Nat, numhistoricaldoc' <= From'
  PROVE  Changes' = <<>>
<1>1. PICK n \in Nat : n = numhistoricaldoc'
  OBVIOUS
<1>2. PICK a \in Nat : a = From' /\ ~(n > a)
  BY <1>1
<1>3. Changes' = HistoryLines(a)'
  BY <1>2 DEF Changes, HistoryLines
<1>4. HistoryLines(a)' = [k \in 1 .. 0 |-> HistoryLine(a + k)']
  BY <1>1, <1>2 DEF HistoryLines
<1>5. 1 .. 0 = {}
  OBVIOUS
<1>. QED BY <1>3, <1>4, <1>5

LEMMA QueueSame ==
  ASSUME UNCHANGED heapVars
  PROVE  InTree' = InTree /\ second' = second /\ SavedSet' = SavedSet /\ Changes' = Changes
<1>1. InTree' = InTree /\ second' = second
  BY DEF heapVars, InTree
<1>2. SavedSet' = SavedSet
  BY DEF heapVars, SavedSet, SavedDocs
<1>3. Changes' = Changes
  BY DEF heapVars, Changes, From, HistoryLines, HistoryLine, EntriesBefore
<1>. QED BY <1>1, <1>2, <1>3

LEMMA ReadingIsSettled ==
  ASSUME OwedInv, Reading
  PROVE  outstandingprints = 0 \/ InTree = {}
<1>1. outstandingprints = 0 \/ heap.tree = <<>>
  BY DEF OwedInv, OwedOnlyWhenEmpty, Reading
<1>. QED BY <1>1 DEF InTree, ToSet

LEMMA AddIsAdd ==
  ASSUME Kept, Kept', OwedInv, NEW d \in Doc, NEW r \in Relevance, AddFile(d, r)
  PROVE  Queue!Add(d, r)
<1>1. /\ Record(d) /\ stale' = stale /\ lastsaveat' = lastsaveat /\ second' = [second EXCEPT ![d] = r]
      /\ out' = <<>> /\ outstandingprints' = outstandingprints /\ Reading
  BY DEF AddFile, AddToHeap
<1>2. outstandingprints = 0 \/ InTree = {}
  BY <1>1, ReadingIsSettled
<1>3. InTree' = InTree \cup {d} /\ d \notin InTree /\ FirstEntry(numhistoricaldoc)'
  BY AddQueue DEF Kept
<1>4. PICK n : n = numhistoricaldoc + 1
  OBVIOUS
<1>5. numhistoricaldoc' = n /\ \A i \in 1 .. numhistoricaldoc : historicaldoc'[i] = historicaldoc[i]
  BY <1>1, <1>4, RecordedEntries DEF Kept, TypeInv
<1>6. Changes' = Append(Changes, <<"Added", d>>)
  <2>1. FirstEntry(n)'
    BY <1>3, <1>5 DEF FirstEntry
  <2>2. Changes' = Append(Changes, <<IF FirstEntry(n)' THEN "Added" ELSE "Removed", d>>)
    BY <1>1, <1>4, KeptTold, KeptToldLater, OneMoreChange
  <2>. QED BY <2>1, <2>2
<1>7. SavedSet' = SavedSet
  <2>1. lastsaveat \in Nat /\ (~stale => \A i \in 1 .. lastsaveat : i \in 1 .. numhistoricaldoc)
    BY DEF Kept, Accounted, SaveKept, TypeInv, HistoryTypes
  <2>. QED BY <1>1, <1>5, <2>1, SavedSame
<1>. QED BY <1>1, <1>2, <1>3, <1>6, <1>7 DEF Queue!Add, Queue!Settled, SavedSet, Changes, From

LEMMA TakeTopIsTakes ==
  ASSUME Kept, Kept', TakeTop, heap.tree # <<>>, out' = <<<<"Result", Element(heap.tree, 0)>>>>
  PROVE  \E d \in Doc : Queue!Takes(d)
<1>1. PICK d : d = Element(heap.tree, 0)
  OBVIOUS
<1>2. /\ Record(d) /\ stale' = stale /\ lastsaveat' = lastsaveat /\ second' = second
      /\ out' = <<<<"Result", d>>>>
  BY <1>1 DEF TakeTop
<1>3. /\ d \in Doc /\ d \in InTree /\ InTree' = InTree \ {d}
      /\ ~FirstEntry(numhistoricaldoc)'
      /\ \A e \in InTree \ {d} : Above(second, d, e)
  BY <1>1, TakeTopQueue DEF Kept
<1>4. PICK n : n = numhistoricaldoc + 1
  OBVIOUS
<1>5. numhistoricaldoc' = n /\ \A i \in 1 .. numhistoricaldoc : historicaldoc'[i] = historicaldoc[i]
  BY <1>2, <1>4, RecordedEntries DEF Kept, TypeInv
<1>6. Changes' = Append(Changes, <<"Removed", d>>)
  <2>1. ~FirstEntry(n)'
    BY <1>3, <1>5 DEF FirstEntry
  <2>2. Changes' = Append(Changes, <<IF FirstEntry(n)' THEN "Added" ELSE "Removed", d>>)
    BY <1>2, <1>4, KeptTold, KeptToldLater, OneMoreChange
  <2>. QED BY <2>1, <2>2
<1>7. SavedSet' = SavedSet
  <2>1. lastsaveat \in Nat /\ (~stale => \A i \in 1 .. lastsaveat : i \in 1 .. numhistoricaldoc)
    BY DEF Kept, Accounted, SaveKept, TypeInv, HistoryTypes
  <2>. QED BY <1>2, <1>5, <2>1, SavedSame
<1>8. Queue!Best(d)
  BY <1>3 DEF Queue!Best, Queue!Precedes, Above
<1>9. Queue!Takes(d)
  BY <1>2, <1>3, <1>6, <1>7, <1>8 DEF Queue!Takes, SavedSet, Changes, From
<1>. QED BY <1>3, <1>9

LEMMA ClearIsEmpty ==
  ASSUME TypeInv, OwedInv, Reading, Clear, out' = NoResults, outstandingprints' = 0
  PROVE  Queue!Empty
<1>1. outstandingprints = 0 \/ InTree = {}
  BY ReadingIsSettled
<1>2. InTree' = {} /\ numhistoricaldoc' = 0 /\ second' = second
  BY ClearQueue DEF Clear
<1>3. PICK a \in Nat : a = lastsaveat /\ lastsaveat' = a
  BY DEF TypeInv, HistoryTypes, Clear
<1>4. Changes' = <<>>
  <2>1. From' \in Nat /\ numhistoricaldoc' <= From' /\ numhistoricaldoc' \in Nat
    BY <1>2, <1>3 DEF From
  <2>. QED BY <2>1, NoChanges
<1>5. SavedSet' = {}
  <2>1. CASE stale'
    BY <2>1 DEF SavedSet
  <2>2. CASE ~stale'
    <3>1. ~(a > 0)
      BY <1>3, <2>2, Zenon DEF Clear
    <3>2. lastsaveat' = 0 /\ 1 .. 0 = {}
      BY <1>3, <3>1
    <3>3. SavedDocs' = {d \in Doc : Once(d, lastsaveat)'}
      BY <3>2, SavedLater
    <3>4. \A d : ~Once(d, lastsaveat)'
      BY <3>2 DEF Once
    <3>. QED BY <2>2, <3>3, <3>4 DEF SavedSet
  <2>. QED BY <2>1, <2>2
<1>6. out' = [i \in 1 .. outstandingprints |-> <<"No results", 0>>]
  BY DEF NoResults
<1>. QED BY <1>1, <1>2, <1>4, <1>5, <1>6 DEF Queue!Empty, Queue!Settled, SavedSet, Changes, From

LEMMA SaveIsSave ==
  ASSUME Kept, OwedInv, SaveCommand
  PROVE  Queue!Save
<1>1. /\ Reading /\ Save /\ out' = <<>> /\ outstandingprints' = outstandingprints
      /\ second' = second /\ stale' = FALSE
  BY DEF SaveCommand, Save
<1>2. outstandingprints = 0 \/ InTree = {}
  BY <1>1, ReadingIsSettled
<1>3. InTree' = InTree /\ SavedDocs' = InTree
  BY <1>1, SaveQueue DEF Kept
<1>4. Changes' = <<>>
  <2>1. numhistoricaldoc' = numhistoricaldoc /\ lastsaveat' = numhistoricaldoc /\ numhistoricaldoc \in Nat
    BY <1>1 DEF Save, Kept, TypeInv, HistoryTypes
  <2>2. From' \in Nat /\ numhistoricaldoc' <= From' /\ numhistoricaldoc' \in Nat
    BY <1>1, <2>1 DEF From
  <2>. QED BY <2>2, NoChanges
<1>5. SavedSet' = InTree
  BY <1>1, <1>3 DEF SavedSet
<1>. QED BY <1>1, <1>2, <1>3, <1>4, <1>5 DEF Queue!Save, Queue!Settled, SavedSet, Changes, From

LEMMA RevertIsRevert ==
  ASSUME Kept, OwedInv, Reading, Revert, RevertIsSafe,
         out' = <<>>, outstandingprints' = outstandingprints
  PROVE  Queue!Revert
<1>1. outstandingprints = 0 \/ InTree = {}
  BY ReadingIsSettled
<1>2. InTree' = SavedDocs
  BY RevertQueue DEF Kept
<1>3. ~stale /\ stale' = stale /\ second' = second
  BY DEF RevertIsSafe, Revert
<1>4. lastsaveat \in Nat /\ lastsaveat' = lastsaveat /\ numhistoricaldoc' = lastsaveat
  BY DEF Revert, Kept, TypeInv, HistoryTypes
<1>5. Changes' = <<>>
  <2>1. From' \in Nat /\ numhistoricaldoc' <= From' /\ numhistoricaldoc' \in Nat
    BY <1>3, <1>4 DEF From
  <2>. QED BY <2>1, NoChanges
<1>6. SavedSet' = SavedSet
  <2>1. \A i \in 1 .. lastsaveat : historicaldoc'[i] = historicaldoc[i]
    BY ForgottenEntries DEF Revert, Kept, TypeInv
  <2>. QED BY <1>3, <1>4, <2>1, SavedSame
<1>7. InTree' = SavedSet
  BY <1>2, <1>3 DEF SavedSet
<1>. QED BY <1>1, <1>3, <1>5, <1>6, <1>7 DEF Queue!Revert, Queue!Settled, SavedSet, Changes, From

(* Lines that leave heap and count alone.                                  *)
LEMMA RefusedIsRefuse ==
  ASSUME OwedInv, Reading, UNCHANGED heapVars, out' = <<>>, outstandingprints' = outstandingprints
  PROVE  Queue!Refuse
<1>1. outstandingprints = 0 \/ InTree = {}
  BY ReadingIsSettled
<1>2. InTree' = InTree /\ second' = second /\ SavedSet' = SavedSet /\ Changes' = Changes
  BY QueueSame
<1>. QED BY <1>1, <1>2 DEF Queue!Refuse, Queue!Settled, SavedSet, Changes, From

LEMMA QueueInit == Init => QueueInv /\ Queue!Init
<1>. SUFFICES ASSUME Init PROVE QueueKept /\ Queue!Init
  BY DEF QueueInv
<1>1. PICK q : q = <<>>
  OBVIOUS
<1>2. ToSet(q) = {} /\ Len(q) = 0
  BY <1>1 DEF ToSet
<1>3. /\ heap.tree = q /\ second = [d \in Doc |-> 0] /\ out = <<>>
      /\ numhistoricaldoc = 0 /\ lastsaveat = 0 /\ stale = FALSE /\ outstandingprints = 0
  BY <1>1 DEF Init, HeapInit
<1>4. 1 .. 0 = {} /\ 1 .. 0 - 1 = {} /\ ~(0 > 0)
  OBVIOUS
<1>5. InTree = {}
  BY <1>2, <1>3 DEF InTree
<1>6. \A d : ~Once(d, 0)
  BY <1>4 DEF Once
<1>7. QueueKept
  BY <1>2, <1>3, <1>4, <1>5, <1>6 DEF QueueKept, HeapOrdered, Told, AtMostTwice
<1>8. SavedSet = {}
  BY <1>3, <1>6, SavedDocsAreOnce DEF SavedSet
<1>9. Changes = <<>>
  <2>1. Changes = [k \in 1 .. 0 |-> HistoryLine(0 + k)]
    BY <1>3, <1>4 DEF Changes, From, HistoryLines
  <2>. QED BY <1>4, <2>1
<1>10. Queue!Init
  BY <1>3, <1>5, <1>8, <1>9 DEF Queue!Init, SavedSet, Changes, From
<1>. QED BY <1>7, <1>10

(* Every step of P3Search is one of SearchQueue, or none.                  *)
LEMMA StepIsQueueStep ==
  ASSUME Careful = TRUE, TypeInv, TypeInv', OwnInv, OwnInv', QueueInv, QueueInv', OwedInv, [Next]_vars
  PROVE  [Queue!Next]_Queue!queueVars
<1>1. process = "running" => Kept
  BY DEF OwnInv, QueueInv, Kept
<1>2. process' = "running" => Kept'
  BY DEF OwnInv, QueueInv, Kept
<1>r. ASSUME Reading, UNCHANGED heapVars, out' = <<>>, outstandingprints' = outstandingprints
      PROVE  Queue!Next
  <2>1. Queue!Refuse
    BY <1>r, RefusedIsRefuse
  <2>. QED BY <2>1 DEF Queue!Next
<1>v. ASSUME Reading, Undefined PROVE Queue!Next
  BY <1>r, <1>v DEF Undefined
<1>s. ASSUME UNCHANGED <<heapVars, outstandingprints, out>> PROVE UNCHANGED Queue!queueVars
  <2>1. InTree' = InTree /\ second' = second /\ SavedSet' = SavedSet /\ Changes' = Changes
    BY <1>s, QueueSame
  <2>. QED BY <1>s, <2>1 DEF Queue!queueVars, SavedSet, Changes, From
<1>3. CASE UNCHANGED vars
  BY <1>3, <1>s DEF vars
<1>4. ASSUME NEW d \in Doc, NEW r \in Relevance, AddFile(d, r) PROVE Queue!Next
  <2>1. Kept /\ Kept'
    BY <1>1, <1>2, <1>4 DEF AddFile, Reading, Done
  <2>2. Queue!Add(d, r)
    BY <1>4, <2>1, AddIsAdd
  <2>. QED BY <2>2 DEF Queue!Next
<1>5. CASE FatalError \/ InvalidCommand
  BY <1>5, <1>r DEF FatalError, InvalidCommand
<1>6. CASE PrintCommand
  <2>1. Reading /\ Kept /\ Kept'
    BY <1>1, <1>2, <1>6 DEF PrintCommand, Reading, Done
  <2>2. outstandingprints = 0 \/ InTree = {}
    BY <2>1, ReadingIsSettled
  <2>3. CASE heap.tree # <<>> /\ TakeTop /\ UNCHANGED outstandingprints
             /\ out' = <<<<"Result", Element(heap.tree, 0)>>>>
    <3>1. PICK d \in Doc : Queue!Takes(d)
      BY <2>1, <2>3, TakeTopIsTakes
    <3>2. Queue!Answer(d)
      BY <2>2, <2>3, <3>1 DEF Queue!Answer, Queue!Settled
    <3>. QED BY <3>2 DEF Queue!Next
  <2>4. CASE heap.tree = <<>> /\ outstandingprints' = outstandingprints + 1 /\ out' = <<>> /\ UNCHANGED heapVars
    <3>1. InTree' = InTree /\ second' = second /\ SavedSet' = SavedSet /\ Changes' = Changes
      BY <2>4, QueueSame
    <3>2. InTree = {}
      BY <2>4 DEF InTree, ToSet
    <3>3. Queue!Wait
      BY <2>2, <2>4, <3>1, <3>2 DEF Queue!Wait, Queue!Settled, SavedSet, Changes, From
    <3>. QED BY <3>3 DEF Queue!Next
  <2>. QED BY <1>6, <2>3, <2>4 DEF PrintCommand
<1>7. CASE ClearCommand \/ Quit
  <2>1. CASE Undefined
    BY <1>7, <1>v, <2>1 DEF ClearCommand, Quit
  <2>2. CASE ~Undefined
    <3>1. Queue!Empty
      BY <1>7, <2>2, ClearIsEmpty DEF ClearCommand, Quit
    <3>. QED BY <3>1 DEF Queue!Next
  <2>. QED BY <2>1, <2>2
<1>8. CASE SaveCommand
  <2>1. Queue!Save
    BY <1>1, <1>8, SaveIsSave DEF SaveCommand, Reading
  <2>. QED BY <2>1 DEF Queue!Next
<1>9. CASE RevertCommand
  <2>1. Reading /\ Kept /\ RevertIsSafe
    BY <1>1, <1>9 DEF RevertCommand, Reading
  <2>2. CASE Undefined
    BY <1>v, <2>1, <2>2
  <2>3. CASE Revert /\ out' = <<>> /\ outstandingprints' = outstandingprints
    <3>1. Queue!Revert
      BY <2>1, <2>3, RevertIsRevert
    <3>. QED BY <3>1 DEF Queue!Next
  <2>. QED BY <1>9, <2>2, <2>3 DEF RevertCommand
<1>10. CASE HistoryCommand
  <2>1. Reading /\ Kept /\ ~stale
    BY <1>1, <1>10 DEF HistoryCommand, Reading, HistoryIsSafe
  <2>2. CASE Undefined
    BY <1>v, <2>1, <2>2
  <2>3. CASE out' = HistoryLines(lastsaveat) /\ UNCHANGED <<heapVars, outstandingprints>>
    <3>1. outstandingprints = 0 \/ InTree = {}
      BY <2>1, ReadingIsSettled
    <3>2. InTree' = InTree /\ second' = second /\ SavedSet' = SavedSet /\ Changes' = Changes
      BY <2>3, QueueSame
    <3>3. out' = Changes
      BY <2>1, <2>3 DEF Changes, From
    <3>4. Queue!History
      BY <2>3, <3>1, <3>2, <3>3 DEF Queue!History, Queue!Settled, SavedSet, Changes, From
    <3>. QED BY <3>4 DEF Queue!Next
  <2>. QED BY <1>10, <2>2, <2>3 DEF HistoryCommand
<1>11. CASE Drain
  <2>1. Kept /\ Kept'
    BY <1>1, <1>2, <1>11 DEF Drain
  <2>2. CASE UNCHANGED <<heapVars, outstandingprints, out>>
    BY <1>s, <2>2
  <2>3. CASE heap.tree # <<>> /\ TakeTop /\ out' = <<<<"Result", Element(heap.tree, 0)>>>>
    <3>1. PICK d \in Doc : Queue!Takes(d)
      BY <2>1, <2>3, TakeTopIsTakes
    <3>2. CASE outstandingprints > 0 /\ outstandingprints' = outstandingprints - 1
      <4>1. Queue!Settle(d)
        BY <3>1, <3>2 DEF Queue!Settle
      <4>. QED BY <4>1 DEF Queue!Next
    <3>3. CASE ~(outstandingprints > 0) /\ UNCHANGED outstandingprints
      <4>1. outstandingprints = 0
        BY <3>3 DEF OwedInv
      <4>2. Queue!Answer(d)
        BY <3>1, <3>3, <4>1 DEF Queue!Answer, Queue!Settled
      <4>. QED BY <4>2 DEF Queue!Next
    <3>. QED BY <1>11, <2>3, <3>2, <3>3 DEF Drain
  <2>. QED BY <1>11, <2>2, <2>3 DEF Drain
<1>. QED BY <1>3, <1>4, <1>5, <1>6, <1>7, <1>8, <1>9, <1>10, <1>11 DEF Next

(* What P3Search prints, and what is in its heap, is what a queue of       *)
(* documents with one save point has, for a user who reverts only what     *)
(* revert undoes right: the most relevant document is printed first, a     *)
(* request that waits is answered before the next line, and revert goes    *)
(* back to the last save (commandexec.cpp, myheap.cpp).                    *)
THEOREM SearchImplementsQueue ==
  ASSUME Careful = TRUE
  PROVE  Spec => ImplementsSearchQueue
<1>1. Init => TypeInv /\ OwnInv /\ QueueInv /\ OwedInv /\ Queue!Init
  BY TypeInit, OwnInit, OwedInit, QueueInit
<1>2. TypeInv /\ OwnInv /\ QueueInv /\ OwedInv /\ [Next]_vars
        => (TypeInv /\ OwnInv /\ QueueInv /\ OwedInv)'
  BY TypeStep, OwnStep, QueueStep, OwedSteps
<1>3. TypeInv /\ OwnInv /\ QueueInv /\ OwedInv /\ [Next]_vars
        /\ (TypeInv /\ OwnInv /\ QueueInv /\ OwedInv)'
        => [Queue!Next]_Queue!queueVars
  BY StepIsQueueStep
<1>. QED BY <1>1, <1>2, <1>3, PTL DEF Spec, ImplementsSearchQueue, Queue!Spec
=============================================================================
