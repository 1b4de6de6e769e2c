---------------------------- MODULE RankingProof ----------------------------
(* Theorems about P4Server: the servers are printed in order, however many *)
(* there are and whatever their properties, names and places.              *)
EXTENDS P4Server, FiniteSetTheorems, SequenceTheorems, TLAPS

-----------------------------------------------------------------------------
(* The inductive invariant *)

Frame == [begin : Nat, end : Nat, next : {"sortLeft", "sortRight", "merge", "take"}]

(* The second call of a frame is done with its first half sorted.          *)
LeftDone(k) ==
  stack[k].next \in {"merge", "take"} \/ (stack[k].next = "sortRight" /\ k = Len(stack))

(* What the call above frame k, and all above it, work on.                 *)
ChildBegin(c) == IF c.next = "sortRight" THEN c.begin ELSE Mid(c)
ChildEnd(c) == IF c.next = "sortRight" THEN Mid(c) ELSE c.end

FramesFit ==
  /\ stack[1].begin = 0 /\ stack[1].end = Len(mapvec)
  /\ \A k \in 1 .. Len(stack) :
       /\ stack[k].begin <= stack[k].end /\ stack[k].end <= Len(mapvec)
       /\ stack[k].next # "sortLeft" => stack[k].end - stack[k].begin > 1
       /\ k < Len(stack) => stack[k].next \in {"sortRight", "merge"}

ChildrenFit ==
  /\ \A k \in 1 .. Len(stack) - 1 :
       stack[k + 1].begin = ChildBegin(stack[k]) /\ stack[k + 1].end = ChildEnd(stack[k])
  /\ \A k, l \in 1 .. Len(stack) :
       k < l => ChildBegin(stack[k]) <= stack[l].begin /\ stack[l].end <= ChildEnd(stack[k])

HalvesDone ==
  /\ \A k \in 1 .. Len(stack) : LeftDone(k) => SortedIn(mapvec, stack[k].begin, Mid(stack[k]))
  /\ Top.next \in {"merge", "take"} => SortedIn(mapvec, Mid(Top), Top.end)

(* What is left in the halves goes after what was taken.                   *)
Merging ==
  /\ left  = [k \in 1 .. Mid(Top) - Top.begin |-> mapvec[Top.begin + k]]
  /\ right = [k \in 1 .. Top.end - Mid(Top) |-> mapvec[Mid(Top) + k]]
  /\ Len(result) = leftCtr + rightCtr
  /\ SortedIn(result, 0, Len(result))
  /\ \A k \in 1 .. Len(result) :
       /\ \A j \in leftCtr + 1 .. Len(left) : MyCompare(result[k], left[j])
       /\ \A j \in rightCtr + 1 .. Len(right) : MyCompare(result[k], right[j])

SortInv ==
  /\ stack # <<>>
  /\ FramesFit /\ ChildrenFit /\ HalvesDone
  /\ Top.next = "take" => Merging

ReadInv == pc = "compare" => numservs > 0

RankInv ==
  /\ TypeOK /\ ReadInv
  /\ pc = "sort" => SortInv
  /\ pc \in {"print", "done"} => SortedIn(mapvec, 0, Len(mapvec))

-----------------------------------------------------------------------------
(* Operators *)

LEMMA DistanceIsInt ==
  ASSUME NEW s \in Server PROVE Distance(s) \in Int
<1>1. s.xcoord \in Int /\ s.ycoord \in Int
  BY DEF Server
<1>2. \A x \in Int : x * x \in Int
  OBVIOUS
<1>. QED BY <1>1, <1>2 DEF Distance

LEMMA CompareIsAnOrder ==
  ASSUME NEW a \in Server, NEW b \in Server, NEW c \in Server
  PROVE  /\ MyCompare(a, b) \/ MyCompare(b, a)
         /\ MyCompare(a, b) /\ MyCompare(b, c) => MyCompare(a, c)
<1>1. /\ Distance(a) \in Int /\ Distance(b) \in Int /\ Distance(c) \in Int
  BY DistanceIsInt
<1>2. /\ a.relevance \in Nat /\ b.relevance \in Nat /\ c.relevance \in Nat
      /\ a.name \in Nat /\ b.name \in Nat /\ c.name \in Nat
  BY NameAssumption DEF Server
<1>. QED BY <1>1, <1>2 DEF MyCompare

LEMMA MidIsBetween ==
  ASSUME NEW c \in Frame, c.begin <= c.end
  PROVE  /\ Mid(c) \in Nat /\ c.begin <= Mid(c) /\ Mid(c) <= c.end
         /\ c.end - c.begin > 1 => c.begin < Mid(c) /\ Mid(c) < c.end
<1>1. c.begin \in Nat /\ c.end \in Nat
  BY DEF Frame
<1>. QED BY <1>1 DEF Mid

LEMMA ShareIsNat ==
  ASSUME NEW a \in Property, NEW b \in Property, NEW i \in Nat, i < GlobalSize
  PROVE  Share(a, b, i) \in Nat
<1>1. \A k : Differs(a, b, k) \in Nat
  BY DEF Differs
<1>2. ByteDifference(a, b, i) \in Nat
  BY <1>1 DEF ByteDifference
<1>3. GlobalSize \in Nat
  BY SizeAssumption DEF GlobalSize
<1>. QED BY <1>2, <1>3 DEF Share

-----------------------------------------------------------------------------
(* A step that leaves the sort alone *)

LEMMA SameSort ==
  ASSUME SortInv, UNCHANGED <<mapvec, stack, mergeVars>>
  PROVE  SortInv'
BY DEF SortInv, FramesFit, ChildrenFit, HalvesDone, Merging, LeftDone, Top, mergeVars

-----------------------------------------------------------------------------
(* A call returns, with its part of the vector in order *)

PartSorted ==
  /\ Len(mapvec') = Len(mapvec)
  /\ \A k \in 1 .. Len(mapvec) : k <= Top.begin \/ k > Top.end => mapvec'[k] = mapvec[k]
  /\ SortedIn(mapvec', Top.begin, Top.end)

LEMMA PopKeeps ==
  ASSUME TypeOK, SortInv, Return, pc = "sort", PartSorted
  PROVE  /\ pc' = "sort" => SortInv'
         /\ pc' = "print" => SortedIn(mapvec, 0, Len(mapvec))'
<1>a. stack \in Seq(Frame) /\ stack # <<>>
  BY DEF TypeOK, Frame, SortInv
<1>b. PICK n \in Nat : n = Len(stack) /\ n > 0
  BY <1>a
<1>c. stack' = SubSeq(stack, 1, n - 1)
  BY <1>b DEF Return
<1>d. PICK m \in Nat : m = Len(mapvec)
  BY DEF TypeOK
<1>2. \A k \in 1 .. n : stack[k] \in Frame /\ stack[k].begin \in Nat /\ stack[k].end \in Nat
  <2>. TAKE k \in 1 .. n
  <2>1. stack[k] \in Frame
    BY <1>a, <1>b, ElementOfSeq
  <2>. QED BY <2>1 DEF Frame
<1>3. \A k \in 1 .. n : stack[k].begin <= stack[k].end /\ stack[k].end <= Len(mapvec)
  BY <1>b, <1>d DEF SortInv, FramesFit
<1>4. \A k \in 1 .. n : Mid(stack[k]) \in Nat /\ stack[k].begin <= Mid(stack[k])
                          /\ Mid(stack[k]) <= stack[k].end
  BY <1>2, <1>3, MidIsBetween
<1>5. CASE n = 1
  <2>1. pc' = "print"
    BY <1>b, <1>5 DEF Return
  <2>2. Top.begin = 0 /\ Top.end = Len(mapvec)
    BY <1>b, <1>5 DEF SortInv, FramesFit, Top
  <2>. QED BY <2>1, <2>2 DEF PartSorted
<1>6. CASE n > 1
  <2>1. /\ Len(stack') = n - 1 /\ stack' # <<>>
        /\ \A k \in 1 .. n - 1 : stack'[k] = stack[k]
    <3>1. Len(stack') = n - 1 /\ \A k \in 1 .. n - 1 : stack'[k] = stack[k]
      BY <1>a, <1>b, <1>c, <1>6, SubSeqProperties
    <3>. QED BY <1>6, <3>1
  <2>2. /\ FramesFit' /\ ChildrenFit'
    <3>1. FramesFit'
      BY <1>b, <1>d, <1>6, <2>1, SMTT(20) DEF SortInv, FramesFit, PartSorted
    <3>2. ChildrenFit'
      <4>1. \A k \in 1 .. n - 2 :
               stack[k + 1].begin = ChildBegin(stack[k]) /\ stack[k + 1].end = ChildEnd(stack[k])
        BY <1>b, <1>d, SMTT(20) DEF SortInv, ChildrenFit
      <4>2. \A k, l \in 1 .. n - 1 :
               k < l => ChildBegin(stack[k]) <= stack[l].begin /\ stack[l].end <= ChildEnd(stack[k])
        BY <1>b, <1>d, SMTT(20) DEF SortInv, ChildrenFit
      <4>3. \A k \in 1 .. n - 1 : /\ ChildBegin(stack[k])' = ChildBegin(stack[k])
                                  /\ ChildEnd(stack[k])' = ChildEnd(stack[k])
        BY <2>1 DEF ChildBegin, ChildEnd, Mid
      <4>. QED BY <1>b, <1>d, <2>1, <4>1, <4>2, <4>3 DEF ChildrenFit
    <3>. QED BY <3>1, <3>2
  <2>3. Top' = stack[n - 1] /\ Top = stack[n]
    BY <1>b, <1>d, <1>6, <2>1 DEF Top
  <2>4. Top'.next \in {"sortRight", "merge"}
    BY <1>b, <1>d, <1>6, <2>3 DEF SortInv, FramesFit
  <2>5. Top.begin = ChildBegin(Top') /\ Top.end = ChildEnd(Top')
    BY <1>b, <1>d, <1>6, <2>3 DEF SortInv, ChildrenFit
  <2>6. ASSUME NEW k \in 1 .. n - 1, LeftDone(k)'
        PROVE  SortedIn(mapvec', stack[k].begin, Mid(stack[k]))
    <3>1. CASE stack[k].next = "sortRight"
      <4>1. k = n - 1
        BY <1>b, <1>d, <2>1, <2>6, <3>1 DEF LeftDone
      <4>. QED BY <2>3, <2>5, <3>1, <4>1 DEF ChildBegin, ChildEnd, PartSorted
    <3>2. CASE stack[k].next = "merge"
      <4>1. SortedIn(mapvec, stack[k].begin, Mid(stack[k]))
        BY <1>b, <1>d, <3>2 DEF SortInv, HalvesDone, LeftDone
      <4>2. Mid(stack[k]) <= Top.begin
        BY <1>b, <1>d, <1>6, <2>3, <3>2 DEF SortInv, ChildrenFit, ChildBegin
      <4>3. \A j \in stack[k].begin + 1 .. Mid(stack[k]) : mapvec'[j] = mapvec[j]
        BY <1>b, <1>d, <1>2, <1>3, <1>4, <2>3, <4>2, SMTT(20) DEF PartSorted
      <4>. QED BY <4>1, <4>3 DEF SortedIn
    <3>3. stack[k].next \in {"sortRight", "merge"}
      BY <1>b, <1>d, <1>6 DEF SortInv, FramesFit
    <3>. QED BY <3>1, <3>2, <3>3
  <2>7. HalvesDone'
    <3>1. \A k \in 1 .. n - 1 : LeftDone(k)' => SortedIn(mapvec', stack'[k].begin, Mid(stack'[k]))
      BY <2>1, <2>6
    <3>2. Top'.next = "merge" => SortedIn(mapvec', Mid(Top'), Top'.end)
      BY <2>5 DEF ChildBegin, ChildEnd, PartSorted
    <3>. QED BY <2>1, <2>4, <3>1, <3>2 DEF HalvesDone, Mid
  <2>8. SortInv'
    BY <2>1, <2>2, <2>4, <2>7 DEF SortInv
  <2>. QED BY <1>b, <1>6, <2>8 DEF Return
<1>7. n = 1 \/ n > 1
  BY <1>b
<1>. QED BY <1>5, <1>6, <1>7

-----------------------------------------------------------------------------
(* A call is made: frame c takes the place of the top *)

Calls(c) ==
  /\ stack' = Append([stack EXCEPT ![Len(stack)] = c], Call(ChildBegin(c), ChildEnd(c)))
  /\ c.begin = Top.begin /\ c.end = Top.end /\ c.end - c.begin > 1
  /\ \/ c.next = "sortRight"
     \/ c.next = "merge" /\ Top.next = "sortRight"
  /\ mapvec' = mapvec

LEMMA PushKeeps ==
  ASSUME TypeOK, SortInv, NEW c \in Frame, Calls(c)
  PROVE  SortInv' /\ stack' \in Seq(Frame)
<1>a. stack \in Seq(Frame) /\ stack # <<>>
  BY DEF TypeOK, Frame, SortInv
<1>b. PICK n \in Nat : n = Len(stack) /\ n > 0
  BY <1>a
<1>d. PICK m \in Nat : m = Len(mapvec)
  BY DEF TypeOK
<1>e. c.begin \in Nat /\ c.end \in Nat /\ c.begin <= c.end
  <2>1. c.begin \in Nat /\ c.end \in Nat
    BY DEF Frame
  <2>2. Top = stack[n] /\ Top.begin <= Top.end
    BY <1>b DEF SortInv, FramesFit, Top
  <2>. QED BY <2>1, <2>2 DEF Calls
<1>f. Mid(c) \in Nat /\ c.begin < Mid(c) /\ Mid(c) < c.end
  BY <1>e, MidIsBetween DEF Calls
<1>g. c.next \in {"sortRight", "merge"}
  BY DEF Calls
<1>. DEFINE d == Call(ChildBegin(c), ChildEnd(c))
            s == [stack EXCEPT ![n] = c]
<1>h. /\ d \in Frame /\ d.begin \in Nat /\ d.end \in Nat /\ d.next = "sortLeft"
      /\ d.begin = ChildBegin(c) /\ d.end = ChildEnd(c) /\ d.begin <= d.end
      /\ c.begin <= d.begin /\ d.end <= c.end
  BY <1>e, <1>f DEF Call, Frame, ChildBegin, ChildEnd
<1>i. s \in Seq(Frame) /\ Len(s) = n /\ s[n] = c /\ \A k \in 1 .. n - 1 : s[k] = stack[k]
  <2>1. /\ s \in Seq(Frame) /\ Len(s) = n
        /\ \A k \in 1 .. n : s[k] = IF k = n THEN c ELSE stack[k]
    BY <1>a, <1>b, ExceptSeq
  <2>. QED BY <1>b, <2>1
<1>j. stack' = Append(s, d)
  BY <1>b DEF Calls
<1>. HIDE DEF s, d
<1>k. /\ stack' \in Seq(Frame) /\ Len(stack') = n + 1 /\ stack' # <<>>
      /\ stack'[n] = c /\ stack'[n + 1] = d
      /\ \A k \in 1 .. n - 1 : stack'[k] = stack[k]
  <2>1. /\ stack' \in Seq(Frame) /\ stack' # <<>> /\ Len(stack') = n + 1 /\ stack'[n + 1] = d
        /\ \A k \in 1 .. n : stack'[k] = s[k]
    BY <1>h, <1>i, <1>j, AppendProperties
  <2>. QED BY <1>b, <1>i, <2>1
<1>l. Top = stack[n] /\ Top' = d
  BY <1>b, <1>k DEF Top
<1>m. \A k \in 1 .. n : stack[k].begin \in Nat /\ stack[k].end \in Nat
  <2>. TAKE k \in 1 .. n
  <2>1. stack[k] \in Frame
    BY <1>a, <1>b, ElementOfSeq
  <2>. QED BY <2>1 DEF Frame
<1>1. FramesFit'
  <2>1. /\ stack[1].begin = 0 /\ stack[1].end = m
        /\ \A k \in 1 .. n : /\ stack[k].begin <= stack[k].end /\ stack[k].end <= m
                             /\ stack[k].next # "sortLeft" => stack[k].end - stack[k].begin > 1
                             /\ k < n => stack[k].next \in {"sortRight", "merge"}
    BY <1>b, <1>d DEF SortInv, FramesFit
  <2>2. c.begin = stack[n].begin /\ c.end = stack[n].end /\ c.end - c.begin > 1 /\ mapvec' = mapvec
    BY <1>l DEF Calls
  <2>3. c.end <= m /\ d.end <= m
    BY <1>b, <1>d, <1>e, <1>h, <1>m, <2>1, <2>2
  <2>4. stack'[1].begin = 0 /\ stack'[1].end = m
    <3>1. CASE n = 1
      BY <1>k, <2>1, <2>2, <3>1
    <3>2. CASE n > 1
      BY <1>k, <2>1, <3>2
    <3>. QED BY <1>b, <3>1, <3>2
  <2>5. \A k \in 1 .. n + 1 : /\ stack'[k].begin <= stack'[k].end /\ stack'[k].end <= m
                              /\ stack'[k].next # "sortLeft" => stack'[k].end - stack'[k].begin > 1
                              /\ k < n + 1 => stack'[k].next \in {"sortRight", "merge"}
    <3>. TAKE k \in 1 .. n + 1
    <3>1. CASE k = n + 1
      BY <1>h, <1>k, <2>3, <3>1
    <3>2. CASE k = n
      BY <1>e, <1>g, <1>k, <2>2, <2>3, <3>2
    <3>3. CASE k \in 1 .. n - 1
      BY <1>b, <1>k, <2>1, <3>3
    <3>. QED BY <1>b, <3>1, <3>2, <3>3
  <2>. QED BY <1>d, <1>k, <2>2, <2>4, <2>5 DEF FramesFit
<1>2. ChildrenFit'
  <2>1. /\ \A k \in 1 .. n - 1 :
             stack[k + 1].begin = ChildBegin(stack[k]) /\ stack[k + 1].end = ChildEnd(stack[k])
        /\ \A k, l \in 1 .. n :
             k < l => ChildBegin(stack[k]) <= stack[l].begin /\ stack[l].end <= ChildEnd(stack[k])
    BY <1>b DEF SortInv, ChildrenFit
  <2>2. c.begin = stack[n].begin /\ c.end = stack[n].end
    BY <1>l DEF Calls
  <2>3. ASSUME NEW k \in 1 .. n
        PROVE  stack'[k + 1].begin = ChildBegin(stack'[k]) /\ stack'[k + 1].end = ChildEnd(stack'[k])
    <3>1. CASE k = n
      BY <1>h, <1>k, <3>1
    <3>2. CASE k < n - 1
      <4>1. k \in 1 .. n - 1 /\ k + 1 \in 1 .. n - 1
        BY <3>2
      <4>. QED BY <1>k, <2>1, <4>1
    <3>3. CASE k = n - 1
      BY <1>b, <1>k, <2>1, <2>2, <3>3
    <3>. QED BY <1>b, <3>1, <3>2, <3>3
  <2>4. ASSUME NEW k \in 1 .. n + 1, NEW l \in 1 .. n + 1, k < l
        PROVE  ChildBegin(stack'[k]) <= stack'[l].begin /\ stack'[l].end <= ChildEnd(stack'[k])
    <3>1. CASE k = n
      <4>1. l = n + 1
        BY <2>4, <3>1
      <4>. QED BY <1>h, <1>k, <3>1, <4>1
    <3>2. CASE k < n /\ l < n
      BY <1>k, <2>1, <2>4, <3>2
    <3>3. CASE k < n /\ l = n
      BY <1>k, <2>1, <2>2, <2>4, <3>3
    <3>4. CASE k < n /\ l = n + 1
      <4>1. ChildBegin(stack[k]) <= c.begin /\ c.end <= ChildEnd(stack[k])
        BY <2>1, <2>2, <3>4
      <4>2. ChildBegin(stack[k]) \in Nat /\ ChildEnd(stack[k]) \in Nat
        <5>1. stack[k] \in Frame /\ stack[k].begin \in Nat /\ stack[k].end \in Nat
          BY <1>a, <1>b, <1>m, <3>4, ElementOfSeq
        <5>2. stack[k].begin <= stack[k].end
          BY <1>b, <3>4 DEF SortInv, FramesFit
        <5>. QED BY <5>1, <5>2, MidIsBetween DEF ChildBegin, ChildEnd
      <4>3. ChildBegin(stack[k]) <= d.begin /\ d.end <= ChildEnd(stack[k])
        BY <1>e, <1>h, <4>1, <4>2
      <4>. QED BY <1>k, <3>4, <4>3
    <3>. QED BY <1>b, <2>4, <3>1, <3>2, <3>3, <3>4
  <2>5. \A k \in 1 .. Len(stack)' - 1 :
           /\ (stack[k + 1].begin = ChildBegin(stack[k]))'
           /\ (stack[k + 1].end = ChildEnd(stack[k]))'
    BY <1>k, <2>3 DEF ChildBegin, ChildEnd, Mid
  <2>. QED BY <1>k, <2>4, <2>5 DEF ChildrenFit, ChildBegin, ChildEnd, Mid
<1>3. HalvesDone'
  <2>1. ASSUME NEW k \in 1 .. n + 1, LeftDone(k)'
        PROVE  SortedIn(mapvec, stack'[k].begin, Mid(stack'[k]))
    <3>1. k # n + 1 /\ stack'[k].next \in {"merge", "take"}
      BY <1>h, <1>k, <2>1 DEF LeftDone
    <3>2. CASE k = n
      <4>1. c.next = "merge" /\ Top.next = "sortRight"
        BY <1>g, <1>k, <3>1, <3>2 DEF Calls
      <4>2. SortedIn(mapvec, Top.begin, Mid(Top))
        BY <1>b, <1>l, <4>1 DEF SortInv, HalvesDone, LeftDone
      <4>. QED BY <1>k, <3>2, <4>2 DEF Calls, Mid
    <3>3. CASE k < n
      <4>1. SortedIn(mapvec, stack[k].begin, Mid(stack[k]))
        BY <1>b, <1>k, <3>1, <3>3 DEF SortInv, HalvesDone, LeftDone
      <4>. QED BY <1>k, <3>3, <4>1
    <3>. QED BY <1>b, <3>1, <3>2, <3>3
  <2>2. Top'.next = "sortLeft" /\ mapvec' = mapvec
    BY <1>h, <1>l DEF Calls
  <2>. QED BY <1>k, <2>1, <2>2 DEF HalvesDone, Mid
<1>. QED BY <1>h, <1>k, <1>l, <1>1, <1>2, <1>3 DEF SortInv

-----------------------------------------------------------------------------
(* merge *)

LEMMA TopFits ==
  ASSUME TypeOK, SortInv
  PROVE  /\ Top \in Frame /\ Top.begin \in Nat /\ Top.end \in Nat
         /\ Top.begin <= Top.end /\ Top.end <= Len(mapvec)
         /\ Mid(Top) \in Nat /\ Top.begin <= Mid(Top) /\ Mid(Top) <= Top.end
<1>1. stack \in Seq(Frame) /\ stack # <<>>
  BY DEF TypeOK, Frame, SortInv
<1>2. PICK n \in Nat : n = Len(stack) /\ n > 0
  BY <1>1
<1>3. Top = stack[n] /\ stack[n] \in Frame
  BY <1>1, <1>2, ElementOfSeq DEF Top
<1>4. Top.begin <= Top.end /\ Top.end <= Len(mapvec)
  BY <1>2, <1>3 DEF SortInv, FramesFit
<1>5. Top.begin \in Nat /\ Top.end \in Nat
  BY <1>3 DEF Frame
<1>. QED BY <1>3, <1>4, <1>5, MidIsBetween

(* The halves, as functions of the vector.                                 *)
LEMMA HalvesAreSlices ==
  ASSUME TypeOK, SortInv
  PROVE  LET l == [k \in 1 .. Mid(Top) - Top.begin |-> mapvec[Top.begin + k]]
             r == [k \in 1 .. Top.end - Mid(Top) |-> mapvec[Mid(Top) + k]]
         IN /\ l \in Seq(Server) /\ Len(l) = Mid(Top) - Top.begin
            /\ r \in Seq(Server) /\ Len(r) = Top.end - Mid(Top)
            /\ Top.next \in {"merge", "take"}
                 => SortedIn(l, 0, Len(l)) /\ SortedIn(r, 0, Len(r))
<1>1. PICK b \in Nat, e \in Nat, h \in Nat, m \in Nat :
        /\ b = Top.begin /\ e = Top.end /\ h = Mid(Top) /\ m = Len(mapvec)
        /\ b <= h /\ h <= e /\ e <= m
  <2>1. Len(mapvec) \in Nat
    BY DEF TypeOK
  <2>. QED BY <2>1, TopFits
<1>2. \A k \in 1 .. m : mapvec[k] \in Server
  BY <1>1, ElementOfSeq DEF TypeOK
<1>. DEFINE l == [k \in 1 .. h - b |-> mapvec[b + k]]
            r == [k \in 1 .. e - h |-> mapvec[h + k]]
<1>3. l \in Seq(Server) /\ Len(l) = h - b
  <2>1. \A k \in 1 .. h - b : mapvec[b + k] \in Server
    BY <1>1, <1>2
  <2>2. h - b \in Nat
    BY <1>1
  <2>. QED BY <2>1, <2>2
<1>4. r \in Seq(Server) /\ Len(r) = e - h
  <2>1. \A k \in 1 .. e - h : mapvec[h + k] \in Server
    BY <1>1, <1>2
  <2>2. e - h \in Nat
    BY <1>1
  <2>. QED BY <2>1, <2>2
<1>5. ASSUME Top.next \in {"merge", "take"}
      PROVE  SortedIn(l, 0, h - b) /\ SortedIn(r, 0, e - h)
  <2>1. SortedIn(mapvec, b, h) /\ SortedIn(mapvec, h, e)
    <3>1. stack \in Seq(Frame) /\ stack # <<>>
      BY DEF TypeOK, Frame, SortInv
    <3>2. PICK n \in Nat : n = Len(stack) /\ n > 0
      BY <3>1
    <3>. QED BY <1>1, <1>5, <3>2 DEF SortInv, HalvesDone, LeftDone, Top
  <2>2. SortedIn(l, 0, h - b)
    <3>. SUFFICES ASSUME NEW j \in 1 .. h - b, NEW k \in 1 .. h - b, j < k
                  PROVE  MyCompare(l[j], l[k])
      BY DEF SortedIn
    <3>0. b \in Nat /\ h \in Nat
      BY <1>1
    <3>1. b + j \in b + 1 .. h /\ b + k \in b + 1 .. h /\ b + j < b + k
      BY <3>0
    <3>2. MyCompare(mapvec[b + j], mapvec[b + k])
      BY <2>1, <3>1 DEF SortedIn
    <3>. QED BY <3>2
  <2>3. SortedIn(r, 0, e - h)
    <3>. SUFFICES ASSUME NEW j \in 1 .. e - h, NEW k \in 1 .. e - h, j < k
                  PROVE  MyCompare(r[j], r[k])
      BY DEF SortedIn
    <3>0. h \in Nat /\ e \in Nat
      BY <1>1
    <3>1. h + j \in h + 1 .. e /\ h + k \in h + 1 .. e /\ h + j < h + k
      BY <3>0
    <3>2. MyCompare(mapvec[h + j], mapvec[h + k])
      BY <2>1, <3>1 DEF SortedIn
    <3>. QED BY <3>2
  <2>. QED BY <2>2, <2>3
<1>. QED BY <1>1, <1>3, <1>4, <1>5

LEMMA PopulateStep ==
  ASSUME TypeOK, SortInv, Populate
  PROVE  SortInv' /\ stack' \in Seq(Frame)
<1>a. stack \in Seq(Frame) /\ stack # <<>>
  BY DEF TypeOK, Frame, SortInv
<1>b. PICK n \in Nat : n = Len(stack) /\ n > 0
  BY <1>a
<1>c. Top = stack[n] /\ stack[n] \in Frame /\ Top.next = "merge"
  BY <1>a, <1>b, ElementOfSeq DEF Top, Populate, Running
<1>. DEFINE c == [stack[n] EXCEPT !.next = "take"]
<1>d. c \in Frame /\ c.begin = stack[n].begin /\ c.end = stack[n].end /\ c.next = "take"
  BY <1>c DEF Frame
<1>e. stack' = [stack EXCEPT ![n] = c]
  BY <1>b DEF Populate, Then
<1>. HIDE DEF c
<1>f. /\ stack' \in Seq(Frame) /\ Len(stack') = n /\ stack' # <<>> /\ stack'[n] = c
      /\ \A k \in 1 .. n - 1 : stack'[k] = stack[k]
  <2>1. /\ stack' \in Seq(Frame) /\ Len(stack') = n
        /\ \A k \in 1 .. n : stack'[k] = IF k = n THEN c ELSE stack[k]
    BY <1>a, <1>b, <1>d, <1>e, ExceptSeq
  <2>. QED BY <1>b, <2>1
<1>g. mapvec' = mapvec /\ Top' = c /\ Mid(Top)' = Mid(Top)
  BY <1>b, <1>c, <1>d, <1>f DEF Populate, Top, Mid
<1>h. \A k \in 1 .. n : /\ stack'[k].begin = stack[k].begin /\ stack'[k].end = stack[k].end
                        /\ k < n => stack'[k].next = stack[k].next
  BY <1>b, <1>d, <1>f
<1>1. FramesFit'
  <2>1. /\ stack[1].begin = 0 /\ stack[1].end = Len(mapvec)
        /\ \A k \in 1 .. n : /\ stack[k].begin <= stack[k].end /\ stack[k].end <= Len(mapvec)
                             /\ stack[k].next # "sortLeft" => stack[k].end - stack[k].begin > 1
                             /\ k < n => stack[k].next \in {"sortRight", "merge"}
    BY <1>b DEF SortInv, FramesFit
  <2>2. stack[n].next # "sortLeft"
    BY <1>c
  <2>3. 1 \in 1 .. n /\ n \in 1 .. n
    BY <1>b
  <2>4. \A k \in 1 .. n : k < n \/ k = n
    BY <1>b
  <2>. QED BY <1>f, <1>g, <1>h, <2>1, <2>2, <2>3, <2>4 DEF FramesFit
<1>2. ChildrenFit'
  <2>1. /\ \A k \in 1 .. n - 1 :
             stack[k + 1].begin = ChildBegin(stack[k]) /\ stack[k + 1].end = ChildEnd(stack[k])
        /\ \A k, l \in 1 .. n :
             k < l => ChildBegin(stack[k]) <= stack[l].begin /\ stack[l].end <= ChildEnd(stack[k])
    BY <1>b DEF SortInv, ChildrenFit
  <2>2. ASSUME NEW k \in 1 .. n, k < n
        PROVE  ChildBegin(stack[k])' = ChildBegin(stack[k]) /\ ChildEnd(stack[k])' = ChildEnd(stack[k])
    BY <1>f, <2>2 DEF ChildBegin, ChildEnd, Mid
  <2>3. ASSUME NEW k \in 1 .. n - 1
        PROVE  stack'[k + 1].begin = ChildBegin(stack[k])' /\ stack'[k + 1].end = ChildEnd(stack[k])'
    BY <1>b, <1>h, <2>1, <2>2
  <2>4. ASSUME NEW k \in 1 .. n, NEW l \in 1 .. n, k < l
        PROVE  ChildBegin(stack[k])' <= stack'[l].begin /\ stack'[l].end <= ChildEnd(stack[k])'
    BY <1>b, <1>h, <2>1, <2>2, <2>4
  <2>. QED BY <1>f, <2>3, <2>4 DEF ChildrenFit
<1>3. HalvesDone'
  <2>1. ASSUME NEW k \in 1 .. n, LeftDone(k)'
        PROVE  SortedIn(mapvec, stack[k].begin, Mid(stack[k]))
    <3>1. LeftDone(k)
      BY <1>b, <1>c, <1>f, <2>1 DEF LeftDone
    <3>. QED BY <1>b, <3>1 DEF SortInv, HalvesDone
  <2>2. SortedIn(mapvec, Mid(Top), Top.end)
    BY <1>c DEF SortInv, HalvesDone
  <2>3. \A k \in 1 .. n : Mid(stack[k])' = Mid(stack[k])
    BY <1>h DEF Mid
  <2>. QED BY <1>c, <1>d, <1>f, <1>g, <1>h, <2>1, <2>2, <2>3 DEF HalvesDone
<1>4. Merging'
  <2>1. left' = [k \in 1 .. Mid(Top)' - Top'.begin |-> mapvec'[Top'.begin + k]]
    BY <1>c, <1>d, <1>g DEF Populate
  <2>2. right' = [k \in 1 .. Top'.end - Mid(Top)' |-> mapvec'[Mid(Top)' + k]]
    BY <1>c, <1>d, <1>g DEF Populate
  <2>3. result' = <<>> /\ leftCtr' = 0 /\ rightCtr' = 0 /\ Len(result') = 0
    BY DEF Populate
  <2>. QED BY <2>1, <2>2, <2>3 DEF Merging, SortedIn
<1>. QED BY <1>f, <1>1, <1>2, <1>3, <1>4 DEF SortInv

LEMMA TakeStep ==
  ASSUME TypeOK, SortInv, Take
  PROVE  SortInv' /\ result' \in Seq(Server) /\ leftCtr' \in 0 .. Len(left) /\ rightCtr' \in 0 .. Len(right)
<1>a. Top.next = "take" /\ Merging
  BY DEF Take, Running, SortInv
<1>b. PICK nl \in Nat, nr \in Nat, n \in Nat :
        nl = Len(left) /\ nr = Len(right) /\ n = Len(result)
  BY DEF TypeOK
<1>c. PICK a \in Nat, b \in Nat :
        a = leftCtr /\ b = rightCtr /\ n = a + b /\ a <= nl /\ b <= nr /\ n < nl + nr
  <2>1. leftCtr \in 0 .. nl /\ rightCtr \in 0 .. nr
    BY <1>b DEF TypeOK
  <2>2. n = leftCtr + rightCtr /\ n < nl + nr
    BY <1>a, <1>b DEF Merging, Take
  <2>. QED BY <2>1, <2>2
<1>d. /\ left \in Seq(Server) /\ right \in Seq(Server) /\ result \in Seq(Server)
      /\ \A k \in 1 .. nl : left[k] \in Server
      /\ \A k \in 1 .. nr : right[k] \in Server
      /\ \A k \in 1 .. n : result[k] \in Server
  BY <1>b, ElementOfSeq DEF TypeOK
<1>e. /\ \A j, k \in 1 .. nl : j < k => MyCompare(left[j], left[k])
      /\ \A j, k \in 1 .. nr : j < k => MyCompare(right[j], right[k])
  <2>1. SortedIn(left, 0, nl) /\ SortedIn(right, 0, nr)
    BY <1>a, <1>b, HalvesAreSlices DEF Merging
  <2>. QED BY <2>1 DEF SortedIn
<1>f. /\ \A j, k \in 1 .. n : j < k => MyCompare(result[j], result[k])
      /\ \A k \in 1 .. n : /\ \A j \in a + 1 .. nl : MyCompare(result[k], left[j])
                           /\ \A j \in b + 1 .. nr : MyCompare(result[k], right[j])
  <2>1. SortedIn(result, 0, n)
    BY <1>a, <1>b DEF Merging
  <2>2. \A k \in 1 .. n : /\ \A j \in a + 1 .. nl : MyCompare(result[k], left[j])
                          /\ \A j \in b + 1 .. nr : MyCompare(result[k], right[j])
    BY <1>a, <1>b, <1>c DEF Merging
  <2>. QED BY <2>1, <2>2 DEF SortedIn
<1>g. \E x \in Server, p \in Nat, q \in Nat :
        /\ result' = Append(result, x) /\ leftCtr' = p /\ rightCtr' = q
        /\ p + q = n + 1 /\ p <= nl /\ q <= nr /\ a <= p /\ b <= q
        /\ \A j \in 1 .. n : MyCompare(result[j], x)
        /\ \A j \in p + 1 .. nl : MyCompare(x, left[j])
        /\ \A j \in q + 1 .. nr : MyCompare(x, right[j])
  <2>1. CASE FromLeft
    <3>. DEFINE x == left[a + 1]
    <3>1. a < nl /\ a + 1 \in 1 .. nl /\ x \in Server
      BY <1>b, <1>c, <1>d, <2>1 DEF FromLeft
    <3>2. \A j \in 1 .. n : MyCompare(result[j], x)
      BY <1>c, <1>f, <3>1
    <3>3. \A j \in a + 1 + 1 .. nl : MyCompare(x, left[j])
      BY <1>e, <3>1
    <3>4. \A j \in b + 1 .. nr : MyCompare(x, right[j])
      <4>. TAKE j \in b + 1 .. nr
      <4>1. b < nr /\ b + 1 \in 1 .. nr /\ j \in 1 .. nr /\ (j = b + 1 \/ b + 1 < j)
        OBVIOUS
      <4>2. MyCompare(x, right[b + 1])
        BY <1>b, <1>c, <2>1, <4>1 DEF FromLeft, LeftGoesFirst
      <4>3. b + 1 < j => MyCompare(right[b + 1], right[j])
        BY <1>e, <4>1
      <4>4. right[b + 1] \in Server /\ right[j] \in Server
        BY <1>d, <4>1
      <4>. QED BY <3>1, <4>1, <4>2, <4>3, <4>4, CompareIsAnOrder
    <3>5. result' = Append(result, x) /\ leftCtr' = a + 1 /\ rightCtr' = b
      BY <1>c, <2>1 DEF Take
    <3>. HIDE DEF x
    <3>6. a + 1 \in Nat /\ a + 1 + b = n + 1 /\ a + 1 <= nl /\ a <= a + 1 /\ b <= b
      BY <1>c, <3>1
    <3>. QED BY <1>c, <3>1, <3>2, <3>3, <3>4, <3>5, <3>6
  <2>2. CASE ~FromLeft
    <3>. DEFINE x == right[b + 1]
    <3>1. b < nr /\ b + 1 \in 1 .. nr
      BY <1>b, <1>c, <2>2 DEF FromLeft
    <3>2. x \in Server
      BY <1>d, <3>1
    <3>3. \A j \in 1 .. n : MyCompare(result[j], x)
      BY <1>c, <1>f, <3>1
    <3>4. \A j \in b + 1 + 1 .. nr : MyCompare(x, right[j])
      BY <1>e, <3>1
    <3>5. \A j \in a + 1 .. nl : MyCompare(x, left[j])
      <4>. TAKE j \in a + 1 .. nl
      <4>1. a < nl /\ a + 1 \in 1 .. nl /\ j \in 1 .. nl /\ (j = a + 1 \/ a + 1 < j)
        OBVIOUS
      <4>2. left[a + 1] \in Server /\ left[j] \in Server
        BY <1>d, <4>1
      <4>3. ~MyCompare(left[a + 1], x)
        BY <1>b, <1>c, <2>2, <4>1 DEF FromLeft, LeftGoesFirst
      <4>4. MyCompare(x, left[a + 1])
        BY <3>2, <4>2, <4>3, CompareIsAnOrder
      <4>5. a + 1 < j => MyCompare(left[a + 1], left[j])
        BY <1>e, <4>1
      <4>. QED BY <3>2, <4>1, <4>2, <4>4, <4>5, CompareIsAnOrder
    <3>6. result' = Append(result, x) /\ leftCtr' = a /\ rightCtr' = b + 1
      BY <1>c, <2>2 DEF Take
    <3>. HIDE DEF x
    <3>7. b + 1 \in Nat /\ a + (b + 1) = n + 1 /\ b + 1 <= nr /\ a <= a /\ b <= b + 1
      BY <1>c, <3>1
    <3>. QED BY <1>c, <3>2, <3>3, <3>4, <3>5, <3>6, <3>7
  <2>. QED BY <2>1, <2>2
<1>h. PICK x \in Server, p \in Nat, q \in Nat :
        /\ result' = Append(result, x) /\ leftCtr' = p /\ rightCtr' = q
        /\ p + q = n + 1 /\ p <= nl /\ q <= nr /\ a <= p /\ b <= q
        /\ \A j \in 1 .. n : MyCompare(result[j], x)
        /\ \A j \in p + 1 .. nl : MyCompare(x, left[j])
        /\ \A j \in q + 1 .. nr : MyCompare(x, right[j])
  BY <1>g
<1>i. /\ result' \in Seq(Server) /\ Len(result') = n + 1 /\ result'[n + 1] = x
      /\ \A k \in 1 .. n : result'[k] = result[k]
  BY <1>b, <1>d, <1>h, AppendProperties
<1>j. UNCHANGED <<mapvec, stack, left, right>> /\ Top' = Top /\ Mid(Top)' = Mid(Top)
  BY DEF Take, Top, Mid
<1>k. SortedIn(result', 0, n + 1)
  <2>. SUFFICES ASSUME NEW j \in 1 .. n + 1, NEW k \in 1 .. n + 1, j < k
                PROVE  MyCompare(result'[j], result'[k])
    BY DEF SortedIn
  <2>1. j \in 1 .. n
    OBVIOUS
  <2>2. CASE k = n + 1
    BY <1>h, <1>i, <2>1, <2>2
  <2>3. CASE k \in 1 .. n
    BY <1>f, <1>i, <2>1, <2>3
  <2>. QED BY <2>2, <2>3
<1>l. \A k \in 1 .. n + 1 : /\ \A j \in p + 1 .. nl : MyCompare(result'[k], left[j])
                            /\ \A j \in q + 1 .. nr : MyCompare(result'[k], right[j])
  <2>. TAKE k \in 1 .. n + 1
  <2>1. CASE k = n + 1
    BY <1>h, <1>i, <2>1
  <2>2. CASE k \in 1 .. n
    <3>1. \A j \in p + 1 .. nl : j \in a + 1 .. nl
      BY <1>h
    <3>2. \A j \in q + 1 .. nr : j \in b + 1 .. nr
      BY <1>h
    <3>. QED BY <1>f, <1>i, <2>2, <3>1, <3>2
  <2>. QED BY <2>1, <2>2
<1>m. Merging'
  <2>1. Len(result)' = leftCtr' + rightCtr'
    BY <1>h, <1>i
  <2>2. SortedIn(result, 0, Len(result))'
    BY <1>i, <1>k DEF SortedIn
  <2>3. /\ left' = [k \in 1 .. Mid(Top)' - Top'.begin |-> mapvec'[Top'.begin + k]]
        /\ right' = [k \in 1 .. Top'.end - Mid(Top)' |-> mapvec'[Mid(Top)' + k]]
    <3>1. /\ left = [k \in 1 .. Mid(Top) - Top.begin |-> mapvec[Top.begin + k]]
          /\ right = [k \in 1 .. Top.end - Mid(Top) |-> mapvec[Mid(Top) + k]]
      BY <1>a DEF Merging
    <3>. QED BY <1>j, <3>1
  <2>4. \A k \in 1 .. Len(result') :
          /\ \A j \in leftCtr' + 1 .. Len(left') : MyCompare(result'[k], left'[j])
          /\ \A j \in rightCtr' + 1 .. Len(right') : MyCompare(result'[k], right'[j])
    BY <1>b, <1>h, <1>i, <1>j, <1>l
  <2>5. (\A k \in 1 .. Len(result) :
           /\ \A j \in leftCtr + 1 .. Len(left) : MyCompare(result[k], left[j])
           /\ \A j \in rightCtr + 1 .. Len(right) : MyCompare(result[k], right[j]))'
    BY <2>4
  <2>. QED BY <2>1, <2>2, <2>3, <2>5 DEF Merging
<1>n. FramesFit' /\ ChildrenFit' /\ HalvesDone' /\ stack' # <<>>
  BY <1>j DEF SortInv, FramesFit, ChildrenFit, HalvesDone, LeftDone, Top
<1>. QED BY <1>b, <1>h, <1>i, <1>m, <1>n DEF SortInv

LEMMA CopyBackStep ==
  ASSUME TypeOK, SortInv, CopyBack
  PROVE  PartSorted /\ mapvec' \in Seq(Server)
<1>a. Top.next = "take" /\ Merging
  BY DEF CopyBack, Running, SortInv
<1>b. PICK s \in Nat, e \in Nat, h \in Nat, m \in Nat :
        /\ s = Top.begin /\ e = Top.end /\ h = Mid(Top) /\ m = Len(mapvec)
        /\ s <= h /\ h <= e /\ e <= m
  <2>1. Len(mapvec) \in Nat
    BY DEF TypeOK
  <2>. QED BY <2>1, TopFits
<1>c. Len(result) = e - s /\ result \in Seq(Server)
  <2>1. Len(left) = h - s /\ Len(right) = e - h
    BY <1>a, <1>b, HalvesAreSlices DEF Merging
  <2>2. Len(result) = Len(left) + Len(right)
    BY DEF CopyBack
  <2>3. Len(result) = (h - s) + (e - h)
    BY <2>1, <2>2
  <2>4. (h - s) + (e - h) = e - s
    BY <1>b
  <2>5. result \in Seq(Server)
    BY DEF TypeOK
  <2>. QED BY <2>3, <2>4, <2>5
<1>d. \A j, k \in 1 .. e - s : j < k => MyCompare(result[j], result[k])
  <2>1. SortedIn(result, 0, e - s)
    BY <1>a, <1>c DEF Merging
  <2>. QED BY <1>b, <2>1 DEF SortedIn
<1>e. /\ \A k \in 1 .. m : mapvec[k] \in Server
      /\ \A k \in 1 .. e - s : result[k] \in Server
  BY <1>b, <1>c, ElementOfSeq DEF TypeOK
<1>f. mapvec' = [k \in 1 .. m |-> IF s < k /\ k <= e THEN result[k - s] ELSE mapvec[k]]
  BY <1>b DEF CopyBack, Copied
<1>g. mapvec' \in Seq(Server) /\ Len(mapvec') = m
  <2>1. \A k \in 1 .. m : (IF s < k /\ k <= e THEN result[k - s] ELSE mapvec[k]) \in Server
    <3>. TAKE k \in 1 .. m
    <3>1. s < k /\ k <= e => k - s \in 1 .. e - s
      BY <1>b
    <3>. QED BY <1>e, <3>1
  <2>. QED BY <1>f, <2>1
<1>h. \A k \in 1 .. m : k <= s \/ k > e => mapvec'[k] = mapvec[k]
  BY <1>b, <1>f
<1>i. SortedIn(mapvec', s, e)
  <2>. SUFFICES ASSUME NEW j \in s + 1 .. e, NEW k \in s + 1 .. e, j < k
                PROVE  MyCompare(mapvec'[j], mapvec'[k])
    BY DEF SortedIn
  <2>1. j \in Int /\ k \in Int /\ j \in 1 .. m /\ k \in 1 .. m /\ s < j /\ j <= e /\ s < k /\ k <= e
    BY <1>b
  <2>2. mapvec'[j] = result[j - s] /\ mapvec'[k] = result[k - s]
    BY <1>f, <2>1
  <2>3. j - s \in 1 .. e - s /\ k - s \in 1 .. e - s /\ j - s < k - s
    BY <2>1
  <2>. QED BY <1>d, <2>2, <2>3
<1>. QED BY <1>b, <1>g, <1>h, <1>i DEF PartSorted

-----------------------------------------------------------------------------
(* The steps of the program *)

LEMMA InitRank == Init => RankInv
<1>. SUFFICES ASSUME Init PROVE RankInv
  OBVIOUS
<1>1. GlobalSize \in Nat
  BY SizeAssumption DEF GlobalSize
<1>2. TypeOK
  BY <1>1, BoundsAssumption DEF Init, SortInit, TypeOK
<1>. QED BY <1>2 DEF Init, RankInv, ReadInv

LEMMA ReadStep ==
  ASSUME RankInv,
         \/ \E b \in Property, n \in Name : ReadServer(b, n)
         \/ CompareByte \/ AddToMap
         \/ \E c \in Coordinate, n \in 0 .. MaxServers : NextLocation(c, n)
         \/ Sort \/ PrintOut
  PROVE  RankInv'
<1>0. GlobalSize \in Nat
  BY SizeAssumption DEF GlobalSize
<1>a. TypeOK /\ (pc \in {"print", "done"} => SortedIn(mapvec, 0, Len(mapvec)))
  BY DEF RankInv
<1>1. ASSUME NEW b \in Property, NEW n \in Name, ReadServer(b, n) PROVE RankInv'
  <2>1. TypeOK'
    BY <1>0, <1>a, <1>1 DEF TypeOK, ReadServer, mergeVars, rootVars, locationVars
  <2>. QED BY <1>1, <2>1 DEF RankInv, ReadInv, ReadServer, locationVars
<1>2. CASE CompareByte
  <2>1. byte < GlobalSize /\ byte \in Nat /\ byte' = byte + 1 /\ binary \in Property /\ rootnum \in Property
    BY <1>0, <1>2, <1>a DEF CompareByte, ByteLeft, TypeOK
  <2>2. byte' \in 0 .. GlobalSize
    BY <1>0, <2>1
  <2>3. totaldifference' \in Nat
    <3>1. Share(binary, rootnum, byte) \in Nat
      BY <2>1, ShareIsNat
    <3>. QED BY <1>2, <1>a, <3>1 DEF CompareByte, TypeOK
  <2>4. TypeOK'
    BY <1>2, <1>a, <2>2, <2>3 DEF TypeOK, CompareByte, mergeVars, rootVars, locationVars
  <2>. QED BY <1>2, <2>4 DEF RankInv, ReadInv, CompareByte, locationVars
<1>3. CASE AddToMap
  <2>1. numservs' \in Nat
    BY <1>3, <1>a DEF RankInv, ReadInv, TypeOK, AddToMap
  <2>2. mapvec' \in Seq(Server)
    <3>1. coord \in Int \X Int /\ rootcoord \in Int \X Int
      BY <1>a, CoordinateAssumption DEF TypeOK
    <3>2. coord[1] - rootcoord[1] \in Int /\ coord[2] - rootcoord[2] \in Int
      BY <3>1
    <3>3. [relevance |-> totaldifference, name |-> name,
           xcoord |-> coord[1] - rootcoord[1], ycoord |-> coord[2] - rootcoord[2]] \in Server
      BY <1>a, <3>2 DEF TypeOK, Server
    <3>. QED BY <1>3, <1>a, <3>3 DEF TypeOK, AddToMap
  <2>3. TypeOK'
    BY <1>3, <1>a, <2>1, <2>2 DEF TypeOK, AddToMap, mergeVars, rootVars, serverVars
  <2>. QED BY <1>3, <2>3 DEF RankInv, ReadInv, AddToMap
<1>4. ASSUME NEW c \in Coordinate, NEW n \in 0 .. MaxServers, NextLocation(c, n) PROVE RankInv'
  <2>1. location' \in 1 .. locations
    BY <1>4, <1>a DEF TypeOK, NextLocation
  <2>2. n \in Nat
    BY BoundsAssumption
  <2>3. TypeOK'
    BY <1>4, <1>a, <2>1, <2>2 DEF TypeOK, NextLocation, mergeVars, rootVars, serverVars
  <2>. QED BY <1>4, <2>3 DEF RankInv, ReadInv, NextLocation
<1>5. CASE Sort
  <2>. DEFINE c == Call(0, Len(mapvec))
  <2>1. PICK m \in Nat : m = Len(mapvec)
    BY <1>a DEF TypeOK
  <2>2. c \in Frame /\ c.begin = 0 /\ c.end = m /\ c.next = "sortLeft" /\ stack' = <<c>> /\ mapvec' = mapvec
    BY <1>5, <2>1 DEF Call, Frame, Sort
  <2>. HIDE DEF c
  <2>3. stack' \in Seq(Frame) /\ Len(stack') = 1 /\ stack'[1] = c /\ stack' # <<>> /\ Top' = c
    BY <2>2 DEF Top
  <2>4. TypeOK'
    BY <1>5, <1>a, <2>3 DEF TypeOK, Frame, Sort, mergeVars, rootVars, locationVars, serverVars
  <2>5. FramesFit' /\ ChildrenFit'
    BY <2>1, <2>2, <2>3 DEF FramesFit, ChildrenFit
  <2>6. HalvesDone'
    BY <2>2, <2>3 DEF HalvesDone, LeftDone
  <2>7. SortInv'
    BY <2>2, <2>3, <2>5, <2>6 DEF SortInv
  <2>. QED BY <1>5, <2>4, <2>7 DEF RankInv, ReadInv, Sort
<1>6. CASE PrintOut
  <2>1. TypeOK'
    BY <1>6, <1>a DEF TypeOK, PrintOut, mergeVars, rootVars, locationVars, serverVars
  <2>2. SortedIn(mapvec, 0, Len(mapvec))'
    BY <1>6, <1>a DEF PrintOut, SortedIn
  <2>. QED BY <1>6, <2>1, <2>2 DEF RankInv, ReadInv, PrintOut
<1>. QED BY <1>1, <1>2, <1>3, <1>4, <1>5, <1>6

LEMMA SortingStep ==
  ASSUME RankInv, SortStep, UNCHANGED <<rootVars, locationVars, serverVars, output>>
  PROVE  RankInv'
<1>a. TypeOK /\ SortInv /\ pc = "sort"
  BY DEF RankInv, SortStep, SortNothing, SortLeft, SortRight, Populate, Take, CopyBack, Running
<1>b. stack \in Seq(Frame) /\ stack # <<>>
  BY <1>a DEF TypeOK, Frame, SortInv
<1>c. Top \in Frame
  BY <1>a, TopFits
<1>1. CASE SortNothing
  <2>1. PartSorted
    <3>1. mapvec' = mapvec /\ Top.end - Top.begin <= 1 /\ Top.begin \in Nat /\ Top.end \in Nat
      BY <1>1, <1>a, TopFits DEF SortNothing
    <3>2. SortedIn(mapvec', Top.begin, Top.end)
      BY <3>1 DEF SortedIn
    <3>. QED BY <3>1, <3>2 DEF PartSorted
  <2>2. /\ pc' = "sort" => SortInv'
        /\ pc' = "print" => SortedIn(mapvec, 0, Len(mapvec))'
    BY <1>1, <1>a, <2>1, PopKeeps DEF SortNothing
  <2>3. stack' \in Seq(Frame) /\ pc' \in {"sort", "print"}
    BY <1>1, <1>b DEF SortNothing, Return
  <2>4. TypeOK'
    BY <1>1, <1>a, <2>3 DEF TypeOK, Frame, SortNothing, mergeVars, rootVars, locationVars, serverVars
  <2>. QED BY <2>2, <2>3, <2>4 DEF RankInv, ReadInv
<1>2. CASE SortLeft
  <2>. DEFINE c == [Top EXCEPT !.next = "sortRight"]
  <2>1. c \in Frame /\ c.begin = Top.begin /\ c.end = Top.end /\ c.next = "sortRight"
    BY <1>c DEF Frame
  <2>2. ChildBegin(c) = Top.begin /\ ChildEnd(c) = Mid(Top)
    BY <2>1 DEF ChildBegin, ChildEnd, Mid
  <2>3. Then("sortRight") = [stack EXCEPT ![Len(stack)] = c]
    BY DEF Then, Top
  <2>4. Calls(c)
    <3>1. stack' = Append([stack EXCEPT ![Len(stack)] = c], Call(ChildBegin(c), ChildEnd(c)))
      BY <1>2, <2>2, <2>3 DEF SortLeft
    <3>. QED BY <1>2, <2>1, <3>1 DEF Calls, SortLeft
  <2>5. SortInv' /\ stack' \in Seq(Frame)
    BY <1>a, <2>1, <2>4, PushKeeps
  <2>6. TypeOK'
    BY <1>2, <1>a, <2>5 DEF TypeOK, Frame, SortLeft, mergeVars, rootVars, locationVars, serverVars
  <2>. QED BY <1>2, <1>a, <2>5, <2>6 DEF RankInv, ReadInv, SortLeft
<1>3. CASE SortRight
  <2>. DEFINE c == [Top EXCEPT !.next = "merge"]
  <2>1. c \in Frame /\ c.begin = Top.begin /\ c.end = Top.end /\ c.next = "merge"
    BY <1>c DEF Frame
  <2>2. ChildBegin(c) = Mid(Top) /\ ChildEnd(c) = Top.end
    BY <2>1 DEF ChildBegin, ChildEnd, Mid
  <2>3. Then("merge") = [stack EXCEPT ![Len(stack)] = c]
    BY DEF Then, Top
  <2>4. Calls(c)
    <3>1. stack' = Append([stack EXCEPT ![Len(stack)] = c], Call(ChildBegin(c), ChildEnd(c)))
      BY <1>3, <2>2, <2>3 DEF SortRight
    <3>2. Top.end - Top.begin > 1
      <4>1. PICK n \in Nat : n = Len(stack) /\ n > 0
        BY <1>b
      <4>2. Top = stack[n] /\ Top.next = "sortRight"
        BY <1>3, <4>1 DEF Top, SortRight, Running
      <4>. QED BY <1>a, <4>1, <4>2 DEF SortInv, FramesFit
    <3>. QED BY <1>3, <2>1, <3>1, <3>2 DEF Calls, SortRight, Running
  <2>5. SortInv' /\ stack' \in Seq(Frame)
    BY <1>a, <2>1, <2>4, PushKeeps
  <2>6. TypeOK'
    BY <1>3, <1>a, <2>5 DEF TypeOK, Frame, SortRight, mergeVars, rootVars, locationVars, serverVars
  <2>. QED BY <1>3, <1>a, <2>5, <2>6 DEF RankInv, ReadInv, SortRight
<1>4. CASE Populate
  <2>1. SortInv' /\ stack' \in Seq(Frame)
    BY <1>4, <1>a, PopulateStep
  <2>2. left' \in Seq(Server) /\ right' \in Seq(Server)
    BY <1>4, <1>a, HalvesAreSlices DEF Populate
  <2>3. /\ result' \in Seq(Server) /\ leftCtr' = 0 /\ rightCtr' = 0
        /\ Len(left') \in Nat /\ Len(right') \in Nat
    BY <1>4, <2>2, LenProperties, EmptySeq DEF Populate
  <2>4. leftCtr' \in 0 .. Len(left') /\ rightCtr' \in 0 .. Len(right')
    BY <2>3
  <2>5. TypeOK'
    BY <1>4, <1>a, <2>1, <2>2, <2>3, <2>4 DEF TypeOK, Frame, Populate, rootVars, locationVars, serverVars
  <2>. QED BY <1>4, <1>a, <2>1, <2>5 DEF RankInv, ReadInv, Populate
<1>5. CASE Take
  <2>1. /\ SortInv' /\ result' \in Seq(Server)
        /\ leftCtr' \in 0 .. Len(left) /\ rightCtr' \in 0 .. Len(right)
    BY <1>5, <1>a, TakeStep
  <2>2. TypeOK'
    BY <1>5, <1>a, <2>1 DEF TypeOK, Take, rootVars, locationVars, serverVars
  <2>. QED BY <1>5, <1>a, <2>1, <2>2 DEF RankInv, ReadInv, Take
<1>6. CASE CopyBack
  <2>1. PartSorted /\ mapvec' \in Seq(Server)
    BY <1>6, <1>a, CopyBackStep
  <2>2. /\ pc' = "sort" => SortInv'
        /\ pc' = "print" => SortedIn(mapvec, 0, Len(mapvec))'
    BY <1>6, <1>a, <2>1, PopKeeps DEF CopyBack
  <2>3. stack' \in Seq(Frame) /\ pc' \in {"sort", "print"}
    BY <1>6, <1>b DEF CopyBack, Return
  <2>4. TypeOK'
    BY <1>6, <1>a, <2>1, <2>3 DEF TypeOK, Frame, CopyBack, mergeVars, rootVars, locationVars, serverVars
  <2>. QED BY <2>2, <2>3, <2>4 DEF RankInv, ReadInv
<1>. QED BY <1>1, <1>2, <1>3, <1>4, <1>5, <1>6 DEF SortStep

LEMMA RankStep == RankInv /\ [Next]_vars => RankInv'
<1>. SUFFICES ASSUME RankInv, [Next]_vars PROVE RankInv'
  OBVIOUS
<1>1. CASE UNCHANGED vars
  <2>1. TypeOK' /\ ReadInv'
    BY <1>1 DEF RankInv, TypeOK, ReadInv, vars, mergeVars, rootVars, locationVars, serverVars
  <2>2. pc' = "sort" => SortInv'
    BY <1>1, SameSort DEF RankInv, vars
  <2>3. pc' \in {"print", "done"} => SortedIn(mapvec, 0, Len(mapvec))'
    BY <1>1 DEF RankInv, SortedIn, vars
  <2>. QED BY <2>1, <2>2, <2>3 DEF RankInv
<1>2. CASE SortStep /\ UNCHANGED <<rootVars, locationVars, serverVars, output>>
  BY <1>2, SortingStep
<1>. QED BY <1>1, <1>2, ReadStep DEF Next

LEMMA RankInvariant == Spec => []RankInv
BY InitRank, RankStep, PTL DEF Spec

-----------------------------------------------------------------------------
(* The types, for any number of servers and any lengths: above all, merge  *)
(* reads neither half behind its end.                                      *)
THEOREM TypesHold == Spec => []TypeOK
<1>1. RankInv => TypeOK
  BY DEF RankInv
<1>. QED BY <1>1, RankInvariant, PTL

(* The servers are in order when they are printed, whatever was read.      *)
THEOREM OutputIsRanked == Spec => []PrintedInOrder
<1>1. RankInv => PrintedInOrder
  BY DEF RankInv, PrintedInOrder
<1>. QED BY <1>1, RankInvariant, PTL

(* The halves are in order when a merge starts.                            *)
THEOREM MergeIsSound == Spec => []HalvesSorted
<1>1. RankInv => HalvesSorted
  <2>. SUFFICES ASSUME RankInv, pc = "sort", Top.next = "merge"
                PROVE  SortedIn(mapvec, Top.begin, Mid(Top)) /\ SortedIn(mapvec, Mid(Top), Top.end)
    BY DEF HalvesSorted
  <2>1. SortInv /\ stack \in Seq(Frame) /\ stack # <<>>
    BY DEF RankInv, TypeOK, Frame, SortInv
  <2>2. PICK n \in Nat : n = Len(stack) /\ n > 0
    BY <2>1
  <2>. QED BY <2>1, <2>2 DEF SortInv, HalvesDone, LeftDone, Top
<1>. QED BY <1>1, RankInvariant, PTL

-----------------------------------------------------------------------------
(* The relevance *)

(* So far no difference was added if and only if the bits of the bytes     *)
(* that were compared are the same.                                        *)
ZeroInv ==
  pc = "compare" =>
    (totaldifference = 0 <=>
       \A k \in 1 .. PropertySize : k <= 8 * byte => binary[k] = rootnum[k])

(* A byte adds nothing if and only if none of its bits differs.            *)
LEMMA ShareOfEqualBytes ==
  ASSUME NEW a \in Property, NEW b \in Property, NEW i \in Nat, i < GlobalSize
  PROVE  Share(a, b, i) = 0 <=>
           \A k \in 1 .. PropertySize : 8 * i < k /\ k <= 8 * i + 8 => a[k] = b[k]
<1>1. GlobalSize \in Nat /\ PropertySize \in Nat
  BY SizeAssumption DEF GlobalSize
<1>2. \A k : Differs(a, b, k) \in {0, 1}
  BY DEF Differs
<1>. DEFINE D == ByteDifference(a, b, i)
<1>3. D \in Nat /\ (D = 0 <=> \A j \in 0 .. 7 : Differs(a, b, 8 * i + j) = 0)
  <2>1. \A j \in 0 .. 7 : j = 0 \/ j = 1 \/ j = 2 \/ j = 3 \/ j = 4 \/ j = 5 \/ j = 6 \/ j = 7
    OBVIOUS
  <2>2. 8 * i + 0 = 8 * i
    OBVIOUS
  <2>3. PICK d0 \in {0, 1}, d1 \in {0, 1}, d2 \in {0, 1}, d3 \in {0, 1},
             d4 \in {0, 1}, d5 \in {0, 1}, d6 \in {0, 1}, d7 \in {0, 1} :
          /\ d0 = Differs(a, b, 8 * i) /\ d1 = Differs(a, b, 8 * i + 1)
          /\ d2 = Differs(a, b, 8 * i + 2) /\ d3 = Differs(a, b, 8 * i + 3)
          /\ d4 = Differs(a, b, 8 * i + 4) /\ d5 = Differs(a, b, 8 * i + 5)
          /\ d6 = Differs(a, b, 8 * i + 6) /\ d7 = Differs(a, b, 8 * i + 7)
    BY <1>2
  <2>4. D = 128 * d0 + 64 * d1 + 32 * d2 + 16 * d3 + 8 * d4 + 4 * d5 + 2 * d6 + d7
    BY <2>3 DEF ByteDifference
  <2>5. D \in Nat /\ (D = 0 <=> d0 = 0 /\ d1 = 0 /\ d2 = 0 /\ d3 = 0 /\ d4 = 0 /\ d5 = 0 /\ d6 = 0 /\ d7 = 0)
    <3>. HIDE DEF D
    <3>. QED BY <2>4
  <2>6. (\A j \in 0 .. 7 : Differs(a, b, 8 * i + j) = 0)
          <=> d0 = 0 /\ d1 = 0 /\ d2 = 0 /\ d3 = 0 /\ d4 = 0 /\ d5 = 0 /\ d6 = 0 /\ d7 = 0
    <3>1. ASSUME \A j \in 0 .. 7 : Differs(a, b, 8 * i + j) = 0
          PROVE  d0 = 0 /\ d1 = 0 /\ d2 = 0 /\ d3 = 0 /\ d4 = 0 /\ d5 = 0 /\ d6 = 0 /\ d7 = 0
      BY <2>2, <2>3, <3>1
    <3>2. ASSUME d0 = 0 /\ d1 = 0 /\ d2 = 0 /\ d3 = 0 /\ d4 = 0 /\ d5 = 0 /\ d6 = 0 /\ d7 = 0,
                 NEW j \in 0 .. 7
          PROVE  Differs(a, b, 8 * i + j) = 0
      BY <2>1, <2>2, <2>3, <3>2
    <3>. QED BY <3>1, <3>2
  <2>. QED BY <2>5, <2>6
<1>4. Share(a, b, i) = 0 <=> D = 0
  <2>. HIDE DEF D
  <2>1. GlobalSize - i - 1 \in Nat
    BY <1>1
  <2>2. Share(a, b, i) = IF D # 0 THEN 256 * (GlobalSize - i - 1) + D ELSE 0
    BY DEF Share, D
  <2>. QED BY <1>3, <2>1, <2>2
<1>5. (\A j \in 0 .. 7 : Differs(a, b, 8 * i + j) = 0) <=>
        \A k \in 1 .. PropertySize : 8 * i < k /\ k <= 8 * i + 8 => a[k] = b[k]
  <2>1. ASSUME \A j \in 0 .. 7 : Differs(a, b, 8 * i + j) = 0,
               NEW k \in 1 .. PropertySize, 8 * i < k, k <= 8 * i + 8
        PROVE  a[k] = b[k]
    <3>1. PICK j \in 0 .. 7 : 8 * i + j = k - 1
      <4>1. k - 1 - 8 * i \in 0 .. 7 /\ 8 * i + (k - 1 - 8 * i) = k - 1
        BY <2>1
      <4>. QED BY <4>1
    <3>2. k - 1 < PropertySize /\ (k - 1) + 1 = k
      BY <1>1
    <3>. QED BY <2>1, <3>1, <3>2 DEF Differs
  <2>2. ASSUME \A k \in 1 .. PropertySize : 8 * i < k /\ k <= 8 * i + 8 => a[k] = b[k],
               NEW j \in 0 .. 7
        PROVE  Differs(a, b, 8 * i + j) = 0
    <3>1. CASE 8 * i + j < PropertySize
      <4>1. 8 * i + j + 1 \in 1 .. PropertySize /\ 8 * i < 8 * i + j + 1 /\ 8 * i + j + 1 <= 8 * i + 8
        BY <1>1, <3>1
      <4>. QED BY <2>2, <4>1 DEF Differs
    <3>2. CASE ~(8 * i + j < PropertySize)
      BY <3>2 DEF Differs
    <3>. QED BY <3>1, <3>2
  <2>. QED BY <2>1, <2>2
<1>. QED BY <1>3, <1>4, <1>5

LEMMA SameFunction ==
  ASSUME NEW S, NEW T, NEW f \in [S -> T], NEW g \in [S -> T]
  PROVE  f = g <=> \A k \in S : f[k] = g[k]
OBVIOUS

LEMMA ZeroStep == TypeOK /\ ZeroInv /\ [Next]_vars => ZeroInv'
<1>. SUFFICES ASSUME TypeOK, ZeroInv, [Next]_vars PROVE ZeroInv'
  OBVIOUS
<1>1. ASSUME NEW b \in Property, NEW n \in Name, ReadServer(b, n) PROVE ZeroInv'
  <2>1. byte' = 0 /\ totaldifference' = 0
    BY <1>1 DEF ReadServer
  <2>2. \A k \in 1 .. PropertySize : ~(k <= 8 * 0)
    BY SizeAssumption
  <2>. QED BY <2>1, <2>2 DEF ZeroInv
<1>2. CASE CompareByte
  <2>1. PICK i \in Nat, t \in Nat : i = byte /\ t = totaldifference
    BY DEF TypeOK
  <2>2. /\ i < GlobalSize /\ byte' = i + 1 /\ totaldifference' = t + Share(binary, rootnum, i)
        /\ binary' = binary /\ rootnum' = rootnum /\ pc = "compare"
    BY <1>2, <2>1 DEF CompareByte, ByteLeft, rootVars
  <2>3. PICK x \in Nat : x = Share(binary, rootnum, i)
    BY <2>2, ShareIsNat DEF TypeOK
  <2>4. x = 0 <=> \A k \in 1 .. PropertySize : 8 * i < k /\ k <= 8 * i + 8 => binary[k] = rootnum[k]
    BY <2>2, <2>3, ShareOfEqualBytes DEF TypeOK
  <2>5. t = 0 <=> \A k \in 1 .. PropertySize : k <= 8 * i => binary[k] = rootnum[k]
    BY <2>1, <2>2 DEF ZeroInv
  <2>6. t + x = 0 <=> t = 0 /\ x = 0
    OBVIOUS
  <2>7. \A k \in 1 .. PropertySize :
          k <= 8 * (i + 1) <=> k <= 8 * i \/ (8 * i < k /\ k <= 8 * i + 8)
    BY SizeAssumption
  <2>8. t + x = 0 <=> \A k \in 1 .. PropertySize : k <= 8 * (i + 1) => binary[k] = rootnum[k]
    BY <2>4, <2>5, <2>6, <2>7
  <2>. QED BY <2>2, <2>3, <2>8 DEF ZeroInv
<1>3. CASE UNCHANGED vars
  BY <1>3 DEF ZeroInv, vars, rootVars, serverVars
<1>4. CASE \/ AddToMap \/ Sort \/ PrintOut
           \/ SortStep /\ UNCHANGED <<rootVars, locationVars, serverVars, output>>
  <2>1. pc' # "compare"
    BY <1>4 DEF AddToMap, Sort, PrintOut, SortStep, SortNothing, SortLeft, SortRight, Populate,
                Take, CopyBack, Return, Running
  <2>. QED BY <2>1 DEF ZeroInv
<1>5. ASSUME NEW c \in Coordinate, NEW n \in 0 .. MaxServers, NextLocation(c, n) PROVE ZeroInv'
  BY <1>5 DEF ZeroInv, NextLocation
<1>. QED BY <1>1, <1>2, <1>3, <1>4, <1>5 DEF Next

(* A server has relevance 0 if and only if its property is the root's.     *)
THEOREM ZeroMeansSame == Spec => []ZeroIffSame
<1>1. Init => ZeroInv
  BY DEF Init, ZeroInv
<1>2. TypeOK /\ ZeroInv => ZeroIffSame
  <2>. SUFFICES ASSUME TypeOK, ZeroInv, pc = "compare", byte = GlobalSize
                PROVE  totaldifference = 0 <=> binary = rootnum
    BY DEF ZeroIffSame
  <2>1. PropertySize \in Nat /\ PropertySize <= 8 * GlobalSize
    BY SizeAssumption DEF GlobalSize
  <2>2. totaldifference = 0 <=> \A k \in 1 .. PropertySize : binary[k] = rootnum[k]
    <3>1. \A k \in 1 .. PropertySize : k <= 8 * GlobalSize
      <4>1. GlobalSize \in Nat
        BY SizeAssumption DEF GlobalSize
      <4>. QED BY <2>1, <4>1
    <3>. QED BY <3>1 DEF ZeroInv
  <2>3. binary \in [1 .. PropertySize -> {0, 1}] /\ rootnum \in [1 .. PropertySize -> {0, 1}]
    BY PropertyAssumption DEF TypeOK
  <2>4. binary = rootnum <=> \A k \in 1 .. PropertySize : binary[k] = rootnum[k]
    <3>. DEFINE S == 1 .. PropertySize
                T == {0, 1}
    <3>1. binary \in [S -> T] /\ rootnum \in [S -> T]
      BY <2>3
    <3>2. binary = rootnum <=> \A k \in S : binary[k] = rootnum[k]
      <4>. HIDE DEF S, T
      <4>. QED BY <3>1, SameFunction
    <3>. QED BY <3>2
  <2>. QED BY <2>2, <2>4
<1>. QED BY <1>1, <1>2, ZeroStep, TypesHold, PTL DEF Spec
-----------------------------------------------------------------------------
(* Bags.  A vector whose elements were moved about is the same bag, and    *)
(* appending an element adds it.                                           *)

Places(q, x) == {k \in 1 .. Len(q) : q[k] = x}
Elements(q) == {q[k] : k \in 1 .. Len(q)}

LEMMA PlacesAreFinite ==
  ASSUME NEW q, Len(q) \in Nat, NEW x
  PROVE  IsFiniteSet(Places(q, x)) /\ Cardinality(Places(q, x)) \in Nat
<1>1. IsFiniteSet(1 .. Len(q)) /\ Places(q, x) \in SUBSET (1 .. Len(q))
  BY FS_Interval DEF Places
<1>2. IsFiniteSet(Places(q, x))
  BY <1>1, FS_Subset
<1>. QED BY <1>2, FS_CardinalityType

LEMMA MovedAbout ==
  ASSUME NEW v, NEW w, NEW n \in Nat, Len(v) = n, Len(w) = n,
         NEW G \in [1 .. n -> 1 .. n],
         \A j, k \in 1 .. n : G[j] = G[k] => j = k,
         \A k \in 1 .. n : w[k] = v[G[k]]
  PROVE  BagOf(w) = BagOf(v)
<1>1. \A t \in 1 .. n : \E k \in 1 .. n : G[k] = t
  <2>1. G \in Injection(1 .. n, 1 .. n)
    BY DEF Injection, IsInjective
  <2>2. IsFiniteSet(1 .. n)
    BY FS_Interval
  <2>3. G \in Surjection(1 .. n, 1 .. n)
    BY <2>1, <2>2, FS_Injection
  <2>. QED BY <2>3 DEF Surjection
<1>2. Elements(w) = Elements(v)
  <2>1. \A k \in 1 .. n : w[k] \in Elements(v)
    BY DEF Elements
  <2>2. \A t \in 1 .. n : v[t] \in Elements(w)
    <3>. TAKE t \in 1 .. n
    <3>1. PICK k \in 1 .. n : G[k] = t
      BY <1>1
    <3>. QED BY <3>1 DEF Elements
  <2>3. /\ Elements(w) = {w[k] : k \in 1 .. n}
        /\ Elements(v) = {v[k] : k \in 1 .. n}
    BY DEF Elements
  <2>. QED BY <2>1, <2>2, <2>3
<1>3. ASSUME NEW x PROVE Cardinality(Places(w, x)) = Cardinality(Places(v, x))
  <2>. DEFINE f == [k \in Places(w, x) |-> G[k]]
  <2>1. f \in [Places(w, x) -> Places(v, x)]
    BY DEF Places
  <2>2. \A j, k \in Places(w, x) : f[j] = f[k] => j = k
    BY DEF Places
  <2>3. \A t \in Places(v, x) : \E k \in Places(w, x) : f[k] = t
    BY <1>1 DEF Places
  <2>4. f \in Bijection(Places(w, x), Places(v, x))
    <3>. HIDE DEF f
    <3>. QED BY <2>1, <2>2, <2>3 DEF Bijection, Injection, IsInjective, Surjection
  <2>5. IsFiniteSet(Places(w, x))
    BY PlacesAreFinite
  <2>. QED BY <2>4, <2>5, FS_Bijection DEF ExistsBijection
<1>4. /\ BagOf(w) = [x \in Elements(w) |-> Cardinality(Places(w, x))]
      /\ BagOf(v) = [x \in Elements(v) |-> Cardinality(Places(v, x))]
  BY DEF BagOf, Elements, Places
<1>. QED BY <1>2, <1>3, <1>4

LEMMA AppendedToBag ==
  ASSUME NEW v \in Seq(Server), NEW s \in Server
  PROVE  BagOf(Append(v, s)) = BagOf(v) (+) SetToBag({s})
<1>. DEFINE w == Append(v, s)
<1>1. PICK n \in Nat : n = Len(v)
  OBVIOUS
<1>2. Len(w) = n + 1 /\ w[n + 1] = s /\ \A k \in 1 .. n : w[k] = v[k]
  BY <1>1, AppendProperties
<1>. HIDE DEF w
<1>3. Elements(w) = Elements(v) \cup {s}
  BY <1>1, <1>2 DEF Elements
<1>4. ASSUME NEW x \in Elements(w)
      PROVE  Cardinality(Places(w, x)) =
               (IF x \in Elements(v) THEN Cardinality(Places(v, x)) ELSE 0) + (IF x = s THEN 1 ELSE 0)
  <2>1. IsFiniteSet(Places(v, x)) /\ Cardinality(Places(v, x)) \in Nat
    BY <1>1, PlacesAreFinite
  <2>2. x \notin Elements(v) => Cardinality(Places(v, x)) = 0
    <3>1. x \notin Elements(v) => Places(v, x) = {}
      BY DEF Elements, Places
    <3>. QED BY <3>1, FS_EmptySet
  <2>3. CASE x = s
    <3>1. Places(w, x) = Places(v, x) \cup {n + 1} /\ n + 1 \notin Places(v, x)
      BY <1>1, <1>2, <2>3 DEF Places
    <3>2. Cardinality(Places(w, x)) = Cardinality(Places(v, x)) + 1
      BY <2>1, <3>1, FS_AddElement
    <3>. QED BY <2>1, <2>2, <2>3, <3>2
  <2>4. CASE x # s
    <3>1. Places(w, x) = Places(v, x)
      BY <1>1, <1>2, <2>4 DEF Places
    <3>. QED BY <2>1, <2>2, <2>4, <3>1
  <2>. QED BY <2>3, <2>4
<1>5. /\ BagOf(w) = [x \in Elements(w) |-> Cardinality(Places(w, x))]
      /\ BagOf(v) = [x \in Elements(v) |-> Cardinality(Places(v, x))]
  BY DEF BagOf, Elements, Places
<1>6. BagOf(v) (+) SetToBag({s}) =
        [x \in Elements(v) \cup {s} |->
           (IF x \in Elements(v) THEN Cardinality(Places(v, x)) ELSE 0) + (IF x = s THEN 1 ELSE 0)]
  <2>1. SetToBag({s}) = [x \in {s} |-> 1]
    BY DEF SetToBag
  <2>2. /\ DOMAIN SetToBag({s}) = {s} /\ SetToBag({s})[s] = 1
        /\ DOMAIN BagOf(v) = Elements(v)
        /\ \A x \in Elements(v) : BagOf(v)[x] = Cardinality(Places(v, x))
    BY <1>5, <2>1
  <2>3. BagOf(v) (+) SetToBag({s}) =
          [x \in DOMAIN BagOf(v) \cup DOMAIN SetToBag({s}) |->
             (IF x \in DOMAIN BagOf(v) THEN BagOf(v)[x] ELSE 0)
               + (IF x \in DOMAIN SetToBag({s}) THEN SetToBag({s})[x] ELSE 0)]
    BY DEF (+)
  <2>. QED BY <2>2, <2>3
<1>. QED BY <1>3, <1>4, <1>5, <1>6 DEF w

-----------------------------------------------------------------------------
(* Where each element of result comes from: no place of the part that is   *)
(* merged was taken twice, so that merge moves the elements about.         *)

TakenPlace(i, p, q, d) == i > 0 /\ (i <= p \/ (d < i /\ i <= d + q))

Origin(g) ==
  /\ g \in [1 .. Len(result) -> Nat]
  /\ \A k \in 1 .. Len(result) : TakenPlace(g[k], leftCtr, rightCtr, Len(left))
  /\ \A j, k \in 1 .. Len(result) : g[j] = g[k] => j = k
  /\ \A k \in 1 .. Len(result) : result[k] = mapvec[Top.begin + g[k]]

OriginInv == pc = "sort" /\ Top.next = "take" => \E g : Origin(g)

(* The halves are d and c elements long, and begin at b.                   *)
HalvesAt(b, d, c, m) ==
  /\ b = Top.begin /\ b + d + c = Top.end /\ m = Len(mapvec) /\ b + d + c <= m
  /\ Len(left) = d /\ Len(right) = c
  /\ \A k \in 1 .. d : left[k] = mapvec[b + k] /\ left[k] \in Server
  /\ \A k \in 1 .. c : right[k] = mapvec[b + d + k] /\ right[k] \in Server

LEMMA HalvesHave ==
  ASSUME TypeOK, SortInv, Top.next = "take"
  PROVE  \E b \in Nat, d \in Nat, c \in Nat, m \in Nat : HalvesAt(b, d, c, m)
<1>1. PICK b \in Nat, h \in Nat, e \in Nat, m \in Nat :
        /\ b = Top.begin /\ h = Mid(Top) /\ e = Top.end /\ m = Len(mapvec)
        /\ b <= h /\ h <= e /\ e <= m
  <2>1. Len(mapvec) \in Nat
    BY DEF TypeOK
  <2>. QED BY <2>1, TopFits
<1>2. Len(left) = h - b /\ Len(right) = e - h
  BY <1>1, HalvesAreSlices DEF SortInv, Merging
<1>3. PICK d \in Nat, c \in Nat : d = h - b /\ c = e - h /\ b + d = h /\ h + c = e
  <2>1. h - b \in Nat /\ e - h \in Nat /\ b + (h - b) = h /\ h + (e - h) = e
    BY <1>1
  <2>. QED BY <2>1
<1>4. /\ \A k \in 1 .. h - b : left[k] = mapvec[b + k]
      /\ \A k \in 1 .. e - h : right[k] = mapvec[h + k]
  BY <1>1 DEF SortInv, Merging
<1>5. /\ \A k \in 1 .. d : left[k] = mapvec[b + k] /\ left[k] \in Server
      /\ \A k \in 1 .. c : right[k] = mapvec[b + d + k] /\ right[k] \in Server
  <2>1. /\ \A k \in 1 .. d : left[k] \in Server
        /\ \A k \in 1 .. c : right[k] \in Server
    BY <1>2, <1>3, ElementOfSeq DEF TypeOK
  <2>. QED BY <1>3, <1>4, <2>1
<1>6. /\ b = Top.begin /\ b + d + c = Top.end /\ m = Len(mapvec) /\ b + d + c <= m
      /\ Len(left) = d /\ Len(right) = c
  BY <1>1, <1>2, <1>3
<1>7. HalvesAt(b, d, c, m)
  BY <1>5, <1>6 DEF HalvesAt
<1>. QED BY <1>7

LEMMA TakeMoves ==
  ASSUME TypeOK, SortInv, Take, NEW g, Origin(g)
  PROVE  \E f : Origin(f)'
<1>a. Top.next = "take" /\ Merging
  BY DEF Take, Running, SortInv
<1>b. PICK b \in Nat, d \in Nat, c \in Nat :
        /\ b = Top.begin /\ Len(left) = d /\ Len(right) = c
        /\ \A k \in 1 .. d : left[k] = mapvec[b + k] /\ left[k] \in Server
        /\ \A k \in 1 .. c : right[k] = mapvec[b + d + k] /\ right[k] \in Server
  BY <1>a, HalvesHave DEF HalvesAt
<1>d. PICK p \in Nat, q \in Nat, n \in Nat :
        /\ p = leftCtr /\ q = rightCtr /\ n = Len(result) /\ n = p + q
        /\ p <= d /\ q <= c /\ n < d + c
  <2>1. leftCtr \in 0 .. d /\ rightCtr \in 0 .. c
    BY <1>b DEF TypeOK
  <2>2. Len(result) = leftCtr + rightCtr /\ Len(result) < d + c
    BY <1>a, <1>b DEF Merging, Take
  <2>3. Len(result) \in Nat
    BY DEF TypeOK
  <2>. QED BY <2>1, <2>2, <2>3
<1>f. /\ g \in [1 .. n -> Nat]
      /\ \A k \in 1 .. n : TakenPlace(g[k], p, q, d)
      /\ \A j, k \in 1 .. n : g[j] = g[k] => j = k
      /\ \A k \in 1 .. n : result[k] = mapvec[b + g[k]]
  BY <1>b, <1>d DEF Origin
<1>g. PICK x \in Server, i \in Nat, P \in Nat, Q \in Nat :
        /\ result' = Append(result, x) /\ leftCtr' = P /\ rightCtr' = Q
        /\ x = mapvec[b + i]
        /\ p <= P /\ q <= Q
        /\ TakenPlace(i, P, Q, d) /\ ~TakenPlace(i, p, q, d)
  <2>1. CASE FromLeft
    <3>1. p < d
      BY <1>b, <1>d, <2>1 DEF FromLeft
    <3>2. p + 1 \in 1 .. d
      BY <3>1
    <3>3. left[p + 1] = mapvec[b + (p + 1)] /\ left[p + 1] \in Server
      BY <1>b, <3>2
    <3>4. result' = Append(result, left[p + 1]) /\ leftCtr' = p + 1 /\ rightCtr' = q
      BY <1>d, <2>1 DEF Take
    <3>5. TakenPlace(p + 1, p + 1, q, d) /\ ~TakenPlace(p + 1, p, q, d)
      BY <3>1 DEF TakenPlace
    <3>6. p + 1 \in Nat /\ p <= p + 1 /\ q <= q
      OBVIOUS
    <3>. QED BY <3>3, <3>4, <3>5, <3>6
  <2>2. CASE ~FromLeft
    <3>1. q < c
      <4>1. p < d => q < c
        BY <1>b, <1>d, <2>2 DEF FromLeft
      <4>2. ~(p < d) => q < c
        BY <1>d
      <4>. QED BY <4>1, <4>2
    <3>2. q + 1 \in 1 .. c /\ b + d + (q + 1) = b + (d + q + 1)
      BY <3>1
    <3>3. right[q + 1] = mapvec[b + (d + q + 1)] /\ right[q + 1] \in Server
      <4>1. right[q + 1] = mapvec[b + d + (q + 1)] /\ right[q + 1] \in Server
        BY <1>b, <3>2
      <4>. QED BY <3>2, <4>1
    <3>4. result' = Append(result, right[q + 1]) /\ leftCtr' = p /\ rightCtr' = q + 1
      BY <1>d, <2>2 DEF Take
    <3>5. TakenPlace(d + q + 1, p, q + 1, d) /\ ~TakenPlace(d + q + 1, p, q, d)
      BY <1>d DEF TakenPlace
    <3>6. d + q + 1 \in Nat /\ q + 1 \in Nat /\ p <= p /\ q <= q + 1
      OBVIOUS
    <3>. QED BY <3>3, <3>4, <3>5, <3>6
  <2>. QED BY <2>1, <2>2
<1>h. /\ Len(result') = n + 1 /\ result'[n + 1] = x
      /\ \A k \in 1 .. n : result'[k] = result[k]
  <2>1. result \in Seq(Server)
    BY DEF TypeOK
  <2>2. x \in Server /\ result' = Append(result, x)
    BY <1>g
  <2>3. n = Len(result)
    BY <1>d
  <2>. QED BY <2>1, <2>2, <2>3, AppendProperties
<1>i. mapvec' = mapvec /\ Top' = Top /\ left' = left
  BY DEF Take, Top
<1>. DEFINE f == [k \in 1 .. n + 1 |-> IF k = n + 1 THEN i ELSE g[k]]
<1>0. f[n + 1] = i /\ \A k \in 1 .. n : f[k] = g[k] /\ k \in 1 .. n + 1
  OBVIOUS
<1>1. f \in [1 .. n + 1 -> Nat]
  BY <1>f
<1>2. \A k \in 1 .. n + 1 : k = n + 1 \/ k \in 1 .. n
  OBVIOUS
<1>. HIDE DEF f
<1>3. \A k \in 1 .. n + 1 : TakenPlace(f[k], P, Q, d)
  <2>1. \A k \in 1 .. n : g[k] \in Nat /\ TakenPlace(g[k], p, q, d)
    BY <1>f
  <2>2. \A y \in Nat : TakenPlace(y, p, q, d) => TakenPlace(y, P, Q, d)
    BY <1>g DEF TakenPlace
  <2>. QED BY <1>g, <1>0, <1>2, <2>1, <2>2
<1>4. \A k \in 1 .. n : f[k] # i
  BY <1>f, <1>g, <1>0
<1>5. \A j, k \in 1 .. n + 1 : f[j] = f[k] => j = k
  <2>1. \A j, k \in 1 .. n : f[j] = f[k] => j = k
    BY <1>f, <1>0
  <2>. QED BY <1>0, <1>2, <1>4, <2>1
<1>6. \A k \in 1 .. n + 1 : result'[k] = mapvec[b + f[k]]
  BY <1>f, <1>g, <1>h, <1>0, <1>2
<1>7. /\ f \in [1 .. Len(result') -> Nat]
      /\ \A k \in 1 .. Len(result') : TakenPlace(f[k], leftCtr', rightCtr', Len(left'))
      /\ \A j, k \in 1 .. Len(result') : f[j] = f[k] => j = k
      /\ \A k \in 1 .. Len(result') : result'[k] = mapvec'[Top'.begin + f[k]]
  <2>1. Len(result') = n + 1 /\ leftCtr' = P /\ rightCtr' = Q /\ Len(left') = d
        /\ mapvec' = mapvec /\ Top'.begin = b
    BY <1>b, <1>g, <1>h, <1>i
  <2>. QED BY <1>1, <1>3, <1>5, <1>6, <2>1
<1>. QED BY <1>7 DEF Origin, TakenPlace

(* When result is copied back, every element of the part is in it once.    *)
LEMMA CopyBackMoves ==
  ASSUME TypeOK, SortInv, CopyBack, NEW g, Origin(g)
  PROVE  BagOf(mapvec') = BagOf(mapvec)
<1>a. Top.next = "take"
  BY DEF CopyBack, Running
<1>b. PICK b \in Nat, d \in Nat, c \in Nat, m \in Nat :
        /\ b = Top.begin /\ b + d + c = Top.end /\ m = Len(mapvec) /\ b + d + c <= m
        /\ Len(left) = d /\ Len(right) = c
  BY <1>a, HalvesHave DEF HalvesAt
<1>c. PICK n \in Nat, e \in Nat : n = d + c /\ e = b + n /\ e = Top.end /\ e <= m
  <2>1. d + c \in Nat /\ b + (d + c) \in Nat /\ b + (d + c) = b + d + c
    OBVIOUS
  <2>. QED BY <1>b, <2>1
<1>d. PICK p \in Nat, q \in Nat :
        p = leftCtr /\ q = rightCtr /\ p <= d /\ q <= c
  <2>1. leftCtr \in 0 .. d /\ rightCtr \in 0 .. c
    BY <1>b DEF TypeOK
  <2>. QED BY <2>1
<1>e. Len(result) = n
  BY <1>b, <1>c DEF CopyBack
<1>f. /\ g \in [1 .. n -> Nat]
      /\ \A k \in 1 .. n : TakenPlace(g[k], p, q, d)
      /\ \A j, k \in 1 .. n : g[j] = g[k] => j = k
      /\ \A k \in 1 .. n : result[k] = mapvec[b + g[k]]
  BY <1>b, <1>d, <1>e DEF Origin
<1>g. \A k \in 1 .. n : g[k] \in 1 .. n
  <2>1. \A y \in Nat : TakenPlace(y, p, q, d) => y \in 1 .. n
    BY <1>c, <1>d DEF TakenPlace
  <2>. QED BY <1>f, <2>1
<1>h. mapvec' = [k \in 1 .. m |-> IF b < k /\ k <= e THEN result[k - b] ELSE mapvec[k]]
  BY <1>b, <1>c DEF CopyBack, Copied
<1>. DEFINE In(k) == b < k /\ k <= e
            G == [k \in 1 .. m |-> IF In(k) THEN b + g[k - b] ELSE k]
<1>1. \A k \in 1 .. m : In(k) => k - b \in 1 .. n
  BY <1>c
<1>2. \A k \in 1 .. m : In(k) =>
        /\ G[k] = b + g[k - b] /\ g[k - b] \in 1 .. n /\ mapvec'[k] = result[k - b]
  BY <1>g, <1>h, <1>1
<1>3. \A k \in 1 .. m : ~In(k) => G[k] = k /\ mapvec'[k] = mapvec[k]
  BY <1>h
<1>4. \A y \in 1 .. n : b + y \in 1 .. m /\ In(b + y)
  BY <1>c
<1>5. G \in [1 .. m -> 1 .. m]
  <2>1. \A k \in 1 .. m : In(k) => b + g[k - b] \in 1 .. m
    BY <1>2, <1>4
  <2>. QED BY <2>1
<1>. HIDE DEF G
<1>6. \A k \in 1 .. m : In(k) => In(G[k])
  BY <1>2, <1>4
<1>. HIDE DEF In
<1>7. \A k \in 1 .. m : mapvec'[k] = mapvec[G[k]]
  BY <1>f, <1>1, <1>2, <1>3
<1>8. \A j, k \in 1 .. m : G[j] = G[k] => j = k
  <2>. SUFFICES ASSUME NEW j \in 1 .. m, NEW k \in 1 .. m, G[j] = G[k] PROVE j = k
    OBVIOUS
  <2>1. CASE In(j) /\ In(k)
    <3>1. b + g[j - b] = b + g[k - b] /\ g[j - b] \in 1 .. n /\ g[k - b] \in 1 .. n
      BY <1>2, <2>1
    <3>2. g[j - b] = g[k - b]
      BY <3>1
    <3>3. j - b \in 1 .. n /\ k - b \in 1 .. n
      BY <1>1, <2>1
    <3>4. j - b = k - b
      BY <1>f, <3>2, <3>3
    <3>. QED BY <3>4
  <2>2. CASE ~In(j) /\ ~In(k)
    BY <1>3, <2>2
  <2>3. CASE In(j) /\ ~In(k)
    BY <1>3, <1>6, <2>3
  <2>4. CASE ~In(j) /\ In(k)
    BY <1>3, <1>6, <2>4
  <2>. QED BY <2>1, <2>2, <2>3, <2>4
<1>9. Len(mapvec) = m /\ Len(mapvec') = m
  <2>1. PartSorted
    BY CopyBackStep
  <2>. QED BY <1>b, <2>1 DEF PartSorted
<1>10. PICK w : w = mapvec'
  OBVIOUS
<1>11. Len(w) = m /\ \A k \in 1 .. m : w[k] = mapvec[G[k]]
  BY <1>7, <1>9, <1>10
<1>12. BagOf(w) = BagOf(mapvec)
  BY <1>5, <1>8, <1>9, <1>11, MovedAbout, SMTT(30)
<1>. QED BY <1>10, <1>12

LEMMA ReturnsToCaller ==
  ASSUME TypeOK, SortInv, Return
  PROVE  pc' = "print" \/ Top'.next # "take"
<1>1. stack \in Seq(Frame) /\ stack # <<>>
  BY DEF TypeOK, Frame, SortInv
<1>2. PICK n \in Nat : n = Len(stack) /\ n > 0
  BY <1>1
<1>3. CASE n = 1
  BY <1>2, <1>3 DEF Return
<1>4. CASE n > 1
  <2>1. stack' = SubSeq(stack, 1, n - 1)
    BY <1>2 DEF Return
  <2>2. Len(stack') = n - 1 /\ stack'[n - 1] = stack[n - 1]
    BY <1>1, <1>2, <1>4, <2>1, SubSeqProperties
  <2>3. Top' = stack[n - 1]
    BY <2>2 DEF Top
  <2>4. stack[n - 1].next \in {"sortRight", "merge"}
    BY <1>2, <1>4 DEF SortInv, FramesFit
  <2>. QED BY <2>3, <2>4
<1>. QED BY <1>2, <1>3, <1>4

LEMMA OriginStep == RankInv /\ OriginInv /\ [Next]_vars => OriginInv'
<1>. SUFFICES ASSUME RankInv, OriginInv, [Next]_vars PROVE OriginInv'
  OBVIOUS
<1>1. CASE UNCHANGED vars
  BY <1>1 DEF OriginInv, Origin, Top, vars, mergeVars
<1>2. CASE pc' # "sort"
  BY <1>2 DEF OriginInv
<1>3. CASE Sort
  <2>1. Top'.next = "sortLeft"
    BY <1>3 DEF Sort, Top, Call
  <2>. QED BY <2>1 DEF OriginInv
<1>4. CASE SortStep
  <2>0. TypeOK /\ SortInv
    BY <1>4 DEF RankInv, SortStep, SortNothing, SortLeft, SortRight, Populate, Take, CopyBack, Running
  <2>1. CASE SortNothing \/ CopyBack
    <3>1. pc' = "print" \/ Top'.next # "take"
      BY <2>0, <2>1, ReturnsToCaller DEF SortNothing, CopyBack
    <3>. QED BY <3>1 DEF OriginInv
  <2>2. CASE SortLeft \/ SortRight
    <3>1. PICK t, begin, end : stack' = Append(Then(t), Call(begin, end))
      BY <2>2 DEF SortLeft, SortRight
    <3>2. stack \in Seq(Frame)
      BY <2>0 DEF TypeOK, Frame
    <3>3. Top' = Call(begin, end)
      <4>1. PICK n \in Nat : n = Len(stack)
        BY <3>2
      <4>2. PICK S : S = {Then(t)[k] : k \in 1 .. n} \cup {Call(begin, end)}
        OBVIOUS
      <4>3. DOMAIN Then(t) = 1 .. n /\ Then(t) = [k \in 1 .. n |-> Then(t)[k]]
        <5>1. DOMAIN stack = 1 .. n
          BY <3>2, <4>1
        <5>. QED BY <5>1 DEF Then
      <4>4. Then(t) \in Seq(S) /\ Len(Then(t)) = n /\ Call(begin, end) \in S
        BY <4>2, <4>3
      <4>5. Len(stack') = n + 1 /\ stack'[n + 1] = Call(begin, end)
        BY <3>1, <4>4, AppendProperties
      <4>. QED BY <4>5 DEF Top
    <3>. QED BY <3>3 DEF OriginInv, Call
  <2>3. CASE Populate
    <3>1. result' = <<>> /\ Len(result') = 0
      BY <2>3 DEF Populate
    <3>2. Origin([k \in 1 .. 0 |-> 0])'
      BY <3>1 DEF Origin
    <3>. QED BY <3>2 DEF OriginInv
  <2>4. CASE Take
    <3>1. pc = "sort" /\ Top.next = "take"
      BY <2>4 DEF Take, Running
    <3>2. PICK g : Origin(g)
      BY <3>1 DEF OriginInv
    <3>. QED BY <2>0, <2>4, <3>2, TakeMoves DEF OriginInv
  <2>. QED BY <1>4, <2>1, <2>2, <2>3, <2>4 DEF SortStep
<1>. QED BY <1>1, <1>2, <1>3, <1>4
         DEF Next, RankInv, ReadServer, CompareByte, AddToMap, NextLocation, PrintOut

-----------------------------------------------------------------------------
(* The refinement *)

ListInv ==
  /\ RankInv /\ OriginInv
  /\ pc # "done" => output = <<>>

LEMMA ListInvariant == Spec => []ListInv
<1>1. Init => ListInv
  BY InitRank DEF Init, ListInv, OriginInv
<1>2. ListInv /\ [Next]_vars => ListInv'
  <2>. SUFFICES ASSUME ListInv, [Next]_vars PROVE ListInv'
    OBVIOUS
  <2>1. RankInv' /\ OriginInv'
    BY RankStep, OriginStep DEF ListInv
  <2>2. pc' # "done" => output' = <<>>
    BY DEF ListInv, Next, ReadServer, CompareByte, AddToMap, NextLocation, Sort, SortStep, SortNothing,
           SortLeft, SortRight, Populate, Take, CopyBack, Return, Running, PrintOut, vars
  <2>. QED BY <2>1, <2>2 DEF ListInv
<1>. QED BY <1>1, <1>2, PTL DEF Spec

(* A step of the sort moves the servers about and neither loses nor        *)
(* doubles one.                                                            *)
LEMMA SortKeepsServers ==
  ASSUME ListInv, SortStep
  PROVE  BagOf(mapvec') = BagOf(mapvec)
<1>1. CASE CopyBack
  <2>1. TypeOK /\ SortInv /\ \E g : Origin(g)
    BY <1>1 DEF ListInv, RankInv, OriginInv, CopyBack, Running
  <2>. QED BY <1>1, <2>1, CopyBackMoves
<1>2. CASE mapvec' = mapvec
  BY <1>2
<1>. QED BY <1>1, <1>2 DEF SortStep, SortNothing, SortLeft, SortRight, Populate, Take

LEMMA ListStep ==
  ASSUME ListInv, ListInv', [Next]_vars
  PROVE  [Listing!Collect \/ Listing!Publish]_<<BagOf(mapvec), output>>
<1>b. \A q : Listing!BagOf(q) = BagOf(q)
  <2>1. \A S : Listing!Cardinality(S) = Cardinality(S)
    BY Zenon DEF Listing!Cardinality, Cardinality, Listing!IsFiniteSet, IsFiniteSet
  <2>. QED BY <2>1 DEF Listing!BagOf, BagOf
<1>s. Listing!Server = Server
  BY DEF Listing!Server, Server
<1>1. CASE AddToMap
  <2>1. PICK s : mapvec' = Append(mapvec, s)
    BY <1>1 DEF AddToMap
  <2>2. mapvec \in Seq(Server) /\ mapvec' \in Seq(Server)
    BY DEF ListInv, RankInv, TypeOK
  <2>3. s \in Server
    <3>1. PICK n \in Nat : n = Len(mapvec)
      BY <2>2
    <3>2. mapvec \in Seq(Server \cup {s})
      BY <2>2
    <3>3. Len(mapvec') = n + 1 /\ mapvec'[n + 1] = s
      BY <2>1, <3>1, <3>2, AppendProperties
    <3>. QED BY <2>2, <3>1, <3>3, ElementOfSeq
  <2>4. BagOf(mapvec') = BagOf(mapvec) (+) SetToBag({s})
    BY <2>1, <2>2, <2>3, AppendedToBag
  <2>5. s \in DOMAIN BagOf(mapvec')
    <3>1. DOMAIN BagOf(mapvec) \cup DOMAIN SetToBag({s}) = DOMAIN (BagOf(mapvec) (+) SetToBag({s}))
      BY DEF (+)
    <3>. QED BY <2>4, <3>1 DEF SetToBag
  <2>6. output = <<>> /\ output' = output
    BY <1>1 DEF ListInv, AddToMap
  <2>7. BagOf(mapvec') = Listing!(+)(BagOf(mapvec), Listing!SetToBag({s}))
    BY <2>4 DEF (+), Listing!(+), SetToBag, Listing!SetToBag
  <2>. QED BY <2>3, <2>5, <2>6, <2>7, <1>s DEF Listing!Collect
<1>2. CASE PrintOut
  <2>1. output = <<>> /\ output' = mapvec /\ mapvec' = mapvec /\ pc = "print"
    BY <1>2 DEF ListInv, PrintOut
  <2>2. mapvec \in Seq(Server) /\ SortedIn(mapvec, 0, Len(mapvec))
    BY <2>1 DEF ListInv, RankInv, TypeOK
  <2>3. Listing!SortedIn(mapvec, 0, Len(mapvec))
    BY <2>2 DEF Listing!SortedIn, SortedIn, Listing!MyCompare, MyCompare, Listing!Distance, Distance
  <2>. QED BY <1>b, <1>s, <2>1, <2>2, <2>3 DEF Listing!Publish
<1>3. CASE SortStep /\ output' = output
  BY <1>3, SortKeepsServers
<1>4. CASE mapvec' = mapvec /\ output' = output
  BY <1>4
<1>. QED BY <1>1, <1>2, <1>3, <1>4
         DEF Next, ReadServer, CompareByte, NextLocation, Sort, vars

(* P4Server lists every server that was read, as often as it was read and  *)
(* none else, in the order of myCompare: mergeSort loses none and doubles  *)
(* none, for every number of servers.                                      *)
THEOREM ListingImplementsRanking == Spec => ImplementsRanking
<1>1. Init => Listing!RankingInit
  <2>. SUFFICES ASSUME Init PROVE Listing!RankingInit
    OBVIOUS
  <2>1. mapvec = <<>> /\ output = <<>> /\ Len(mapvec) = 0
    BY DEF Init, SortInit
  <2>2. {mapvec[k] : k \in 1 .. Len(mapvec)} = {}
    BY <2>1
  <2>3. BagOf(mapvec) = [x \in {} |-> 1]
    BY <2>2 DEF BagOf
  <2>. QED BY <2>1, <2>3 DEF Listing!RankingInit, Listing!EmptyBag, Listing!SetToBag
<1>. QED BY <1>1, ListInvariant, ListStep, PTL
         DEF Spec, ImplementsRanking, Listing!RankingSpec
=============================================================================
