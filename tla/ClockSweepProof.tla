-------------------------- MODULE ClockSweepProof ---------------------------
(***************************************************************************)
(* The loop of allocBuf returns what Clock says, for every number of       *)
(* frames and from every table and hand.                                   *)
(***************************************************************************)
EXTENDS ClockSweep, TLAPS

(* The frames the hand has passed were not replaceable, and were changed   *)
(* by having their loved bit cleared; the others are as the call found     *)
(* them.                                                                   *)
SweepType ==
  /\ bufTable \in [Frames -> Desc] /\ clockHand \in Frames /\ temp \in Frames
  /\ entry.table \in [Frames -> Desc] /\ entry.hand \in Frames
  /\ status \in {"called", "looping", "found", "BUFFEREXCEEDED"}

Passed(i) == Ahead(entry.hand, i) < Ahead(entry.hand, clockHand)

Swept ==
  /\ temp = Advance(entry.hand)
  /\ bufTable = SweptTo(entry.table, entry.hand, clockHand)
  /\ \A i \in Frames : Passed(i) => ~Replaceable(entry.table[i])

SweepInv ==
  /\ SweepType
  /\ status = "called" => bufTable = entry.table /\ clockHand = entry.hand
  /\ status = "looping" => Swept
  /\ LoopMeetsClosedForm

-----------------------------------------------------------------------------
(* The ring of frames. *)

LEMMA Modulus ==
  ASSUME NEW x \in Int
  PROVE  /\ 0 <= x /\ x < numBufs => x % numBufs = x
         /\ -numBufs <= x /\ x < 0 => x % numBufs = x + numBufs
         /\ x = numBufs => x % numBufs = 0
BY BufsAssumption

LEMMA AdvanceIs ==
  ASSUME NEW h \in Frames
  PROVE  Advance(h) = IF h + 1 = numBufs THEN 0 ELSE h + 1
BY BufsAssumption, Modulus DEF Advance, Frames

LEMMA AheadIs ==
  ASSUME NEW h \in Frames, NEW i \in Frames
  PROVE  Ahead(h, i) = IF i > h THEN i - h - 1 ELSE i - h - 1 + numBufs
BY BufsAssumption, Modulus DEF Ahead, Frames

LEMMA RingApart ==
  ASSUME NEW h \in Frames, NEW c \in Frames, NEW i \in Frames, Ahead(h, i) = Ahead(h, c)
  PROVE  i = c
BY BufsAssumption, AheadIs DEF Frames

(* The hand meets every frame once before it is back where it started.     *)
LEMMA Ring ==
  ASSUME NEW h \in Frames, NEW c \in Frames
  PROVE  /\ Advance(c) \in Frames
         /\ Ahead(h, c) \in 0 .. numBufs - 1
         /\ Advance(c) = Advance(h) => Ahead(h, c) = numBufs - 1
         /\ Advance(c) # Advance(h) => Ahead(h, Advance(c)) = Ahead(h, c) + 1
         /\ Ahead(h, Advance(h)) = 0
<1>. USE BufsAssumption DEF Frames
<1>1. Advance(c) \in Frames /\ Advance(h) \in Frames
  BY AdvanceIs
<1>2. Ahead(h, c) \in 0 .. numBufs - 1
  BY AheadIs
<1>4. Advance(c) = Advance(h) => Ahead(h, c) = numBufs - 1
  BY AdvanceIs, AheadIs
<1>5. Advance(c) # Advance(h) => Ahead(h, Advance(c)) = Ahead(h, c) + 1
  <2>1. Ahead(h, Advance(c)) = IF Advance(c) > h THEN Advance(c) - h - 1
                               ELSE Advance(c) - h - 1 + numBufs
    BY <1>1, AheadIs
  <2>2. Ahead(h, c) = IF c > h THEN c - h - 1 ELSE c - h - 1 + numBufs
    BY AheadIs
  <2>. QED BY <2>1, <2>2, AdvanceIs
<1>6. Ahead(h, Advance(h)) = 0
  BY <1>1, AdvanceIs, AheadIs
<1>. QED BY <1>1, <1>2, <1>4, <1>5, <1>6

-----------------------------------------------------------------------------
LEMMA SweepInit == Init => SweepInv
<1>. SUFFICES ASSUME Init PROVE SweepInv
  OBVIOUS
<1>1. Cleared \in Desc
  BY PinAssumption DEF Desc, Cleared
<1>2. bufTable \in [Frames -> Desc]
  BY <1>1 DEF Init
<1>3. entry.table = bufTable /\ entry.hand = clockHand /\ status = "called"
  BY DEF Init
<1>4. 0 \in Frames
  BY BufsAssumption DEF Frames
<1>. QED BY <1>2, <1>3, <1>4 DEF Init, SweepInv, SweepType, LoopMeetsClosedForm

LEMMA StartStep == SweepInv /\ Start => SweepInv'
<1>. SUFFICES ASSUME SweepInv, Start PROVE SweepInv'
  OBVIOUS
<1>1. /\ clockHand = entry.hand /\ bufTable = entry.table /\ UNCHANGED <<bufTable, entry>>
      /\ clockHand' = Advance(entry.hand) /\ temp' = Advance(entry.hand) /\ status' = "looping"
  BY DEF SweepInv, Start
<1>2. SweepType'
  BY <1>1, Ring DEF SweepInv, SweepType
<1>3. \A i \in Frames : ~Passed(i)'
  BY <1>1, Ring DEF SweepInv, SweepType, Passed
<1>4. bufTable' = SweptTo(entry'.table, entry'.hand, clockHand')
  BY <1>1, <1>2, <1>3 DEF SweptTo, SweepType, Passed
<1>. QED BY <1>1, <1>2, <1>3, <1>4 DEF SweepInv, Swept, LoopMeetsClosedForm

LEMMA UnlovedDesc ==
  ASSUME NEW b \in Desc
  PROVE  Unloved(b) \in Desc /\ (~b.loved => Unloved(b) = b)
BY DEF Unloved, Desc

(* The hand passes the frame, the first that has not been passed yet.      *)
LEMMA PassStep == SweepInv /\ Pass => SweepInv'
<1>. SUFFICES ASSUME SweepInv, Pass PROVE SweepInv'
  OBVIOUS
<1>. DEFINE h == entry.hand
            t == entry.table
            c == clockHand
<1>0. /\ SweepType /\ Swept /\ h \in Frames /\ c \in Frames /\ t \in [Frames -> Desc]
      /\ bufTable[c].valid /\ UNCHANGED <<temp, entry>>
      /\ clockHand' = Advance(c)
      /\ status' = IF Advance(c) # Advance(h) THEN "looping" ELSE "BUFFEREXCEEDED"
  BY DEF SweepInv, SweepType, Swept, Pass
<1>1. bufTable[c] = t[c] /\ t[c] \in Desc
  BY <1>0, Ring DEF Swept, SweptTo
<1>2. ~Replaceable(t[c])
  BY <1>0, <1>1 DEF Replaceable, Pass, Desc
<1>3. bufTable' = [bufTable EXCEPT ![c] = Unloved(t[c])]
  <2>1. CASE bufTable' = [bufTable EXCEPT ![c].loved = FALSE]
    BY <1>1, <2>1 DEF Unloved
  <2>2. CASE ~bufTable[c].loved /\ bufTable' = bufTable
    BY <1>0, <1>1, <2>2, UnlovedDesc DEF SweepType
  <2>. QED BY <2>1, <2>2 DEF Pass
<1>4. SweepType'
  <2>1. bufTable' \in [Frames -> Desc]
    BY <1>0, <1>1, <1>3, UnlovedDesc DEF SweepType
  <2>. QED BY <1>0, <2>1, Ring DEF SweepType
<1>5. \A i \in Frames : bufTable'[i] =
        IF Ahead(h, i) <= Ahead(h, c) THEN Unloved(t[i]) ELSE t[i]
  <2>. SUFFICES ASSUME NEW i \in Frames
                PROVE  bufTable'[i] = IF Ahead(h, i) <= Ahead(h, c) THEN Unloved(t[i]) ELSE t[i]
    OBVIOUS
  <2>1. bufTable[i] = IF Ahead(h, i) < Ahead(h, c) THEN Unloved(t[i]) ELSE t[i]
    BY <1>0 DEF Swept, SweptTo
  <2>2. /\ Ahead(h, i) \in Int /\ Ahead(h, c) \in Int
        /\ Ahead(h, i) = Ahead(h, c) => i = c
    <3>1. Ahead(h, i) \in 0 .. numBufs - 1 /\ Ahead(h, c) \in 0 .. numBufs - 1
      BY <1>0, Ring
    <3>2. Ahead(h, i) = Ahead(h, c) => i = c
      BY <1>0, RingApart
    <3>. QED BY <3>1, <3>2
  <2>. QED BY <1>0, <1>3, <2>1, <2>2 DEF SweepType
<1>6. \A i \in Frames : Ahead(h, i) <= Ahead(h, c) => ~Replaceable(t[i])
  <2>. SUFFICES ASSUME NEW i \in Frames, Ahead(h, i) <= Ahead(h, c)
                PROVE  ~Replaceable(t[i])
    OBVIOUS
  <2>1. Ahead(h, i) < Ahead(h, c) \/ i = c
    <3>1. Ahead(h, i) \in 0 .. numBufs - 1 /\ Ahead(h, c) \in 0 .. numBufs - 1
      BY <1>0, Ring
    <3>. QED BY <1>0, <3>1, RingApart
  <2>. QED BY <1>0, <1>2, <2>1 DEF Swept, Passed
<1>7. CASE Advance(c) # Advance(h)
  <2>1. \A i \in Frames : Ahead(h, i) <= Ahead(h, c) <=> Ahead(h, i) < Ahead(h, clockHand')
    BY <1>0, <1>7, Ring
  <2>2. bufTable' = SweptTo(t, h, clockHand')
    BY <1>4, <1>5, <2>1 DEF SweptTo, SweepType
  <2>3. Swept'
    BY <1>0, <1>6, <2>1, <2>2 DEF Swept, Passed
  <2>. QED BY <1>0, <1>4, <1>7, <2>3 DEF SweepInv, LoopMeetsClosedForm
<1>8. CASE Advance(c) = Advance(h)
  <2>1. \A i \in Frames : Ahead(h, i) <= Ahead(h, c)
    BY <1>0, <1>8, BufsAssumption, Ring
  <2>2. bufTable' = SweptAll(t) /\ NoVictim(t)
    BY <1>4, <1>5, <1>6, <2>1 DEF SweptAll, NoVictim, SweepType
  <2>. QED BY <1>0, <1>4, <1>8, <2>2 DEF SweepInv, LoopMeetsClosedForm
<1>. QED BY <1>7, <1>8

(* The frame the loop takes is the first replaceable one.                  *)
LEMMA TakeStep == SweepInv /\ Take => SweepInv'
<1>. SUFFICES ASSUME SweepInv, Take PROVE SweepInv'
  OBVIOUS
<1>1. /\ SweepType /\ Swept /\ status' = "found"
      /\ UNCHANGED <<bufTable, clockHand, temp, entry>>
  BY DEF SweepInv, Take
<1>2. bufTable[clockHand] = entry.table[clockHand]
  BY <1>1, Ring DEF SweepType, Swept, SweptTo
<1>3. Replaceable(entry.table[clockHand])
  BY <1>2 DEF Take, Replaceable
<1>4. Victim(entry.table, entry.hand, clockHand)
  <2>1. \A i \in Frames : /\ Ahead(entry.hand, i) \in Int
                          /\ Ahead(entry.hand, clockHand) \in Int
    BY <1>1, Ring DEF SweepType
  <2>. QED BY <1>1, <1>3, <2>1 DEF Victim, Swept, Passed
<1>5. SweepType'
  BY <1>1 DEF SweepType
<1>. QED BY <1>1, <1>4, <1>5 DEF SweepInv, Swept, LoopMeetsClosedForm

(* The loop of allocBuf takes the frame, and leaves the hand and the table,*)
(* that Clock says, and gives up only when no frame is replaceable: for    *)
(* every number of frames, from every table and hand.  BufMgr, which takes *)
(* the call as one step, is thereby what the loop does.                    *)
THEOREM LoopIsClock == Spec => []LoopMeetsClosedForm
<1>1. SweepInv /\ [Next]_sweepVars => SweepInv'
  <2>1. CASE UNCHANGED sweepVars
    BY <2>1 DEF sweepVars, SweepInv, SweepType, Swept, Passed, LoopMeetsClosedForm
  <2>. QED BY <2>1, StartStep, PassStep, TakeStep DEF Next
<1>2. SweepInv => LoopMeetsClosedForm
  BY DEF SweepInv
<1>. QED BY <1>1, <1>2, SweepInit, PTL DEF Spec
=============================================================================
