----------------------------- MODULE ClockSweep -----------------------------
(***************************************************************************)
(* The loop of allocBuf (484_proj_3/buf.cpp), one step per iteration, from *)
(* any table and hand.  BufMgr takes the whole call as one step and gives  *)
(* its result by the definitions of Clock; this module shows that the loop *)
(* ends, and ends with that result.                                        *)
(***************************************************************************)
EXTENDS Clock

CONSTANT MaxPin   (* bound on the pin counts the loop is started with      *)

ASSUME PinAssumption == MaxPin \in Nat

VARIABLES
  bufTable, clockHand,
  temp,      (* the frame the loop started at                              *)
  status,    (* what the call returns, or where it is                      *)
  entry      (* the table and hand at the call                             *)

sweepVars == <<bufTable, clockHand, temp, status, entry>>

(* What the loop reads of a BufDesc.  An invalid one is cleared.           *)
Desc == [valid : BOOLEAN, loved : BOOLEAN, pinCnt : 0 .. MaxPin]
Cleared == [valid |-> FALSE, loved |-> FALSE, pinCnt |-> 0]

Init ==
  /\ bufTable \in [Frames -> {b \in Desc : b.valid} \cup {Cleared}]
  /\ clockHand \in Frames
  /\ temp = 0
  /\ status = "called"
  /\ entry = [table |-> bufTable, hand |-> clockHand]

Start ==
  /\ status = "called"
  /\ clockHand' = Advance(clockHand)
  /\ temp' = clockHand'
  /\ status' = "looping"
  /\ UNCHANGED <<bufTable, entry>>

(* Mutant: the hand does not move on from a pinned frame.                  *)
PassStuck ==
  LET b == bufTable[clockHand] IN
  /\ status = "looping" /\ b.valid /\ b.loved
  /\ bufTable' = [bufTable EXCEPT ![clockHand].loved = FALSE]
  /\ clockHand' = Advance(clockHand)
  /\ status' = IF clockHand' # temp THEN "looping" ELSE "BUFFEREXCEEDED"
  /\ UNCHANGED <<temp, entry>>

(* The frame is loved, or else pinned: the hand moves on, and the loop     *)
(* ends when it is back where it started.                                  *)
Pass ==
  LET b == bufTable[clockHand] IN
  /\ status = "looping"
  /\ b.valid
  /\ \/ b.loved /\ bufTable' = [bufTable EXCEPT ![clockHand].loved = FALSE]
     \/ ~b.loved /\ b.pinCnt > 0 /\ UNCHANGED bufTable
  /\ clockHand' = Advance(clockHand)
  /\ status' = IF clockHand' # temp THEN "looping" ELSE "BUFFEREXCEEDED"
  /\ UNCHANGED <<temp, entry>>

(* Mutant: a loved frame is taken when it is not pinned.                   *)
TakeLoved ==
  LET b == bufTable[clockHand] IN
  /\ status = "looping"
  /\ b.valid => b.pinCnt <= 0
  /\ status' = "found"
  /\ UNCHANGED <<bufTable, clockHand, temp, entry>>

(* The frame is free or can be: the eviction is BufMgr's part.             *)
Take ==
  LET b == bufTable[clockHand] IN
  /\ status = "looping"
  /\ b.valid => ~b.loved /\ b.pinCnt <= 0
  /\ status' = "found"
  /\ UNCHANGED <<bufTable, clockHand, temp, entry>>

Next == Start \/ Pass \/ Take

Spec == Init /\ [][Next]_sweepVars /\ WF_sweepVars(Next)

-----------------------------------------------------------------------------
(* The loop of allocBuf returns the frame, the hand and the table that     *)
(* Clock says, from every table and hand.                                  *)
LoopMeetsClosedForm ==
  /\ status = "found" =>
       /\ Victim(entry.table, entry.hand, clockHand)
       /\ bufTable = SweptTo(entry.table, entry.hand, clockHand)
  /\ status = "BUFFEREXCEEDED" =>
       /\ NoVictim(entry.table)
       /\ clockHand = Advance(entry.hand)
       /\ bufTable = SweptAll(entry.table)

(* The call returns: loved bits are cleared as the hand passes, and the    *)
(* start position is met again.  Fairness: the loop runs until it is left. *)
SweepEnds == <>(status \in {"found", "BUFFEREXCEEDED"})
=============================================================================
