------------------------------- MODULE Clock -------------------------------
(***************************************************************************)
(* What one sweep of the clock hand comes to: the loop of allocBuf         *)
(* (484_proj_3/buf.cpp), in closed form, as a function of the table t and  *)
(* the hand h it starts with.  ClockSweep has the loop itself.             *)
(***************************************************************************)
EXTENDS Integers

CONSTANT numBufs   (* frames of the pool                                   *)

ASSUME BufsAssumption == numBufs \in Nat \ {0}

Frames == 0 .. numBufs - 1

(* advanceClock *)
Advance(h) == (h + 1) % numBufs

(* How many frames the hand passes before it reaches frame i: it starts    *)
(* behind its last position and visits every frame once.                   *)
Ahead(h, i) == (i - h - 1) % numBufs

(* Mutants: the pin count, or the love hint, is not looked at.             *)
ReplaceablePinned(b) == b.valid => ~b.loved
ReplaceableLoved(b) == b.valid => b.pinCnt <= 0

Replaceable(b) == b.valid => ~b.loved /\ b.pinCnt <= 0

(* The sweep takes the first replaceable frame ...                         *)
Victim(t, h, v) ==
  /\ Replaceable(t[v])
  /\ \A i \in Frames : Replaceable(t[i]) => Ahead(h, v) <= Ahead(h, i)

NoVictim(t) == \A i \in Frames : ~Replaceable(t[i])

(* ... and clears the loved bit of the frames it passes on the way.        *)
Unloved(b) == [b EXCEPT !.loved = FALSE]

SweptTo(t, h, v) ==
  [i \in Frames |-> IF Ahead(h, i) < Ahead(h, v) THEN Unloved(t[i]) ELSE t[i]]

(* Mutant: a sweep that finds nothing changes nothing.                     *)
SweptNone(t) == t

SweptAll(t) == [i \in Frames |-> Unloved(t[i])]
=============================================================================
