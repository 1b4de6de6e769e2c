------------------------------- MODULE MCSift -------------------------------
(* Instances of Sift for TLC. *)
EXTENDS Sift

FiveDocs == 1 .. 5
TwoRelevances == 1 .. 2
=============================================================================
