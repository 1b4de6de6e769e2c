--------------------------- MODULE MCCommandExec ----------------------------
(* Instances of CommandExec for TLC. *)
EXTENDS CommandExec

ThreeDocs == 1 .. 3
FourDocs == 1 .. 4
TwoRelevances == 1 .. 2
=============================================================================
