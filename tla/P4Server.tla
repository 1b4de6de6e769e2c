------------------------------ MODULE P4Server ------------------------------
(***************************************************************************)
(* The program P4Server (283_proj_4/main.cpp): it reads the root and then  *)
(* the servers, location after location, computes the relevance of each    *)
(* one by a loop over its bytes, sorts and prints.  The input is well      *)
(* formed; the root is the first server of the first location.             *)
(***************************************************************************)
EXTENDS MergeSort

CONSTANTS
  MaxLocations,  (* bound: the locations                                   *)
  MaxServers     (* bound: the servers besides the root                    *)

ASSUME BoundsAssumption == MaxLocations \in Nat \ {0} /\ MaxServers \in Nat

VARIABLES
  rootnum, rootcoord,
  locations, location, coord,       (* how many, which one, and where      *)
  numservs,                         (* the servers still to read there     *)
  binary, name,                     (* the server that was read last       *)
  byte, totaldifference,            (* the loop of returnrelevance         *)
  output                            (* the servers in the order printed    *)

rootVars == <<rootnum, rootcoord, locations>>
locationVars == <<location, coord, numservs>>
serverVars == <<binary, name, byte, totaldifference>>
vars == <<mapvec, stack, mergeVars, pc, rootVars, locationVars, serverVars, output>>

(* The name of the root is printed first and ranks nowhere.                *)
Init ==
  /\ SortInit /\ pc = "read"
  /\ rootnum \in Property /\ rootcoord \in Coordinate /\ coord = rootcoord
  /\ locations \in 1 .. MaxLocations /\ location = 1
  /\ numservs \in 0 .. MaxServers
  /\ binary = rootnum /\ name \in Name
  /\ byte = 0 /\ totaldifference = 0 /\ output = <<>>

ReadServer(b, n) ==
  /\ pc = "read" /\ numservs > 0
  /\ binary' = b /\ name' = n
  /\ byte' = 0 /\ totaldifference' = 0
  /\ pc' = "compare"
  /\ UNCHANGED <<mapvec, stack, mergeVars, rootVars, locationVars, output>>

(* Mutant: the loop over the bytes goes one too far.                       *)
ByteLeftOrEnd == byte <= GlobalSize

ByteLeft == byte < GlobalSize

CompareByte ==
  /\ pc = "compare" /\ ByteLeft
  /\ totaldifference' = totaldifference + Share(binary, rootnum, byte)
  /\ byte' = byte + 1
  /\ UNCHANGED <<mapvec, stack, mergeVars, pc, rootVars, locationVars, binary, name, output>>

AddToMap ==
  /\ pc = "compare" /\ ~ByteLeft
  /\ mapvec' = Append(mapvec, [relevance |-> totaldifference, name |-> name,
                               xcoord |-> coord[1] - rootcoord[1],
                               ycoord |-> coord[2] - rootcoord[2]])
  /\ numservs' = numservs - 1
  /\ pc' = "read"
  /\ UNCHANGED <<stack, mergeVars, rootVars, location, coord, serverVars, output>>

(* Mutant: the loop over the locations does not count.                     *)
SameLocation(c, n) ==
  /\ pc = "read" /\ numservs = 0 /\ location < locations
  /\ Len(mapvec) + n <= MaxServers
  /\ coord' = c /\ numservs' = n
  /\ UNCHANGED <<mapvec, stack, mergeVars, pc, rootVars, location, serverVars, output>>

NextLocation(c, n) ==
  /\ pc = "read" /\ numservs = 0 /\ location < locations
  /\ Len(mapvec) + n <= MaxServers
  /\ location' = location + 1 /\ coord' = c /\ numservs' = n
  /\ UNCHANGED <<mapvec, stack, mergeVars, pc, rootVars, serverVars, output>>

Sort ==
  /\ pc = "read" /\ numservs = 0 /\ location = locations
  /\ stack' = <<Call(0, Len(mapvec))>>
  /\ pc' = "sort"
  /\ UNCHANGED <<mapvec, mergeVars, rootVars, locationVars, serverVars, output>>

PrintOut ==
  /\ pc = "print"
  /\ output' = mapvec
  /\ pc' = "done"
  /\ UNCHANGED <<mapvec, stack, mergeVars, rootVars, locationVars, serverVars>>

Next ==
  \/ \E b \in Property, n \in Name : ReadServer(b, n)
  \/ CompareByte \/ AddToMap
  \/ \E c \in Coordinate, n \in 0 .. MaxServers : NextLocation(c, n)
  \/ Sort
  \/ SortStep /\ UNCHANGED <<rootVars, locationVars, serverVars, output>>
  \/ PrintOut

(* The program keeps going; its input does not block it for ever.          *)
Spec == Init /\ [][Next]_vars /\ WF_vars(Next)

-----------------------------------------------------------------------------
(* The type invariant.                                                     *)
TypeOK ==
  /\ mapvec \in Seq(Server) /\ result \in Seq(Server) /\ output \in Seq(Server)
  /\ left \in Seq(Server) /\ right \in Seq(Server)
  /\ leftCtr \in 0 .. Len(left) /\ rightCtr \in 0 .. Len(right)
  /\ stack \in Seq([begin : Nat, end : Nat, next : {"sortLeft", "sortRight", "merge", "take"}])
  /\ pc \in {"read", "compare", "sort", "print", "done"}
  /\ rootnum \in Property /\ binary \in Property /\ name \in Name
  /\ rootcoord \in Coordinate /\ coord \in Coordinate
  /\ location \in 1 .. locations /\ locations \in Nat /\ numservs \in Nat
  /\ byte \in 0 .. GlobalSize /\ totaldifference \in Nat

(* A server is as relevant as can be if its property is the root's, and    *)
(* only then: no bit is missed, the last ones of a property that does not  *)
(* fill its bytes included.                                                *)
ZeroIffSame ==
  pc = "compare" /\ byte = GlobalSize => (totaldifference = 0 <=> binary = rootnum)

(* merge relies on halves that are in order when it starts.                *)
HalvesSorted ==
  pc = "sort" /\ Top.next = "merge"
    => SortedIn(mapvec, Top.begin, Mid(Top)) /\ SortedIn(mapvec, Mid(Top), Top.end)

(* What is printed is in order.                                            *)
PrintedInOrder == pc \in {"print", "done"} => SortedIn(mapvec, 0, Len(mapvec))

(* The program comes to its end.                                           *)
Finishes == <>(pc = "done")

-----------------------------------------------------------------------------
(* P4Server implements Ranking.                                            *)
Listing == INSTANCE Ranking WITH
  servers <- BagOf(mapvec),
  listed  <- output

ImplementsRanking == Listing!RankingSpec
=============================================================================
