------------------------------ MODULE Servers -------------------------------
(***************************************************************************)
(* The servers that P4Server ranks (283_proj_4): how far a property is     *)
(* from the property of the root (mybitvec.cpp), byte by byte, and which   *)
(* of two servers goes first (myCompare in mymap.cpp).                     *)
(***************************************************************************)
EXTENDS Integers, Sequences, Bags, FiniteSets

CONSTANTS
  Property,      (* sequences of PropertySize bits                         *)
  PropertySize,  (* bitdigits of main                                      *)
  Name,          (* server names, numbers in the order of strcmp           *)
  Coordinate     (* pairs                                                  *)

ASSUME SizeAssumption == PropertySize \in Nat \ {0}
ASSUME PropertyAssumption == Property \subseteq [1 .. PropertySize -> {0, 1}]
ASSUME NameAssumption == Name \subseteq Nat
ASSUME CoordinateAssumption == Coordinate \subseteq Int \X Int

Server == [relevance : Nat, xcoord : Int, ycoord : Int, name : Name]

-----------------------------------------------------------------------------
(* mybitvec *)

(* Mutant: the bits that do not fill a byte are left out.                  *)
GlobalSizeFloor == PropertySize \div 8

(* The bytes that hold PropertySize bits.                                  *)
GlobalSize ==
  IF PropertySize % 8 # 0 THEN PropertySize \div 8 + 1 ELSE PropertySize \div 8

(* 1 if bit k, counted from 0, is there and differs.                       *)
Differs(a, b, k) == IF k < PropertySize /\ a[k + 1] # b[k + 1] THEN 1 ELSE 0

(* Byte i of the bitwise exclusive or, its first bit the highest.          *)
ByteDifference(a, b, i) ==
  128 * Differs(a, b, 8 * i)     + 64 * Differs(a, b, 8 * i + 1) +
   32 * Differs(a, b, 8 * i + 2) + 16 * Differs(a, b, 8 * i + 3) +
    8 * Differs(a, b, 8 * i + 4) +  4 * Differs(a, b, 8 * i + 5) +
    2 * Differs(a, b, 8 * i + 6) +      Differs(a, b, 8 * i + 7)

(* What byte i adds to the relevance.                                      *)
Share(a, b, i) ==
  LET difference == ByteDifference(a, b, i)
  IN IF difference # 0 THEN 256 * (GlobalSize - i - 1) + difference ELSE 0

-----------------------------------------------------------------------------
(* mymap *)

(* The distance from the root, squared: sqrt keeps the order.              *)
Distance(s) == s.xcoord * s.xcoord + s.ycoord * s.ycoord

(* myCompare: the less relevance the better, then the farther, then the    *)
(* name.                                                                   *)
MyCompare(a, b) ==
  \/ a.relevance < b.relevance
  \/ /\ a.relevance = b.relevance
     /\ \/ Distance(a) > Distance(b)
        \/ Distance(a) = Distance(b) /\ a.name <= b.name

(* The elements of v from begin up to end, which is past the last one.     *)
SortedIn(v, begin, end) ==
  \A k, l \in begin + 1 .. end : k < l => MyCompare(v[k], v[l])

(* How often each element is in q.                                         *)
BagOf(q) == [s \in {q[k] : k \in 1 .. Len(q)} |-> Cardinality({k \in 1 .. Len(q) : q[k] = s})]
=============================================================================
