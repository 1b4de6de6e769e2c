------------------------------- MODULE BufMap -------------------------------
(***************************************************************************)
(* Class BufMap (484_proj_3/bufMap.cpp): which page each frame holds.  The *)
(* two parallel vectors files and pageNos are one function from frames to  *)
(* entries; a slot beyond the end of the vectors, which grow on demand,    *)
(* and a slot whose File* is NULL are both NoEntry.                        *)
(***************************************************************************)
EXTENDS Integers

CONSTANT NULL   (* the null File* *)

Entry(f, p) == [file |-> f, pageNo |-> p]
NoEntry == Entry(NULL, -1)

(* lookup scans from slot 0 and reports the first slot that names page p   *)
(* of file f, or BUFMAPNOTFOUND.                                           *)
LookupAt(m, f, p, i) ==
  /\ m[i] = Entry(f, p)
  /\ \A j \in DOMAIN m : m[j] = Entry(f, p) => i <= j

(* Mutant: the scan misses the last slot.                                  *)
LookupFailsShort(m, f, p) ==
  \A i \in DOMAIN m : i + 1 \in DOMAIN m => m[i] # Entry(f, p)

LookupFails(m, f, p) == \A i \in DOMAIN m : m[i] # Entry(f, p)

(* insert looks only at the slot of the frame: an occupied slot is the     *)
(* error BUFMAPERROR and is left alone.                                    *)
InsertFails(m, i) == m[i] # NoEntry
Insert(m, f, p, i) == IF InsertFails(m, i) THEN m ELSE [m EXCEPT ![i] = Entry(f, p)]

(* Mutant: only one of the two vectors is reset.                           *)
RemovePageNo(m, f, p) ==
  [i \in DOMAIN m |-> IF LookupAt(m, f, p, i) THEN Entry(f, -1) ELSE m[i]]

(* remove empties the slot lookup reports; BUFMAPNOTFOUND changes nothing. *)
Remove(m, f, p) ==
  [i \in DOMAIN m |-> IF LookupAt(m, f, p, i) THEN NoEntry ELSE m[i]]
=============================================================================
