-------------------------------- MODULE MCDB --------------------------------
(* Instances of DB for TLC. *)
EXTENDS DB, TLC

CONSTANTS f1, f2, i1, i2, v1, n1, n2

TwoObjects == {f1, f2}
TwoInodes == {i1, i2}
TwoNames == {n1, n2}
OneValue == {v1}

NoLove == {FALSE}
None == {}
FlushOnly == {"flush"}

Symmetry == Permutations(File) \cup Permutations(Inode) \cup Permutations(Name)
=============================================================================
