------------------------------ MODULE MCBufMgr ------------------------------
(* Instances of BufMgr for TLC. *)
EXTENDS BufMgrClaims, TLC

CONSTANTS f1, i1, v1, v2

OneFile == {f1}
OneInode == {i1}
(* A client that stores nothing: it may still say that a page is dirty.    *)
NoValue == {}
OneValue == {v1}
TwoValues == {v1, v2}

NoLove == {FALSE}
AnyLove == BOOLEAN

NoFaults == {}
NoMisuse == {}
Unallocated == {"readUnallocated"}
EvictFault == {"evict"}
Twice == {"disposeTwice"}
SafeFaults == {"read", "alloc", "dispose", "disposeHeader", "flush"}
OrphanFaults == SafeFaults \cup {"allocHeader", "shutdown"}

Symmetry == Permutations({v1, v2})
=============================================================================
