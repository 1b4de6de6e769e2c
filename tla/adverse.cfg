SPECIFICATION Spec
CONSTANTS
  f1 = f1  i1 = i1  v1 = v1  v2 = v2  NULL = NULL
  File <- OneFile
  Inode <- OneInode
  Value <- NoValue
  MaxPage = 2
  numBufs = 2
  MaxPin = 1
  StatMod = 1
  Faults <- EvictFault
  Misuse <- Twice
  Hints <- NoLove
INVARIANT TypeOK
CHECK_DEADLOCK FALSE
