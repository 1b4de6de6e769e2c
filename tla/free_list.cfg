SPECIFICATION Spec
CONSTANTS
  f1 = f1  i1 = i1  v1 = v1  v2 = v2  NULL = NULL
  File <- OneFile
  Inode <- OneInode
  Value <- OneValue
  MaxPage = 3
  numBufs = 1
  MaxPin = 1
  StatMod = 1
  Faults <- OrphanFaults
  Misuse <- NoMisuse
  Hints <- NoLove
INVARIANTS FreeListsSound BufferedPagesAllocated CallsReturn
CHECK_DEADLOCK FALSE
