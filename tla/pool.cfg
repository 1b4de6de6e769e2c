SPECIFICATION Spec
CONSTANTS
  f1 = f1  i1 = i1  v1 = v1  v2 = v2  NULL = NULL
  File <- OneFile
  Inode <- OneInode
  Value <- OneValue
  MaxPage = 2
  numBufs = 2
  MaxPin = 2
  StatMod = 1
  Faults <- SafeFaults
  Misuse <- Unallocated
  Hints <- AnyLove
INVARIANTS MapMirrorsTable NoDuplicatePages BufferedPagesAllocated CallsReturn
PROPERTIES PinnedFramesStay LovedFramesSpared SecondCallSucceeds
CHECK_DEADLOCK FALSE
