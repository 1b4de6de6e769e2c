SPECIFICATION FlushedSpec
CONSTANTS
  f1 = f1  f2 = f2  i1 = i1  i2 = i2  v1 = v1  n1 = n1  n2 = n2  NULL = NULL
  File <- TwoObjects
  Inode <- TwoInodes
  Name <- TwoNames
  Value <- OneValue
  MaxPage = 1
  numBufs = 2
  MaxPin = 1
  MaxOpen = 2
  StatMod = 1
  Faults <- FlushOnly
  Misuse <- None
  Hints <- NoLove
  Reuse = FALSE
INVARIANTS DBTypeOK OpenTableSound DescriptorsApart OneCopyOfAPage
PROPERTIES FlushedIsDurable ImplementsFileStore
SYMMETRY Symmetry
CHECK_DEADLOCK FALSE
