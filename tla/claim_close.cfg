SPECIFICATION DBSpec
CONSTANTS
  f1 = f1  f2 = f2  i1 = i1  i2 = i2  v1 = v1  n1 = n1  n2 = n2  NULL = NULL
  File <- TwoObjects
  Inode <- TwoInodes
  Name <- TwoNames
  Value <- OneValue
  MaxPage = 1
  numBufs = 1
  MaxPin = 1
  MaxOpen = 2
  StatMod = 1
  Faults <- None
  Misuse <- None
  Hints <- NoLove
  Reuse = TRUE
INVARIANTS WritesReachTheirFile
SYMMETRY Symmetry
CHECK_DEADLOCK FALSE
