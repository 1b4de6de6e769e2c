SPECIFICATION Spec
CONSTANTS
  numBufs = 4
  MaxPin = 1
INVARIANT LoopMeetsClosedForm
PROPERTY SweepEnds
CHECK_DEADLOCK FALSE
