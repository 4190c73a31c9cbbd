CONSTANTS
  Fbs = {"f1", "f2"}
  None = None
  MaxFrames = 3
  MaxFlips = 2
  MaxRefs = 4
SPECIFICATION PartSpec
INVARIANTS
  FlipsSound
  
PROPERTIES
  DisplayEnds
CHECK_DEADLOCK FALSE
