CONSTANTS
  Waits = {"w1", "w2"}
  Forever = {"w1"}
SPECIFICATION PartSpec
INVARIANTS
  WaitsSound
  BuffersShared
  JobsJudged
PROPERTIES
  AllEnd
CHECK_DEADLOCK FALSE
