CONSTANTS
  WordSize = 32
  MaxPointSpan = 4
  StartPoints = {1, 25}
  MaxIssued = 40
  Objects = {a, b, c}
  Threads = {x, y}
  Nobody = Nobody
SPECIFICATION PartSpec
SYMMETRY Symmetry
INVARIANTS
  FullAtSpan
  PointTestsExact
  AfterIsOrder
  TimelineConsistent
  SoftJobsSound
CHECK_DEADLOCK FALSE
