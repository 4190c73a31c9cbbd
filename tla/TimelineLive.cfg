CONSTANTS
  WordSize = 16
  MaxPointSpan = 2
  Trackers = {a, b}
  Timelines = {"PP", "SOFT"}
  NoTimeline = "NONE"
  NoTracker = NoTracker
  StartPoint = 15
  SyncKinds = {"PP"}
  MayFail = FALSE
  DeferPP = FALSE
  LockOnAbort = TRUE
  FenceAge = 2
  MaxDrift = 1
  MaxIssued = 2
SPECIFICATION FairSpec
PROPERTIES
  FencesHonoured
  TimelineEnds
CHECK_DEADLOCK FALSE
