CONSTANTS
  Threads = {t1, t2}
  NoTid = NoTid
  NoCtx = NoCtx
  MaxDepth = 2
  None = None
SPECIFICATION PartSpec
INVARIANTS
  MutualExclusion
  ShortCutIsSafe
  CleanHandover
  DriverSound
  UmpMemorySound
  ProfilingSound
  MemoryShown
CHECK_DEADLOCK FALSE
