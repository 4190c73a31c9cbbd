SPECIFICATION Spec
CONSTANTS
  s1 = s1  s2 = s2  g1 = g1  g2 = g2  p1 = p1  p2 = p2  p3 = p3
  Sessions = {s1, s2}
  GpJobs = {}
  PpJobs = {p1}
  Threads = {}
  PpCores = {c1, c2}
  None = None
  Session <- MCSession
  Partner <- MCPartner
  SubJobs <- MCSubJobs
  Virtual = {}
  Protected = {}
  DmaBuf = {}
  SwapFails = {}
  Silent = {}
  Big = {}
  MaxPending = 2
  FirstId = 6
  IdMod = 8
  IdSpan = 4
  FenceFails = FALSE
  Zaps = FALSE
  Races = TRUE
  MayClose = {s1}
  MayRaise = {}
INVARIANT CompletedOnce
CHECK_DEADLOCK FALSE
