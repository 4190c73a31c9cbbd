SPECIFICATION FairSpec
CONSTANTS
  s1 = s1  s2 = s2  g1 = g1  g2 = g2  p1 = p1  p2 = p2  p3 = p3
  Sessions = {s1, s2}
  GpJobs = {g1}
  PpJobs = {p1, p2}
  Threads = {t}
  PpCores = {c1, c2}
  None = None
  Session <- MCSession
  Partner <- MCPartner
  SubJobs <- MCSubJobs
  Virtual = {p2}
  Protected = {p2}
  DmaBuf = {p1}
  SwapFails = {}
  Silent = {}
  Big = {g1}
  MaxPending = 1
  FirstId = 6
  IdMod = 8
  IdSpan = 4
  FenceFails = TRUE
  Zaps = TRUE
  Races = FALSE
  MayClose = {s1}
  MayRaise = {s2}
INVARIANTS
  QueuesExact
  JobsAccounted
  SecureModesApart
PROPERTIES
  WritebackKept
  JobsAndClosesEnd
CHECK_DEADLOCK FALSE
