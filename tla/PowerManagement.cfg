CONSTANTS
  GP = GP
  P0 = P0
  P1 = P1
  PPs = {P0, P1}
  Dummy = Dummy
  DGP = DGP
  DL2 = DL2
  DP0 = DP0
  DP1 = DP1
  Domains = {Dummy, DGP, DL2, DP0, DP1}
  Configs <- DetectedConfigs
  Pausers = {s}
  Worker = Worker
  Runtime = Runtime
  Nobody = Nobody
SPECIFICATION Spec
INVARIANTS
  GroupsConsistent
  ReadyIsPowered
  UpdatesExpected
  PauseSafe
  NothingForgotten
