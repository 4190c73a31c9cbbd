CONSTANTS
  Three = {a1, a2, a3}
  Pair = {x, y}
  Nobody = Nobody
  Cores = {x, y}
  Gp = Gp
  Virtual = Virtual
  Sessions = {s1, s2}
  None = None
  Reuse = FALSE
  MaxOpens = 2
SPECIFICATION PartSpec
SYMMETRY Symmetry
INVARIANTS
  PagesExact
  SessionExact
  WhereTheGpuLooks
  DirectoriesRight
CHECK_DEADLOCK FALSE
