CONSTANTS
  Cores = {c1, c2}
  Gp = Gp
  Virtual = Virtual
  Sessions = {s1}
  None = None
  Reuse = TRUE
  MaxOpens = 2
SPECIFICATION Spec
INVARIANTS
  DirectoriesRight
