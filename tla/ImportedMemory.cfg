CONSTANTS
  Addrs = {0}
  Bufs = {"b1"}
  Big = {}
  None = None
  Jobs = {"j1", "j2"}
  Kinds = {"dmabuf"}
  Happens = {"map fails"}
SPECIFICATION Spec
INVARIANTS
  JobsReadTheirs
CHECK_DEADLOCK FALSE
