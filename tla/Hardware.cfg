CONSTANTS
  Caches = {"l0", "l1"}
  Jobs = {"gp", "pp"}
  None = None
  CachesOf <- MCCachesOf
  Grows = {"gp"}
  MaxWrites = 2
  MaxOrder = 5
  Half = 8
  CommandsTimeOut = FALSE
SPECIFICATION PartSpec
INVARIANTS
  FreshMemory
  CoresRight
  TranslationsAndCounters
  ImportsSound
PROPERTIES
  HardwareEnds
CHECK_DEADLOCK FALSE
