SPECIFICATION Spec
CONSTANTS
  Pubkeys = {p1, p2}
  Tenants = {t1, t2}
  Services = {v1}
  Slots = {s1, s2}
  Sizes = {1}
  StartUsage = {1}
  Limits = {0, 1}
  NamedDefault = 2
  FreeDefault = 1
  GrantSize = 1
  NoLimit = NoLimit
  None = None
  MaxReports = 2
  MaxEdits = 2
  MaxFaults = 1
SYMMETRY Symmetry
INVARIANTS
  TypeOK
  OverOnlyIfExcused
  UsageCoversStored
CHECK_DEADLOCK FALSE
