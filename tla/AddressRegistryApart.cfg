SPECIFICATION CalmSpec
CONSTANTS
  Pubkeys = {p1, p2}
  RealNames = {x, y}
  AutoNames = {a}
  Reservable = {x}
  Sessions = {s1, s2}
  MaxRequests = 4
  Nobody = Nobody
  NoName = NoName
SYMMETRY ReservedSymmetry
INVARIANTS
  HasPrimary
  OpenIntervalMeansOwned
CHECK_DEADLOCK FALSE
