SPECIFICATION Spec
CONSTANTS
  Pubkeys = {p1, p2}
  RealNames = {x, y}
  AutoNames = {a}
  Reservable = {}
  Sessions = {s1, s2}
  MaxRequests = 4
  Nobody = Nobody
  NoName = NoName
SYMMETRY Symmetry
INVARIANTS
  TypeOK
  OwnerHasOpenInterval
  FlaggedUnlessLost
PROPERTIES
  AutoOnlyForNameless
  ClaimTakesOver
  ImplementsNameBook
CHECK_DEADLOCK FALSE
