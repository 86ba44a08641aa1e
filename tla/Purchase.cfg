SPECIFICATION Spec
CONSTANTS
  Pubkeys = {p1, p2}
  x = x
  y = y
  Names = {x, y}
  Nobody = Nobody
  NoName = NoName
  NoInvoice = NoInvoice
  Sessions = {s1, s2}
  Invoices = {i1, i2}
  BasePrice <- PaidAndFree
  AdditionalPrice = 1
  StartCredit <- NoneYet
  MinWithdrawal = 1
  MaxPurchases = 2
  MaxFaults = 1
  MaxGranted = 1
SYMMETRY Symmetry
INVARIANTS
  TypeOK
  AckedMeansResolved
  CreditsConserved
  NeverPaysOutMore
CHECK_DEADLOCK FALSE
