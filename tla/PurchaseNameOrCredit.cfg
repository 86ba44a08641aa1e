SPECIFICATION Spec
CONSTANTS
  Pubkeys = {p1, p2}
  x = x
  y = y
  Names = {x, y}
  Nobody = Nobody
  NoName = NoName
  NoInvoice = NoInvoice
  Sessions = {s1, s2}
  Invoices = {i1}
  BasePrice <- PaidAndFree
  AdditionalPrice = 1
  StartCredit <- OneEach
  MinWithdrawal = 1
  MaxPurchases = 1
  MaxFaults = 0
  MaxGranted = 0
INVARIANTS
  NameOrCredit
CHECK_DEADLOCK FALSE
