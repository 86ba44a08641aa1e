SPECIFICATION FairSpec
CONSTANTS
  Pubkeys = {p1}
  topup = topup
  bundle = bundle
  trial = trial
  name = name
  storage = storage
  seats = seats
  Products = {topup, bundle, trial, name}
  QuotaTypes = {storage, seats}
  Invoices = {i1}
  Slots = {s1, s2}
  None = None
  Payload <- SmallPayload
  Window <- SmallWindow
  FreeProducts = {trial}
  TopUps = {topup}
  Sources = {"purchase", "topup", "admin"}
  MaxPurchases = 2
  MaxEdits = 1
  MaxFaults = 2
INVARIANTS
  TypeOK
  RetryNeverDoubles
  AckedIsGranted
  GrantsArePaidFor
PROPERTIES
  PaidIsGranted
CHECK_DEADLOCK FALSE
