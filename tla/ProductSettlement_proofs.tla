---------------------- MODULE ProductSettlement_proofs ----------------------
(***************************************************************************)
(* Theorems about ProductSettlement, for every value of its constants.      *)
(***************************************************************************)
EXTENDS ProductSettlement, TLAPS

-----------------------------------------------------------------------------
(* Types.                                                                   *)

Steps == {"idle", "price", "mint", "exists", "read", "grant", "answer"}

\* The steps of a settlement.
Settles == {"exists", "read", "grant", "answer"}

ShopOK == catalog \in [Products -> Offer] /\ migrating \in BOOLEAN

LedgerOK ==
  /\ granted \in [Refs -> [QuotaTypes -> Nat]]
  /\ perpetual \subseteq Refs \X QuotaTypes

BtcpayOK ==
  /\ invoice \in [Invoices -> Invoice]
  /\ \A i \in Invoices : invoice[i].status # "none" =>
       invoice[i].pubkey \in Pubkeys /\ invoice[i].product \in Products
  /\ acked \subseteq Invoices

CountsOK == begun \in 0..MaxPurchases /\ edits \in 0..MaxEdits /\ faults \in 0..MaxFaults

HistoryOK == overlapped \subseteq Refs /\ torn \subseteq Refs

\* What the type of a request leaves out: a running one has a buyer and a
\* product, a settlement has a reference and inserts what its product grants.
GoodRequest(q) ==
  /\ q \in Request
  /\ q.at # "idle" => q.pubkey \in Pubkeys /\ q.product \in Products
  /\ IF q.at \in Settles THEN q.ref \in Refs ELSE q.ref = None
  /\ q.at = "grant" => q.todo \subseteq Payload[q.product]

\* A settlement is of a settled invoice of `book` for its product, or of a free
\* product.
Backed(q, book) ==
  q.at \in Settles =>
    /\ q.ref \in Invoices => book[q.ref].status = "settled" /\ book[q.ref].product = q.product
    /\ q.ref \notin Invoices => q.ref = <<q.product, q.pubkey>> /\ q.product \in FreeProducts

RequestsOK ==
  /\ req \in [Slots -> Request]
  /\ \A s \in Slots : GoodRequest(req[s]) /\ Backed(req[s], invoice)

\* The typing invariant, table by table.
TInv ==
  /\ ShopOK /\ LedgerOK /\ BtcpayOK /\ CountsOK /\ HistoryOK /\ RequestsOK
  /\ users \subseteq Pubkeys

LEMMA TInvTypes == TInv => TypeOK
  BY DEF TInv, TypeOK, ShopOK, LedgerOK, BtcpayOK, CountsOK, HistoryOK, RequestsOK

\* A settled invoice stays as it is.
StaySettled == \A i \in Invoices : invoice[i].status = "settled" => invoice'[i] = invoice[i]

LEMMA SameInvoices == ASSUME UNCHANGED invoice PROVE StaySettled
  BY DEF StaySettled

LEMMA IdleGood == GoodRequest(Idle) /\ Idle.at = "idle"
  BY DEF GoodRequest, Request, Idle, Settles

LEMMA InSlot ==
  ASSUME TInv, NEW s \in Slots
  PROVE  GoodRequest(req[s]) /\ Backed(req[s], invoice) /\ req[s] \in Request
  BY DEF TInv, RequestsOK

LEMMA StaysBacked ==
  ASSUME TInv, StaySettled, NEW q, Backed(q, invoice)
  PROVE  Backed(q, invoice')
  BY DEF Backed, StaySettled

\* A step of slot s leaves the requests well formed if what it leaves in s is.
LEMMA OneRequest ==
  ASSUME TInv, NEW s \in Slots, NEW q, GoodRequest(q), Backed(q, invoice'), StaySettled,
         req' = [req EXCEPT ![s] = q]
  PROVE  RequestsOK'
<1>1. req' \in [Slots -> Request]
  BY DEF TInv, RequestsOK, GoodRequest
<1>2. ASSUME NEW t \in Slots
      PROVE  GoodRequest(req'[t]) /\ Backed(req'[t], invoice')
  <2>1. CASE t = s
    BY <2>1 DEF TInv, RequestsOK
  <2>2. CASE t # s
    <3>1. req'[t] = req[t]
      BY <2>2 DEF TInv, RequestsOK
    <3> QED BY <3>1, InSlot, StaysBacked
  <2> QED BY <2>1, <2>2
<1> QED BY <1>1, <1>2 DEF RequestsOK, GoodRequest

LEMMA Ends ==
  ASSUME TInv, NEW s \in Slots, End(s), StaySettled
  PROVE  RequestsOK'
<1>1. Backed(Idle, invoice')
  BY IdleGood DEF Backed, Settles
<1> QED BY <1>1, IdleGood, OneRequest DEF End

\* A request goes on to a step of the same kind, other than the inserts.
LEMMA Goes ==
  ASSUME TInv, NEW s \in Slots, NEW step \in Steps \ {"idle", "grant"}, Goto(s, step),
         StaySettled, req[s].at # "idle", step \in Settles <=> req[s].at \in Settles
  PROVE  RequestsOK'
<1>1. GoodRequest(req[s]) /\ Backed(req[s], invoice)
  BY InSlot
<1>2. PICK q : q = [req[s] EXCEPT !.at = step]
  OBVIOUS
<1>3. /\ q \in Request /\ q.at = step /\ q.ref = req[s].ref
      /\ q.pubkey = req[s].pubkey /\ q.product = req[s].product
  BY <1>1, <1>2 DEF GoodRequest, Request, Steps
<1>4. GoodRequest(q)
  BY <1>1, <1>3 DEF GoodRequest
<1>5. Backed(q, invoice)
  BY <1>1, <1>3 DEF Backed
<1>6. Backed(q, invoice')
  BY <1>5, StaysBacked
<1>7. req' = [req EXCEPT ![s] = q]
  BY <1>2 DEF Goto
<1> QED BY <1>4, <1>6, <1>7, OneRequest

LEMMA SameRequests ==
  ASSUME TInv, UNCHANGED req, StaySettled
  PROVE  RequestsOK'
<1>1. \A t \in Slots : GoodRequest(req'[t]) /\ Backed(req'[t], invoice')
  BY InSlot, StaysBacked
<1> QED BY <1>1 DEF TInv, RequestsOK, GoodRequest

LEMMA SameShop == ASSUME TInv, UNCHANGED shop PROVE ShopOK'
  BY DEF TInv, ShopOK, shop

LEMMA SameLedger == ASSUME TInv, UNCHANGED ledger PROVE LedgerOK'
  BY DEF TInv, LedgerOK, ledger

LEMMA SameBtcpay == ASSUME TInv, UNCHANGED btcpay PROVE BtcpayOK' /\ StaySettled
  BY DEF TInv, BtcpayOK, btcpay, StaySettled

LEMMA SameCounts == ASSUME TInv, UNCHANGED counts PROVE CountsOK'
  BY DEF TInv, CountsOK, counts

LEMMA SameHistory == ASSUME TInv, UNCHANGED history PROVE HistoryOK'
  BY DEF TInv, HistoryOK, history

LEMMA FaultCounted == ASSUME TInv, Fault PROVE CountsOK'
  BY SettlementConstants DEF TInv, CountsOK, Fault

LEMMA TornOK ==
  ASSUME TInv, NEW s \in Slots, Torn(s), UNCHANGED overlapped
  PROVE  HistoryOK'
<1>1. req[s].at = "grant" => req[s].ref \in Refs
  BY InSlot DEF GoodRequest, Settles
<1> QED BY <1>1 DEF TInv, HistoryOK, Torn

LEMMA RowOK ==
  ASSUME TInv, NEW s \in Slots, NEW q \in QuotaTypes, At(s, "grant"), Row(s, q)
  PROVE  LedgerOK'
<1>1. req[s].ref \in Refs
  BY InSlot DEF GoodRequest, Settles, At
<1> QED BY <1>1 DEF TInv, LedgerOK, Row
-----------------------------------------------------------------------------
(* The actions keep the types.                                              *)

LEMMA BeginPurchaseKeeps ==
  ASSUME TInv, NEW s \in Slots, NEW p \in Pubkeys, NEW prod \in Products,
         BeginPurchase(s, p, prod)
  PROVE  TInv'
<1>1. PICK q : q = [Idle EXCEPT !.at = "price", !.pubkey = p, !.product = prod]
  OBVIOUS
<1>2. GoodRequest(q) /\ Backed(q, invoice')
  BY <1>1 DEF GoodRequest, Request, Idle, Settles, Backed
<1>3. UNCHANGED <<shop, users, ledger, btcpay, edits, faults, history>>
  BY DEF BeginPurchase
<1>4. RequestsOK'
  BY <1>1, <1>2, <1>3, OneRequest, SameBtcpay DEF BeginPurchase
<1>5. CountsOK'
  BY <1>3, SettlementConstants DEF TInv, CountsOK, BeginPurchase
<1> QED BY <1>3, <1>4, <1>5, SameShop, SameLedger, SameBtcpay, SameHistory DEF TInv

LEMMA ReadPriceKeeps ==
  ASSUME TInv, NEW s \in Slots, ReadPrice(s)
  PROVE  TInv'
<1>1. At(s, "price") /\ UNCHANGED <<shop, users, ledger, btcpay, counts, history>>
  BY DEF ReadPrice
<1>2. GoodRequest(req[s]) /\ req[s] \in Request
  BY InSlot
<1>3. StaySettled
  BY <1>1, SameBtcpay
<1>4. CASE /\ req[s].product \in FreeProducts
           /\ req' = [req EXCEPT ![s].at = "exists", ![s].ref = <<req[s].product, req[s].pubkey>>]
  <2>1. PICK prod \in Products, p \in Pubkeys : prod = req[s].product /\ p = req[s].pubkey
    BY <1>1, <1>2 DEF GoodRequest, At
  <2>2. PICK r \in Refs : r = <<prod, p>>
    BY DEF Refs
  <2>3. PICK q : q = [req[s] EXCEPT !.at = "exists", !.ref = r]
    OBVIOUS
  <2>4. /\ q \in Request /\ q.at = "exists" /\ q.ref = r
        /\ q.pubkey = p /\ q.product = prod
    BY <1>2, <2>1, <2>3 DEF Request
  <2>5. GoodRequest(q)
    BY <2>4 DEF GoodRequest, Settles
  <2>6. r \notin Invoices
    BY <2>2, SettlementConstants
  <2>7. Backed(q, invoice')
    BY <1>4, <2>1, <2>2, <2>4, <2>6 DEF Backed
  <2>8. req' = [req EXCEPT ![s] = q]
    BY <1>4, <2>1, <2>2, <2>3
  <2> QED BY <1>1, <1>3, <2>5, <2>7, <2>8, OneRequest, SameShop, SameLedger, SameBtcpay, SameCounts, SameHistory DEF TInv
<1>5. CASE Goto(s, "mint")
  <2>1. RequestsOK'
    BY <1>1, <1>3, <1>5, Goes DEF At, Steps, Settles
  <2> QED BY <1>1, <2>1, SameShop, SameLedger, SameBtcpay, SameCounts, SameHistory DEF TInv
<1>6. CASE End(s)
  BY <1>1, <1>3, <1>6, Ends, SameShop, SameLedger, SameBtcpay, SameCounts, SameHistory DEF TInv
<1> QED BY <1>4, <1>5, <1>6 DEF ReadPrice

LEMMA MintKeeps ==
  ASSUME TInv, NEW s \in Slots, NEW i \in Invoices, Mint(s, i)
  PROVE  TInv'
<1>1. req[s].pubkey \in Pubkeys /\ req[s].product \in Products
  BY InSlot DEF Mint, At, GoodRequest
<1>2. UNCHANGED <<shop, users, ledger, acked, counts, history>>
  BY DEF Mint
<1>3. PICK v : v = [status |-> "new", pubkey |-> req[s].pubkey, product |-> req[s].product]
  OBVIOUS
<1>4. v \in Invoice /\ v.pubkey \in Pubkeys /\ v.product \in Products
  BY <1>1, <1>3 DEF Invoice
<1>5. invoice' = [invoice EXCEPT ![i] = v] /\ invoice[i].status = "none"
  BY <1>3 DEF Mint
<1>6. BtcpayOK' /\ StaySettled
  BY <1>2, <1>4, <1>5 DEF TInv, BtcpayOK, StaySettled
<1>7. RequestsOK'
  BY <1>6, Ends DEF Mint
<1> QED BY <1>2, <1>6, <1>7, SameShop, SameLedger, SameCounts, SameHistory DEF TInv

LEMMA PayKeeps ==
  ASSUME TInv, NEW i \in Invoices, Pay(i)
  PROVE  TInv'
<1>1. UNCHANGED <<shop, users, ledger, acked, req, counts, history>>
  BY DEF Pay
<1>2. PICK v : v = [invoice[i] EXCEPT !.status = "settled"]
  OBVIOUS
<1>3. v \in Invoice /\ v.pubkey \in Pubkeys /\ v.product \in Products
  BY <1>2 DEF Pay, TInv, BtcpayOK, Invoice
<1>4. invoice' = [invoice EXCEPT ![i] = v] /\ invoice[i].status = "new"
  BY <1>2 DEF Pay
<1>5. BtcpayOK' /\ StaySettled
  BY <1>1, <1>3, <1>4 DEF TInv, BtcpayOK, StaySettled
<1> QED BY <1>1, <1>5, SameRequests, SameShop, SameLedger, SameCounts, SameHistory DEF TInv

LEMMA DeliverKeeps ==
  ASSUME TInv, NEW i \in Invoices, NEW s \in Slots, Deliver(i, s)
  PROVE  TInv'
<1>1. UNCHANGED <<shop, users, ledger, btcpay, counts, history>>
  BY DEF Deliver
<1>2. PICK p \in Pubkeys, prod \in Products : p = invoice[i].pubkey /\ prod = invoice[i].product
  BY DEF Deliver, TInv, BtcpayOK
<1>3. PICK q : q = [Idle EXCEPT !.at = "exists", !.pubkey = p, !.product = prod, !.ref = i]
  OBVIOUS
<1>4. i \in Refs
  BY DEF Refs
<1>5. /\ q \in Request /\ q.at = "exists" /\ q.ref = i
      /\ q.pubkey = p /\ q.product = prod
  BY <1>3, <1>4 DEF Idle, Request
<1>6. GoodRequest(q)
  BY <1>4, <1>5 DEF GoodRequest, Settles
<1>7. Backed(q, invoice')
  BY <1>1, <1>2, <1>5 DEF Backed, Deliver, btcpay
<1>8. req' = [req EXCEPT ![s] = q]
  BY <1>2, <1>3 DEF Deliver
<1> QED BY <1>1, <1>6, <1>7, <1>8, OneRequest, SameShop, SameLedger, SameBtcpay, SameCounts, SameHistory DEF TInv

LEMMA ExistsKeeps ==
  ASSUME TInv, NEW s \in Slots, Exists(s)
  PROVE  TInv'
<1>1. At(s, "exists") /\ UNCHANGED <<shop, users, ledger, btcpay, counts, torn>>
  BY DEF Exists
<1>2. req[s].ref \in Refs
  BY <1>1, InSlot DEF At, GoodRequest, Settles
<1>3. HistoryOK'
  BY <1>1, <1>2 DEF Exists, TInv, HistoryOK
<1>4. PICK step \in {"answer", "read"} : Goto(s, step)
  BY DEF Exists
<1>5. RequestsOK'
  BY <1>1, <1>4, Goes, SameBtcpay DEF At, Steps, Settles
<1> QED BY <1>1, <1>3, <1>5, SameShop, SameLedger, SameBtcpay, SameCounts DEF TInv

LEMMA ReadOfferKeeps ==
  ASSUME TInv, NEW s \in Slots, ReadOffer(s)
  PROVE  TInv'
<1>1. At(s, "read") /\ UNCHANGED <<shop, users, ledger, btcpay, counts, history>>
  BY DEF ReadOffer
<1>2. GoodRequest(req[s]) /\ Backed(req[s], invoice')
  BY <1>1, InSlot, StaysBacked, SameBtcpay
<1>3. CASE req' = [req EXCEPT ![s].at = "grant", ![s].window = catalog[req[s].product].window,
                              ![s].todo = Payload[req[s].product]]
  <2>1. PICK prod \in Products : prod = req[s].product
    BY <1>1, <1>2 DEF GoodRequest, At
  <2>2. catalog[prod].window \in {"none", "days", "invalid"} /\ Payload[prod] \in SUBSET QuotaTypes
    BY SettlementConstants DEF TInv, ShopOK, Offer
  <2>3. PICK q : q = [req[s] EXCEPT !.at = "grant", !.window = catalog[prod].window,
                                    !.todo = Payload[prod]]
    OBVIOUS
  <2>4. /\ q \in Request /\ q.at = "grant" /\ q.ref = req[s].ref /\ q.todo = Payload[prod]
        /\ q.pubkey = req[s].pubkey /\ q.product = prod
    BY <1>2, <2>1, <2>2, <2>3 DEF GoodRequest, Request
  <2>5. GoodRequest(q)
    BY <1>1, <1>2, <2>4 DEF GoodRequest, Settles, At
  <2>6. Backed(q, invoice')
    BY <1>1, <1>2, <2>1, <2>4 DEF Backed, Settles, At
  <2>7. req' = [req EXCEPT ![s] = q]
    BY <1>3, <2>1, <2>3
  <2> QED BY <1>1, <2>5, <2>6, <2>7, OneRequest, SameShop, SameLedger, SameBtcpay, SameCounts, SameHistory DEF TInv
<1>4. CASE End(s)
  BY <1>1, <1>4, Ends, SameShop, SameLedger, SameBtcpay, SameCounts, SameHistory DEF TInv
<1> QED BY <1>3, <1>4 DEF ReadOffer

LEMMA GrantKeeps ==
  ASSUME TInv, NEW s \in Slots, NEW y \in QuotaTypes, Grant(s, y)
  PROVE  TInv'
<1>1. At(s, "grant") /\ UNCHANGED <<shop, users, btcpay, counts, history>>
  BY DEF Grant
<1>2. GoodRequest(req[s]) /\ Backed(req[s], invoice')
  BY <1>1, InSlot, StaysBacked, SameBtcpay
<1>3. PICK step \in {"answer", "grant"} : step = IF req[s].todo = {y} THEN "answer" ELSE "grant"
  OBVIOUS
<1>4. PICK q : q = [req[s] EXCEPT !.todo = @ \ {y}, !.at = step]
  OBVIOUS
<1>5. /\ q \in Request /\ q.at = step /\ q.ref = req[s].ref /\ q.todo = req[s].todo \ {y}
      /\ q.pubkey = req[s].pubkey /\ q.product = req[s].product
  BY <1>2, <1>3, <1>4 DEF GoodRequest, Request
<1>6. GoodRequest(q)
  BY <1>1, <1>2, <1>3, <1>5 DEF GoodRequest, Settles, At
<1>7. Backed(q, invoice')
  BY <1>1, <1>2, <1>3, <1>5 DEF Backed, Settles, At
<1>8. req' = [req EXCEPT ![s] = q]
  BY <1>3, <1>4 DEF Grant
<1> QED BY <1>1, <1>6, <1>7, <1>8, OneRequest, RowOK, SameShop, SameBtcpay, SameCounts, SameHistory DEF TInv, Grant

LEMMA StopsKeeps ==
  ASSUME TInv, NEW s \in Slots,
         Refused(s) \/ Dies(s) \/ \E y \in QuotaTypes : GrantUnknown(s, y)
  PROVE  TInv'
<1>1. End(s) /\ Torn(s) /\ UNCHANGED <<shop, users, btcpay, overlapped>>
  BY DEF Refused, Dies, GrantUnknown
<1>2. CountsOK'
  BY SameCounts, FaultCounted DEF Refused, Dies, GrantUnknown
<1>3. LedgerOK'
  BY SameLedger, RowOK DEF Refused, Dies, GrantUnknown
<1>4. RequestsOK'
  BY <1>1, Ends, SameBtcpay
<1>5. HistoryOK'
  BY <1>1, TornOK
<1> QED BY <1>1, <1>2, <1>3, <1>4, <1>5, SameShop, SameBtcpay DEF TInv

LEMMA AnswerKeeps ==
  ASSUME TInv, NEW s \in Slots, Answer(s)
  PROVE  TInv'
<1>1. End(s) /\ UNCHANGED <<shop, users, ledger, invoice, counts, history>>
  BY DEF Answer
<1>2. BtcpayOK'
  BY <1>1 DEF Answer, TInv, BtcpayOK
<1>3. RequestsOK'
  BY <1>1, Ends, SameInvoices
<1> QED BY <1>1, <1>2, <1>3, SameShop, SameLedger, SameCounts, SameHistory DEF TInv

\* A change of the catalog or of the users leaves the rest alone.
LEMMA ShopKeeps ==
  ASSUME TInv,
         \/ PodStarts \/ WindowAdded
         \/ \E p \in Products : Withdraw(p)
         \/ \E p \in Pubkeys : EnsureUser(p)
  PROVE  TInv'
<1>1. UNCHANGED <<ledger, btcpay, req, begun, faults, history>>
  BY DEF PodStarts, WindowAdded, Withdraw, EnsureUser, counts
<1>2. CountsOK'
  <2>1. edits' = edits \/ (edits < MaxEdits /\ edits' = edits + 1)
    BY DEF PodStarts, WindowAdded, Withdraw, EnsureUser, counts
  <2> QED BY <1>1, <2>1, SettlementConstants DEF TInv, CountsOK
<1>3. users' \subseteq Pubkeys
  BY DEF PodStarts, WindowAdded, Withdraw, EnsureUser, TInv
<1>4. \A p \in Products : catalog[p] \in Offer
  BY DEF TInv, ShopOK
<1>5. ShopOK'
  <2>1. CASE PodStarts
    BY <2>1, <1>4 DEF PodStarts, ShopOK, Offer
  <2>2. CASE WindowAdded
    BY <2>2, <1>4 DEF WindowAdded, ShopOK, Offer
  <2>3. ASSUME NEW p \in Products, Withdraw(p)
        PROVE  ShopOK'
    BY <2>3, <1>4 DEF Withdraw, TInv, ShopOK, Offer
  <2>4. ASSUME NEW p \in Pubkeys, EnsureUser(p)
        PROVE  ShopOK'
    BY <2>4, SameShop DEF EnsureUser
  <2> QED BY <2>1, <2>2, <2>3, <2>4
<1> QED BY <1>1, <1>2, <1>3, <1>5, SameRequests, SameLedger, SameBtcpay, SameHistory DEF TInv

LEMMA TInvNext ==
  ASSUME TInv, [Next]_vars
  PROVE  TInv'
<1>1. CASE UNCHANGED vars
  BY <1>1, SameRequests, SameShop, SameLedger, SameBtcpay, SameCounts, SameHistory DEF vars, TInv
<1>2. CASE Next
  BY <1>2, BeginPurchaseKeeps, ReadPriceKeeps, MintKeeps, PayKeeps, DeliverKeeps, ExistsKeeps,
     ReadOfferKeeps, GrantKeeps, StopsKeeps, AnswerKeeps, ShopKeeps DEF Next, Handle, Fails
<1> QED BY <1>1, <1>2

LEMMA TInvInit == Init => TInv
<1> SUFFICES ASSUME Init PROVE TInv
  OBVIOUS
<1>1. ShopOK
  BY SettlementConstants DEF Init, ShopOK, Offer
<1>2. LedgerOK /\ CountsOK /\ HistoryOK /\ users \subseteq Pubkeys
  BY SettlementConstants DEF Init, LedgerOK, CountsOK, HistoryOK
<1>3. BtcpayOK
  BY DEF Init, BtcpayOK, Invoice
<1>4. RequestsOK
  <2>1. Idle \in Request /\ Backed(Idle, invoice)
    BY IdleGood DEF GoodRequest, Backed, Settles
  <2> QED BY <2>1, IdleGood DEF Init, RequestsOK
<1> QED BY <1>1, <1>2, <1>3, <1>4 DEF TInv

\* Every reachable state of the settlement is well typed, whatever the numbers
\* of buyers, products, invoices, requests and faults (settlement.go,
\* product_purchase.go).
THEOREM SettlementTypeCorrect == Spec => []TypeOK
<1>1. Init => TInv
  BY TInvInit
<1>2. TInv /\ [Next]_vars => TInv'
  BY TInvNext
<1>3. TInv => TypeOK
  BY TInvTypes
<1> QED BY <1>1, <1>2, <1>3, PTL DEF Spec
-----------------------------------------------------------------------------
(* Granted once.  Where no two settlements found a reference ungranted at    *)
(* once, one settlement at most is at work on it, and none of what it has    *)
(* still to insert is there yet.                                            *)

Pending(s) == IF At(s, "read") THEN QuotaTypes ELSE req[s].todo

Sole ==
  \A r \in Refs \ overlapped : \A s, t \in Slots : Settling(s, r) /\ Settling(t, r) => s = t

Fresh ==
  \A r \in Refs \ overlapped, s \in Slots :
    Settling(s, r) => \A q \in Pending(s) \cap QuotaTypes : granted[r][q] = 0

OnceInv == TInv /\ Sole /\ Fresh /\ RetryNeverDoubles

\* A step that grants nothing and begins no settlement.
Quiet ==
  /\ UNCHANGED <<granted, overlapped>>
  /\ StaySettled
  /\ torn \subseteq torn'
  /\ \A t \in Slots :
       \/ req'[t] = req[t]
       \/ /\ req'[t].at \notin {"read", "grant", "answer"}
          /\ At(t, "grant") => req[t].ref \in torn'

LEMMA EndsQuiet ==
  ASSUME TInv, NEW s \in Slots, End(s), Torn(s) \/ (~At(s, "grant") /\ UNCHANGED torn),
         UNCHANGED <<granted, overlapped, invoice>>
  PROVE  Quiet
<1>1. req'[s].at = "idle" /\ \A t \in Slots \ {s} : req'[t] = req[t]
  BY IdleGood DEF End, TInv, RequestsOK
<1>2. torn \subseteq torn' /\ (At(s, "grant") => req[s].ref \in torn')
  BY DEF Torn, At
<1> QED BY <1>1, <1>2, SameInvoices DEF Quiet

\* Every step but these four is quiet, or is an answer and quiet.
LEMMA NextQuiet ==
  ASSUME TInv, [Next]_vars
  PROVE  \/ Quiet /\ (UNCHANGED acked \/ \E s \in Slots : Answer(s))
         \/ /\ UNCHANGED acked
            /\ \E s \in Slots :
                 \/ Exists(s)
                 \/ ReadOffer(s) /\ req'[s].at = "grant"
                 \/ \E y \in QuotaTypes : Grant(s, y) \/ GrantUnknown(s, y)
<1>1. ASSUME NEW s \in Slots, NEW p \in Pubkeys, NEW prod \in Products, BeginPurchase(s, p, prod)
      PROVE  Quiet /\ UNCHANGED acked
  <2>1. req'[s].at = "price" /\ \A t \in Slots \ {s} : req'[t] = req[t]
    BY <1>1 DEF BeginPurchase, TInv, RequestsOK, Idle
  <2> QED BY <1>1, <2>1, SameInvoices DEF Quiet, BeginPurchase, ledger, btcpay, history, At
<1>2. ASSUME NEW s \in Slots, ReadPrice(s)
      PROVE  Quiet /\ UNCHANGED acked
  <2>1. /\ req'[s].at \in {"exists", "mint", "idle"}
        /\ \A t \in Slots \ {s} : req'[t] = req[t]
    BY <1>2, InSlot, IdleGood DEF ReadPrice, Goto, End, Request, TInv, RequestsOK
  <2> QED BY <1>2, <2>1, SameInvoices DEF Quiet, ReadPrice, ledger, btcpay, history, At
<1>3. ASSUME NEW s \in Slots, NEW i \in Invoices, Mint(s, i)
      PROVE  Quiet /\ UNCHANGED acked
  <2>1. StaySettled
    BY <1>3 DEF Mint, StaySettled, TInv, BtcpayOK
  <2>2. req'[s].at = "idle" /\ \A t \in Slots \ {s} : req'[t] = req[t]
    BY <1>3, IdleGood DEF Mint, End, TInv, RequestsOK
  <2> QED BY <1>3, <2>1, <2>2 DEF Quiet, Mint, ledger, history, At
<1>4. ASSUME NEW i \in Invoices, Pay(i)
      PROVE  Quiet /\ UNCHANGED acked
  <2>1. StaySettled
    BY <1>4 DEF Pay, StaySettled, TInv, BtcpayOK
  <2> QED BY <1>4, <2>1 DEF Quiet, Pay, ledger, history
<1>5. ASSUME NEW i \in Invoices, NEW s \in Slots, Deliver(i, s)
      PROVE  Quiet /\ UNCHANGED acked
  <2>1. req'[s].at = "exists" /\ \A t \in Slots \ {s} : req'[t] = req[t]
    BY <1>5 DEF Deliver, TInv, RequestsOK, Idle
  <2> QED BY <1>5, <2>1, SameInvoices DEF Quiet, Deliver, ledger, btcpay, history, At
<1>6. ASSUME NEW s \in Slots, ReadOffer(s), req'[s].at # "grant"
      PROVE  Quiet /\ UNCHANGED acked
  <2>1. End(s)
    BY <1>6, InSlot DEF ReadOffer, TInv, RequestsOK, Request
  <2> QED BY <1>6, <2>1, EndsQuiet DEF ReadOffer, ledger, btcpay, history, At
<1>7. ASSUME NEW s \in Slots, Refused(s) \/ Dies(s)
      PROVE  Quiet /\ UNCHANGED acked
  BY <1>7, EndsQuiet DEF Refused, Dies, ledger, btcpay
<1>8. ASSUME NEW s \in Slots, Answer(s)
      PROVE  Quiet
  BY <1>8, EndsQuiet DEF Answer, ledger, history, At
<1>9. CASE \/ PodStarts \/ WindowAdded
           \/ \E p \in Products : Withdraw(p)
           \/ \E p \in Pubkeys : EnsureUser(p)
  <2>1. UNCHANGED <<ledger, btcpay, req, history>>
    BY <1>9 DEF PodStarts, WindowAdded, Withdraw, EnsureUser
  <2> QED BY <2>1, SameInvoices DEF Quiet, ledger, btcpay, history
<1>10. CASE UNCHANGED vars
  BY <1>10, SameInvoices DEF vars, Quiet, ledger, btcpay, history
<1>11. ASSUME NEW s \in Slots,
              Exists(s) \/ ReadOffer(s) \/ \E y \in QuotaTypes : Grant(s, y) \/ GrantUnknown(s, y)
       PROVE  UNCHANGED acked
  BY <1>11 DEF Exists, ReadOffer, Grant, GrantUnknown, btcpay
<1> QED BY <1>1, <1>2, <1>3, <1>4, <1>5, <1>6, <1>7, <1>8, <1>9, <1>10, <1>11
        DEF Next, Handle, Fails

LEMMA QuietOnce ==
  ASSUME OnceInv, Quiet
  PROVE  (Sole /\ Fresh /\ RetryNeverDoubles)'
<1>1. \A s \in Slots, r \in Refs : Settling(s, r)' => Settling(s, r) /\ req'[s] = req[s]
  BY DEF Quiet, Settling
<1>2. Sole'
  BY <1>1 DEF OnceInv, Sole, Quiet
<1>3. \A s \in Slots, r \in Refs : Settling(s, r)' => Pending(s)' = Pending(s)
  BY <1>1 DEF Pending, At
<1>4. Fresh'
  BY <1>1, <1>3 DEF OnceInv, Fresh, Quiet
<1> QED BY <1>2, <1>4 DEF OnceInv, RetryNeverDoubles, Quiet

LEMMA ExistsOnce ==
  ASSUME OnceInv, NEW s \in Slots, Exists(s)
  PROVE  (Sole /\ Fresh /\ RetryNeverDoubles)'
<1>1. UNCHANGED granted /\ overlapped \subseteq overlapped'
  BY DEF Exists, ledger
<1>2. PICK step \in {"answer", "read"} :
        /\ Goto(s, step)
        /\ step = "read" =>
             /\ ~HasGrant(req[s].ref)
             /\ (\E t \in Slots : Settling(t, req[s].ref)) => req[s].ref \in overlapped'
  BY DEF Exists
<1>3. /\ req'[s].at = step /\ req'[s].ref = req[s].ref
      /\ \A t \in Slots \ {s} : req'[t] = req[t]
  BY <1>2, InSlot DEF Goto, OnceInv, TInv, RequestsOK, Request
<1>4. \A t \in Slots \ {s}, r \in Refs : (Settling(t, r)' <=> Settling(t, r)) /\ Pending(t)' = Pending(t)
  BY <1>3 DEF Settling, Pending, At
<1>5. ASSUME NEW r \in Refs \ overlapped', Settling(s, r)'
      PROVE  /\ \A t \in Slots : ~Settling(t, r)
             /\ \A q \in QuotaTypes : granted[r][q] = 0
  <2>1. step = "read" /\ r = req[s].ref
    BY <1>3, <1>5 DEF Settling
  <2>2. \A q \in QuotaTypes : granted[r][q] \in Nat
    BY DEF OnceInv, TInv, LedgerOK
  <2> QED BY <1>2, <2>1, <2>2 DEF HasGrant
<1>6. Sole'
  BY <1>1, <1>4, <1>5 DEF OnceInv, Sole
<1>7. Fresh'
  BY <1>1, <1>4, <1>5 DEF OnceInv, Fresh
<1> QED BY <1>1, <1>6, <1>7 DEF OnceInv, RetryNeverDoubles

LEMMA ReadOfferOnce ==
  ASSUME OnceInv, NEW s \in Slots, ReadOffer(s), req'[s].at = "grant"
  PROVE  (Sole /\ Fresh /\ RetryNeverDoubles)'
<1>1. UNCHANGED <<granted, overlapped>> /\ At(s, "read")
  BY DEF ReadOffer, ledger, history
<1>2. /\ req'[s].at = "grant" /\ req'[s].ref = req[s].ref
      /\ \A t \in Slots \ {s} : req'[t] = req[t]
  BY InSlot, IdleGood DEF ReadOffer, End, OnceInv, TInv, RequestsOK, Request
<1>3. \A t \in Slots, r \in Refs : Settling(t, r)' <=> Settling(t, r)
  BY <1>1, <1>2 DEF Settling, At
<1>4. \A t \in Slots \ {s} : Pending(t)' = Pending(t)
  BY <1>2 DEF Pending, At
<1>5. Pending(s) = QuotaTypes
  BY <1>1 DEF Pending
<1>6. Fresh'
  BY <1>1, <1>3, <1>4, <1>5 DEF OnceInv, Fresh
<1> QED BY <1>1, <1>3, <1>6 DEF OnceInv, Sole, RetryNeverDoubles

\* What a row changes.
LEMMA RowAdds ==
  ASSUME TInv, NEW s \in Slots, NEW y \in QuotaTypes, At(s, "grant"), Row(s, y)
  PROVE  /\ req[s].ref \in Refs
         /\ granted'[req[s].ref][y] = granted[req[s].ref][y] + 1
         /\ \A r \in Refs, q \in QuotaTypes :
              r # req[s].ref \/ q # y => granted'[r][q] = granted[r][q]
<1>1. req[s].ref \in Refs
  BY InSlot DEF GoodRequest, Settles, At
<1> QED BY <1>1 DEF Row, TInv, LedgerOK

LEMMA InsertOnce ==
  ASSUME OnceInv, NEW s \in Slots, NEW y \in QuotaTypes, Grant(s, y) \/ GrantUnknown(s, y)
  PROVE  (Sole /\ Fresh /\ RetryNeverDoubles)'
<1>1. /\ At(s, "grant") /\ y \in req[s].todo /\ Row(s, y)
      /\ UNCHANGED overlapped
  BY DEF Grant, GrantUnknown, history
<1>2. /\ \A t \in Slots \ {s} : req'[t] = req[t]
      /\ \/ req'[s].at \in {"idle", "answer"}
         \/ /\ req'[s].at = "grant" /\ req'[s].ref = req[s].ref
            /\ req'[s].todo = req[s].todo \ {y}
  BY InSlot, IdleGood DEF Grant, GrantUnknown, End, OnceInv, TInv, RequestsOK, Request
<1>3. PICK r0 \in Refs : r0 = req[s].ref
  BY <1>1, RowAdds DEF OnceInv
<1>4. /\ granted'[r0][y] = granted[r0][y] + 1
      /\ \A r \in Refs, q \in QuotaTypes :
           r # r0 \/ q # y => granted'[r][q] = granted[r][q]
  BY <1>1, <1>3, RowAdds DEF OnceInv
<1>5. Settling(s, r0)
  BY <1>1, <1>3 DEF Settling, At
<1>6. \A t \in Slots, r \in Refs : Settling(t, r)' => Settling(t, r)
  BY <1>1, <1>2 DEF Settling, At
<1>7. \A t \in Slots \ {s} : Pending(t)' = Pending(t)
  BY <1>2 DEF Pending, At
<1>8. r0 \notin overlapped => granted[r0][y] = 0
  <2>1. y \in Pending(s)
    BY <1>1 DEF Pending, At
  <2> QED BY <1>5, <2>1 DEF OnceInv, Fresh
<1>9. Sole'
  BY <1>1, <1>6 DEF OnceInv, Sole
<1>10. ASSUME NEW r \in Refs \ overlapped', NEW t \in Slots, Settling(t, r)',
              NEW q \in QuotaTypes, q \in Pending(t)'
       PROVE  granted'[r][q] = 0
  <2>1. Settling(t, r) /\ r \notin overlapped
    BY <1>1, <1>6, <1>10
  <2>2. CASE t = s
    <3>1. req'[s].at = "grant" /\ r = r0 /\ q \in req[s].todo \ {y}
      BY <1>2, <1>3, <1>10, <2>1, <2>2 DEF Settling, Pending, At
    <3>2. q \in Pending(s)
      BY <1>1, <3>1 DEF Pending, At
    <3> QED BY <1>4, <2>1, <2>2, <3>1, <3>2 DEF OnceInv, Fresh
  <2>3. CASE t # s
    <3>1. r # r0
      BY <1>5, <2>1, <2>3 DEF OnceInv, Sole
    <3> QED BY <1>4, <1>7, <1>10, <2>1, <2>3, <3>1 DEF OnceInv, Fresh
  <2> QED BY <2>2, <2>3
<1>11. Fresh'
  BY <1>10 DEF Fresh
<1>12. RetryNeverDoubles'
  BY <1>1, <1>4, <1>8 DEF OnceInv, RetryNeverDoubles
<1> QED BY <1>9, <1>11, <1>12

\* However often and wherever deliveries fail and are repeated, a reference is
\* granted once per quota type, unless two settlements found it ungranted at
\* once (settlement.go:88-100, postgres.go:457-459).
THEOREM GrantedOnce == Spec => []RetryNeverDoubles
<1>1. Init => OnceInv
  <2> SUFFICES ASSUME Init PROVE OnceInv
    OBVIOUS
  <2>1. \A s \in Slots, r \in Refs : ~Settling(s, r)
    BY DEF Init, Settling, Idle
  <2>2. RetryNeverDoubles
    BY DEF Init, RetryNeverDoubles
  <2> QED BY <2>1, <2>2, TInvInit DEF OnceInv, Sole, Fresh
<1>2. OnceInv /\ [Next]_vars => OnceInv'
  BY TInvNext, NextQuiet, QuietOnce, ExistsOnce, ReadOfferOnce, InsertOnce DEF OnceInv
<1>3. OnceInv => RetryNeverDoubles
  BY DEF OnceInv
<1> QED BY <1>1, <1>2, <1>3, PTL DEF Spec
-----------------------------------------------------------------------------
(* What was paid for is granted, and nothing else.  A delivery about to be   *)
(* answered has its grant; an insert under way has left behind what it no    *)
(* longer has to do; and a granted reference is complete, torn or at work.   *)

AnswerHas == \A s \in Slots : At(s, "answer") => HasGrant(req[s].ref)

Inserted ==
  \A s \in Slots : At(s, "grant") =>
    \A q \in Payload[req[s].product] \ req[s].todo : granted[req[s].ref][q] > 0

Working(r) == \E s \in Slots : At(s, "grant") /\ req[s].ref = r

Whole == \A r \in Refs : HasGrant(r) => Complete(r) \/ r \in torn \/ Working(r)

AckedHas == \A i \in acked : HasGrant(i)

PaidInv == TInv /\ GrantsArePaidFor /\ AnswerHas /\ Inserted /\ Whole /\ AckedHas

LEMMA PaidInvAcked == PaidInv => AckedIsGranted
<1> SUFFICES ASSUME PaidInv, NEW i \in acked
             PROVE  HasGrant(i) /\ (Complete(i) \/ i \in torn \/ Working(i))
  BY DEF AckedIsGranted, Working
<1>1. i \in Refs
  BY DEF PaidInv, TInv, BtcpayOK, Refs
<1> QED BY <1>1 DEF PaidInv, AckedHas, Whole

\* A settled reference keeps its product.
LEMMA SameProduct ==
  ASSUME StaySettled, NEW r \in Refs, r \in Invoices => invoice[r].status = "settled"
  PROVE  ProductOf(r)' = ProductOf(r)
  BY DEF StaySettled, ProductOf

\* The product of a settlement's reference is the one it read.
LEMMA ItsProduct ==
  ASSUME TInv, NEW s \in Slots, req[s].at \in Settles
  PROVE  /\ req[s].ref \in Refs /\ req[s].product \in Products
         /\ req[s].ref \in Invoices => invoice[req[s].ref].status = "settled"
         /\ req[s].ref \notin Invoices => req[s].ref[1] \in FreeProducts
         /\ ProductOf(req[s].ref) = req[s].product
         /\ Payload[req[s].product] \subseteq QuotaTypes
<1>1. GoodRequest(req[s]) /\ Backed(req[s], invoice)
  BY InSlot
<1>2. req[s].ref \in Refs /\ req[s].product \in Products
  BY <1>1 DEF GoodRequest, Settles
<1>3. CASE req[s].ref \in Invoices
  BY <1>1, <1>2, <1>3, SettlementConstants DEF Backed, ProductOf
<1>4. CASE req[s].ref \notin Invoices
  <2>1. PICK r : r = <<req[s].product, req[s].pubkey>>
    OBVIOUS
  <2>2. r[1] = req[s].product /\ req[s].ref = r
    BY <1>1, <1>4, <2>1 DEF Backed
  <2> QED BY <1>1, <1>2, <1>4, <2>2, SettlementConstants DEF Backed, ProductOf
<1> QED BY <1>3, <1>4

LEMMA QuietPaid ==
  ASSUME PaidInv, Quiet
  PROVE  (GrantsArePaidFor /\ AnswerHas /\ Inserted /\ Whole)'
<1>1. \A r \in Refs : HasGrant(r)' <=> HasGrant(r)
  BY DEF Quiet, HasGrant
<1>2. ASSUME NEW r \in Refs, HasGrant(r)
      PROVE  ProductOf(r)' = ProductOf(r)
  BY <1>2, SameProduct DEF PaidInv, GrantsArePaidFor, HasGrant, Quiet
<1>3. GrantsArePaidFor'
  <2> SUFFICES ASSUME NEW r \in Refs, NEW q \in QuotaTypes, granted[r][q] > 0
               PROVE  /\ r \in Invoices => invoice'[r].status = "settled"
                      /\ r \notin Invoices => r[1] \in FreeProducts
                      /\ q \in Payload[ProductOf(r)']
    BY DEF GrantsArePaidFor, Quiet
  <2>1. ProductOf(r)' = ProductOf(r)
    BY <1>2 DEF HasGrant
  <2> QED BY <2>1 DEF PaidInv, GrantsArePaidFor, Quiet, StaySettled
<1>4. AnswerHas'
  <2> SUFFICES ASSUME NEW s \in Slots, At(s, "answer")' PROVE HasGrant(req[s].ref)' /\ req'[s] = req[s]
    BY DEF AnswerHas
  <2>1. req'[s] = req[s] /\ At(s, "answer")
    BY DEF Quiet, At
  <2>2. req[s].ref \in Refs
    BY <2>1, ItsProduct DEF PaidInv, At, Settles
  <2> QED BY <1>1, <2>1, <2>2 DEF PaidInv, AnswerHas
<1>5. Inserted'
  BY DEF PaidInv, Inserted, Quiet, At
<1>6. Whole'
  <2> SUFFICES ASSUME NEW r \in Refs, HasGrant(r)
               PROVE  (Complete(r) \/ r \in torn \/ Working(r))'
    BY <1>1 DEF Whole
  <2>1. CASE Complete(r)
    BY <1>2, <2>1 DEF Complete, Quiet
  <2>2. CASE r \in torn
    BY <2>2 DEF Quiet
  <2>3. CASE Working(r)
    BY <2>3 DEF Working, Quiet, At
  <2> QED BY <2>1, <2>2, <2>3 DEF PaidInv, Whole
<1> QED BY <1>3, <1>4, <1>5, <1>6

LEMMA ExistsPaid ==
  ASSUME PaidInv, NEW s \in Slots, Exists(s)
  PROVE  (GrantsArePaidFor /\ AnswerHas /\ Inserted /\ Whole)'
<1>1. UNCHANGED <<granted, invoice, torn>> /\ At(s, "exists")
  BY DEF Exists, ledger, btcpay
<1>2. PICK step \in {"answer", "read"} :
        Goto(s, step) /\ (step = "answer" => HasGrant(req[s].ref))
  BY DEF Exists
<1>3. /\ req'[s].at = step /\ req'[s].ref = req[s].ref
      /\ \A t \in Slots \ {s} : req'[t] = req[t]
  BY <1>2, InSlot DEF Goto, PaidInv, TInv, RequestsOK, Request
<1>4. \A r \in Refs : (HasGrant(r)' <=> HasGrant(r)) /\ (Complete(r)' <=> Complete(r))
  BY <1>1 DEF HasGrant, Complete, ProductOf
<1>5. \A r \in Refs : Working(r)' <=> Working(r)
  BY <1>1, <1>3 DEF Working, At
<1>6. \A t \in Slots : req[t].at \in Settles => req[t].ref \in Refs
  BY ItsProduct DEF PaidInv
<1>7. AnswerHas'
  BY <1>1, <1>2, <1>3, <1>4, <1>6 DEF PaidInv, AnswerHas, At, Settles
<1>8. Inserted'
  BY <1>1, <1>3 DEF PaidInv, Inserted, At
<1>9. GrantsArePaidFor'
  BY <1>1 DEF PaidInv, GrantsArePaidFor, ProductOf
<1> QED BY <1>1, <1>4, <1>5, <1>7, <1>8, <1>9 DEF PaidInv, Whole

LEMMA ReadOfferPaid ==
  ASSUME PaidInv, NEW s \in Slots, ReadOffer(s), req'[s].at = "grant"
  PROVE  (GrantsArePaidFor /\ AnswerHas /\ Inserted /\ Whole)'
<1>1. UNCHANGED <<granted, invoice, torn>> /\ At(s, "read")
  BY DEF ReadOffer, ledger, btcpay, history
<1>2. /\ req'[s].ref = req[s].ref /\ req'[s].todo = Payload[req[s].product]
      /\ req'[s].product = req[s].product
      /\ \A t \in Slots \ {s} : req'[t] = req[t]
  BY InSlot, IdleGood DEF ReadOffer, End, PaidInv, TInv, RequestsOK, Request
<1>3. \A r \in Refs : (HasGrant(r)' <=> HasGrant(r)) /\ (Complete(r)' <=> Complete(r))
  BY <1>1 DEF HasGrant, Complete, ProductOf
<1>4. \A r \in Refs : Working(r) => Working(r)'
  BY <1>1, <1>2 DEF Working, At
<1>5. \A t \in Slots : req[t].at \in Settles => req[t].ref \in Refs
  BY ItsProduct DEF PaidInv
<1>6. AnswerHas'
  BY <1>1, <1>2, <1>3, <1>5 DEF PaidInv, AnswerHas, At, Settles
<1>7. Inserted'
  BY <1>1, <1>2 DEF PaidInv, Inserted, At
<1>8. GrantsArePaidFor'
  BY <1>1 DEF PaidInv, GrantsArePaidFor, ProductOf
<1> QED BY <1>1, <1>3, <1>4, <1>6, <1>7, <1>8 DEF PaidInv, Whole

LEMMA InsertPaid ==
  ASSUME PaidInv, NEW s \in Slots, NEW y \in QuotaTypes, Grant(s, y) \/ GrantUnknown(s, y)
  PROVE  (GrantsArePaidFor /\ AnswerHas /\ Inserted /\ Whole)'
<1>1. /\ At(s, "grant") /\ y \in req[s].todo /\ Row(s, y)
      /\ UNCHANGED invoice /\ torn \subseteq torn'
  BY DEF Grant, GrantUnknown, history, btcpay, Torn
<1>2. /\ \A t \in Slots \ {s} : req'[t] = req[t]
      /\ \/ req'[s].at = "idle" /\ req[s].ref \in torn'
         \/ /\ req'[s].at = "answer" /\ req'[s].ref = req[s].ref /\ req[s].todo = {y}
         \/ /\ req'[s].at = "grant" /\ req'[s].ref = req[s].ref
            /\ req'[s].product = req[s].product /\ req'[s].todo = req[s].todo \ {y}
  BY <1>1, InSlot, IdleGood DEF Grant, GrantUnknown, End, Torn, At, PaidInv, TInv, RequestsOK, Request
<1>3. PICK r0 \in Refs : r0 = req[s].ref
  BY <1>1, RowAdds DEF PaidInv
<1>4. /\ granted'[r0][y] = granted[r0][y] + 1
      /\ \A r \in Refs, q \in QuotaTypes :
           r # r0 \/ q # y => granted'[r][q] = granted[r][q]
  BY <1>1, <1>3, RowAdds DEF PaidInv
<1>5. \A r \in Refs, q \in QuotaTypes : granted[r][q] \in Nat
  BY DEF PaidInv, TInv, LedgerOK
<1>6. \A r \in Refs, q \in QuotaTypes :
        granted'[r][q] > 0 <=> granted[r][q] > 0 \/ (r = r0 /\ q = y)
  BY <1>4, <1>5
<1>7. \A r \in Refs : HasGrant(r)' <=> HasGrant(r) \/ r = r0
  BY <1>6 DEF HasGrant
<1>8. \A r \in Refs : ProductOf(r)' = ProductOf(r)
  BY <1>1 DEF ProductOf
<1>9. /\ req[s].product \in Products
      /\ r0 \in Invoices => invoice[r0].status = "settled"
      /\ r0 \notin Invoices => r0[1] \in FreeProducts
      /\ ProductOf(r0) = req[s].product
      /\ Payload[req[s].product] \subseteq QuotaTypes
      /\ req[s].todo \subseteq Payload[req[s].product]
  BY <1>1, <1>3, ItsProduct, InSlot DEF PaidInv, At, Settles, GoodRequest
<1>10. GrantsArePaidFor'
  BY <1>1, <1>6, <1>8, <1>9 DEF PaidInv, GrantsArePaidFor
<1>11. \A t \in Slots : req[t].at \in Settles =>
         req[t].ref \in Refs /\ Payload[req[t].product] \subseteq QuotaTypes
  BY ItsProduct DEF PaidInv
<1>12. AnswerHas'
  BY <1>2, <1>3, <1>7, <1>11 DEF PaidInv, AnswerHas, At, Settles
<1>13. ASSUME NEW t \in Slots, NEW q, At(t, "grant")', q \in Payload[req'[t].product] \ req'[t].todo
       PROVE  granted'[req'[t].ref][q] > 0
  <2>1. CASE t = s
    <3>1. /\ req'[s].ref = r0 /\ q \in Payload[req[s].product]
          /\ q = y \/ q \notin req[s].todo
      BY <1>2, <1>3, <1>13, <2>1 DEF At
    <3> QED BY <1>1, <1>3, <1>6, <1>9, <2>1, <3>1 DEF PaidInv, Inserted
  <2>2. CASE t # s
    <3>1. req'[t] = req[t] /\ At(t, "grant")
      BY <1>2, <1>13, <2>2 DEF At
    <3>2. req[t].ref \in Refs /\ q \in QuotaTypes /\ granted[req[t].ref][q] > 0
      BY <1>11, <1>13, <3>1 DEF PaidInv, Inserted, At, Settles
    <3> QED BY <1>6, <3>1, <3>2
  <2> QED BY <2>1, <2>2
<1>14. Inserted'
  BY <1>13 DEF Inserted
<1>15. \A r \in Refs : Complete(r) => Complete(r)'
  <2>1. ASSUME NEW r \in Refs, Complete(r), NEW q \in Payload[ProductOf(r)]
        PROVE  granted'[r][q] > 0
    <3>1. granted[r][q] > 0
      BY <2>1 DEF Complete
    <3>2. CASE r = r0
      BY <1>6, <1>9, <2>1, <3>1, <3>2
    <3>3. CASE r # r0
      <4>1. granted'[r] = granted[r]
        BY <1>1, <1>3, <3>3 DEF Row, PaidInv, TInv, LedgerOK
      <4> QED BY <3>1, <4>1
    <3> QED BY <3>2, <3>3
  <2> QED BY <1>8, <2>1 DEF Complete
<1>16. Complete(r0)' \/ r0 \in torn' \/ Working(r0)'
  <2>1. CASE req'[s].at = "answer" /\ req[s].todo = {y}
    <3>1. \A q \in Payload[req[s].product] : q = y \/ granted[r0][q] > 0
      BY <1>1, <1>3, <2>1 DEF PaidInv, Inserted
    <3>2. \A q \in Payload[req[s].product] : granted'[r0][q] > 0
      BY <1>6, <1>9, <3>1
    <3> QED BY <1>8, <1>9, <3>2 DEF Complete
  <2>2. CASE req'[s].at = "grant"
    BY <1>2, <1>3, <2>2 DEF Working, At
  <2> QED BY <1>2, <1>3, <2>1, <2>2
<1>17. \A r \in Refs : r # r0 /\ Working(r) => Working(r)'
  BY <1>2, <1>3 DEF Working, At
<1>18. Whole'
  BY <1>1, <1>7, <1>15, <1>16, <1>17 DEF PaidInv, Whole
<1> QED BY <1>10, <1>12, <1>14, <1>18

LEMMA PaidInvNext ==
  ASSUME PaidInv, [Next]_vars
  PROVE  PaidInv'
<1>1. TInv'
  BY TInvNext DEF PaidInv
<1>2. (GrantsArePaidFor /\ AnswerHas /\ Inserted /\ Whole)'
  BY NextQuiet, QuietPaid, ExistsPaid, ReadOfferPaid, InsertPaid DEF PaidInv
<1>3. \A i \in acked' : i \in acked \/ HasGrant(i)
  BY NextQuiet DEF PaidInv, AnswerHas, Answer
<1>4. \A r \in Refs : HasGrant(r) => HasGrant(r)'
  <2>1. CASE UNCHANGED granted
    BY <2>1 DEF HasGrant
  <2>2. ASSUME NEW s \in Slots, NEW y \in QuotaTypes, Grant(s, y) \/ GrantUnknown(s, y)
        PROVE  \A r \in Refs : HasGrant(r) => HasGrant(r)'
    <3>1. /\ \A r \in Refs, q \in QuotaTypes : granted[r][q] \in Nat
          /\ \A r \in Refs, q \in QuotaTypes :
               granted'[r][q] = granted[r][q] \/ granted'[r][q] = granted[r][q] + 1
      BY <2>2, RowAdds DEF PaidInv, TInv, LedgerOK, Grant, GrantUnknown
    <3> QED BY <3>1 DEF HasGrant
  <2> QED BY <2>1, <2>2, NextQuiet DEF PaidInv, Quiet, Exists, ReadOffer, ledger
<1>5. acked \subseteq Refs
  BY DEF PaidInv, TInv, BtcpayOK, Refs
<1>6. acked' \subseteq Refs
  BY <1>1 DEF TInv, BtcpayOK, Refs
<1>7. AckedHas'
  BY <1>3, <1>4, <1>5, <1>6 DEF PaidInv, AckedHas
<1> QED BY <1>1, <1>2, <1>7 DEF PaidInv

LEMMA PaidInvInit == Init => PaidInv
<1> SUFFICES ASSUME Init PROVE PaidInv
  OBVIOUS
<1>1. \A r \in Refs : ~HasGrant(r)
  BY DEF Init, HasGrant
<1>2. GrantsArePaidFor
  BY DEF Init, GrantsArePaidFor
<1>3. AnswerHas /\ Inserted
  BY DEF Init, AnswerHas, Inserted, At, Idle
<1>4. Whole /\ AckedHas
  BY <1>1 DEF Init, Whole, AckedHas
<1> QED BY <1>2, <1>3, <1>4, TInvInit DEF PaidInv

\* What is granted was paid for or is free, and is of a type the product
\* grants (webhook.go:80-97, product_purchase.go:70-84).
THEOREM GrantedIsPaidFor == Spec => []GrantsArePaidFor
<1>1. PaidInv => GrantsArePaidFor
  BY DEF PaidInv
<1> QED BY <1>1, PaidInvInit, PaidInvNext, PTL DEF Spec

\* A delivery is answered 200 only once its reference is granted, all of it but
\* for a failure between two inserts (webhook.go:80-97, settlement.go:95-147).
THEOREM AckedOnlyGranted == Spec => []AckedIsGranted
<1>1. PaidInv => AckedIsGranted
  BY PaidInvAcked
<1> QED BY <1>1, PaidInvInit, PaidInvNext, PTL DEF Spec
=============================================================================
