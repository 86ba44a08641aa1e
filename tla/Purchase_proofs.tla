--------------------------- MODULE Purchase_proofs ---------------------------
(***************************************************************************)
(* Theorems about Purchase, for every value of its constants.               *)
(***************************************************************************)
EXTENDS Purchase, SumTheorems, TLAPS

-----------------------------------------------------------------------------
(* Types.                                                                   *)

RegistryOK ==
  /\ issued \subseteq Names
  /\ holder \in [Names -> Pubkeys \cup {Nobody}]

CreditOK ==
  /\ balance \in [Pubkeys -> Nat]
  /\ credited \subseteq Invoices
  /\ withdrawn \in [Pubkeys -> Nat]
  /\ spent \in [Pubkeys -> Nat]
  /\ granted \in [Pubkeys -> Nat]
  /\ byHand \subseteq credited

\* A minted invoice names its buyer and what it buys.
Minted(v) == v.status # "none" => v.buyer \in Pubkeys /\ v.name \in Names

InvoicesOK ==
  /\ invoice \in [Invoices -> Invoice]
  /\ \A i \in Invoices : Minted(invoice[i])

CountsOK ==
  /\ begun \in 0..MaxPurchases
  /\ faults \in 0..MaxFaults
  /\ short \subseteq Pubkeys

\* What the type of a request leaves out: a purchase has a buyer and a name and
\* is discounted by no more than the price, a delivery has an invoice.
GoodRequest(q) ==
  /\ q \in Request
  /\ q.step \in BuySteps => q.who \in Pubkeys /\ q.name \in Names
  /\ q.step \in BuySteps => q.applied <= q.price
  /\ q.step = "price" => q.applied = 0
  /\ q.step \in HookSteps => q.inv \in Invoices

\* A delivery is of an invoice that was minted, and paid.
Delivered(q) == q.step \in HookSteps => invoice[q.inv].status = "settled"

RequestsOK ==
  /\ req \in [Sessions -> Request]
  /\ \A s \in Sessions : GoodRequest(req[s]) /\ Delivered(req[s])

\* The typing invariant, table by table.
TInv ==
  /\ RegistryOK /\ CreditOK /\ InvoicesOK /\ CountsOK /\ RequestsOK
  /\ acked \subseteq Invoices /\ named \subseteq Invoices

LEMMA TInvTypes == TInv => TypeOK
  BY DEF TInv, TypeOK, RegistryOK, CreditOK, InvoicesOK, CountsOK, RequestsOK

LEMMA IdleGood == GoodRequest(Idle) /\ Idle.step = "idle"
  BY DEF GoodRequest, Request, Idle, BuySteps, HookSteps

\* A settled invoice stays settled, as far as this step goes.
StaySettled ==
  \A i \in Invoices : invoice[i].status = "settled" => invoice'[i].status = "settled"

\* A step of session s leaves the requests well formed if what it leaves in s is.
LEMMA OneRequest ==
  ASSUME TInv, NEW s \in Sessions, NEW q, GoodRequest(q), Delivered(q)', StaySettled,
         req' = [req EXCEPT ![s] = q]
  PROVE  RequestsOK'
<1>1. /\ req' \in [Sessions -> Request]
      /\ \A t \in Sessions : GoodRequest(req'[t])
  BY DEF TInv, RequestsOK, GoodRequest
<1>2. ASSUME NEW t \in Sessions, req'[t].step \in HookSteps
      PROVE  invoice'[req'[t].inv].status = "settled"
  <2>1. CASE t = s
    BY <2>1, <1>2 DEF TInv, RequestsOK, Delivered
  <2>2. CASE t # s
    BY <2>2, <1>2 DEF TInv, RequestsOK, Delivered, GoodRequest, StaySettled
  <2> QED BY <2>1, <2>2
<1>3. \A t \in Sessions : Delivered(req[t])'
  BY <1>2 DEF Delivered
<1>4. \A t \in Sessions : GoodRequest(req[t])'
  BY <1>1 DEF GoodRequest
<1> QED BY <1>1, <1>3, <1>4 DEF RequestsOK

LEMMA SameInvoices == ASSUME UNCHANGED invoice PROVE StaySettled
  BY DEF StaySettled

LEMMA Ends ==
  ASSUME TInv, NEW s \in Sessions, End(s), StaySettled
  PROVE  RequestsOK'
<1>1. Delivered(Idle)'
  BY IdleGood DEF Delivered, HookSteps
<1> QED BY <1>1, IdleGood, OneRequest DEF End
LEMMA Goes ==
  ASSUME TInv, NEW s \in Sessions, NEW step, Goto(s, step), StaySettled,
         step \in {"idle"} \cup BuySteps \cup HookSteps,
         step \in BuySteps => req[s].step \in BuySteps /\ step # "price",
         step \in HookSteps => req[s].step \in HookSteps
  PROVE  RequestsOK'
<1>1. GoodRequest(req[s]) /\ Delivered(req[s])
  BY DEF TInv, RequestsOK
<1>2. PICK q : q = [req[s] EXCEPT !.step = step]
  OBVIOUS
<1>3. q.step = step /\ q.inv = req[s].inv
  BY <1>1, <1>2 DEF GoodRequest, Request
<1>4. GoodRequest(q)
  BY <1>1, <1>2 DEF GoodRequest, Request, BuySteps, HookSteps
<1>5. Delivered(q)'
  BY <1>1, <1>3 DEF Delivered, GoodRequest, StaySettled
<1>6. req' = [req EXCEPT ![s] = q]
  BY <1>2 DEF Goto
<1> QED BY <1>4, <1>5, <1>6, OneRequest

LEMMA GivesUp ==
  ASSUME TInv, NEW s \in Sessions, GiveUp(s), StaySettled, req[s].step \in BuySteps
  PROVE  RequestsOK'
<1>1. CASE req[s].applied > 0
  BY <1>1, Goes DEF GiveUp, BuySteps, HookSteps
<1>2. CASE ~(req[s].applied > 0)
  BY <1>2, Ends DEF GiveUp
<1> QED BY <1>1, <1>2

LEMMA SameRegistry == ASSUME TInv, UNCHANGED registry PROVE RegistryOK'
  BY DEF TInv, RegistryOK, registry

LEMMA SameCredit == ASSUME TInv, UNCHANGED credit PROVE CreditOK'
  BY DEF TInv, CreditOK, credit, grants

LEMMA SameBtcpay ==
  ASSUME TInv, UNCHANGED btcpay
  PROVE  InvoicesOK' /\ acked' \subseteq Invoices /\ named' \subseteq Invoices /\ StaySettled
  BY DEF TInv, InvoicesOK, Minted, btcpay, StaySettled

LEMMA SameCounts == ASSUME TInv, UNCHANGED <<begun, faults, short>> PROVE CountsOK'
  BY DEF TInv, CountsOK

\* A fault is counted up to MaxFaults.
LEMMA FaultCounted ==
  ASSUME TInv, Fault \/ NoFault, UNCHANGED begun, short' \subseteq Pubkeys
  PROVE  CountsOK'
  BY PurchaseConstants DEF TInv, CountsOK, Fault, NoFault

LEMMA Issued ==
  ASSUME TInv, NEW n \in Names, NEW p \in Pubkeys, Registry!Issue(n, p)
  PROVE  RegistryOK'
  BY DEF TInv, RegistryOK, Registry!Issue

LEMMA Refusal ==
  ASSUME TInv, NEW n \in Names, NEW p \in Pubkeys, RegistrationRefused(n, p)
  PROVE  RegistryOK' /\ (Fault \/ NoFault)
  BY Issued, SameRegistry DEF RegistrationRefused, NoFault

LEMMA Buyer ==
  ASSUME TInv, NEW s \in Sessions, req[s].step \in BuySteps
  PROVE  /\ req[s] \in Request
         /\ req[s].who \in Pubkeys /\ req[s].name \in Names
         /\ req[s].price \in Nat /\ req[s].applied \in Nat
         /\ req[s].applied <= req[s].price
         /\ balance[req[s].who] \in Nat
         /\ spent[req[s].who] \in Nat
  BY DEF TInv, RequestsOK, GoodRequest, Request, CreditOK

LEMMA Paid ==
  ASSUME TInv, NEW s \in Sessions, req[s].step \in HookSteps
  PROVE  /\ req[s].inv \in Invoices
         /\ invoice[req[s].inv].name \in Names
         /\ invoice[req[s].inv].buyer \in Pubkeys
         /\ invoice[req[s].inv].amount \in Nat
  BY DEF TInv, RequestsOK, GoodRequest, Delivered, InvoicesOK, Minted, Invoice
-----------------------------------------------------------------------------
(* createPurchaseInvoice keeps the types.                                   *)

LEMMA BeginKeeps ==
  ASSUME TInv, NEW s \in Sessions, BeginPurchase(s)
  PROVE  TInv'
<1>1. PICK n \in Names, p \in Pubkeys :
        req' = [req EXCEPT ![s] = [Idle EXCEPT !.step = "price", !.who = p, !.name = n]]
  BY DEF BeginPurchase
<1>2. PICK q : q = [Idle EXCEPT !.step = "price", !.who = p, !.name = n]
  OBVIOUS
<1>3. GoodRequest(q) /\ q.step = "price"
  <2>1. /\ q \in Request /\ q.step = "price" /\ q.who = p /\ q.name = n
        /\ q.price = 0 /\ q.applied = 0
    BY <1>2 DEF Idle, Request, BuySteps
  <2> QED BY <2>1 DEF GoodRequest, HookSteps
<1>4. Delivered(q)'
  BY <1>3 DEF Delivered, HookSteps
<1>5. UNCHANGED <<registry, credit, btcpay, faults, short>>
  BY DEF BeginPurchase
<1>6. RequestsOK'
  BY <1>1, <1>2, <1>3, <1>4, <1>5, OneRequest, SameBtcpay
<1>7. CountsOK'
  BY <1>5, PurchaseConstants DEF TInv, CountsOK, BeginPurchase
<1> QED BY <1>5, <1>6, <1>7, SameRegistry, SameCredit, SameBtcpay DEF TInv

LEMMA PriceIsNat ==
  ASSUME NEW n \in Names, NEW p \in Pubkeys
  PROVE  PriceNameFor(n, p) \in Nat
  BY PurchaseConstants DEF PriceNameFor

LEMMA ReadPriceKeeps ==
  ASSUME TInv, NEW s \in Sessions, ReadPrice(s)
  PROVE  TInv'
<1>1. req[s].step \in BuySteps
  BY DEF ReadPrice, At, BuySteps
<1>2. PICK n \in Names, p \in Pubkeys : n = req[s].name /\ p = req[s].who
  BY <1>1, Buyer
<1>3. PICK price \in Nat : price = PriceNameFor(n, p)
  BY PriceIsNat
<1>4. price = PriceNameFor(req[s].name, req[s].who)
  BY <1>2, <1>3
<1>5. PICK q : q = [req[s] EXCEPT !.step = "credits", !.price = price]
  OBVIOUS
<1>6. GoodRequest(req[s]) /\ At(s, "price")
  BY DEF TInv, RequestsOK, ReadPrice
<1>7. GoodRequest(q) /\ q.step = "credits"
  <2>1. /\ q \in Request /\ q.step = "credits" /\ q.price = price
        /\ q.who = req[s].who /\ q.name = req[s].name /\ q.applied = 0
    BY <1>5, <1>6 DEF GoodRequest, Request, BuySteps, At
  <2> QED BY <1>2, <2>1 DEF GoodRequest, HookSteps
<1>8. Delivered(q)'
  BY <1>7 DEF Delivered, HookSteps
<1>9. UNCHANGED <<registry, credit, btcpay, begun, faults, short>>
  BY DEF ReadPrice
<1>10. req' = [req EXCEPT ![s] = q]
  BY <1>4, <1>5 DEF ReadPrice
<1>11. RequestsOK'
  BY <1>7, <1>8, <1>9, <1>10, OneRequest, SameBtcpay
<1> QED BY <1>9, <1>11, SameRegistry, SameCredit, SameBtcpay, SameCounts DEF TInv

LEMMA ReadCreditsKeeps ==
  ASSUME TInv, NEW s \in Sessions, ReadCredits(s)
  PROVE  TInv'
<1>1. GoodRequest(req[s]) /\ At(s, "credits") /\ req[s].step \in BuySteps
  BY DEF TInv, RequestsOK, ReadCredits, At, BuySteps
<1>2. PICK applied \in CreditsApplied(req[s]) :
        req' = [req EXCEPT ![s].step = AfterCredits(req[s].price, applied),
                           ![s].applied = applied]
  BY DEF ReadCredits
<1>3. applied \in Nat /\ applied <= req[s].price
  BY <1>1, Buyer DEF CreditsApplied
<1>4. PICK step : step = AfterCredits(req[s].price, applied)
  OBVIOUS
<1>5. step \in BuySteps \ {"price"}
  BY <1>4 DEF AfterCredits, BuySteps
<1>6. PICK q : q = [req[s] EXCEPT !.step = step, !.applied = applied]
  OBVIOUS
<1>7. GoodRequest(q) /\ q.step = step
  BY <1>1, <1>3, <1>5, <1>6 DEF GoodRequest, Request, BuySteps, HookSteps
<1>8. Delivered(q)'
  BY <1>5, <1>7 DEF Delivered, HookSteps, BuySteps
<1>9. UNCHANGED <<registry, credit, btcpay, begun, faults, short>>
  BY DEF ReadCredits
<1>10. req' = [req EXCEPT ![s] = q]
  BY <1>2, <1>4, <1>6
<1>11. RequestsOK'
  BY <1>7, <1>8, <1>9, <1>10, OneRequest, SameBtcpay
<1> QED BY <1>9, <1>11, SameRegistry, SameCredit, SameBtcpay, SameCounts DEF TInv

\* What DeductCredits leaves is a balance: it deducts what is covered.
LEMMA DeductedIsNat ==
  ASSUME TInv, NEW s \in Sessions, Deducting(s), Covered(req[s])
  PROVE  [balance EXCEPT ![req[s].who] = @ - req[s].applied] \in [Pubkeys -> Nat]
<1>1. req[s].step \in BuySteps
  BY DEF Deducting, BuySteps
<1>2. balance[req[s].who] - req[s].applied \in Nat
  BY <1>1, Buyer DEF Covered
<1> QED BY <1>1, <1>2, Buyer DEF TInv, CreditOK

LEMMA DeductKeeps ==
  ASSUME TInv, NEW s \in Sessions, Deduct(s)
  PROVE  TInv'
<1>1. UNCHANGED <<registry, credited, withdrawn, spent, grants, btcpay, begun, faults, short>>
  BY DEF Deduct
<1>2. CreditOK'
  BY <1>1, DeductedIsNat DEF Deduct, TInv, CreditOK, grants
<1>3. req[s].step \in BuySteps
  BY DEF Deduct, Deducting, BuySteps
<1>4. Goto(s, "register") \/ Goto(s, "mint")
  BY DEF Deduct
<1>5. RequestsOK'
  BY <1>1, <1>3, <1>4, Goes, SameBtcpay DEF BuySteps, HookSteps
<1> QED BY <1>1, <1>2, <1>5, SameRegistry, SameBtcpay, SameCounts DEF TInv

LEMMA FullPriceGood ==
  ASSUME TInv, NEW s \in Sessions, req[s].step \in BuySteps, FullPrice(s), StaySettled
  PROVE  RequestsOK'
<1>1. GoodRequest(req[s])
  BY DEF TInv, RequestsOK
<1>2. PICK q : q = [req[s] EXCEPT !.step = "mint", !.applied = 0]
  OBVIOUS
<1>3. GoodRequest(q) /\ q.step = "mint"
  <2>1. /\ q \in Request /\ q.step = "mint" /\ q.price = req[s].price
        /\ q.who = req[s].who /\ q.name = req[s].name /\ q.applied = 0
    BY <1>1, <1>2 DEF GoodRequest, Request, BuySteps
  <2> QED BY <2>1, Buyer DEF GoodRequest, HookSteps
<1>4. Delivered(q)'
  BY <1>3 DEF Delivered, HookSteps
<1>5. req' = [req EXCEPT ![s] = q]
  BY <1>2 DEF FullPrice
<1> QED BY <1>3, <1>4, <1>5, OneRequest

LEMMA DeductFailsKeeps ==
  ASSUME TInv, NEW s \in Sessions, DeductFails(s)
  PROVE  TInv'
<1>1. UNCHANGED <<registry, credited, withdrawn, spent, grants, btcpay, begun>>
  BY DEF DeductFails
<1>2. req[s].step \in BuySteps
  BY DEF DeductFails, Deducting, BuySteps
<1>3. /\ Fault \/ NoFault
      /\ short' \subseteq Pubkeys
      /\ balance' \in [Pubkeys -> Nat]
  BY <1>2, Buyer, DeductedIsNat DEF DeductFails, TInv, CountsOK, CreditOK
<1>4. CreditOK'
  BY <1>1, <1>3 DEF TInv, CreditOK, grants
<1>5. RequestsOK'
  BY <1>1, <1>2, Ends, FullPriceGood, SameBtcpay DEF DeductFails
<1> QED BY <1>1, <1>3, <1>4, <1>5, SameRegistry, SameBtcpay, FaultCounted DEF TInv
LEMMA AddedIsNat ==
  ASSUME TInv, NEW p \in Pubkeys, NEW amount \in Nat
  PROVE  /\ [balance EXCEPT ![p] = @ + amount] \in [Pubkeys -> Nat]
         /\ [spent EXCEPT ![p] = @ + amount] \in [Pubkeys -> Nat]
         /\ [withdrawn EXCEPT ![p] = @ + amount] \in [Pubkeys -> Nat]
         /\ [granted EXCEPT ![p] = @ + amount] \in [Pubkeys -> Nat]
<1>1. /\ balance[p] + amount \in Nat /\ spent[p] + amount \in Nat
      /\ withdrawn[p] + amount \in Nat /\ granted[p] + amount \in Nat
  BY DEF TInv, CreditOK
<1> QED BY <1>1 DEF TInv, CreditOK

LEMMA RegisterKeeps ==
  ASSUME TInv, NEW s \in Sessions, Register(s)
  PROVE  TInv'
<1>1. UNCHANGED <<balance, credited, withdrawn, grants, btcpay, begun, faults, short>>
  BY DEF Register
<1>2. req[s].step \in BuySteps
  BY DEF Register, At, BuySteps
<1>3. PICK n \in Names, p \in Pubkeys, amount \in Nat :
        n = req[s].name /\ p = req[s].who /\ amount = req[s].applied
  BY <1>2, Buyer
<1>4. RegistryOK'
  BY <1>3, Issued DEF Register
<1>5. CreditOK'
  BY <1>1, <1>3, AddedIsNat DEF Register, TInv, CreditOK, grants
<1>6. RequestsOK'
  BY <1>1, Ends, SameBtcpay DEF Register
<1> QED BY <1>1, <1>4, <1>5, <1>6, SameBtcpay, SameCounts DEF TInv

LEMMA RegisterFailsKeeps ==
  ASSUME TInv, NEW s \in Sessions, RegisterFails(s)
  PROVE  TInv'
<1>1. UNCHANGED <<credit, btcpay, begun, short>> /\ GiveUp(s)
  BY DEF RegisterFails
<1>2. req[s].step \in BuySteps
  BY DEF RegisterFails, At, BuySteps
<1>3. PICK n \in Names, p \in Pubkeys : n = req[s].name /\ p = req[s].who
  BY <1>2, Buyer
<1>4. RegistryOK' /\ (Fault \/ NoFault)
  BY <1>3, Refusal DEF RegisterFails
<1>5. CountsOK'
  BY <1>1, <1>4, FaultCounted DEF TInv, CountsOK
<1> QED BY <1>1, <1>2, <1>4, <1>5, GivesUp, SameCredit, SameBtcpay DEF TInv

LEMMA RefundKeeps ==
  ASSUME TInv, NEW s \in Sessions, Refund(s)
  PROVE  TInv'
<1>1. UNCHANGED <<registry, credited, withdrawn, spent, grants, btcpay, begun, faults, short>>
  BY DEF Refund
<1>2. req[s].step \in BuySteps
  BY DEF Refund, At, BuySteps
<1>3. PICK p \in Pubkeys, amount \in Nat : p = req[s].who /\ amount = req[s].applied
  BY <1>2, Buyer
<1>4. CreditOK'
  BY <1>1, <1>3, AddedIsNat DEF Refund, TInv, CreditOK, grants
<1> QED BY <1>1, <1>4, Ends, SameRegistry, SameBtcpay, SameCounts DEF Refund, TInv

\* A fault that ends the request and leaves the tables alone.
LEMMA FaultEnds ==
  ASSUME TInv, NEW s \in Sessions, Fault, End(s), short' \subseteq Pubkeys,
         UNCHANGED <<registry, credit, btcpay, begun>>
  PROVE  TInv'
  BY Ends, SameRegistry, SameCredit, SameBtcpay, FaultCounted DEF TInv

LEMMA RefundFailsKeeps ==
  ASSUME TInv, NEW s \in Sessions, RefundFails(s)
  PROVE  TInv'
<1>1. req[s].step \in BuySteps
  BY DEF RefundFails, At, BuySteps
<1>2. short' \subseteq Pubkeys
  BY <1>1, Buyer DEF RefundFails, TInv, CountsOK
<1> QED BY <1>2, FaultEnds DEF RefundFails

LEMMA MintKeeps ==
  ASSUME TInv, NEW s \in Sessions, Mint(s)
  PROVE  TInv'
<1>1. UNCHANGED <<registry, credit, acked, named, begun, faults, short>> /\ End(s)
  BY DEF Mint
<1>2. req[s].step \in BuySteps
  BY DEF Mint, At, BuySteps
<1>3. PICK i \in Invoices :
        /\ invoice[i].status = "none"
        /\ invoice' = [invoice EXCEPT ![i] =
             [status |-> "new", buyer |-> req[s].who, name |-> req[s].name,
              price |-> req[s].price, amount |-> req[s].price - req[s].applied,
              applied |-> req[s].applied]]
  BY DEF Mint
<1>4. PICK v : v = [status |-> "new", buyer |-> req[s].who, name |-> req[s].name,
                    price |-> req[s].price, amount |-> req[s].price - req[s].applied,
                    applied |-> req[s].applied]
  OBVIOUS
<1>5. v \in Invoice /\ Minted(v)
  BY <1>2, <1>4, Buyer DEF Invoice, Minted
<1>6. invoice' = [invoice EXCEPT ![i] = v]
  BY <1>3, <1>4
<1>7. InvoicesOK'
  BY <1>5, <1>6 DEF TInv, InvoicesOK, Minted
<1>8. StaySettled
  BY <1>3, <1>6 DEF StaySettled, TInv, InvoicesOK
<1> QED BY <1>1, <1>7, <1>8, Ends, SameRegistry, SameCredit, SameCounts DEF TInv

LEMMA MintFailsKeeps ==
  ASSUME TInv, NEW s \in Sessions, MintFails(s)
  PROVE  TInv'
<1>1. req[s].step \in BuySteps
  BY DEF MintFails, At, BuySteps
<1> QED BY <1>1, GivesUp, SameRegistry, SameCredit, SameBtcpay, SameCounts DEF MintFails, TInv

LEMMA BuyKeeps ==
  ASSUME TInv, NEW s \in Sessions, Buy(s)
  PROVE  TInv'
  BY ReadPriceKeeps, ReadCreditsKeeps, DeductKeeps, DeductFailsKeeps, RegisterKeeps,
     RegisterFailsKeeps, RefundKeeps, RefundFailsKeeps, MintKeeps, MintFailsKeeps DEF Buy
-----------------------------------------------------------------------------
(* BTCPay, the webhook and the rest of the system keep the types.           *)

LEMMA PayExpireKeep ==
  ASSUME TInv, NEW i \in Invoices, Pay(i) \/ Expire(i)
  PROVE  TInv'
<1>1. UNCHANGED <<registry, credit, acked, named, req, begun, faults, short>>
  BY DEF Pay, Expire
<1>2. InvoicesOK' /\ StaySettled
  BY DEF Pay, Expire, TInv, InvoicesOK, Invoice, Minted, StaySettled
<1>3. RequestsOK'
  BY <1>1, <1>2 DEF TInv, RequestsOK, Delivered, GoodRequest, StaySettled
<1> QED BY <1>1, <1>2, <1>3, SameRegistry, SameCredit, SameCounts DEF TInv

LEMMA DeliverKeeps ==
  ASSUME TInv, NEW s \in Sessions, NEW i \in Invoices, Deliver(s, i)
  PROVE  TInv'
<1>1. UNCHANGED <<registry, credit, btcpay, begun, faults, short>>
  BY DEF Deliver
<1>2. PICK q : q = [Idle EXCEPT !.step = "lookup", !.inv = i]
  OBVIOUS
<1>3. GoodRequest(q) /\ q.inv = i
  BY <1>2 DEF Idle, GoodRequest, Request, BuySteps, HookSteps
<1>4. Delivered(q)'
  BY <1>1, <1>3 DEF Delivered, Deliver, btcpay
<1>5. req' = [req EXCEPT ![s] = q]
  BY <1>2 DEF Deliver
<1>6. RequestsOK'
  BY <1>1, <1>3, <1>4, <1>5, OneRequest, SameBtcpay
<1> QED BY <1>1, <1>6, SameRegistry, SameCredit, SameBtcpay, SameCounts DEF TInv

LEMMA LookUpKeeps ==
  ASSUME TInv, NEW s \in Sessions, LookUp(s) \/ LookUpFails(s)
  PROVE  TInv'
<1>1. req[s].step \in HookSteps
  BY DEF LookUp, LookUpFails, At, HookSteps
<1>2. CASE LookUp(s)
  <2>1. RequestsOK'
    BY <1>1, <1>2, Goes, SameBtcpay DEF LookUp, BuySteps, HookSteps
  <2> QED BY <1>2, <2>1, SameRegistry, SameCredit, SameBtcpay, SameCounts DEF LookUp, TInv
<1>3. CASE LookUpFails(s)
  <2>1. /\ UNCHANGED <<registry, credit, btcpay, begun, short>>
        /\ Fault /\ End(s) /\ short' \subseteq Pubkeys
    BY <1>3 DEF LookUpFails, ServerError, btcpay, TInv, CountsOK
  <2> QED BY <2>1, FaultEnds
<1> QED BY <1>2, <1>3

LEMMA SettleKeeps ==
  ASSUME TInv, NEW s \in Sessions, Settle(s)
  PROVE  TInv'
<1>1. UNCHANGED <<credit, invoice, acked, begun, faults, short>> /\ Goto(s, "ack")
  BY DEF Settle
<1>2. req[s].step \in HookSteps
  BY DEF Settle, At, HookSteps
<1>3. PICK i \in Invoices, n \in Names, p \in Pubkeys :
        i = req[s].inv /\ n = invoice[i].name /\ p = invoice[i].buyer
  BY <1>2, Paid
<1>4. RegistryOK' /\ named' \subseteq Invoices
  BY <1>3, Issued DEF Settle, TInv
<1>5. RequestsOK'
  BY <1>1, <1>2, Goes, SameInvoices DEF BuySteps, HookSteps
<1>6. InvoicesOK' /\ acked' \subseteq Invoices
  BY <1>1 DEF TInv, InvoicesOK, Minted
<1> QED BY <1>1, <1>4, <1>5, <1>6, SameCredit, SameCounts DEF TInv

LEMMA SettleFailsKeeps ==
  ASSUME TInv, NEW s \in Sessions, SettleFails(s)
  PROVE  TInv'
<1>1. UNCHANGED <<credit, btcpay, begun, short>> /\ Goto(s, "credit")
  BY DEF SettleFails
<1>2. req[s].step \in HookSteps
  BY DEF SettleFails, At, HookSteps
<1>3. PICK i \in Invoices, n \in Names, p \in Pubkeys :
        i = req[s].inv /\ n = invoice[i].name /\ p = invoice[i].buyer
  BY <1>2, Paid
<1>4. RegistryOK' /\ (Fault \/ NoFault)
  BY <1>3, Refusal DEF SettleFails
<1>5. RequestsOK'
  BY <1>1, <1>2, Goes, SameBtcpay DEF BuySteps, HookSteps
<1>6. CountsOK'
  BY <1>1, <1>4, FaultCounted DEF TInv, CountsOK
<1> QED BY <1>1, <1>4, <1>5, <1>6, SameCredit, SameBtcpay DEF TInv

LEMMA CreditedOK ==
  ASSUME TInv, NEW i \in Invoices, invoice[i].buyer \in Pubkeys, invoice[i].amount \in Nat,
         Credited(i), UNCHANGED <<withdrawn, spent, grants>>
  PROVE  CreditOK'
<1>1. PICK p \in Pubkeys, amount \in Nat : p = invoice[i].buyer /\ amount = invoice[i].amount
  OBVIOUS
<1>2. [balance EXCEPT ![p] = @ + amount] \in [Pubkeys -> Nat]
  BY AddedIsNat
<1>3. /\ balance' \in [Pubkeys -> Nat]
      /\ credited' \subseteq Invoices /\ credited \subseteq credited'
  BY <1>1, <1>2 DEF Credited, TInv, CreditOK
<1> QED BY <1>3 DEF TInv, CreditOK, grants

LEMMA CreditKeeps ==
  ASSUME TInv, NEW s \in Sessions, Credit(s)
  PROVE  TInv'
<1>1. UNCHANGED <<registry, withdrawn, spent, grants, btcpay, begun, faults, short>> /\ Goto(s, "ack")
  BY DEF Credit
<1>2. req[s].step \in HookSteps
  BY DEF Credit, At, HookSteps
<1>3. PICK i \in Invoices :
        i = req[s].inv /\ invoice[i].buyer \in Pubkeys /\ invoice[i].amount \in Nat
  BY <1>2, Paid
<1>4. CreditOK'
  BY <1>1, <1>3, CreditedOK DEF Credit
<1>5. RequestsOK'
  BY <1>1, <1>2, Goes, SameBtcpay DEF BuySteps, HookSteps
<1> QED BY <1>1, <1>4, <1>5, SameRegistry, SameBtcpay, SameCounts DEF TInv

LEMMA CreditFailsKeeps ==
  ASSUME TInv, NEW s \in Sessions, CreditFails(s)
  PROVE  TInv'
<1>1. /\ UNCHANGED <<registry, withdrawn, spent, grants, btcpay, begun, short>>
      /\ End(s) /\ Fault
  BY DEF CreditFails, ServerError, btcpay
<1>2. req[s].step \in HookSteps
  BY DEF CreditFails, At, HookSteps
<1>3. PICK i \in Invoices :
        i = req[s].inv /\ invoice[i].buyer \in Pubkeys /\ invoice[i].amount \in Nat
  BY <1>2, Paid
<1>4. UNCHANGED <<credited, balance>> \/ Credited(i)
  BY <1>3 DEF CreditFails
<1>5. CreditOK'
  BY <1>1, <1>3, <1>4, CreditedOK DEF TInv, CreditOK, grants
<1>6. CountsOK'
  BY <1>1, FaultCounted DEF TInv, CountsOK
<1> QED BY <1>1, <1>5, <1>6, Ends, SameRegistry, SameBtcpay DEF TInv

LEMMA AckKeeps ==
  ASSUME TInv, NEW s \in Sessions, Ack(s)
  PROVE  TInv'
<1>1. /\ UNCHANGED <<registry, credit, invoice, named, begun, faults, short>>
      /\ End(s)
      /\ acked' = acked \cup {req[s].inv}
  BY DEF Ack
<1>2. req[s].inv \in Invoices
  BY Paid DEF Ack, At, HookSteps
<1>3. InvoicesOK' /\ acked' \subseteq Invoices /\ named' \subseteq Invoices
  BY <1>1, <1>2 DEF TInv, InvoicesOK, Minted
<1> QED BY <1>1, <1>3, Ends, SameInvoices, SameRegistry, SameCredit, SameCounts DEF TInv

LEMMA HookKeeps ==
  ASSUME TInv, NEW s \in Sessions, Hook(s)
  PROVE  TInv'
  BY LookUpKeeps, SettleKeeps, SettleFailsKeeps, CreditKeeps, CreditFailsKeeps, AckKeeps
  DEF Hook

LEMMA CrashKeeps ==
  ASSUME TInv, NEW s \in Sessions, Crash(s)
  PROVE  TInv'
<1>1. UNCHANGED <<registry, credit, btcpay, begun>> /\ Fault /\ End(s)
  BY DEF Crash
<1>2. Held(s) > 0 => req[s].who \in Pubkeys
  BY Buyer DEF Held, BuySteps
<1>3. short' \subseteq Pubkeys
  BY <1>2 DEF Crash, TInv, CountsOK
<1> QED BY <1>1, <1>3, FaultEnds

LEMMA WithdrawKeeps ==
  ASSUME TInv, NEW p \in Pubkeys, Withdraw(p)
  PROVE  TInv'
<1>1. UNCHANGED <<registry, credited, spent, grants, btcpay, req, begun, faults, short>>
  BY DEF Withdraw
<1>2. PICK amount \in MinWithdrawal .. balance[p] :
        /\ balance' = [balance EXCEPT ![p] = @ - amount]
        /\ withdrawn' = [withdrawn EXCEPT ![p] = @ + amount]
  BY DEF Withdraw
<1>3. amount \in Nat /\ balance[p] - amount \in Nat
  BY PurchaseConstants DEF TInv, CreditOK
<1>4. CreditOK'
  BY <1>1, <1>2, <1>3, AddedIsNat DEF TInv, CreditOK, grants
<1>5. RequestsOK'
  BY <1>1 DEF TInv, RequestsOK, Delivered, GoodRequest, btcpay
<1> QED BY <1>1, <1>4, <1>5, SameRegistry, SameBtcpay, SameCounts DEF TInv

\* What is granted is a number of credits.
LEMMA GrantIs ==
  ASSUME TInv, NEW p \in Pubkeys, AddGrant(p)
  PROVE  \E amount \in Nat :
           /\ balance' = [balance EXCEPT ![p] = @ + amount]
           /\ granted' = [granted EXCEPT ![p] = @ + amount]
<1>1. SumFunctionOnSet(granted, Pubkeys) \in Nat
  BY PurchaseConstants, SumOfNats DEF TInv, CreditOK
<1>2. PICK amount \in 1 .. MaxGranted - SumFunctionOnSet(granted, Pubkeys) :
        /\ balance' = [balance EXCEPT ![p] = @ + amount]
        /\ granted' = [granted EXCEPT ![p] = @ + amount]
  BY DEF AddGrant
<1>3. amount \in Nat
  BY <1>1, PurchaseConstants
<1> QED BY <1>2, <1>3

LEMMA GrantKeeps ==
  ASSUME TInv, NEW p \in Pubkeys, Grant(p) \/ \E i \in Invoices : GrantForInvoice(p, i)
  PROVE  TInv'
<1>1. UNCHANGED <<registry, withdrawn, spent, btcpay, req, begun, faults, short>> /\ AddGrant(p)
  BY DEF Grant, GrantForInvoice
<1>2. PICK amount \in Nat : /\ balance' = [balance EXCEPT ![p] = @ + amount]
                            /\ granted' = [granted EXCEPT ![p] = @ + amount]
  BY <1>1, GrantIs
<1>3. balance' \in [Pubkeys -> Nat] /\ granted' \in [Pubkeys -> Nat]
  BY <1>2, AddedIsNat
<1>4. credited' \subseteq Invoices /\ byHand' \subseteq credited'
  BY DEF Grant, GrantForInvoice, TInv, CreditOK
<1>5. CreditOK'
  BY <1>1, <1>3, <1>4 DEF TInv, CreditOK
<1>6. RequestsOK'
  BY <1>1 DEF TInv, RequestsOK, Delivered, GoodRequest, btcpay
<1> QED BY <1>1, <1>5, <1>6, SameRegistry, SameBtcpay, SameCounts DEF TInv

LEMMA RegistryKeeps ==
  ASSUME TInv, RegistryMoves
  PROVE  TInv'
<1>1. UNCHANGED <<credit, btcpay, req, begun, faults, short>>
  BY DEF RegistryMoves
<1>2. RegistryOK'
  BY DEF RegistryMoves, TInv, RegistryOK, Registry!Next, Registry!Issue, Registry!Transfer,
         Registry!Revoke
<1>3. RequestsOK'
  BY <1>1 DEF TInv, RequestsOK, Delivered, GoodRequest, btcpay
<1> QED BY <1>1, <1>2, <1>3, SameCredit, SameBtcpay, SameCounts DEF TInv

LEMMA TypeInit == Init => TInv
<1> SUFFICES ASSUME Init PROVE TInv
  OBVIOUS
<1>1. RegistryOK /\ CreditOK /\ CountsOK
  BY PurchaseConstants DEF Init, RegistryOK, CreditOK, CountsOK, Registry!Init
<1>2. InvoicesOK
  BY DEF Init, InvoicesOK, Invoice, Unminted, Minted
<1>3. RequestsOK
  BY IdleGood DEF Init, RequestsOK, GoodRequest, Delivered, HookSteps
<1> QED BY <1>1, <1>2, <1>3 DEF TInv, Init

LEMMA TypeStep == TInv /\ [Next]_vars => TInv'
<1> SUFFICES ASSUME TInv, [Next]_vars PROVE TInv'
  OBVIOUS
<1>1. CASE Next
  BY <1>1, BeginKeeps, BuyKeeps, HookKeeps, CrashKeeps, DeliverKeeps, PayExpireKeep,
     WithdrawKeeps, GrantKeeps, RegistryKeeps DEF Next
<1>2. CASE UNCHANGED vars
  <2>1. UNCHANGED <<registry, credit, btcpay, req, begun, faults, short>>
    BY <1>2 DEF vars
  <2>2. RequestsOK'
    BY <2>1 DEF TInv, RequestsOK, Delivered, GoodRequest, btcpay
  <2> QED BY <2>1, <2>2, SameRegistry, SameCredit, SameBtcpay, SameCounts DEF TInv
<1> QED BY <1>1, <1>2

\* Every reachable state is well typed; above all, no balance is negative,
\* however the purchases, refunds, credits and withdrawals of any number of
\* requests interleave, and whatever fails (DeductCredits and
\* CreateWithdrawalRequest test the balance in the UPDATE that lowers it).
THEOREM PurchaseTypeCorrect == Spec => []TypeOK
<1>1. Spec => []TInv
  BY TypeInit, TypeStep, PTL DEF Spec
<1> QED BY <1>1, TInvTypes, PTL
-----------------------------------------------------------------------------
(* What an acknowledged invoice has done for its buyer.                      *)

Resolved == named \cup credited

\* A delivery about to be acknowledged has resolved its invoice.
AckInv ==
  /\ acked \subseteq Resolved
  /\ \A s \in Sessions : At(s, "ack") => req[s].inv \in Resolved

\* A step that resolves no less, acknowledges nothing and leaves no session
\* about to acknowledge that was not about to before.
Quiet ==
  /\ Resolved \subseteq Resolved'
  /\ UNCHANGED acked
  /\ \A s \in Sessions : At(s, "ack")' => UNCHANGED req[s]

LEMMA QuietKeeps == ASSUME AckInv, Quiet PROVE AckInv'
  BY DEF AckInv, Quiet, At

LEMMA EndsQuietly ==
  ASSUME TInv, NEW s \in Sessions, End(s)
  PROVE  \A t \in Sessions : At(t, "ack")' => UNCHANGED req[t]
  BY IdleGood DEF TInv, RequestsOK, End, At

LEMMA GoesQuietly ==
  ASSUME TInv, NEW s \in Sessions, NEW step, Goto(s, step), step # "ack"
  PROVE  \A t \in Sessions : At(t, "ack")' => UNCHANGED req[t]
  BY DEF TInv, RequestsOK, Request, Goto, At

LEMMA SameResolved ==
  ASSUME UNCHANGED <<named, credited>>
  PROVE  Resolved \subseteq Resolved'
  BY DEF Resolved

LEMMA BeginQuiet ==
  ASSUME TInv, NEW s \in Sessions, BeginPurchase(s)
  PROVE  Quiet
<1>1. UNCHANGED <<named, credited, acked>>
  BY DEF BeginPurchase, credit, btcpay
<1>2. ASSUME NEW t \in Sessions, At(t, "ack")' PROVE UNCHANGED req[t]
  BY <1>2 DEF BeginPurchase, TInv, RequestsOK, At, Idle
<1> QED BY <1>1, <1>2, SameResolved DEF Quiet

LEMMA BuyQuiet ==
  ASSUME TInv, NEW s \in Sessions, Buy(s)
  PROVE  Quiet
<1>1. UNCHANGED <<named, credited, acked>>
  BY DEF Buy, ReadPrice, ReadCredits, Deduct, DeductFails, Register, RegisterFails, Refund,
         RefundFails, Mint, MintFails, credit, btcpay
<1>2. \A t \in Sessions : At(t, "ack")' => UNCHANGED req[t]
  <2>1. CASE ReadPrice(s)
    BY <2>1 DEF ReadPrice, TInv, RequestsOK, Request, At
  <2>2. CASE ReadCredits(s)
    <3>1. PICK applied \in CreditsApplied(req[s]) :
            req' = [req EXCEPT ![s].step = AfterCredits(req[s].price, applied),
                               ![s].applied = applied]
      BY <2>2 DEF ReadCredits
    <3>2. AfterCredits(req[s].price, applied) # "ack"
      BY DEF AfterCredits
    <3> QED BY <3>1, <3>2 DEF TInv, RequestsOK, Request, At
  <2>3. CASE Deduct(s)
    <3>1. Goto(s, "register") \/ Goto(s, "mint")
      BY <2>3 DEF Deduct
    <3> QED BY <3>1, GoesQuietly
  <2>4. CASE DeductFails(s)
    <3>1. End(s) \/ FullPrice(s)
      BY <2>4 DEF DeductFails
    <3>2. FullPrice(s) => \A t \in Sessions : At(t, "ack")' => UNCHANGED req[t]
      BY DEF FullPrice, TInv, RequestsOK, Request, At
    <3> QED BY <3>1, <3>2, EndsQuietly
  <2>5. CASE End(s) \/ GiveUp(s)
    <3>1. End(s) \/ Goto(s, "refund")
      BY <2>5 DEF GiveUp
    <3> QED BY <3>1, EndsQuietly, GoesQuietly
  <2> QED BY <2>1, <2>2, <2>3, <2>4, <2>5
       DEF Buy, Register, RegisterFails, Refund, RefundFails, Mint, MintFails
<1> QED BY <1>1, <1>2, SameResolved DEF Quiet

LEMMA HookAckInv ==
  ASSUME TInv, AckInv, NEW s \in Sessions, Hook(s)
  PROVE  AckInv'
<1>1. CASE LookUp(s) \/ SettleFails(s)
  <2>1. Goto(s, "settle") \/ Goto(s, "credit")
    BY <1>1 DEF LookUp, SettleFails
  <2>2. UNCHANGED <<named, credited, acked>>
    BY <1>1 DEF LookUp, SettleFails, credit, btcpay
  <2> QED BY <2>1, <2>2, GoesQuietly, SameResolved, QuietKeeps DEF Quiet
<1>2. CASE LookUpFails(s) \/ CreditFails(s)
  <2>1. End(s) /\ UNCHANGED <<named, acked>>
    BY <1>2 DEF LookUpFails, CreditFails, ServerError
  <2>2. credited \subseteq credited'
    BY <1>2 DEF LookUpFails, CreditFails, Credited, credit
  <2> QED BY <2>1, <2>2, EndsQuietly, QuietKeeps DEF Quiet, Resolved
<1>3. CASE Settle(s) \/ Credit(s)
  <2>1. UNCHANGED acked /\ Goto(s, "ack")
    BY <1>3 DEF Settle, Credit, btcpay
  <2>2. Resolved \subseteq Resolved' /\ req[s].inv \in Resolved'
    BY <1>3 DEF Settle, Credit, Credited, FirstCredit, Resolved, credit, btcpay
  <2>3. ASSUME NEW t \in Sessions, At(t, "ack")' PROVE req'[t].inv \in Resolved'
    <3>1. CASE t = s
      BY <3>1, <2>1, <2>2 DEF Goto, TInv, RequestsOK, Request
    <3>2. CASE t # s
      BY <3>2, <2>1, <2>2, <2>3 DEF Goto, TInv, RequestsOK, AckInv, At
    <3> QED BY <3>1, <3>2
  <2> QED BY <2>1, <2>2, <2>3 DEF AckInv
<1>4. CASE Ack(s)
  <2>1. acked' = acked \cup {req[s].inv} /\ At(s, "ack") /\ UNCHANGED <<named, credited>> /\ End(s)
    BY <1>4 DEF Ack, credit
  <2>2. \A t \in Sessions : At(t, "ack")' => UNCHANGED req[t]
    BY <2>1, EndsQuietly
  <2> QED BY <2>1, <2>2 DEF AckInv, Resolved, At
<1> QED BY <1>1, <1>2, <1>3, <1>4 DEF Hook

LEMMA AckInit == Init => AckInv
<1> SUFFICES ASSUME Init PROVE AckInv
  OBVIOUS
<1>1. \A s \in Sessions : ~At(s, "ack")
  BY DEF Init, At, Idle
<1> QED BY <1>1 DEF Init, AckInv

LEMMA AckStep == TInv /\ AckInv /\ [Next]_vars => AckInv'
<1> SUFFICES ASSUME TInv, AckInv, [Next]_vars PROVE AckInv'
  OBVIOUS
<1>1. ASSUME NEW s \in Sessions, BeginPurchase(s) \/ Buy(s) PROVE AckInv'
  BY <1>1, BeginQuiet, BuyQuiet, QuietKeeps
<1>2. ASSUME NEW s \in Sessions, Hook(s) PROVE AckInv'
  BY <1>2, HookAckInv
<1>3. ASSUME NEW s \in Sessions, Crash(s) PROVE AckInv'
  <2>1. End(s) /\ UNCHANGED <<named, credited, acked>>
    BY <1>3 DEF Crash, credit, btcpay
  <2> QED BY <2>1, EndsQuietly, SameResolved, QuietKeeps DEF Quiet
<1>4. ASSUME NEW s \in Sessions, NEW i \in Invoices, Deliver(s, i) PROVE AckInv'
  <2>1. UNCHANGED <<named, credited, acked>>
    BY <1>4 DEF Deliver, credit, btcpay
  <2>2. ASSUME NEW t \in Sessions, At(t, "ack")' PROVE UNCHANGED req[t]
    BY <1>4, <2>2 DEF Deliver, TInv, RequestsOK, At, Idle
  <2> QED BY <2>1, <2>2, SameResolved, QuietKeeps DEF Quiet
<1>5. CASE UNCHANGED <<named, credited, acked, req>>
  BY <1>5, SameResolved, QuietKeeps DEF Quiet
<1>6. ASSUME NEW i \in Invoices, Pay(i) \/ Expire(i) PROVE AckInv'
  BY <1>6, <1>5 DEF Pay, Expire, credit
<1>7. ASSUME NEW p \in Pubkeys, Withdraw(p) \/ Grant(p) PROVE AckInv'
  BY <1>7, <1>5 DEF Withdraw, Grant, btcpay
<1>10. ASSUME NEW p \in Pubkeys, NEW i \in Invoices, GrantForInvoice(p, i) PROVE AckInv'
  <2>1. credited \subseteq credited' /\ UNCHANGED <<named, acked, req>>
    BY <1>10 DEF GrantForInvoice, btcpay
  <2> QED BY <2>1, QuietKeeps DEF Quiet, Resolved
<1>8. CASE RegistryMoves
  BY <1>8, <1>5 DEF RegistryMoves, credit, btcpay
<1>9. CASE UNCHANGED vars
  BY <1>9, <1>5 DEF vars, credit, btcpay
<1> QED BY <1>1, <1>2, <1>3, <1>4, <1>6, <1>7, <1>8, <1>9, <1>10 DEF Next

\* BTCPay stops delivering an invoice only once its payer has the name or the
\* credit, or an administrator wrote its credit row by hand, whatever failed and
\* however deliveries overlapped before (settleAddressInvoice acknowledges only after
\* one of the two committed).
THEOREM AckedIsResolved == Spec => []AckedMeansResolved
<1>1. AckInv => AckedMeansResolved
  BY DEF AckInv, AckedMeansResolved, Resolved
<1> QED BY <1>1, TypeInit, TypeStep, AckInit, AckStep, PTL DEF Spec
-----------------------------------------------------------------------------
(* The credit ledger.                                                       *)

\* What a request holds of p's credits.
HeldOf(q) == IF q.step \in {"register", "mint", "refund"} THEN q.applied ELSE 0
Share(q, p) == IF q.who = p THEN HeldOf(q) ELSE 0

Minteds(p) == Of(p, {"new", "settled", "expired"})

\* Where p's credits are, but for the discounts, and where they came from.
Wealth(p) == balance[p] + withdrawn[p] + spent[p] + HeldBy(p)
Income(p) == StartCredit[p] + granted[p] + Amounts(Repaid(p))

\* No pubkey has more than its income, and only one left short has less.
Balanced(p) ==
  /\ Wealth(p) + Discounts(p) <= Income(p)
  /\ p \notin short => Wealth(p) + Discounts(p) = Income(p)

\* The ledger's invariant; a delivery gives credit for paid invoices only.
LedgerInv ==
  /\ \A p \in Pubkeys : Balanced(p)
  /\ \A i \in credited \ byHand : invoice[i].status = "settled"

LEMMA Finite == IsFiniteSet(Sessions) /\ IsFiniteSet(Invoices)
BY PurchaseConstants

LEMMA SharesAreInts ==
  ASSUME TInv, NEW s \in Sessions, NEW p
  PROVE  Held(s) = HeldOf(req[s]) /\ HeldOf(req[s]) \in Nat /\ Share(req[s], p) \in Nat
<1>1. req[s] \in Request
  BY DEF TInv, RequestsOK
<1> QED BY <1>1 DEF Held, HeldOf, Share, Request

LEMMA InvoiceNumbers ==
  ASSUME TInv, NEW i \in Invoices
  PROVE  invoice[i].amount \in Nat /\ invoice[i].applied \in Nat
BY DEF TInv, InvoicesOK, Invoice

LEMMA SumsAreNats ==
  ASSUME TInv, NEW p
  PROVE  /\ HeldBy(p) \in Nat /\ Discounts(p) \in Nat
         /\ Amounts(Repaid(p)) \in Nat /\ Amounts(Of(p, {"settled"}) \ byHand) \in Nat
         /\ Amounts(Repaid(p)) <= Amounts(Of(p, {"settled"}) \ byHand)
<1> DEFINE held == [s \in Sessions |-> Held(s)]
           discount == [i \in Invoices |-> invoice[i].applied]
           amount == [i \in Invoices |-> invoice[i].amount]
           paid == Of(p, {"settled"}) \ byHand
<1>1. /\ \A s \in Sessions : held[s] \in Nat
      /\ \A i \in Invoices : discount[i] \in Nat /\ amount[i] \in Nat
  BY SharesAreInts, InvoiceNumbers
<1>2. /\ Serving(p) \subseteq Sessions /\ Minteds(p) \subseteq Invoices
      /\ paid \subseteq Invoices /\ Repaid(p) \subseteq paid
  BY DEF Serving, Minteds, Of, Repaid
<1>3. /\ IsFiniteSet(Serving(p)) /\ IsFiniteSet(Minteds(p))
      /\ IsFiniteSet(paid) /\ IsFiniteSet(Repaid(p))
  BY <1>2, Finite, FS_Subset
<1> HIDE DEF held, discount, amount, paid
<1>4. SumFunctionOnSet(held, Serving(p)) \in Nat /\ SumFunctionOnSet(discount, Minteds(p)) \in Nat
  BY <1>1, <1>2, <1>3, SumOfNats
<1>5. /\ SumFunctionOnSet(amount, Repaid(p)) \in Nat
      /\ SumFunctionOnSet(amount, paid) \in Nat
  BY <1>1, <1>2, <1>3, SumOfNats
<1>6. SumFunctionOnSet(amount, Repaid(p)) <= SumFunctionOnSet(amount, paid)
  BY <1>1, <1>2, <1>3, SumGrows
<1> QED BY <1>4, <1>5, <1>6 DEF held, discount, amount, paid, HeldBy, Discounts, Amounts, Minteds

LEMMA PartsAreInts ==
  ASSUME TInv, NEW p \in Pubkeys
  PROVE  /\ balance[p] \in Nat /\ withdrawn[p] \in Nat /\ spent[p] \in Nat
         /\ HeldBy(p) \in Nat /\ Wealth(p) \in Nat /\ Income(p) \in Nat
         /\ Discounts(p) \in Nat
<1>1. /\ balance[p] \in Nat /\ withdrawn[p] \in Nat /\ spent[p] \in Nat
      /\ granted[p] \in Nat /\ StartCredit[p] \in Nat
  BY PurchaseConstants DEF TInv, CreditOK
<1>2. HeldBy(p) \in Nat /\ Discounts(p) \in Nat /\ Amounts(Repaid(p)) \in Nat
  BY SumsAreNats
<1> QED BY <1>1, <1>2 DEF Wealth, Income

\* A step of session s changes what is held by its own share.
LEMMA HeldMoves ==
  ASSUME TInv, TInv', NEW s \in Sessions, NEW q, req' = [req EXCEPT ![s] = q], NEW p
  PROVE  HeldBy(p)' = HeldBy(p) + Share(q, p) - Share(req[s], p)
<1> DEFINE f == [t \in Sessions |-> Held(t)]
           g == [t \in Sessions |-> Held(t)']
           T == Serving(p)
           U == Serving(p)'
<1>1. \A t \in Sessions : f[t] = HeldOf(req[t]) /\ f[t] \in Int
  BY SharesAreInts
<1>2. \A t \in Sessions : g[t] = HeldOf(req[t])' /\ g[t] \in Int
  <2>1. \A t \in Sessions : req'[t] \in Request
    BY DEF TInv, RequestsOK
  <2> QED BY <2>1 DEF Held, HeldOf, Request
<1>3. req'[s] = q /\ \A t \in Sessions \ {s} : req'[t] = req[t]
  BY DEF TInv, RequestsOK
<1>4. T \in SUBSET Sessions /\ U \in SUBSET Sessions
  BY DEF Serving
<1>5. \A t \in Sessions \ {s} : (t \in T <=> t \in U) /\ (t \in T => f[t] = g[t])
  BY <1>1, <1>2, <1>3 DEF Serving, HeldOf
<1>6. Part(f, T, s) = Share(req[s], p) /\ Part(g, U, s) = Share(q, p)
  BY <1>1, <1>2, <1>3 DEF Part, Share, Serving, HeldOf
<1>7. HeldBy(p) = SumFunctionOnSet(f, T) /\ HeldBy(p)' = SumFunctionOnSet(g, U)
  BY DEF HeldBy
<1> HIDE DEF f, g, T, U
<1>8. SumFunctionOnSet(g, U) = SumFunctionOnSet(f, T) + Part(g, U, s) - Part(f, T, s)
  BY <1>1, <1>2, <1>4, <1>5, Finite, SumChanges
<1> QED BY <1>6, <1>7, <1>8

LEMMA SameHeld ==
  ASSUME TInv, UNCHANGED req, NEW p
  PROVE  HeldBy(p)' = HeldBy(p)
BY DEF HeldBy, Held, Serving

LEMMA SameSums ==
  ASSUME UNCHANGED <<invoice, credited, grants>>, NEW p
  PROVE  Discounts(p)' = Discounts(p) /\ Income(p)' = Income(p)
BY DEF Discounts, Income, Amounts, Repaid, Of, grants

\* A step that neither mints an invoice nor pays one back keeps the ledger
\* balanced if all it loses of p's wealth leaves p short.
LEMMA WealthMoves ==
  ASSUME TInv, LedgerInv, UNCHANGED <<invoice, credited, grants>>, short \subseteq short',
         ASSUME NEW p \in Pubkeys
         PROVE  \E loss \in Nat : Wealth(p)' = Wealth(p) - loss /\ (loss > 0 => p \in short')
  PROVE  LedgerInv'
<1>1. ASSUME NEW p \in Pubkeys
      PROVE  Balanced(p)'
  <2>1. Discounts(p)' = Discounts(p) /\ Income(p)' = Income(p)
    BY SameSums
  <2>2. PICK loss \in Nat : Wealth(p)' = Wealth(p) - loss /\ (loss > 0 => p \in short')
    OBVIOUS
  <2>3. Wealth(p) \in Nat /\ Discounts(p) \in Nat /\ Income(p) \in Nat
    BY PartsAreInts
  <2> QED BY <2>1, <2>2, <2>3 DEF LedgerInv, Balanced
<1>2. \A i \in credited' \ byHand' : invoice'[i].status = "settled"
  BY DEF LedgerInv, grants
<1> QED BY <1>1, <1>2 DEF LedgerInv

\* The wealth of p after a step of session s that adds b to its balance and x to
\* what bought names.
LEMMA WealthIs ==
  ASSUME TInv, TInv', NEW s \in Sessions, NEW q, req' = [req EXCEPT ![s] = q],
         NEW p \in Pubkeys, NEW b \in Int, NEW x \in Int,
         balance'[p] = balance[p] + b, spent'[p] = spent[p] + x, UNCHANGED withdrawn
  PROVE  /\ Share(q, p) \in Int /\ Share(req[s], p) \in Int
         /\ Wealth(p)' = Wealth(p) + b + x + Share(q, p) - Share(req[s], p)
<1>1. HeldBy(p)' = HeldBy(p) + Share(q, p) - Share(req[s], p)
  BY HeldMoves
<1>2. q = req'[s] /\ q \in Request
  BY DEF TInv, RequestsOK
<1>3. Share(q, p) \in Int
  BY <1>2 DEF Share, HeldOf, Request
<1>4. Share(req[s], p) \in Int
  BY SharesAreInts
<1> QED BY <1>1, <1>3, <1>4, PartsAreInts DEF Wealth

\* A step of session s that adds to what it holds what it takes from elsewhere.
LEMMA ShareMoves ==
  ASSUME TInv, TInv', LedgerInv, UNCHANGED <<invoice, credited, withdrawn, grants>>,
         short \subseteq short',
         NEW s \in Sessions, NEW q, req' = [req EXCEPT ![s] = q],
         ASSUME NEW p \in Pubkeys
         PROVE  \E b \in Int, x \in Int :
                  /\ balance'[p] = balance[p] + b /\ spent'[p] = spent[p] + x
                  /\ b + x + Share(q, p) <= Share(req[s], p)
                  /\ b + x + Share(q, p) = Share(req[s], p) \/ p \in short'
  PROVE  LedgerInv'
<1>1. ASSUME NEW p \in Pubkeys
      PROVE  \E loss \in Nat : Wealth(p)' = Wealth(p) - loss /\ (loss > 0 => p \in short')
  <2>1. PICK b \in Int, x \in Int :
          /\ balance'[p] = balance[p] + b /\ spent'[p] = spent[p] + x
          /\ b + x + Share(q, p) <= Share(req[s], p)
          /\ b + x + Share(q, p) = Share(req[s], p) \/ p \in short'
    OBVIOUS
  <2>2. /\ Share(q, p) \in Int /\ Share(req[s], p) \in Int
        /\ Wealth(p)' = Wealth(p) + b + x + Share(q, p) - Share(req[s], p)
    BY <2>1, WealthIs
  <2> DEFINE loss == Share(req[s], p) - (b + x + Share(q, p))
  <2>3. loss \in Nat /\ (loss > 0 => p \in short')
    BY <2>1, <2>2
  <2>4. Wealth(p)' = Wealth(p) - loss
    BY <2>2, PartsAreInts
  <2> HIDE DEF loss
  <2> QED BY <2>3, <2>4
<1> QED BY <1>1, WealthMoves

-----------------------------------------------------------------------------
(* Every step keeps the ledger balanced.                                    *)

\* A step that moves no credit and leaves session s holding what it held.
LEMMA NothingMoves ==
  ASSUME TInv, TInv', LedgerInv, UNCHANGED <<invoice, credit, short>>,
         NEW s \in Sessions, NEW q, req' = [req EXCEPT ![s] = q],
         \A p \in Pubkeys : Share(q, p) = Share(req[s], p)
  PROVE  LedgerInv'
<1>1. UNCHANGED <<balance, credited, withdrawn, spent, grants>>
  BY DEF credit
<1>2. ASSUME NEW p \in Pubkeys
      PROVE  \E b \in Int, x \in Int :
               /\ balance'[p] = balance[p] + b /\ spent'[p] = spent[p] + x
               /\ b + x + Share(q, p) <= Share(req[s], p)
               /\ b + x + Share(q, p) = Share(req[s], p) \/ p \in short'
  <2>1. balance'[p] = balance[p] + 0 /\ spent'[p] = spent[p] + 0
    BY <1>1, PartsAreInts
  <2>2. Share(req[s], p) \in Nat /\ Share(q, p) = Share(req[s], p)
    <3>1. Share(req[s], p) \in Nat
      BY SharesAreInts
    <3> QED BY <3>1
  <2>3. 0 + 0 + Share(q, p) = Share(req[s], p) /\ Share(q, p) <= Share(req[s], p)
    BY <2>2
  <2> QED BY <2>1, <2>3
<1> QED BY <1>1, <1>2, ShareMoves

LEMMA IdleHoldsNothing == ASSUME NEW p PROVE Share(Idle, p) = 0
BY DEF Share, HeldOf, Idle

\* Outside the three steps a request holds nothing.
LEMMA HoldsNothing ==
  ASSUME NEW q, q.step \notin {"register", "mint", "refund"}, NEW p
  PROVE  Share(q, p) = 0
BY DEF Share, HeldOf

LEMMA BeginBalanced ==
  ASSUME TInv, TInv', LedgerInv, NEW s \in Sessions, BeginPurchase(s)
  PROVE  LedgerInv'
<1>1. PICK n \in Names, p \in Pubkeys :
        req' = [req EXCEPT ![s] = [Idle EXCEPT !.step = "price", !.who = p, !.name = n]]
  BY DEF BeginPurchase
<1> DEFINE q == [Idle EXCEPT !.step = "price", !.who = p, !.name = n]
<1>2. q.step = "price" /\ req[s].step = "idle"
  BY DEF BeginPurchase, At, Idle
<1>3. UNCHANGED <<invoice, credit, short>> /\ req' = [req EXCEPT ![s] = q]
  BY <1>1 DEF BeginPurchase, btcpay
<1> HIDE DEF q
<1>4. \A r \in Pubkeys : Share(q, r) = Share(req[s], r)
  BY <1>2, HoldsNothing
<1> QED BY <1>3, <1>4, NothingMoves

LEMMA DeliverBalanced ==
  ASSUME TInv, TInv', LedgerInv, NEW s \in Sessions, NEW i \in Invoices, Deliver(s, i)
  PROVE  LedgerInv'
<1> DEFINE q == [Idle EXCEPT !.step = "lookup", !.inv = i]
<1>1. q.step = "lookup" /\ req[s].step = "idle"
  BY DEF Deliver, At, Idle
<1>2. UNCHANGED <<invoice, credit, short>> /\ req' = [req EXCEPT ![s] = q]
  BY DEF Deliver, btcpay
<1> HIDE DEF q
<1>3. \A r \in Pubkeys : Share(q, r) = Share(req[s], r)
  BY <1>1, HoldsNothing
<1> QED BY <1>2, <1>3, NothingMoves

LEMMA ReadPriceBalanced ==
  ASSUME TInv, TInv', LedgerInv, NEW s \in Sessions, ReadPrice(s)
  PROVE  LedgerInv'
<1> DEFINE q == [req[s] EXCEPT !.step = "credits",
                               !.price = PriceNameFor(req[s].name, req[s].who)]
<1>1. q.step = "credits" /\ req[s].step = "price"
  BY DEF ReadPrice, At, TInv, RequestsOK, GoodRequest, Request
<1>2. UNCHANGED <<invoice, credit, short>> /\ req' = [req EXCEPT ![s] = q]
  BY DEF ReadPrice, btcpay
<1> HIDE DEF q
<1>3. \A r \in Pubkeys : Share(q, r) = Share(req[s], r)
  BY <1>1, HoldsNothing
<1> QED BY <1>2, <1>3, NothingMoves

LEMMA ReadCreditsBalanced ==
  ASSUME TInv, TInv', LedgerInv, NEW s \in Sessions, ReadCredits(s)
  PROVE  LedgerInv'
<1>1. PICK applied \in CreditsApplied(req[s]) :
        req' = [req EXCEPT ![s].step = AfterCredits(req[s].price, applied),
                           ![s].applied = applied]
  BY DEF ReadCredits
<1>2. req[s] \in Request /\ req[s].step = "credits" /\ req[s].step \in BuySteps
  BY DEF ReadCredits, At, TInv, RequestsOK, BuySteps
<1>3. applied \in Nat
  BY <1>2, Buyer DEF CreditsApplied
<1> DEFINE q == [req[s] EXCEPT !.step = AfterCredits(req[s].price, applied),
                               !.applied = applied]
<1>4. q.step = AfterCredits(req[s].price, applied) /\ q.applied = applied
  BY <1>2 DEF Request
<1>5. UNCHANGED <<invoice, credit, short>> /\ req' = [req EXCEPT ![s] = q]
  BY <1>1 DEF ReadCredits, btcpay
<1> HIDE DEF q
<1>6. q.step \in {"deductFull", "deductPartial"} \/ q.applied = 0
  BY <1>3, <1>4 DEF AfterCredits
<1>7. \A r \in Pubkeys : Share(q, r) = 0 /\ Share(req[s], r) = 0
  BY <1>2, <1>6 DEF Share, HeldOf
<1> QED BY <1>5, <1>7, NothingMoves

\* What is deducted is held.
LEMMA DeductBalanced ==
  ASSUME TInv, TInv', LedgerInv, NEW s \in Sessions, Deduct(s)
  PROVE  LedgerInv'
<1>1. /\ req[s].step \in {"deductFull", "deductPartial"} /\ req[s].step \in BuySteps
      /\ UNCHANGED <<credited, withdrawn, spent, grants, invoice, short>>
      /\ balance' = [balance EXCEPT ![req[s].who] = @ - req[s].applied]
  BY DEF Deduct, Deducting, BuySteps, btcpay
<1> DEFINE q == [req[s] EXCEPT !.step = IF At(s, "deductFull") THEN "register" ELSE "mint"]
<1>2. /\ q.step \in {"register", "mint"} /\ q.who = req[s].who /\ q.applied = req[s].applied
      /\ req' = [req EXCEPT ![s] = q]
  BY DEF Deduct, Goto, TInv, RequestsOK, GoodRequest, Request
<1> HIDE DEF q
<1>3. ASSUME NEW p \in Pubkeys
      PROVE  \E b \in Int, x \in Int :
               /\ balance'[p] = balance[p] + b /\ spent'[p] = spent[p] + x
               /\ b + x + Share(q, p) <= Share(req[s], p)
               /\ b + x + Share(q, p) = Share(req[s], p) \/ p \in short'
  <2> DEFINE b == IF req[s].who = p THEN -req[s].applied ELSE 0
  <2>1. req[s].applied \in Nat /\ balance[p] \in Nat /\ spent[p] \in Nat
    BY <1>1, Buyer, PartsAreInts
  <2>2. Share(req[s], p) = 0 /\ Share(q, p) = -b /\ b \in Int
    BY <1>1, <1>2, <2>1 DEF Share, HeldOf
  <2>3. balance'[p] = balance[p] + b /\ spent'[p] = spent[p] + 0
    BY <1>1, <2>1 DEF TInv, CreditOK
  <2> HIDE DEF b
  <2>4. b + 0 + Share(q, p) = Share(req[s], p) /\ b + 0 + Share(q, p) <= Share(req[s], p)
    BY <2>2
  <2> QED BY <2>2, <2>3, <2>4
<1> QED BY <1>1, <1>2, <1>3, ShareMoves

\* The two ways on after a failed deduction hold nothing.
LEMMA AfterFailedDeduction ==
  ASSUME TInv, NEW s \in Sessions, req[s].step \in BuySteps, End(s) \/ FullPrice(s)
  PROVE  \E q : req' = [req EXCEPT ![s] = q] /\ \A p \in Pubkeys : Share(q, p) = 0
<1>1. CASE End(s)
  BY <1>1, IdleHoldsNothing DEF End
<1>2. CASE FullPrice(s)
  <2> DEFINE q == [req[s] EXCEPT !.step = "mint", !.applied = 0]
  <2>1. q.applied = 0 /\ req' = [req EXCEPT ![s] = q]
    BY <1>2, Buyer DEF FullPrice, Request
  <2> HIDE DEF q
  <2> QED BY <2>1 DEF Share, HeldOf
<1> QED BY <1>1, <1>2

\* A deduction that fails takes nothing, or leaves the buyer short.
LEMMA DeductFailsBalanced ==
  ASSUME TInv, TInv', LedgerInv, NEW s \in Sessions, DeductFails(s)
  PROVE  LedgerInv'
<1>1. /\ req[s].step \in {"deductFull", "deductPartial"} /\ req[s].step \in BuySteps
      /\ UNCHANGED <<credited, withdrawn, spent, grants, invoice>>
      /\ \/ UNCHANGED <<balance, short>>
         \/ /\ balance' = [balance EXCEPT ![req[s].who] = @ - req[s].applied]
            /\ short' = short \cup {req[s].who}
  BY DEF DeductFails, Deducting, BuySteps, btcpay
<1>2. PICK q : req' = [req EXCEPT ![s] = q] /\ \A p \in Pubkeys : Share(q, p) = 0
  BY <1>1, AfterFailedDeduction DEF DeductFails
<1>3. ASSUME NEW p \in Pubkeys
      PROVE  \E b \in Int, x \in Int :
               /\ balance'[p] = balance[p] + b /\ spent'[p] = spent[p] + x
               /\ b + x + Share(q, p) <= Share(req[s], p)
               /\ b + x + Share(q, p) = Share(req[s], p) \/ p \in short'
  <2>1. req[s].applied \in Nat /\ balance[p] \in Nat /\ spent[p] \in Nat
    BY <1>1, Buyer, PartsAreInts
  <2>2. Share(req[s], p) = 0 /\ Share(q, p) = 0
    BY <1>1, <1>2, HoldsNothing
  <2>3. CASE UNCHANGED <<balance, short>>
    <3>1. balance'[p] = balance[p] + 0 /\ spent'[p] = spent[p] + 0
      BY <1>1, <2>1, <2>3
    <3> QED BY <2>2, <3>1
  <2>4. CASE /\ balance' = [balance EXCEPT ![req[s].who] = @ - req[s].applied]
             /\ short' = short \cup {req[s].who}
    <3> DEFINE b == IF req[s].who = p THEN -req[s].applied ELSE 0
    <3>1. b \in Int /\ b <= 0 /\ (b = 0 \/ p \in short')
      BY <2>1, <2>4
    <3>2. balance'[p] = balance[p] + b /\ spent'[p] = spent[p] + 0
      BY <1>1, <2>1, <2>4 DEF TInv, CreditOK
    <3> HIDE DEF b
    <3> QED BY <2>2, <3>1, <3>2
  <2> QED BY <1>1, <2>3, <2>4
<1>4. short \subseteq short'
  BY <1>1
<1> QED BY <1>1, <1>2, <1>3, <1>4, ShareMoves

\* What bought the name is spent.
LEMMA RegisterBalanced ==
  ASSUME TInv, TInv', LedgerInv, NEW s \in Sessions, Register(s)
  PROVE  LedgerInv'
<1>1. /\ req[s].step = "register" /\ req[s].step \in BuySteps
      /\ UNCHANGED <<balance, credited, withdrawn, grants, invoice, short>>
      /\ spent' = [spent EXCEPT ![req[s].who] = @ + req[s].applied]
      /\ req' = [req EXCEPT ![s] = Idle]
  BY DEF Register, At, BuySteps, btcpay, End
<1>2. ASSUME NEW p \in Pubkeys
      PROVE  \E b \in Int, x \in Int :
               /\ balance'[p] = balance[p] + b /\ spent'[p] = spent[p] + x
               /\ b + x + Share(Idle, p) <= Share(req[s], p)
               /\ b + x + Share(Idle, p) = Share(req[s], p) \/ p \in short'
  <2> DEFINE x == IF req[s].who = p THEN req[s].applied ELSE 0
  <2>1. req[s].applied \in Nat /\ balance[p] \in Nat /\ spent[p] \in Nat
    BY <1>1, Buyer, PartsAreInts
  <2>2. Share(req[s], p) = x /\ Share(Idle, p) = 0 /\ x \in Int
    BY <1>1, <2>1, IdleHoldsNothing DEF Share, HeldOf
  <2>3. balance'[p] = balance[p] + 0 /\ spent'[p] = spent[p] + x
    BY <1>1, <2>1 DEF TInv, CreditOK
  <2> HIDE DEF x
  <2> QED BY <2>2, <2>3
<1> QED BY <1>1, <1>2, ShareMoves

\* Giving up keeps what is held for the refund.
LEMMA GiveUpHolds ==
  ASSUME TInv, NEW s \in Sessions, GiveUp(s), req[s].step \in BuySteps,
         req[s].step \in {"register", "mint"}
  PROVE  \E q : /\ req' = [req EXCEPT ![s] = q]
                /\ \A p \in Pubkeys : Share(q, p) = Share(req[s], p)
<1>1. req[s] \in Request /\ req[s].applied \in Nat
  BY Buyer
<1>2. CASE req[s].applied > 0
  <2> DEFINE q == [req[s] EXCEPT !.step = "refund"]
  <2>1. /\ q.step = "refund" /\ q.who = req[s].who /\ q.applied = req[s].applied
        /\ req' = [req EXCEPT ![s] = q]
    BY <1>1, <1>2 DEF GiveUp, Goto, Request
  <2> HIDE DEF q
  <2> QED BY <2>1 DEF Share, HeldOf
<1>3. CASE ~(req[s].applied > 0)
  <2>1. req[s].applied = 0 /\ req' = [req EXCEPT ![s] = Idle]
    BY <1>1, <1>3 DEF GiveUp, End
  <2>2. \A p \in Pubkeys : Share(Idle, p) = Share(req[s], p)
    BY <2>1, IdleHoldsNothing DEF Share, HeldOf
  <2> QED BY <2>1, <2>2
<1> QED BY <1>2, <1>3

LEMMA GiveUpBalanced ==
  ASSUME TInv, TInv', LedgerInv, NEW s \in Sessions, RegisterFails(s) \/ MintFails(s)
  PROVE  LedgerInv'
<1>1. /\ req[s].step \in {"register", "mint"} /\ req[s].step \in BuySteps /\ GiveUp(s)
      /\ UNCHANGED <<invoice, credit, short>>
  BY DEF RegisterFails, MintFails, At, BuySteps, btcpay
<1>2. PICK q : /\ req' = [req EXCEPT ![s] = q]
               /\ \A p \in Pubkeys : Share(q, p) = Share(req[s], p)
  BY <1>1, GiveUpHolds
<1> QED BY <1>1, <1>2, NothingMoves

LEMMA RefundBalanced ==
  ASSUME TInv, TInv', LedgerInv, NEW s \in Sessions, Refund(s)
  PROVE  LedgerInv'
<1>1. /\ req[s].step = "refund" /\ req[s].step \in BuySteps
      /\ UNCHANGED <<spent, credited, withdrawn, grants, invoice, short>>
      /\ balance' = [balance EXCEPT ![req[s].who] = @ + req[s].applied]
      /\ req' = [req EXCEPT ![s] = Idle]
  BY DEF Refund, At, BuySteps, btcpay, End
<1>2. ASSUME NEW p \in Pubkeys
      PROVE  \E b \in Int, x \in Int :
               /\ balance'[p] = balance[p] + b /\ spent'[p] = spent[p] + x
               /\ b + x + Share(Idle, p) <= Share(req[s], p)
               /\ b + x + Share(Idle, p) = Share(req[s], p) \/ p \in short'
  <2> DEFINE b == IF req[s].who = p THEN req[s].applied ELSE 0
  <2>1. req[s].applied \in Nat /\ balance[p] \in Nat /\ spent[p] \in Nat
    BY <1>1, Buyer, PartsAreInts
  <2>2. Share(req[s], p) = b /\ Share(Idle, p) = 0 /\ b \in Int
    BY <1>1, <2>1, IdleHoldsNothing DEF Share, HeldOf
  <2>3. balance'[p] = balance[p] + b /\ spent'[p] = spent[p] + 0
    BY <1>1, <2>1 DEF TInv, CreditOK
  <2> HIDE DEF b
  <2> QED BY <2>2, <2>3
<1> QED BY <1>1, <1>2, ShareMoves

\* A request that dies leaves its buyer short of what it held.
LEMMA DiesBalanced ==
  ASSUME TInv, TInv', LedgerInv, NEW s \in Sessions, RefundFails(s) \/ Crash(s)
  PROVE  LedgerInv'
<1>1. /\ UNCHANGED <<spent, balance, credited, withdrawn, grants, invoice>>
      /\ req' = [req EXCEPT ![s] = Idle] /\ short \subseteq short'
      /\ HeldOf(req[s]) > 0 => req[s].who \in short'
  BY DEF RefundFails, Crash, btcpay, credit, End, Held, HeldOf
<1>2. ASSUME NEW p \in Pubkeys
      PROVE  \E b \in Int, x \in Int :
               /\ balance'[p] = balance[p] + b /\ spent'[p] = spent[p] + x
               /\ b + x + Share(Idle, p) <= Share(req[s], p)
               /\ b + x + Share(Idle, p) = Share(req[s], p) \/ p \in short'
  <2>1. balance[p] \in Nat /\ spent[p] \in Nat
    BY PartsAreInts
  <2>2. Share(Idle, p) = 0 /\ Share(req[s], p) \in Nat
    BY SharesAreInts, IdleHoldsNothing
  <2>3. Share(req[s], p) = 0 \/ p \in short'
    <3>1. HeldOf(req[s]) \in Nat
      BY SharesAreInts
    <3> QED BY <1>1, <3>1 DEF Share
  <2>4. balance'[p] = balance[p] + 0 /\ spent'[p] = spent[p] + 0
    BY <1>1, <2>1
  <2> QED BY <2>2, <2>3, <2>4
<1> QED BY <1>1, <1>2, ShareMoves

\* What was paid back does not change with the invoices nothing was paid back for.
LEMMA SameIncome ==
  ASSUME TInv, UNCHANGED <<credited, grants>>, NEW p,
         \A i \in credited \ byHand : invoice'[i] = invoice[i]
  PROVE  Income(p)' = Income(p)
<1> DEFINE f == [i \in Invoices |-> invoice[i].amount]
           g == [i \in Invoices |-> invoice'[i].amount]
           A == Repaid(p)
           B == Repaid(p)'
<1>1. A \in SUBSET Invoices /\ B = A
  BY DEF Repaid, Of, grants
<1>2. \A i \in A : f[i] = g[i]
  BY <1>1 DEF Repaid
<1>3. Amounts(Repaid(p)) = SumFunctionOnSet(f, A) /\ Amounts(Repaid(p))' = SumFunctionOnSet(g, B)
  BY DEF Amounts
<1> HIDE DEF f, g, A, B
<1>4. SumFunctionOnSet(g, B) = SumFunctionOnSet(f, A)
  BY <1>1, <1>2, Finite, SumStays
<1> QED BY <1>3, <1>4 DEF Income, grants

\* An invoice is minted with the discount its request held.
LEMMA DiscountMoves ==
  ASSUME TInv, TInv', NEW s \in Sessions, Mint(s), NEW p \in Pubkeys
  PROVE  Discounts(p)' = Discounts(p) + Share(req[s], p)
<1>1. req[s].step = "mint" /\ req[s] \in Request /\ req[s].applied \in Nat
  BY Buyer DEF Mint, At, BuySteps
<1>2. PICK i \in Invoices :
        /\ invoice[i].status = "none"
        /\ invoice' = [invoice EXCEPT ![i] =
             [status |-> "new", buyer |-> req[s].who, name |-> req[s].name,
              price |-> req[s].price, amount |-> req[s].price - req[s].applied,
              applied |-> req[s].applied]]
  BY DEF Mint
<1> DEFINE f == [j \in Invoices |-> invoice[j].applied]
           g == [j \in Invoices |-> invoice'[j].applied]
           A == Minteds(p)
           B == Minteds(p)'
<1>3. /\ invoice'[i].status = "new" /\ invoice'[i].buyer = req[s].who
      /\ invoice'[i].applied = req[s].applied
      /\ \A j \in Invoices \ {i} : invoice'[j] = invoice[j]
  BY <1>2 DEF TInv, InvoicesOK
<1>4. A \in SUBSET Invoices /\ B \in SUBSET Invoices
  BY DEF Minteds, Of
<1>5. /\ \A j \in A : f[j] \in Int
      /\ \A j \in B : g[j] \in Int
  BY <1>1, <1>3, <1>4, InvoiceNumbers
<1>6. \A j \in Invoices \ {i} : (j \in A <=> j \in B) /\ (j \in A => f[j] = g[j])
  BY <1>3 DEF Minteds, Of
<1>7. Part(f, A, i) = 0 /\ Part(g, B, i) = Share(req[s], p)
  BY <1>1, <1>2, <1>3 DEF Part, Minteds, Of, Share, HeldOf
<1>8. Discounts(p) = SumFunctionOnSet(f, A) /\ Discounts(p)' = SumFunctionOnSet(g, B)
  BY DEF Discounts, Minteds
<1> HIDE DEF f, g, A, B
<1>9. SumFunctionOnSet(g, B) = SumFunctionOnSet(f, A) + Part(g, B, i) - Part(f, A, i)
  BY <1>4, <1>5, <1>6, Finite, SumChanges
<1>10. Share(req[s], p) \in Nat /\ Discounts(p) \in Nat
  BY SharesAreInts, PartsAreInts
<1> QED BY <1>7, <1>8, <1>9, <1>10

LEMMA MintBalanced ==
  ASSUME TInv, TInv', LedgerInv, NEW s \in Sessions, Mint(s)
  PROVE  LedgerInv'
<1>1. /\ UNCHANGED <<balance, credited, withdrawn, spent, grants, short>>
      /\ req' = [req EXCEPT ![s] = Idle]
  BY DEF Mint, End, credit
<1>2. \A i \in credited \ byHand : invoice'[i] = invoice[i]
  <2>1. PICK i \in Invoices :
          /\ invoice[i].status = "none"
          /\ \A j \in Invoices \ {i} : invoice'[j] = invoice[j]
    BY DEF Mint, TInv, InvoicesOK
  <2> QED BY <2>1 DEF LedgerInv, TInv, CreditOK
<1>3. ASSUME NEW p \in Pubkeys
      PROVE  Balanced(p)'
  <2>1. /\ Wealth(p) \in Nat /\ Discounts(p) \in Nat /\ Income(p) \in Nat
        /\ Share(req[s], p) \in Nat /\ Share(Idle, p) = 0
    BY PartsAreInts, SharesAreInts, IdleHoldsNothing
  <2>3. Wealth(p)' = Wealth(p) - Share(req[s], p)
    <3>1. HeldBy(p)' = HeldBy(p) + Share(Idle, p) - Share(req[s], p)
      BY <1>1, HeldMoves
    <3> QED BY <1>1, <2>1, <3>1, PartsAreInts DEF Wealth
  <2>4. Discounts(p)' = Discounts(p) + Share(req[s], p) /\ Income(p)' = Income(p)
    BY <1>1, <1>2, DiscountMoves, SameIncome
  <2>5. Wealth(p)' + Discounts(p)' = Wealth(p) + Discounts(p)
    BY <2>1, <2>3, <2>4
  <2> QED BY <1>1, <2>4, <2>5 DEF LedgerInv, Balanced
<1> QED BY <1>1, <1>2, <1>3 DEF LedgerInv, grants

\* BTCPay settles or expires an invoice that nothing was paid back for.
LEMMA PayExpireBalanced ==
  ASSUME TInv, LedgerInv, NEW i \in Invoices, Pay(i) \/ Expire(i)
  PROVE  LedgerInv'
<1>1. /\ UNCHANGED <<balance, credited, withdrawn, spent, grants, req, short>>
      /\ invoice[i].status = "new" /\ i \notin credited \ byHand
  BY DEF Pay, Expire, credit, LedgerInv
<1>2. /\ \A j \in Invoices \ {i} : invoice'[j] = invoice[j]
      /\ invoice'[i].status \in {"settled", "expired"}
      /\ invoice'[i].buyer = invoice[i].buyer /\ invoice'[i].applied = invoice[i].applied
  BY DEF Pay, Expire, TInv, InvoicesOK, Invoice
<1>3. \A j \in credited \ byHand : invoice'[j] = invoice[j]
  BY <1>1, <1>2 DEF TInv, CreditOK
<1>4. ASSUME NEW p \in Pubkeys
      PROVE  Balanced(p)'
  <2>1. Minteds(p)' = Minteds(p)
    BY <1>1, <1>2 DEF Minteds, Of
  <2>2. [j \in Invoices |-> invoice'[j].applied] = [j \in Invoices |-> invoice[j].applied]
    BY <1>2
  <2>3. Discounts(p)' = Discounts(p)
    BY <2>1, <2>2 DEF Discounts, Minteds
  <2>4. HeldBy(p)' = HeldBy(p) /\ Income(p)' = Income(p)
    BY <1>1, <1>3, SameHeld, SameIncome
  <2> QED BY <1>1, <2>3, <2>4 DEF LedgerInv, Balanced, Wealth
<1> QED BY <1>1, <1>3, <1>4 DEF LedgerInv, grants

\* A credit is income of the invoice's buyer.
LEMMA IncomeMoves ==
  ASSUME TInv, TInv', UNCHANGED <<invoice, grants>>, NEW i \in Invoices, i \notin credited,
         credited' = credited \cup {i}, invoice[i].status = "settled", NEW p \in Pubkeys
  PROVE  Income(p)' = Income(p) + (IF invoice[i].buyer = p THEN invoice[i].amount ELSE 0)
<1> DEFINE f == [j \in Invoices |-> invoice[j].amount]
           g == [j \in Invoices |-> invoice'[j].amount]
           A == Repaid(p)
           B == Repaid(p)'
<1>1. A \in SUBSET Invoices /\ B \in SUBSET Invoices
  BY DEF Repaid, Of
<1>2. /\ \A j \in A : f[j] \in Int
      /\ \A j \in B : g[j] \in Int
  BY <1>1, InvoiceNumbers
<1>3. \A j \in Invoices \ {i} : (j \in A <=> j \in B) /\ (j \in A => f[j] = g[j])
  BY DEF Repaid, Of, grants
<1>4. /\ Part(f, A, i) = 0
      /\ Part(g, B, i) = IF invoice[i].buyer = p THEN invoice[i].amount ELSE 0
  BY DEF Part, Repaid, Of, TInv, CreditOK, grants
<1>5. Amounts(Repaid(p)) = SumFunctionOnSet(f, A) /\ Amounts(Repaid(p))' = SumFunctionOnSet(g, B)
  BY DEF Amounts
<1>6. Part(g, B, i) \in Nat
  BY <1>4, InvoiceNumbers
<1> HIDE DEF f, g, A, B
<1>7. SumFunctionOnSet(g, B) = SumFunctionOnSet(f, A) + Part(g, B, i) - Part(f, A, i)
  BY <1>1, <1>2, <1>3, Finite, SumChanges
<1>8. Amounts(Repaid(p)) \in Nat /\ StartCredit[p] \in Nat /\ granted[p] \in Nat
  BY SumsAreNats, PurchaseConstants DEF TInv, CreditOK
<1>9. granted'[p] = granted[p]
  BY DEF grants
<1> QED BY <1>4, <1>5, <1>6, <1>7, <1>8, <1>9 DEF Income

\* A delivery moves credit by AddInvoiceCreditOnce alone, of an invoice that is paid.
LEMMA DeliveryBalanced ==
  ASSUME TInv, TInv', LedgerInv, UNCHANGED <<withdrawn, spent, grants, invoice, short>>,
         NEW s \in Sessions, NEW q, req' = [req EXCEPT ![s] = q],
         \A p \in Pubkeys : Share(q, p) = 0 /\ Share(req[s], p) = 0,
         NEW i \in Invoices, invoice[i].status = "settled",
         UNCHANGED <<credited, balance>> \/ Credited(i)
  PROVE  LedgerInv'
<1>1. CASE UNCHANGED <<credited, balance>>
  <2>1. UNCHANGED credit
    BY <1>1 DEF credit
  <2> QED BY <2>1, NothingMoves
<1>2. CASE i \notin credited /\ Credited(i)
  <2>1. /\ credited' = credited \cup {i}
        /\ balance' = [balance EXCEPT ![invoice[i].buyer] = @ + invoice[i].amount]
    BY <1>2 DEF Credited, FirstCredit
  <2>2. ASSUME NEW p \in Pubkeys
        PROVE  Balanced(p)'
    <3> DEFINE gain == IF invoice[i].buyer = p THEN invoice[i].amount ELSE 0
    <3>1. gain \in Nat /\ balance'[p] = balance[p] + gain
      BY <2>1, InvoiceNumbers DEF TInv, CreditOK
    <3>2. Income(p)' = Income(p) + gain
      BY <1>2, <2>1, IncomeMoves
    <3> HIDE DEF gain
    <3>3. HeldBy(p)' = HeldBy(p)
      <4>1. HeldBy(p)' = HeldBy(p) + Share(q, p) - Share(req[s], p)
        BY HeldMoves
      <4> QED BY <4>1, PartsAreInts
    <3>4. Wealth(p)' = Wealth(p) + gain
      BY <3>1, <3>3, PartsAreInts DEF Wealth
    <3>5. Discounts(p)' = Discounts(p)
      BY DEF Discounts, Of
    <3> QED BY <3>1, <3>2, <3>4, <3>5, PartsAreInts DEF LedgerInv, Balanced
  <2> QED BY <2>1, <2>2 DEF LedgerInv, grants
<1>3. CASE i \in credited /\ Credited(i)
  BY <1>1, <1>3 DEF Credited, FirstCredit
<1> QED BY <1>1, <1>2, <1>3

\* The steps of a delivery.
LEMMA HookBalanced ==
  ASSUME TInv, TInv', LedgerInv, NEW s \in Sessions, Hook(s)
  PROVE  LedgerInv'
<1>1. /\ req[s].step \in HookSteps /\ UNCHANGED <<withdrawn, spent, grants, invoice, short>>
      /\ UNCHANGED <<credited, balance>> \/ Credited(req[s].inv)
  BY DEF Hook, LookUp, LookUpFails, Settle, SettleFails, Credit, CreditFails, Ack, At,
         HookSteps, credit, btcpay
<1>2. End(s) \/ Goto(s, "settle") \/ Goto(s, "ack") \/ Goto(s, "credit")
  BY DEF Hook, LookUp, LookUpFails, Settle, SettleFails, Credit, CreditFails, Ack, ServerError
<1>3. PICK q : req' = [req EXCEPT ![s] = q] /\ \A p \in Pubkeys : Share(q, p) = 0
  <2>1. CASE End(s)
    BY <2>1, IdleHoldsNothing DEF End
  <2>2. ASSUME NEW step \in {"settle", "ack", "credit"}, Goto(s, step)
        PROVE  \E q : req' = [req EXCEPT ![s] = q] /\ \A p \in Pubkeys : Share(q, p) = 0
    <3> DEFINE q == [req[s] EXCEPT !.step = step]
    <3>1. q.step = step /\ req' = [req EXCEPT ![s] = q]
      BY <2>2 DEF Goto, TInv, RequestsOK, GoodRequest, Request
    <3> HIDE DEF q
    <3> QED BY <3>1, HoldsNothing
  <2> QED BY <1>2, <2>1, <2>2
<1>4. req[s].inv \in Invoices /\ invoice[req[s].inv].status = "settled"
  BY <1>1 DEF TInv, RequestsOK, GoodRequest, Delivered
<1>5. \A p \in Pubkeys : Share(req[s], p) = 0
  BY <1>1, HoldsNothing DEF HookSteps
<1> QED BY <1>1, <1>3, <1>4, <1>5, DeliveryBalanced

LEMMA WithdrawBalanced ==
  ASSUME TInv, LedgerInv, NEW r \in Pubkeys, Withdraw(r)
  PROVE  LedgerInv'
<1>1. UNCHANGED <<invoice, credited, spent, grants, req, short>>
  BY DEF Withdraw, btcpay
<1>2. PICK amount \in MinWithdrawal .. balance[r] :
        /\ balance' = [balance EXCEPT ![r] = @ - amount]
        /\ withdrawn' = [withdrawn EXCEPT ![r] = @ + amount]
  BY DEF Withdraw
<1>3. amount \in Int
  BY <1>2, PartsAreInts, PurchaseConstants
<1>4. ASSUME NEW p \in Pubkeys
      PROVE  \E loss \in Nat : Wealth(p)' = Wealth(p) - loss /\ (loss > 0 => p \in short')
  <2> DEFINE taken == IF p = r THEN amount ELSE 0
  <2>1. /\ balance'[p] = balance[p] - taken /\ withdrawn'[p] = withdrawn[p] + taken
        /\ taken \in Int
    BY <1>2, <1>3, PartsAreInts DEF TInv, CreditOK
  <2> HIDE DEF taken
  <2>2. HeldBy(p)' = HeldBy(p)
    BY <1>1, SameHeld
  <2>3. Wealth(p)' = Wealth(p) - 0
    BY <1>1, <2>1, <2>2, PartsAreInts DEF Wealth
  <2> QED BY <2>3
<1>5. short \subseteq short'
  BY <1>1
<1> QED BY <1>1, <1>4, <1>5, WealthMoves

\* A grant is income of who gets it, and what is granted under the id of an invoice
\* is no repayment of it.
LEMMA GrantBalanced ==
  ASSUME TInv, LedgerInv, NEW r \in Pubkeys, Grant(r) \/ \E i \in Invoices : GrantForInvoice(r, i)
  PROVE  LedgerInv'
<1>1. /\ UNCHANGED <<invoice, withdrawn, spent, req, short>> /\ AddGrant(r)
      /\ credited' \ byHand' = credited \ byHand
  BY DEF Grant, GrantForInvoice, FirstCredit, btcpay
<1>2. PICK amount \in Nat : /\ balance' = [balance EXCEPT ![r] = @ + amount]
                            /\ granted' = [granted EXCEPT ![r] = @ + amount]
  BY <1>1, GrantIs
<1>3. ASSUME NEW p \in Pubkeys
      PROVE  Balanced(p)'
  <2> DEFINE gain == IF p = r THEN amount ELSE 0
  <2>0. /\ gain \in Nat /\ balance[p] \in Nat
        /\ granted[p] \in Nat /\ StartCredit[p] \in Nat
    BY <1>2, PurchaseConstants DEF TInv, CreditOK
  <2>1. balance'[p] = balance[p] + gain /\ granted'[p] = granted[p] + gain
    BY <1>2, <2>0 DEF TInv, CreditOK
  <2> HIDE DEF gain
  <2>2. HeldBy(p)' = HeldBy(p) /\ Discounts(p)' = Discounts(p)
    BY <1>1, SameHeld DEF Discounts, Of
  <2>3. Amounts(Repaid(p))' = Amounts(Repaid(p)) /\ Amounts(Repaid(p)) \in Nat
    BY <1>1, SumsAreNats DEF Amounts, Repaid, Of
  <2>4. Wealth(p)' = Wealth(p) + gain
    BY <1>1, <2>0, <2>1, <2>2, PartsAreInts DEF Wealth
  <2>5. Income(p)' = Income(p) + gain
    BY <2>0, <2>1, <2>3 DEF Income
  <2> QED BY <1>1, <2>0, <2>2, <2>4, <2>5, PartsAreInts DEF LedgerInv, Balanced
<1> QED BY <1>1, <1>3 DEF LedgerInv

\* The registry's moves, and stuttering.
LEMMA ElsewhereBalanced ==
  ASSUME LedgerInv, UNCHANGED <<credit, btcpay, req, short>>
  PROVE  LedgerInv'
BY DEF credit, grants, btcpay, LedgerInv, Balanced, Wealth, Income, HeldBy, Held, Discounts, Amounts,
       Serving, Repaid, Of

LEMMA LedgerInit == Init => LedgerInv
<1> SUFFICES ASSUME Init, NEW p \in Pubkeys
             PROVE  Balanced(p)
  BY DEF Init, LedgerInv
<1>1. /\ Serving(p) = {} /\ Repaid(p) = {}
      /\ Of(p, {"new", "settled", "expired"}) = {}
  BY PurchaseConstants DEF Init, Serving, Repaid, Of, Idle, Unminted
<1>2. HeldBy(p) = 0 /\ Discounts(p) = 0 /\ Amounts(Repaid(p)) = 0
  BY <1>1, SumOfNone DEF HeldBy, Discounts, Amounts
<1>3. /\ balance[p] = StartCredit[p] /\ StartCredit[p] \in Nat
      /\ withdrawn[p] = 0 /\ spent[p] = 0 /\ granted[p] = 0
  BY PurchaseConstants DEF Init
<1> QED BY <1>2, <1>3 DEF Balanced, Wealth, Income

LEMMA BuyBalanced ==
  ASSUME TInv, TInv', LedgerInv, NEW s \in Sessions, Buy(s)
  PROVE  LedgerInv'
BY ReadPriceBalanced, ReadCreditsBalanced, DeductBalanced, DeductFailsBalanced,
   RegisterBalanced, GiveUpBalanced, RefundBalanced, DiesBalanced, MintBalanced DEF Buy

LEMMA LedgerStep == TInv /\ LedgerInv /\ [Next]_vars => LedgerInv'
<1> SUFFICES ASSUME TInv, LedgerInv, [Next]_vars PROVE LedgerInv'
  OBVIOUS
<1>1. TInv'
  BY TypeStep
<1>2. ASSUME NEW s \in Sessions, BeginPurchase(s) \/ Buy(s) \/ Hook(s) \/ Crash(s)
      PROVE  LedgerInv'
  BY <1>1, <1>2, BeginBalanced, BuyBalanced, HookBalanced, DiesBalanced
<1>3. ASSUME NEW s \in Sessions, NEW i \in Invoices, Deliver(s, i)
      PROVE  LedgerInv'
  BY <1>1, <1>3, DeliverBalanced
<1>4. ASSUME NEW i \in Invoices, Pay(i) \/ Expire(i)
      PROVE  LedgerInv'
  BY <1>4, PayExpireBalanced
<1>5. ASSUME NEW p \in Pubkeys,
             Withdraw(p) \/ Grant(p) \/ \E i \in Invoices : GrantForInvoice(p, i)
      PROVE  LedgerInv'
  BY <1>5, WithdrawBalanced, GrantBalanced
<1>6. CASE RegistryMoves \/ UNCHANGED vars
  BY <1>6, ElsewhereBalanced DEF RegistryMoves, vars
<1> QED BY <1>2, <1>3, <1>4, <1>5, <1>6 DEF Next

\* Credits are conserved: for a pubkey that no crash or failed call left short, what
\* it had, was granted and was credited is its balance, what it withdrew, what bought
\* names, what its requests in flight hold and what its invoices were discounted by,
\* through every interleaving of DeductCredits, the refund, the grants of AddCredits
\* and AddInvoiceCreditOnce.
THEOREM CreditLedgerBalances == Spec => []CreditsConserved
<1>1. TInv /\ LedgerInv => CreditsConserved
  BY PartsAreInts DEF LedgerInv, Balanced, Wealth, Income, CreditsConserved, Repaid
<1> QED BY <1>1, TypeInit, TypeStep, LedgerInit, LedgerStep, PTL DEF Spec

\* Nobody ever has and withdrew more credit than it started with, was granted and
\* paid for in settled invoices, whatever fails between two steps and however often
\* a settlement is delivered; an invoice whose credit row an administrator wrote by
\* hand is not paid back by a delivery as well.
THEOREM PayoutsAreCovered == Spec => []NeverPaysOutMore
<1>1. ASSUME TInv, LedgerInv, NEW p \in Pubkeys
      PROVE  balance[p] + withdrawn[p]
             <= StartCredit[p] + granted[p] + Amounts(Of(p, {"settled"}) \ byHand)
  <2>1. Wealth(p) + Discounts(p) <= Income(p)
    BY <1>1 DEF LedgerInv, Balanced
  <2>2. StartCredit[p] \in Nat /\ granted[p] \in Nat
    BY <1>1, PurchaseConstants DEF TInv, CreditOK
  <2> QED BY <1>1, <2>1, <2>2, PartsAreInts, SumsAreNats DEF Wealth, Income
<1>2. TInv /\ LedgerInv => NeverPaysOutMore
  BY <1>1 DEF NeverPaysOutMore
<1> QED BY <1>2, TypeInit, TypeStep, LedgerInit, LedgerStep, PTL DEF Spec

-----------------------------------------------------------------------------
(* The registry inside a purchase.                                          *)

LEMMA NameBookStep == TInv /\ [Next]_vars => [Registry!Next]_(Registry!bvars)
<1> SUFFICES ASSUME TInv, [Next]_vars
             PROVE  Registry!Next \/ UNCHANGED registry
  BY DEF registry, Registry!bvars
<1>1. ASSUME NEW n \in Names, NEW p \in Pubkeys, Registry!Issue(n, p)
      PROVE  Registry!Next
  BY <1>1 DEF Registry!Next
<1>2. ASSUME NEW n \in Names, NEW p \in Pubkeys, RegistrationRefused(n, p)
      PROVE  Registry!Next \/ UNCHANGED registry
  BY <1>1, <1>2 DEF RegistrationRefused
<1>3. ASSUME NEW s \in Sessions, Register(s) \/ RegisterFails(s)
      PROVE  Registry!Next \/ UNCHANGED registry
  <2>1. req[s].name \in Names /\ req[s].who \in Pubkeys
    BY <1>3, Buyer DEF Register, RegisterFails, At, BuySteps
  <2> QED BY <1>1, <1>2, <1>3, <2>1 DEF Register, RegisterFails
<1>4. ASSUME NEW s \in Sessions, Settle(s) \/ SettleFails(s)
      PROVE  Registry!Next \/ UNCHANGED registry
  <2>1. invoice[req[s].inv].name \in Names /\ invoice[req[s].inv].buyer \in Pubkeys
    BY <1>4, Paid DEF Settle, SettleFails, At, HookSteps
  <2> QED BY <1>1, <1>2, <1>4, <2>1 DEF Settle, SettleFails
<1>5. ASSUME NEW s \in Sessions, BeginPurchase(s) \/ Buy(s) \/ Hook(s) \/ Crash(s)
      PROVE  Registry!Next \/ UNCHANGED registry
  BY <1>3, <1>4, <1>5 DEF BeginPurchase, Buy, Hook, Crash, ReadPrice, ReadCredits, Deduct,
       DeductFails, Refund, RefundFails, Mint, MintFails, LookUp, LookUpFails, Credit,
       CreditFails, Ack
<1>6. CASE UNCHANGED vars
  BY <1>6 DEF vars
<1> QED BY <1>5, <1>6 DEF Next, Deliver, Pay, Expire, Withdraw, Grant, GrantForInvoice,
       RegistryMoves

\* Nothing that happens between a purchase, its payment, its deliveries and their
\* failures makes the registry do what it does not do by itself: a name is issued
\* once, to the pubkey that asked or paid for it, and a payment that comes after a
\* transfer or a revocation gives nobody the name a second time.
THEOREM PurchaseKeepsNameBook == Spec => Registry!Spec
<1>1. Init => Registry!Init
  BY DEF Init
<1> QED BY <1>1, TypeInit, TypeStep, NameBookStep, PTL DEF Spec, Registry!Spec
=============================================================================
