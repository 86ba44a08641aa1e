------------------------------- MODULE Purchase -------------------------------
(***************************************************************************)
(* Buying a name: createPurchaseInvoice, the BTCPay webhook that settles    *)
(* the invoice, and the credit ledger both of them move sats in.            *)
(*                                                                          *)
(* A request is a chain of transactions, each an action: what it read in    *)
(* one is kept in the session and used in a later one.  The registry is its *)
(* abstract specification, NameBook, which AddressRegistry implements;      *)
(* grants, transfers, revocations and other claims are NameBook steps of    *)
(* the environment.  BTCPay delivers the settlement of an invoice until it  *)
(* gets a 2xx, again after a timeout while the first delivery still runs.   *)
(*                                                                          *)
(* Services and administrators grant credits beside all this, at any time.  *)
(*                                                                          *)
(* Amounts are counted in units of sats; credit_history is what is left of  *)
(* it when every reason but the invoice credits is summed.  Product         *)
(* invoices, the BOLT11 lookup, the lightning settings a purchase may bring *)
(* along and changes of the prices are left out.                            *)
(***************************************************************************)
EXTENDS Integers, FiniteSetsExt

CONSTANTS
  Pubkeys,         \* buyers
  Names,           \* names on sale
  Nobody,          \* no pubkey
  NoName,          \* no name
  NoInvoice,       \* no invoice
  Sessions,        \* the requests the service can have in flight at once
  Invoices,        \* the invoices BTCPay can mint
  BasePrice,       \* the price of each name by its length
  AdditionalPrice, \* the price of a free-tier name after the first
  StartCredit,     \* the credit each pubkey has from earlier race losses
  MinWithdrawal,   \* the least a withdrawal takes
  MaxPurchases,    \* bound on the purchase requests of a behaviour
  MaxFaults,       \* bound on crashes and failed calls
  MaxGranted       \* bound on the credits granted in all

ASSUME PurchaseConstants ==
  /\ Nobody \notin Pubkeys
  /\ NoName \notin Names
  /\ NoInvoice \notin Invoices
  /\ BasePrice \in [Names -> Nat]
  /\ AdditionalPrice \in Nat \ {0}
  /\ StartCredit \in [Pubkeys -> Nat]
  /\ MinWithdrawal \in Nat \ {0}
  /\ MaxPurchases \in Nat
  /\ MaxFaults \in Nat
  /\ MaxGranted \in Nat
  /\ IsFiniteSet(Pubkeys) /\ IsFiniteSet(Sessions) /\ IsFiniteSet(Invoices)

VARIABLES
  issued,    \* NameBook: the names ever issued
  holder,    \* NameBook: the pubkey each name answers for
  balance,   \* pubkey_credits.balance_sats
  credited,  \* credit_history: the invoices with a race_loss or registration_error row
  withdrawn, \* credit_withdrawals: what each pubkey took out
  spent,     \* history: credits that bought a name outright
  granted,   \* history: the credits each pubkey was granted
  byHand,    \* history: the invoices whose credit row is an administrator's grant
  invoice,   \* BTCPay's invoices
  acked,     \* the invoices whose settlement BTCPay got a 2xx for
  named,     \* history: the invoices whose settlement registered the name
  req,       \* the request each session is serving
  begun,     \* how many purchase requests began
  faults,    \* how many faults happened
  short      \* history: the pubkeys a crash or a failed call left short

registry == <<issued, holder>>
grants == <<granted, byHand>>
credit == <<balance, credited, withdrawn, spent, grants>>
btcpay == <<invoice, acked, named>>
vars == <<registry, credit, btcpay, req, begun, faults, short>>

Registry == INSTANCE NameBook

-----------------------------------------------------------------------------
(* Shapes.                                                                  *)

\* Where a request is: the steps of createPurchaseInvoice, then those of a
\* webhook delivery.
BuySteps == {"price", "credits", "deductFull", "deductPartial", "register",
             "mint", "refund"}
HookSteps == {"lookup", "settle", "credit", "ack"}

\* One request: the buyer, the name, the price and the creditsApplied of
\* createPurchaseInvoice; the invoice of a webhook delivery.
Request == [step : {"idle"} \cup BuySteps \cup HookSteps,
            who : Pubkeys \cup {Nobody}, name : Names \cup {NoName},
            price : Nat, applied : Nat, inv : Invoices \cup {NoInvoice}]

Idle == [step |-> "idle", who |-> Nobody, name |-> NoName, price |-> 0,
         applied |-> 0, inv |-> NoInvoice]

\* An invoice with its metadata: pubkey, username, original_price, credits_applied.
Invoice == [status : {"none", "new", "settled", "expired"},
            buyer : Pubkeys \cup {Nobody}, name : Names \cup {NoName},
            price : Nat, amount : Nat, applied : Nat]

Unminted == [status |-> "none", buyer |-> Nobody, name |-> NoName, price |-> 0,
             amount |-> 0, applied |-> 0]

Init ==
  /\ Registry!Init
  /\ balance = StartCredit
  /\ credited = {}
  /\ withdrawn = [p \in Pubkeys |-> 0]
  /\ spent = [p \in Pubkeys |-> 0]
  /\ granted = [p \in Pubkeys |-> 0]
  /\ byHand = {}
  /\ invoice = [i \in Invoices |-> Unminted]
  /\ acked = {}
  /\ named = {}
  /\ req = [s \in Sessions |-> Idle]
  /\ begun = 0
  /\ faults = 0
  /\ short = {}

At(s, step) == req[s].step = step
Goto(s, step) == req' = [req EXCEPT ![s].step = step]
End(s) == req' = [req EXCEPT ![s] = Idle]

\* Something goes wrong that the code does not decide: a connection, the
\* database, BTCPay or the process fails.
Fault == faults < MaxFaults /\ faults' = faults + 1
NoFault == UNCHANGED faults

-----------------------------------------------------------------------------
(* createPurchaseInvoice.                                                   *)

\* The names CountRealAddresses counts.
Claimed(p) == {n \in Names : holder[n] = p}

\* priceNameFor: the free tier is free for a pubkey's first claimed name.
PriceNameFor(n, p) ==
  IF BasePrice[n] = 0 /\ Claimed(p) # {} THEN AdditionalPrice ELSE BasePrice[n]

\* A request whose name is_username_available accepts.
BeginPurchase(s) ==
  /\ At(s, "idle")
  /\ begun < MaxPurchases
  /\ begun' = begun + 1
  /\ \E n \in Names, p \in Pubkeys :
       /\ holder[n] = Nobody
       /\ req' = [req EXCEPT ![s] = [Idle EXCEPT !.step = "price", !.who = p, !.name = n]]
  /\ UNCHANGED <<registry, credit, btcpay, faults, short>>

ReadPrice(s) ==
  /\ At(s, "price")
  /\ req' = [req EXCEPT ![s].step = "credits",
                        ![s].price = PriceNameFor(req[s].name, req[s].who)]
  /\ UNCHANGED <<registry, credit, btcpay, begun, faults, short>>

\* creditsApplied: nothing unless UseCredits is set and the balance can be read.
CreditsApplied(q) ==
  {0, IF balance[q.who] >= q.price THEN q.price ELSE balance[q.who]}

\* finalPrice and the branch it selects.
AfterCredits(price, applied) ==
  IF applied = price THEN (IF applied > 0 THEN "deductFull" ELSE "register")
                     ELSE (IF applied > 0 THEN "deductPartial" ELSE "mint")

ReadCredits(s) ==
  /\ At(s, "credits")
  /\ \E applied \in CreditsApplied(req[s]) :
       req' = [req EXCEPT ![s].step = AfterCredits(req[s].price, applied),
                          ![s].applied = applied]
  /\ UNCHANGED <<registry, credit, btcpay, begun, faults, short>>

\* Mutant: the UPDATE does not look at the balance.
AlwaysCovered(q) == TRUE

\* DeductCredits: UPDATE ... WHERE balance_sats >= amount.
Covered(q) == balance[q.who] >= q.applied

Deducting(s) == req[s].step \in {"deductFull", "deductPartial"}

Deduct(s) ==
  /\ Deducting(s)
  /\ Covered(req[s])
  /\ balance' = [balance EXCEPT ![req[s].who] = @ - req[s].applied]
  /\ Goto(s, IF At(s, "deductFull") THEN "register" ELSE "mint")
  /\ UNCHANGED <<registry, credited, withdrawn, spent, grants, btcpay, begun, faults, short>>

\* Mutant: the invoice is still discounted.
StillDiscounted(s) == Goto(s, "mint")

\* A partial deduction that fails is not fatal: the invoice is for the full price.
FullPrice(s) == req' = [req EXCEPT ![s].step = "mint", ![s].applied = 0]

\* DeductCredits returns an error: too little left, or the call failed, after
\* COMMIT took effect or before.
DeductFails(s) ==
  /\ Deducting(s)
  /\ \/ ~Covered(req[s]) /\ NoFault /\ UNCHANGED <<balance, short>>
     \/ Fault /\ UNCHANGED <<balance, short>>
     \/ /\ Covered(req[s]) /\ Fault
        /\ balance' = [balance EXCEPT ![req[s].who] = @ - req[s].applied]
        /\ short' = short \cup {req[s].who}
  /\ IF At(s, "deductFull") THEN End(s) ELSE FullPrice(s)
  /\ UNCHANGED <<registry, credited, withdrawn, spent, grants, btcpay, begun>>

\* The purchase failed: what was deducted goes back.
GiveUp(s) == IF req[s].applied > 0 THEN Goto(s, "refund") ELSE End(s)

\* AtomicRegisterAddress issues the name.
Register(s) ==
  /\ At(s, "register")
  /\ Registry!Issue(req[s].name, req[s].who)
  /\ spent' = [spent EXCEPT ![req[s].who] = @ + req[s].applied]
  /\ End(s)
  /\ UNCHANGED <<balance, credited, withdrawn, grants, btcpay, begun, faults, short>>

\* It returns none: nil for a name that is taken or reserved; an error for a
\* name once revoked, a failed call or an insert that breaks an index on the
\* pubkey's flags, which NameBook does not show.  Or COMMIT took effect and its
\* answer was lost.
RegistrationRefused(n, p) ==
  \/ UNCHANGED <<registry, faults>>
  \/ Registry!Issue(n, p) /\ Fault

RegisterFails(s) ==
  /\ At(s, "register")
  /\ RegistrationRefused(req[s].name, req[s].who)
  /\ GiveUp(s)
  /\ UNCHANGED <<credit, btcpay, begun, short>>

\* refund: AddCredits, whose error is logged and nothing more.
Refund(s) ==
  /\ At(s, "refund")
  /\ balance' = [balance EXCEPT ![req[s].who] = @ + req[s].applied]
  /\ End(s)
  /\ UNCHANGED <<registry, credited, withdrawn, spent, grants, btcpay, begun, faults, short>>

RefundFails(s) ==
  /\ At(s, "refund")
  /\ Fault
  /\ short' = short \cup {req[s].who}
  /\ End(s)
  /\ UNCHANGED <<registry, credit, btcpay, begun>>

\* CreateInvoice, with the metadata the webhook will read.
Mint(s) ==
  LET q == req[s]
  IN  /\ At(s, "mint")
      /\ \E i \in Invoices :
           /\ invoice[i].status = "none"
           /\ invoice' = [invoice EXCEPT ![i] =
                [status |-> "new", buyer |-> q.who, name |-> q.name, price |-> q.price,
                 amount |-> q.price - q.applied, applied |-> q.applied]]
      /\ End(s)
      /\ UNCHANGED <<registry, credit, acked, named, begun, faults, short>>

\* BTCPay is not configured, or CreateInvoice failed.  An invoice BTCPay minted
\* all the same is one nobody will be shown.
MintFails(s) ==
  /\ At(s, "mint")
  /\ GiveUp(s)
  /\ UNCHANGED <<registry, credit, btcpay, begun, faults, short>>

-----------------------------------------------------------------------------
(* BTCPay, and the webhook it calls for an address invoice.                  *)

Pay(i) ==
  /\ invoice[i].status = "new"
  /\ invoice' = [invoice EXCEPT ![i].status = "settled"]
  /\ UNCHANGED <<registry, credit, acked, named, req, begun, faults, short>>

Expire(i) ==
  /\ invoice[i].status = "new"
  /\ invoice' = [invoice EXCEPT ![i].status = "expired"]
  /\ UNCHANGED <<registry, credit, acked, named, req, begun, faults, short>>

\* InvoiceSettled is delivered, for the first time or again: no earlier
\* delivery was answered with a 2xx, though one may still be handled.
Deliver(s, i) ==
  /\ At(s, "idle")
  /\ invoice[i].status = "settled" /\ i \notin acked
  /\ req' = [req EXCEPT ![s] = [Idle EXCEPT !.step = "lookup", !.inv = i]]
  /\ UNCHANGED <<registry, credit, btcpay, begun, faults, short>>

\* GetInvoice, for the amount to credit should the name be gone.
LookUp(s) ==
  /\ At(s, "lookup")
  /\ Goto(s, "settle")
  /\ UNCHANGED <<registry, credit, btcpay, begun, faults, short>>

\* Mutant: the delivery is acknowledged although nothing was done for it.
AckAnyway(s) == acked' = acked \cup {req[s].inv} /\ End(s)

\* 500: BTCPay redelivers.
ServerError(s) == UNCHANGED acked /\ End(s)

LookUpFails(s) ==
  /\ At(s, "lookup")
  /\ Fault
  /\ ServerError(s)
  /\ UNCHANGED <<registry, credit, invoice, named, begun, short>>

Settle(s) ==
  LET i == req[s].inv
  IN  /\ At(s, "settle")
      /\ Registry!Issue(invoice[i].name, invoice[i].buyer)
      /\ named' = named \cup {i}
      /\ Goto(s, "ack")
      /\ UNCHANGED <<credit, invoice, acked, begun, faults, short>>

\* Nothing tells a redelivery that the name is the buyer's own already.
SettleFails(s) ==
  LET i == req[s].inv
  IN  /\ At(s, "settle")
      /\ RegistrationRefused(invoice[i].name, invoice[i].buyer)
      /\ Goto(s, "credit")
      /\ UNCHANGED <<credit, btcpay, begun, short>>

\* Mutant: the history row is not unique per invoice.
NeverBefore(i) == TRUE

\* AddInvoiceCreditOnce: the history row goes in unless the invoice has one.
FirstCredit(i) == i \notin credited

\* What AddInvoiceCreditOnce does to the tables when it commits.
Credited(i) ==
  IF FirstCredit(i)
  THEN /\ credited' = credited \cup {i}
       /\ balance' = [balance EXCEPT ![invoice[i].buyer] = @ + invoice[i].amount]
  ELSE UNCHANGED <<credited, balance>>

Credit(s) ==
  /\ At(s, "credit")
  /\ Credited(req[s].inv)
  /\ Goto(s, "ack")
  /\ UNCHANGED <<registry, withdrawn, spent, grants, btcpay, begun, faults, short>>

\* An error, after COMMIT took effect or before.
CreditFails(s) ==
  /\ At(s, "credit")
  /\ Fault
  /\ UNCHANGED <<credited, balance>> \/ Credited(req[s].inv)
  /\ ServerError(s)
  /\ UNCHANGED <<registry, withdrawn, spent, grants, invoice, named, begun, short>>

\* 200.
Ack(s) ==
  /\ At(s, "ack")
  /\ acked' = acked \cup {req[s].inv}
  /\ End(s)
  /\ UNCHANGED <<registry, credit, invoice, named, begun, faults, short>>

-----------------------------------------------------------------------------
(* The rest of the system.                                                  *)

\* What a purchase request has deducted and neither spent nor given back.
Held(s) == IF req[s].step \in {"register", "mint", "refund"} THEN req[s].applied ELSE 0

\* The process dies, or the request's context is cancelled: no error path runs.
Crash(s) ==
  /\ ~At(s, "idle")
  /\ Fault
  /\ short' = IF Held(s) > 0 THEN short \cup {req[s].who} ELSE short
  /\ End(s)
  /\ UNCHANGED <<registry, credit, btcpay, begun>>

\* withdrawCredits and CreateWithdrawalRequest.
Withdraw(p) ==
  /\ \E amount \in MinWithdrawal .. balance[p] :
       /\ balance' = [balance EXCEPT ![p] = @ - amount]
       /\ withdrawn' = [withdrawn EXCEPT ![p] = @ + amount]
  /\ UNCHANGED <<registry, credited, spent, grants, btcpay, req, begun, faults, short>>

\* AddCredits for POST /internal/v1/credits/grant and for the admin plane: any
\* amount, at any time.  Nothing ties two grants together, so one repeated after
\* a lost answer is one more.
AddGrant(p) ==
  \E amount \in 1 .. MaxGranted - SumFunctionOnSet(granted, Pubkeys) :
    /\ balance' = [balance EXCEPT ![p] = @ + amount]
    /\ granted' = [granted EXCEPT ![p] = @ + amount]

\* grantCredits; adminGrantCredits, whose reason is mostly its own.
Grant(p) ==
  /\ AddGrant(p)
  /\ UNCHANGED <<registry, credited, withdrawn, spent, byHand, btcpay, req, begun, faults,
                 short>>

\* adminGrantCredits takes any reason: with race_loss or registration_error and the
\* id of an invoice its history row is the one AddInvoiceCreditOnce would write, and
\* goes in only if the invoice has none.
GrantForInvoice(p, i) ==
  /\ invoice[i].status # "none"
  /\ FirstCredit(i)
  /\ AddGrant(p)
  /\ credited' = credited \cup {i}
  /\ byHand' = byHand \cup {i}
  /\ UNCHANGED <<registry, withdrawn, spent, btcpay, req, begun, faults, short>>

\* Grants, transfers, revocations and the claims of other pods.
RegistryMoves ==
  /\ Registry!Next
  /\ UNCHANGED <<credit, btcpay, req, begun, faults, short>>

Buy(s) ==
  \/ ReadPrice(s) \/ ReadCredits(s) \/ Deduct(s) \/ DeductFails(s) \/ Register(s)
  \/ RegisterFails(s) \/ Refund(s) \/ RefundFails(s) \/ Mint(s) \/ MintFails(s)

Hook(s) ==
  \/ LookUp(s) \/ LookUpFails(s) \/ Settle(s) \/ SettleFails(s)
  \/ Credit(s) \/ CreditFails(s) \/ Ack(s)

Next ==
  \/ \E s \in Sessions : BeginPurchase(s) \/ Buy(s) \/ Hook(s) \/ Crash(s)
  \/ \E s \in Sessions, i \in Invoices : Deliver(s, i)
  \/ \E i \in Invoices : Pay(i) \/ Expire(i)
  \/ \E p \in Pubkeys : Withdraw(p) \/ Grant(p)
  \/ \E p \in Pubkeys, i \in Invoices : GrantForInvoice(p, i)
  \/ RegistryMoves

Spec == Init /\ [][Next]_vars

\* A handler runs to its end, and BTCPay keeps delivering what was not
\* acknowledged.  Buyers, administrators and faults are under no obligation.
Fairness ==
  /\ \A s \in Sessions : WF_vars(Buy(s)) /\ WF_vars(Hook(s))
  /\ \A i \in Invoices : WF_vars(\E s \in Sessions : Deliver(s, i))

FairSpec == Spec /\ Fairness

-----------------------------------------------------------------------------
(* Properties.                                                              *)

\* Shapes; and a balance is never negative, whatever purchases and withdrawals race
\* for it.
TypeOK ==
  /\ issued \subseteq Names
  /\ holder \in [Names -> Pubkeys \cup {Nobody}]
  /\ balance \in [Pubkeys -> Nat]
  /\ credited \subseteq Invoices
  /\ withdrawn \in [Pubkeys -> Nat]
  /\ spent \in [Pubkeys -> Nat]
  /\ granted \in [Pubkeys -> Nat]
  /\ byHand \subseteq credited
  /\ invoice \in [Invoices -> Invoice]
  /\ acked \subseteq Invoices
  /\ named \subseteq Invoices
  /\ req \in [Sessions -> Request]
  /\ begun \in 0..MaxPurchases
  /\ faults \in 0..MaxFaults
  /\ short \subseteq Pubkeys

\* An invoice BTCPay was answered 2xx for has given its buyer the name or the
\* credit, unless an administrator wrote its credit row by hand: no failure of the
\* handler, and no pair of deliveries, makes BTCPay stop before the payer has one
\* of them (webhook.go:108-113).
AckedMeansResolved == acked \subseteq named \cup credited

Of(p, status) == {i \in Invoices : invoice[i].buyer = p /\ invoice[i].status \in status}
Serving(p) == {s \in Sessions : req[s].who = p}

\* What the requests of p in flight hold, what its invoices were discounted by,
\* and the amounts of a set of invoices.
HeldBy(p) == SumFunctionOnSet([s \in Sessions |-> Held(s)], Serving(p))
Discounts(p) ==
  SumFunctionOnSet([i \in Invoices |-> invoice[i].applied], Of(p, {"new", "settled", "expired"}))
Amounts(invoices) == SumFunctionOnSet([i \in Invoices |-> invoice[i].amount], invoices)

\* The paid invoices of p that a delivery credited.
Repaid(p) == (credited \ byHand) \cap Of(p, {"settled"})

\* Credits are conserved: for a pubkey no crash or failed call left short, what
\* it had, was granted and was credited is its balance, what it withdrew, what
\* bought names, what requests in flight hold and what its invoices were discounted
\* by.
CreditsConserved ==
  \A p \in Pubkeys \ short :
    balance[p] + withdrawn[p] + spent[p] + HeldBy(p) + Discounts(p)
    = StartCredit[p] + granted[p] + Amounts(Repaid(p))

\* The service never owes or pays out more than it took in or chose to give,
\* whatever fails or is delivered again: the credits a pubkey has and withdrew stay
\* within those it started with, those it was granted and the settled invoices it
\* paid; and what an administrator granted under the id of an invoice is not paid by
\* a delivery of that invoice as well.
NeverPaysOutMore ==
  \A p \in Pubkeys :
    balance[p] + withdrawn[p]
    <= StartCredit[p] + granted[p] + Amounts(Of(p, {"settled"}) \ byHand)

\* A paid invoice ends with the name registered for it or its amount credited, by
\* a delivery or by hand, if faults end and BTCPay keeps delivering.
PaidIsResolved ==
  \A i \in Invoices : invoice[i].status = "settled" ~> i \in named \cup credited

-----------------------------------------------------------------------------
(* What the code's comments claim and the code does not do.                 *)

\* postgres.go:939-940: "AddInvoiceCreditOnce credits pubkey for a settled
\* invoice it could not be given the name for, at most once per invoice."
NameOrCredit == named \cap (credited \ byHand) = {}
=============================================================================
