-------------------------- MODULE ProductSettlement --------------------------
(***************************************************************************)
(* Selling catalog products: createProductInvoice, the webhook's product    *)
(* branch, settleProduct and the grants it writes.                          *)
(*                                                                          *)
(* settleProduct asks whether the reference already has a grant, reads the  *)
(* catalog and inserts one grant per quota type, each a statement of its    *)
(* own: no transaction and no unique index ties them together.  BTCPay      *)
(* delivers a settled invoice until it gets a 2xx, and again after a        *)
(* timeout while the first delivery still runs.  A product that costs       *)
(* nothing is settled inside the request, with the reference                *)
(* free:<product>:<pubkey>, here the pair of them.                          *)
(*                                                                          *)
(* Every pod start re-applies the migrations: 006 writes the top-ups again  *)
(* without their grant window and 009 adds it, in two transactions.  What a *)
(* product grants and whether it is free does not change otherwise.         *)
(***************************************************************************)
EXTENDS Integers, FiniteSets

CONSTANTS
  Pubkeys,      \* buyers
  Products,     \* ids of the catalog
  QuotaTypes,   \* ids of quota_types
  Invoices,     \* the invoices BTCPay can mint
  Slots,        \* the requests the service can have in flight at once
  None,         \* no pubkey, product or reference
  Payload,      \* the quota types in a product's grants_quota_increases
  Window,       \* its expires_days at the start: none, days or invalid
  FreeProducts, \* the products with price_sats 0
  TopUps,       \* the products migrations 006 and 009 write
  Sources,      \* the sources the CHECK of quota_grants accepts
  MaxPurchases, \* bound on the purchase requests of a behaviour
  MaxEdits,     \* bound on pod starts and on products withdrawn
  MaxFaults     \* bound on crashes and failed calls

Refs == Invoices \cup (Products \X Pubkeys)

ASSUME SettlementConstants ==
  /\ None \notin Pubkeys \cup Products \cup Refs
  /\ Invoices \cap (Products \X Pubkeys) = {}
  /\ Payload \in [Products -> SUBSET QuotaTypes]
  /\ Window \in [Products -> {"none", "days", "invalid"}]
  /\ FreeProducts \subseteq Products
  /\ TopUps \subseteq Products
  /\ MaxPurchases \in Nat
  /\ MaxEdits \in Nat
  /\ MaxFaults \in Nat

VARIABLES
  catalog,    \* products: whether each has a row, is enabled, and its window
  migrating,  \* whether an init container is between migrations 006 and 009
  users,      \* users: the pubkeys quota_grants may reference
  granted,    \* quota_grants: how many rows of each reference and quota type
  perpetual,  \* quota_grants: the <<reference, type>> with a row that never expires
  invoice,    \* BTCPay's invoices
  acked,      \* the invoices whose settlement BTCPay got a 2xx for
  req,        \* the request each slot is serving
  begun,      \* how many purchase requests began
  edits,      \* how many pods started and products were withdrawn
  faults,     \* how many faults happened
  overlapped, \* history: references two requests found ungranted at once
  torn        \* history: references whose grants a failure cut short

shop == <<catalog, migrating>>
ledger == <<granted, perpetual>>
btcpay == <<invoice, acked>>
counts == <<begun, edits, faults>>
history == <<overlapped, torn>>
vars == <<shop, users, ledger, btcpay, req, counts, history>>

-----------------------------------------------------------------------------
(* Shapes.                                                                  *)

Offer == [listed : BOOLEAN, enabled : BOOLEAN, window : {"none", "days", "invalid"}]

\* A request: the purchase at "price" and "mint"; the settlement, of a webhook
\* delivery or of a free product, at the other steps.  window and todo are what
\* settleProduct keeps of the catalog row.
Request == [at : {"idle", "price", "mint", "exists", "read", "grant", "answer"},
            pubkey : Pubkeys \cup {None}, product : Products \cup {None},
            ref : Refs \cup {None}, window : {"none", "days", "invalid"},
            todo : SUBSET QuotaTypes]

Idle == [at |-> "idle", pubkey |-> None, product |-> None, ref |-> None,
         window |-> "none", todo |-> {}]

\* An invoice and its metadata.
Invoice == [status : {"none", "new", "settled"},
            pubkey : Pubkeys \cup {None}, product : Products \cup {None}]

Init ==
  /\ catalog = [p \in Products |-> [listed |-> TRUE, enabled |-> TRUE, window |-> Window[p]]]
  /\ migrating = FALSE
  /\ users \in SUBSET Pubkeys
  /\ granted = [r \in Refs |-> [q \in QuotaTypes |-> 0]]
  /\ perpetual = {}
  /\ invoice = [i \in Invoices |-> [status |-> "none", pubkey |-> None, product |-> None]]
  /\ acked = {}
  /\ req = [s \in Slots |-> Idle]
  /\ begun = 0 /\ edits = 0 /\ faults = 0
  /\ overlapped = {} /\ torn = {}

At(s, step) == req[s].at = step
Goto(s, step) == req' = [req EXCEPT ![s].at = step]
End(s) == req' = [req EXCEPT ![s] = Idle]

Fault == faults < MaxFaults /\ faults' = faults + 1 /\ UNCHANGED <<begun, edits>>

-----------------------------------------------------------------------------
(* createProductInvoice.                                                    *)

BeginPurchase(s, p, prod) ==
  /\ At(s, "idle")
  /\ begun < MaxPurchases
  /\ begun' = begun + 1
  /\ req' = [req EXCEPT ![s] = [Idle EXCEPT !.at = "price", !.pubkey = p, !.product = prod]]
  /\ UNCHANGED <<shop, users, ledger, btcpay, edits, faults, history>>

\* Mutant: a free product's reference leaves out who it is granted to.
ReadPriceUnnamed(s) ==
  /\ At(s, "price")
  /\ req' = [req EXCEPT ![s].at = "exists", ![s].ref = req[s].product]
  /\ UNCHANGED <<shop, users, ledger, btcpay, counts, history>>

\* GetProduct: an unknown product is a 404 and a disabled one a 409; a free one
\* is settled here and now.
ReadPrice(s) ==
  LET prod == req[s].product IN
  /\ At(s, "price")
  /\ \/ /\ catalog[prod].listed /\ catalog[prod].enabled
        /\ prod \in FreeProducts
        /\ req' = [req EXCEPT ![s].at = "exists", ![s].ref = <<prod, req[s].pubkey>>]
     \/ /\ catalog[prod].listed /\ catalog[prod].enabled
        /\ prod \notin FreeProducts
        /\ Goto(s, "mint")
     \/ /\ ~(catalog[prod].listed /\ catalog[prod].enabled)
        /\ End(s)
  /\ UNCHANGED <<shop, users, ledger, btcpay, counts, history>>

\* CreateInvoice, with the product and the buyer as metadata.
Mint(s, i) ==
  /\ At(s, "mint")
  /\ invoice[i].status = "none"
  /\ invoice' = [invoice EXCEPT ![i] =
       [status |-> "new", pubkey |-> req[s].pubkey, product |-> req[s].product]]
  /\ End(s)
  /\ UNCHANGED <<shop, users, ledger, acked, counts, history>>

-----------------------------------------------------------------------------
(* BTCPay and the webhook.                                                  *)

Pay(i) ==
  /\ invoice[i].status = "new"
  /\ invoice' = [invoice EXCEPT ![i].status = "settled"]
  /\ UNCHANGED <<shop, users, ledger, acked, req, counts, history>>

\* Mutant: the event's type is not looked at.
DeliverUnpaid(i, s) ==
  /\ invoice[i].status # "none"
  /\ i \notin acked
  /\ At(s, "idle")
  /\ req' = [req EXCEPT ![s] =
       [Idle EXCEPT !.at = "exists", !.pubkey = invoice[i].pubkey,
                    !.product = invoice[i].product, !.ref = i]]
  /\ UNCHANGED <<shop, users, ledger, btcpay, counts, history>>

\* The webhook hands a product invoice to settleProduct with the invoice's id
\* as the reference.  BTCPay delivers until it is answered with a 2xx, and does
\* not wait for an earlier delivery to end.
Deliver(i, s) ==
  /\ invoice[i].status = "settled"
  /\ i \notin acked
  /\ At(s, "idle")
  /\ req' = [req EXCEPT ![s] =
       [Idle EXCEPT !.at = "exists", !.pubkey = invoice[i].pubkey,
                    !.product = invoice[i].product, !.ref = i]]
  /\ UNCHANGED <<shop, users, ledger, btcpay, counts, history>>

-----------------------------------------------------------------------------
(* settleProduct.                                                           *)

HasGrant(r) == \E q \in QuotaTypes : granted[r][q] > 0

\* The settlements that found their reference ungranted and will insert.
Settling(s, r) == req[s].ref = r /\ req[s].at \in {"read", "grant"}

\* Mutant: the reference is not looked up.
ExistsUnasked(s) ==
  LET r == req[s].ref IN
  /\ At(s, "exists")
  /\ Goto(s, "read")
  /\ overlapped' = IF \E t \in Slots : Settling(t, r)
                   THEN overlapped \cup {r} ELSE overlapped
  /\ UNCHANGED <<shop, users, ledger, btcpay, counts, torn>>

\* QuotaGrantExists: an existing grant is the answer already_applied.
Exists(s) ==
  LET r == req[s].ref IN
  /\ At(s, "exists")
  /\ \/ /\ HasGrant(r)
        /\ Goto(s, "answer")
        /\ UNCHANGED overlapped
     \/ /\ ~HasGrant(r)
        /\ Goto(s, "read")
        /\ overlapped' = IF \E t \in Slots : Settling(t, r)
                         THEN overlapped \cup {r} ELSE overlapped
  /\ UNCHANGED <<shop, users, ledger, btcpay, counts, torn>>

\* What GetProduct and grantWindow accept: a row, some quota beside the window,
\* and no window that is not a positive number of days.
Grantable(prod) ==
  /\ catalog[prod].listed
  /\ Payload[prod] # {}
  /\ catalog[prod].window # "invalid"

\* GetProduct and grantWindow.  What cannot be granted is a 500.
ReadOffer(s) ==
  LET prod == req[s].product IN
  /\ At(s, "read")
  /\ \/ /\ Grantable(prod)
        /\ req' = [req EXCEPT ![s].at = "grant", ![s].window = catalog[prod].window,
                              ![s].todo = Payload[prod]]
     \/ /\ ~Grantable(prod)
        /\ End(s)
  /\ UNCHANGED <<shop, users, ledger, btcpay, counts, history>>

\* The row AddQuotaGrant inserts, in the map's order of quota types: any.
Row(s, q) ==
  /\ granted' = [granted EXCEPT ![req[s].ref][q] = @ + 1]
  /\ perpetual' = IF req[s].window = "none"
                  THEN perpetual \cup {<<req[s].ref, q>>} ELSE perpetual

\* The CHECK on source and the foreign key on users.
Accepted(s) == "purchase" \in Sources /\ req[s].pubkey \in users

Grant(s, q) ==
  /\ At(s, "grant")
  /\ q \in req[s].todo
  /\ Accepted(s)
  /\ Row(s, q)
  /\ req' = [req EXCEPT ![s].todo = @ \ {q},
                        ![s].at = IF req[s].todo = {q} THEN "answer" ELSE "grant"]
  /\ UNCHANGED <<shop, users, btcpay, counts, history>>

\* A settlement that stops here leaves its reference with some of its grants.
Torn(s) ==
  torn' = IF req[s].at = "grant" THEN torn \cup {req[s].ref} ELSE torn

\* Mutant: a refused insert is answered like a grant.
RefusedQuietly(s) ==
  /\ At(s, "grant")
  /\ ~Accepted(s)
  /\ Goto(s, "answer")
  /\ Torn(s)
  /\ UNCHANGED <<shop, users, ledger, btcpay, counts, overlapped>>

\* A refused insert is a 500.
Refused(s) ==
  /\ At(s, "grant")
  /\ ~Accepted(s)
  /\ End(s)
  /\ Torn(s)
  /\ UNCHANGED <<shop, users, ledger, btcpay, counts, overlapped>>

\* The answer to BTCPay, or to the buyer of a free product.
Answer(s) ==
  /\ At(s, "answer")
  /\ acked' = IF req[s].ref \in Invoices THEN acked \cup {req[s].ref} ELSE acked
  /\ End(s)
  /\ UNCHANGED <<shop, users, ledger, invoice, counts, history>>

-----------------------------------------------------------------------------
(* Faults.                                                                  *)

\* Mutant: a failure inside settleProduct is logged and answered 200.
DiesAnswered(s) ==
  /\ req[s].at # "idle"
  /\ Fault
  /\ acked' = IF req[s].ref \in Invoices THEN acked \cup {req[s].ref} ELSE acked
  /\ End(s)
  /\ Torn(s)
  /\ UNCHANGED <<shop, users, ledger, invoice, overlapped>>

\* A failed query, call or answer, a crash, or a context that is cancelled:
\* the request ends where it is and its caller sees no 2xx.
Dies(s) ==
  /\ req[s].at # "idle"
  /\ Fault
  /\ End(s)
  /\ Torn(s)
  /\ UNCHANGED <<shop, users, ledger, btcpay, overlapped>>

\* The insert took effect and its answer was lost.
GrantUnknown(s, q) ==
  /\ At(s, "grant")
  /\ q \in req[s].todo
  /\ Accepted(s)
  /\ Fault
  /\ Row(s, q)
  /\ End(s)
  /\ Torn(s)
  /\ UNCHANGED <<shop, users, btcpay, overlapped>>

-----------------------------------------------------------------------------
(* The catalog and the users.                                               *)

\* A pod starts: migration 006 upserts the top-ups without their window.
PodStarts ==
  /\ ~migrating
  /\ edits < MaxEdits
  /\ edits' = edits + 1
  /\ migrating' = TRUE
  /\ catalog' = [p \in Products |->
       IF p \in TopUps
       THEN [listed |-> TRUE, window |-> "none",
             enabled |-> IF catalog[p].listed THEN catalog[p].enabled ELSE TRUE]
       ELSE catalog[p]]
  /\ UNCHANGED <<users, ledger, btcpay, req, begun, faults, history>>

\* Migration 009 adds expires_days to them.
WindowAdded ==
  /\ migrating
  /\ migrating' = FALSE
  /\ catalog' = [p \in Products |->
       IF p \in TopUps /\ catalog[p].listed
       THEN [catalog[p] EXCEPT !.window = "days"] ELSE catalog[p]]
  /\ UNCHANGED <<users, ledger, btcpay, req, counts, history>>

\* An operator withdraws a product from sale, or deletes it.
Withdraw(p) ==
  /\ catalog[p].listed
  /\ edits < MaxEdits
  /\ edits' = edits + 1
  /\ \/ /\ catalog[p].enabled
        /\ catalog' = [catalog EXCEPT ![p].enabled = FALSE]
     \/ catalog' = [catalog EXCEPT ![p].listed = FALSE]
  /\ UNCHANGED <<migrating, users, ledger, btcpay, req, begun, faults, history>>

\* EnsureUser, behind a request the buyer signed.
EnsureUser(p) ==
  /\ p \notin users
  /\ users' = users \cup {p}
  /\ UNCHANGED <<shop, ledger, btcpay, req, counts, history>>

-----------------------------------------------------------------------------
Handle(s) ==
  \/ ReadPrice(s)
  \/ \E i \in Invoices : Mint(s, i)
  \/ Exists(s)
  \/ ReadOffer(s)
  \/ \E q \in QuotaTypes : Grant(s, q)
  \/ Refused(s)
  \/ Answer(s)

Fails(s) == Dies(s) \/ \E q \in QuotaTypes : GrantUnknown(s, q)

Next ==
  \/ \E s \in Slots, p \in Pubkeys, prod \in Products : BeginPurchase(s, p, prod)
  \/ \E s \in Slots : Handle(s) \/ Fails(s)
  \/ \E i \in Invoices : Pay(i)
  \/ \E i \in Invoices, s \in Slots : Deliver(i, s)
  \/ PodStarts \/ WindowAdded
  \/ \E p \in Products : Withdraw(p)
  \/ \E p \in Pubkeys : EnsureUser(p)

Spec == Init /\ [][Next]_vars

\* A handler that runs goes on; BTCPay keeps delivering what was not answered,
\* whatever other deliveries keep the service busy.
FairSpec ==
  /\ Spec
  /\ \A s \in Slots : WF_vars(Handle(s))
  /\ \A i \in Invoices : SF_vars(\E s \in Slots : Deliver(i, s))

-----------------------------------------------------------------------------
(* Properties.                                                              *)

TypeOK ==
  /\ catalog \in [Products -> Offer]
  /\ migrating \in BOOLEAN
  /\ users \subseteq Pubkeys
  /\ granted \in [Refs -> [QuotaTypes -> Nat]]
  /\ perpetual \subseteq Refs \X QuotaTypes
  /\ invoice \in [Invoices -> Invoice]
  /\ acked \subseteq Invoices
  /\ req \in [Slots -> Request]
  /\ begun \in 0..MaxPurchases /\ edits \in 0..MaxEdits /\ faults \in 0..MaxFaults
  /\ overlapped \subseteq Refs /\ torn \subseteq Refs

\* However often BTCPay retries, and wherever a delivery died before, a
\* reference is granted once per quota type, unless two deliveries passed the
\* existence check together (postgres.go:457-459: "without this check a retry
\* doubles the user's storage").
RetryNeverDoubles ==
  \A r \in Refs \ overlapped, q \in QuotaTypes : granted[r][q] <= 1

\* The product a reference is for.
ProductOf(r) == IF r \in Invoices THEN invoice[r].product ELSE r[1]

Complete(r) == \A q \in Payload[ProductOf(r)] : granted[r][q] > 0

\* BTCPay is told an invoice is done only if something was granted for it, and
\* everything the product promises was, or is by a delivery still at work,
\* unless a delivery stopped between two inserts (webhook.go: "Answering 200
\* here would take the user's money and lose the thing they bought").
AckedIsGranted ==
  \A i \in acked :
    /\ HasGrant(i)
    /\ Complete(i) \/ i \in torn \/ \E s \in Slots : At(s, "grant") /\ req[s].ref = i

\* Nothing is granted that was not paid for or free: the grants of an invoice
\* are those of a settled one, and only of types its product grants.
GrantsArePaidFor ==
  \A r \in Refs, q \in QuotaTypes :
    granted[r][q] > 0 =>
      /\ r \in Invoices => invoice[r].status = "settled"
      /\ r \notin Invoices => r[1] \in FreeProducts
      /\ q \in Payload[ProductOf(r)]

\* What stands between a settled invoice and its grant, beside faults.
Settleable(i) ==
  invoice[i].product \in Products /\ Grantable(invoice[i].product) /\ invoice[i].pubkey \in users

\* A settled invoice is granted in the end, whatever failed on the way, unless
\* the catalog or the users table refuses it (webhook.go: "a retry is exactly
\* what we want when the grant failed").
PaidIsGranted ==
  \A i \in Invoices :
    invoice[i].status = "settled" ~> (HasGrant(i) \/ ~Settleable(i))

=============================================================================
