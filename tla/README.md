# cloistr-me in TLA+

cloistr-me is the identity service of Cloistr: it gives a Nostr pubkey a readable
name (`alice@cloistr.xyz`), answers the NIP-05 and Lightning Address lookups for
that name, sells names and storage over BTCPay, keeps sats of credit, and
administers quotas, invites, tenants and reserved names. It is a Go service
(gin) over a PostgreSQL database that other services read as well, and it runs
in several pods, so every request is a concurrent transaction of a shared
database.

This directory holds TLA+ modules translated from the source under `src/`, the
TLC configurations that check them, and proofs checked by TLAPS. Line references
are to the files of this repository; `PROJECT.json` maps every definition to the
lines it stands for.

## Inventory

| Component | State | Operations | Where it is hard |
|---|---|---|---|
| **Address registry** `internal/storage/postgres.go`, `admin.go`, `internal/api/{ensure_address,management,handler,admin}.go`, migration 005 | `addresses` (owner, active, is_primary, nip05_active, last_transfer_at), `address_ownership`, `reserved_usernames` | claim, ensure, background provisioning, admin grant, transfer, admin transfer, revoke, set primary, set NIP-05, reserve, unreserve, backfill at pod start | every transaction is at READ COMMITTED and decides on unlocked SELECTs; three unique indexes are the only arbiter of races; a revoked row stays in all of them |
| **Purchase of a name** `internal/api/{purchase,webhook,nameprice,purchase_status}.go`, the credit grants of `internal/api/{internal,admin}.go`, credits of `postgres.go`, migration 012 | `pubkey_credits`, `credit_history`, BTCPay's invoices and deliveries | quote, invoice, settle (webhook), refund, withdraw, grant credits (service or administrator), poll the status | money moves in separate transactions with crashes between them; grants come at any time, and an administrator's may carry the reason and the invoice id of a settlement's own credit; webhooks are delivered at least once, late, and for names that are gone |
| **Products** `internal/api/{settlement,product_purchase}.go` | `products`, `quota_grants` | mint an invoice, grant for free, settle | grants are separate statements behind an existence check; the webhook is redelivered |
| **Quota and access** migrations 007-010, `internal/storage/{tenant,quota_usage}.go`, `internal/api/tenant.go` | `user_quotas`, `user_quota_usage`, `quota_grants`, `tenants`, members | effective_quota, check_quota, record usage, tenant membership | effective_quota is several queries, each with a snapshot of its own; check and record are two calls of another service; grants expire |
| **Lightning settings and LNURL** `internal/api/lnurlp.go`, `internal/nwc/client.go`, `UpsertLightningConfigFull`, `copyLightningConfig` | `address_lightning` | configure, inherit, LNURL callback by proxy or by wallet | three-way upsert that keeps or clears a wallet's secrets; a failed copy inside a transaction |
| **BTCPay client** `internal/btcpay/client.go` | none | create invoice (with retries), read invoice, verify webhook | retry budget against per-attempt timeout; a retry after an unclear answer |
| **Authentication** `internal/auth/nip98.go` | none | validate a signed request | time window at its edges |
| **Admin plane** `internal/storage/admin.go`, `internal/api/admin.go`, `cmd/cloistr-admin` | users, invites, quotas, audit log | single-statement writes with an audit row | none beyond one transaction each |
| **Lookups** `internal/api/nip05.go`, the lookups of `internal.go`, `pricing.go` | none | read-only (what `internal.go` writes, credit grants and usage reports, belongs to the rows above) | none |
| **Crypto, config, metrics, main** | none | AES-GCM sealing, environment, counters, wiring | none |

How they interact: the handlers share no memory; they meet in the database. A
purchase calls the registry's `AtomicRegisterAddress` and the credit ledger in
separate transactions; the webhook does the same, driven by BTCPay's
deliveries; the authentication middleware starts a goroutine that ensures an
auto-assigned address behind every request that is not itself a claim; a product
settlement writes the grants that `effective_quota` sums.

## Modules

* `NameBook` is the abstract specification of a name: issued once, held by one
  pubkey, handed over only by a transfer, silent once revoked.
* `AddressRegistry` is the registry as the code implements it. `MCAddressRegistry`
  adds the symmetry sets of its TLC runs.
* `AddressRegistry_proofs` holds the theorems about it, and
  `AddressRegistryApart_proofs` those about its less concurrent behaviours,
  `ApartSpec` and `CalmSpec`.
* `Purchase` is the buying of a name: the requests, BTCPay, the webhook and the
  credit ledger, composed with `NameBook` as its registry. `MCPurchase` gives the
  prices and the credit of its TLC runs.
* `Purchase_proofs` holds the theorems about it.
* `ProductSettlement` is the selling of catalog products: the same webhook, the
  existence check and the grants. `MCProductSettlement` gives the catalog of its
  runs, `ProductSettlement_proofs` the theorems.
* `Lightning` is the settings behind a name and the LNURL callback that uses them,
  composed with `NameBook`. `MCLightning` gives the wallets and the changes that
  are asked for, `Lightning_proofs` the theorems.
* `InvoiceCall` is one call of BTCPay with its attempts, waits and deadlines.
  `MCInvoiceCall` gives the constants of the code in ticks, `InvoiceCall_proofs`
  the theorems.
* `Quota` is the limits of pubkeys and tenants, and the services that check them
  and report usage. `MCQuota` gives the symmetry of its run, `Quota_proofs` the
  theorems.
* `SumTheorems` has the lemmas about sums over finite sets that the proofs about
  the credit ledger and about usage share.

How they fit together. `AddressRegistry` implements `NameBook`, and `Purchase` and
`Lightning` take `NameBook` for their registry and keep to it
(`PurchaseKeepsNameBook`, `LightningKeepsNameBook`), so what they show holds of the
registry as it is. `InvoiceCall` is the inside of `Purchase`'s and
`ProductSettlement`'s `Mint`: that a create makes one invoice or none is its
`OneInvoice`. `ProductSettlement` writes the grants that `Quota` lets come at any
time (`Grant`) and lapse at any time (`Expire`), and `Quota`'s `Identify` is a
registry step seen from the quota: a pubkey gains its first claimed name or loses its
last.

### AddressRegistry

State. `rows` is `addresses`: one record per name, `Blank` when there is no row;
`open` is the set of pubkeys with an open interval of each name in
`address_ownership`; `reserved` is `reserved_usernames`; `cooling` is the set of
names transferred within seven days. `req[s]` is the request a session serves,
with what its SELECTs returned. `lost`, a history variable, remembers the
pubkeys that lost an active address once. `begun` counts requests up to the
bound `MaxRequests`.

A transaction is cut where it reads. Every SELECT that the code decides on is an
action that reads the committed tables and keeps the answer in the request; the
statements that write, with COMMIT, are one action on the committed tables.
That is what READ COMMITTED allows: a writer that meets an uncommitted row or
index entry waits for its owner and continues on what was committed, which is
the same as having written later, and a write that would break a unique index
fails and rolls everything back (`InsertConflict`, `MoveConflict`,
`DeactivateConflict`, `SetFlagConflict`). One transaction writes before it
reads, `AdminRevokeAddress`; the lock its first UPDATE holds is `LockedByOthers`.
`Fail` is a crash, a cancelled context or an aborted transaction at any step.

| Action | Code |
|---|---|
| `BeginRegister`, `CheckTaken`, `CheckReserved`, `CountExisting`, `Insert` | `AtomicRegisterAddress`, called by the webhook and by a free or credit-paid claim |
| `BeginEnsure`, `ReadPrimary`, `CountActive`, `Generate`, `ReadBack`, `Answer` | `ensurePrimaryAddress` and `EnsureAutoAddress` |
| `BeginProvision` | the goroutine of `nip98AuthMiddleware` |
| `BeginGrant` | `AdminGrantAddress` |
| `BeginTransfer`, `ReadOwnPrimary`, `LookupRow`, `CountOthers`, `CountTarget`, `Move` | `transferAddress` and `TransferAddress` |
| `BeginAdminTransfer` | `AdminTransferAddress` |
| `BeginRevoke`, `LockRow`, `Deactivate` | `AdminRevokeAddress` |
| `BeginSetPrimary`, `BeginSetNIP05`, `LookupFlagged`, `SetFlag` | `SetAddressPrimary`, `SetAddressNIP05` |
| `AddReserved`, `RemoveReserved` | the same names |
| `BackfillPrimary`, `BackfillNIP05` | migration 005, re-applied on every pod start |
| `CooldownElapses` | seven days pass |

The ownership backfill of migration 005 (lines 59 and on) opens an interval for
an active name that has none; `OwnerHasOpenInterval` shows there never is one,
so the statement changes nothing and is not an action.

The heir of a promotion is the oldest address by `created_at`. That is the time
a transaction began, not when it committed, so the model lets any active address
be the heir; the same holds of the smallest id in the backfill.

A name stands for a (username, domain) pair, and auto-assigned names are a set of
their own because the purchase path refuses names of their shape.

### Purchase

State. `balance`, `credited` and `withdrawn` are the credit tables: the balances,
the invoices with a `race_loss` or `registration_error` row in `credit_history`
(at most one per invoice, migration 012), and what the rows of `credit_withdrawals`
add up to. `invoice` is what BTCPay knows, metadata included; `acked` the invoices whose
settlement it got a 2xx for. `req[s]` is the request in slot `s`: a purchase or a
webhook delivery, the step it is at and the variables of the handler it will
still use. `issued` and `holder` belong to `NameBook`. Five variables are
history, for the properties: `named` (invoices whose delivery registered the
name), `spent` (credits that bought a name outright), `granted` (the credits each
pubkey was granted, at most `MaxGranted` in all), `byHand` (invoices whose row in
`credit_history` is an administrator's grant) and `short` (pubkeys that a crash or a
failed call left short of credits). `begun` and `faults` count up to the bounds
`MaxPurchases` and `MaxFaults`.

The registry is its abstract specification, which `AddressRegistry` implements
(theorem `RegistryImplementsNameBook`): a registration issues a name, and grants,
transfers, revocations and other pods' claims are the `NameBook` steps of
`RegistryMoves`. What `NameBook` does not show is why a registration was refused,
so `RegistrationRefused` may happen to any name: taken, reserved, or an index on
the flags of the pubkey that the detailed module shows can refuse.

| Action | Code |
|---|---|
| `BeginPurchase`, `ReadPrice`, `ReadCredits` | the availability check, `priceNameFor` and `GetCredits` of `createPurchaseInvoice` |
| `Deduct`, `DeductFails` | `DeductCredits`, for the whole price or for a part, and what the handler does with its error |
| `Register`, `RegisterFails` | the registration of a free or credit-paid name |
| `Refund`, `RefundFails` | `refund` and `AddCredits` |
| `Mint`, `MintFails` | `CreateInvoice`, or BTCPay is not configured or fails |
| `Pay`, `Expire`, `Deliver` | BTCPay; `Deliver` is also a redelivery, while the first one runs or after it failed |
| `LookUp`, `LookUpFails` | `GetInvoice` of the webhook |
| `Settle`, `SettleFails` | `AtomicRegisterAddress` of the webhook |
| `Credit`, `CreditFails` | `AddInvoiceCreditOnce` |
| `Ack`, `ServerError` | the 200 and the 500 |
| `Crash` | the process dies or the context is cancelled at any step |
| `Withdraw` | `withdrawCredits` and `CreateWithdrawalRequest` |
| `Grant` | `grantCredits` of the internal API, and `adminGrantCredits` under its own reasons: `AddCredits` at any time, again if the caller repeats it |
| `GrantForInvoice` | `adminGrantCredits` with reason `race_loss` or `registration_error` and an invoice id, to any pubkey: its row is the one `AddInvoiceCreditOnce` would write, and is refused if there is one |

Each database transaction is one action, each call whose result is kept is
another. A call that fails may have taken effect: `DeductFails`, `CreditFails`
and `RegistrationRefused` each have the branch in which COMMIT succeeded and the
answer was lost.

### ProductSettlement

State. `catalog` is `products`, reduced to whether a row exists, is enabled and has
a grant window; what a product grants and whether it is free are the constants
`Payload` and `FreeProducts`. `granted` counts the rows of `quota_grants` per
reference and quota type and `perpetual` marks those without an expiry. `users`
is what the foreign key of `quota_grants` accepts, `Sources` what its CHECK does.
`invoice` and `acked` are BTCPay's. Two history variables say where the code
promises less: `overlapped` (references that two settlements found ungranted at
once) and `torn` (references whose inserts a failure cut short).

| Action | Code |
|---|---|
| `BeginPurchase`, `ReadPrice`, `Mint` | `createProductInvoice`, whose free branch goes straight to `Exists` |
| `Pay`, `Deliver` | BTCPay; `Deliver` is also a redelivery, beside the first or after it |
| `Exists` | `QuotaGrantExists` |
| `ReadOffer` | `GetProduct` and `grantWindow` |
| `Grant`, `Refused`, `GrantUnknown` | `AddQuotaGrant`, one statement per quota type: inserted, refused, or inserted with its answer lost |
| `Answer`, `Dies` | the 200; a failure or a crash at any step |
| `PodStarts`, `WindowAdded` | migrations 006 and 009, re-applied in two transactions |
| `Withdraw`, `EnsureUser` | an operator disables or deletes a product; a users row appears |

### Lightning

State. `settings` is `address_lightning`, the row of each name, with the three NWC
columns as one value since they are written together; `primary` is the primary
name of each pubkey and `issued` and `holder` are `NameBook`'s. `req[s]` is a change
of settings, a claim or a callback. History: `lineage[n]` is who owned `n` or a
name its settings were copied from, `raced` the names whose copy came from a
primary that had left its owner between the read and the insert, `failed` the
wallets a name saw fail, `swapped` the names given another wallet while one was
asked.

| Action | Code |
|---|---|
| `BeginUpdate`, `ReadPrimary`, `Upsert` | `updateLightningConfig`, `UpsertLightningConfigFull` |
| `BeginAdminSet`, `LookupName`, `Upsert` | `adminSetLightning` |
| `BeginClaim`, `CommitClaim`, `ClaimRefused` | `AtomicRegisterAddress` and `AdminGrantAddress` from the read of the primary on, with `copyLightningConfig`; an address brought by a purchase is upserted afterwards (`autoConfigureLightning`) |
| `BeginCall`, `Find`, `ReadConfig` | `handleLNURLPCallback` |
| `ProxyAnswers` | `handleProxyInvoice` |
| `Hear`, `Timeout` | `sendRequest` and `handleResponse` of the NWC client |
| `RecordSuccess`, `RecordFailure` | `UpdateNWCSuccess`, `UpdateNWCError`, by row id |
| `Transfer`, `Revoke`, `SetPrimary` | the registry's; none of them touches the settings |
| `Drops` | a failure or a crash at any step |

A wallet is what a proxy address or an NWC connection reaches, and belongs to one
pubkey (`Keeper`). People enter wallets of their own; what may put a stranger's
wallet on a name is then the code alone. Which name is promoted when a primary
leaves, and which claims the flags of revoked rows refuse, is the registry's
matter: here any name of the owner may be promoted, or none.

### InvoiceCall

State. `now` and `since` are ticks of half a second, `attempts` the attempts of a
call; `server` is what BTCPay has done with the attempt under way, `adrift` how
many requests the client gave up on that BTCPay may still carry out, `minted` the
invoices that exist, `result` what the caller was told. A caller asks again only
when told that trying again works.

| Action | Code |
|---|---|
| `Ask`, `Retry` | `CreateInvoice`, an attempt of its loop |
| `Created` | 200 or 201, then the BOLT11 (`createPurchaseInvoice`) or the answer (`createProductInvoice`) |
| `Unavailable` | `isTransientLNFailure`, the cap on attempts and the check that a whole one fits |
| `Rejected`, `Abandon` | any other status or body; a timeout, a broken transport, a caller that hangs up |
| `Cancel` | the context ends during the wait |
| `Methods` | `GetInvoicePaymentMethods`, whose failure is only logged |
| `Tick`, `Mint`, `Refuse`, `MintLate` | the clock and BTCPay |

### Quota

State. `override`, `grant`, `pooled`, `members` and `created` are `user_quotas`,
`quota_grants` (those not expired), `tenant_quotas`, `tenant_members` and `tenants`,
for one quota type; `named` is who has a claimed address; `usage` is
`user_quota_usage` per service; `pooling` is which definition of `effective_quota`
is installed. `req[s]` is an upload or a release under way, with the query of
`effective_quota` it is at and what the earlier ones returned: the account, `is_named`,
the limit, the first sum; and, as `lapsed`, the grants that expired since the call
began. `stored` is what the services really store. `misreported`
and `excused` are history: reports lost or repeated, and the accounts that may be over
their limit.

| Action | Code |
|---|---|
| `BeginUpload` | `checkQuota` calls the `effective_quota` that is installed |
| `ReadTenant`, `ReadTenantLimit` | its queries for a tenant of the pubkey and for the tenant's limit |
| `ReadName`, `ReadOverride` | `is_named`; the override, or the default for what `is_named` was |
| `ReadSum`, `Judge` | the first sum (usage of a pool, grants of a pubkey), the second, and `check_quota`'s decision on both |
| `BeginRelease` | a service deletes something |
| `Record`, `RecordUnknown`, `Drop` | `recordQuotaUsage`; its answer is lost and it is repeated; it never comes |
| `SetQuota`, `ResetQuota` | `adminSetQuota`, `adminResetQuota` |
| `CreateTenant`, `AddMember`, `RemoveMember`, `SetTenantQuota` | the handlers of `tenant.go` |
| `Identify`, `Grant` | steps of the registry and of the settlement (`AddQuotaGrant`) |
| `Expire` | a grant's `expires_at` passes, but not for the calls that began before |
| `PodStarts`, `PoolingBack` | migrations 007 and 010 re-applied |

`effective_quota` is VOLATILE, so each of its queries sees what is committed when it
runs, and each is an action; everything else happens between any two. Migration 007's
version is the individual path of 010's, and a call runs the one that was installed
when it began. The defaults (`quota_types`) change with migrations only and are
constants. So an upload may be judged by numbers that never held together: the
grants of a member who joined between the two sums without that member's usage, or
the default of a named pubkey that lost its name before its override was reset. Only
`NOW()` is the same in all queries of a call, the time it began: the sum of grants
that it takes counts those that have expired since (`GrantsSeen`).

An account is excused of being over its limit in these cases, and no other:

* it was over to begin with, or an edit put it over (`Exceeded`);
* an upload it counts was judged by another account (`Landed`): by one of two
  tenants, by the pubkey's own after a pod start put 007's function back, or by an
  account the pubkey has left or joined since;
* an upload it judged was `Misled`: the pubkey won or lost its name between
  `ReadName` and `ReadOverride`; its limit was lowered after it was read; its usage
  grew (a pool) or its grants shrank (a pubkey) between the first sum and the second;
  or it lost room between the answer and the report;
* an upload it judged was given a sum of grants with one in it that had expired since
  the call began (`Generous`).

An excuse lasts until the account is within its limit and judges no upload.

## Runs

### AddressRegistry

`AddressRegistry.cfg` is the main run: two pubkeys, two names to claim and one
auto-assigned, two sessions, four requests in a behaviour, no reservations.
Every hazard of the registry is a race of two transactions over an address that
earlier requests set up, and the shortest behaviours that distinguish right from
wrong take two preparing requests and two racing ones, which is why four
requests and two sessions are the bound. Pubkeys, names of a kind and sessions
are symmetric: no action tells them apart.

| Property | What it says |
|---|---|
| `TypeOK` | shapes of the tables and of a request; a transaction past its lookup has a row |
| `OwnerHasOpenInterval` | an active address always has an open ownership interval for its owner |
| `FlaggedUnlessLost` | a pubkey that never lost an active address has a primary and a NIP-05 address if it has any |
| `AutoOnlyForNameless` | an auto-assigned address is given only to a pubkey that has none |
| `ClaimTakesOver` | the first claimed name takes both flags from the auto-assigned address, which stays active |
| `ImplementsNameBook` | the registry implements `NameBook` |

Three of them except pubkeys in `lost`. That is the code's doing: once an address
with flags was revoked or transferred, the promotions can be refused or can race
(see the findings), and the pubkey may be left with addresses none of which is
primary.

`AddressRegistryApart.cfg` checks `HasPrimary` for every pubkey under `CalmSpec`:
two sessions and four requests, with a reservable name, in which a transfer or
revocation that has begun to read overlaps no other one and no request that is
about to insert or to set a flag (`RemovalsApart`), and in which nobody is
transferred an address they own (`NoSelfTransfer`, which is how a single
administrator can break it: the pubkey's count includes the address itself, which
loses both flags). Claims, ensures, grants and flag changes overlap one another as
they like. It also checks `OpenIntervalMeansOwned`:
an interval that is open names the pubkey that owns the row. Neither holds of
`Spec`, in which transfers race; the proofs say how much less concurrency each
needs. `OwnerHasOpenInterval` is the half of the history that survives every race.

The module shows further behaviours that the comments of the source do not lead
one to expect, and that no run checks because the code has nothing that would
prevent them:

* Two transfers that read the same owner (`postgres.go:606`, `admin.go:313`) close
  only that owner's interval; the first recipient's stays open.
* A revocation of a primary address whose owner has others is rolled back: the
  revoked row keeps `is_primary`, and the one-primary index (migration 005, lines
  27-28) does not look at `active`.
* `transferAddress` moves by id a row that an administrator may have moved to
  somebody else since it was read (`management.go:391`, `postgres.go:642`).
* The transfer cooldown (`management.go:404`) never refuses, since
  `GetPrimaryAddressByPubkey` does not select `last_transfer_at` (`CooldownShown`).
* A name reserved for a pubkey is refused to that pubkey as well
  (`postgres.go:743`, `CheckReserved`), while `is_username_available` offers it to
  everybody.

Deadlock is not checked: a behaviour stops when `MaxRequests` is used up.

### Purchase

`Purchase.cfg`: two pubkeys without credit, one unit of it to be granted, by either
kind of grant at any time, a paid name of two units and a free-tier one whose
additional price is one, two request slots, two invoices, two purchases, one fault.
A unit of credit is part of the paid name and all of the additional one, so both
branches of `finalPrice` and both deductions happen, and a credited invoice brings
two more; two slots let two purchases race, or two deliveries of one
invoice, or one of each; one fault reaches every error path, and a redelivery
after it every retry. Pubkeys, slots and invoices are symmetric.

| Property | What it says |
|---|---|
| `TypeOK` | shapes, and no balance is negative whatever races for it |
| `AckedMeansResolved` | an invoice BTCPay got a 2xx for has given the name or the credit, or an administrator has written its credit row by hand |
| `CreditsConserved` | for a pubkey no fault left short: balance, withdrawals, names bought, credits in flight and discounts of invoices add up to what it had, was granted and was credited by settlements |
| `NeverPaysOutMore` | balance and withdrawals never exceed the initial credit, the grants and the sats of settled invoices, whatever fails; an invoice with a credit row written by hand counts by its grant alone |
| `PaidIsResolved` (`PurchaseLive.cfg`) | a paid invoice ends in a name or a credit |

`CreditsConserved` is the exact statement and excepts the pubkeys in `short`,
because the code cannot do better: a crash between a deduction and what it pays
for, or a failed refund, leaves a line in the log and nothing else.
`NeverPaysOutMore` excepts nobody. A grant is a term of both, not an exception: it is
new credit whenever it is given, and one given under an invoice's id replaces what a
delivery of that invoice would have credited. `AckedMeansResolved` says no more of
such an invoice than that the row is there, because the code looks no further: it
does not compare the pubkey or the amount with the buyer's.

Fairness of `PurchaseLive.cfg`: weak fairness on the steps of a purchase and of a
delivery (a handler that is running goes on until it returns), and on the
delivery of each settled and unacknowledged invoice (BTCPay redelivers on any
non-2xx). Nothing obliges a buyer to pay, an administrator to act or a fault to
happen; faults are finite (`MaxFaults` is two), without which a database that is
always down would be a counterexample. One invoice and one purchase are enough:
what another purchase can do to this one is to take its name, which the grants of
`RegistryMoves` do as well. Each buyer has a unit of credit from the start there, and
another may be granted.

`PurchaseNameOrCredit.cfg` refutes the statement of a comment that a payer is given
the name or the credit: a delivery that follows or overlaps the one that
registered the name credits the payment as well. Two more behaviours of the
module no run checks: the credits deducted for an invoice that expires, or whose
name is lost, come back on no path, since nothing reads `credits_applied`
(`purchase.go:323`; `CreditsConserved` counts them as the invoice's for good); and
two purchases of one pubkey that both read their price before either registers
are both free (`nameprice.go:65`).

Deadlock is not checked: a behaviour stops when its purchases are used up.

### ProductSettlement

`ProductSettlement.cfg`: one buyer, a top-up with a window, a bundle of two quota
types, a free trial and a product that grants nothing; one invoice, two slots, two
purchases, one edit of the catalog, two faults. One reference shows every hazard,
since references do not meet; two slots are two overlapping deliveries, two quota
types a failure between two inserts, two faults a failure of the retry as well.

| Property | What it says |
|---|---|
| `RetryNeverDoubles` | a reference is granted once per quota type, unless two settlements found it ungranted at once |
| `AckedIsGranted` | a 200 means something was granted, and all of it unless a failure fell between two inserts |
| `GrantsArePaidFor` | grants are of settled invoices or free products, and of types the product has |
| `PaidIsGranted` | a settled invoice is granted in the end if the catalog and the users table allow it |

The run takes a `Sources` with `purchase` in it, the table of
`db/test_schema.sql`. `ProductSettlementPaidIsGranted.cfg` takes the CHECK that
migration 006 creates, and refutes `PaidIsGranted`: every insert is refused and the
delivery is repeated for ever. The two exceptions, `overlapped` and `torn`, are
the code's doing: nothing ties the check and the inserts together. A third
behaviour no run checks: a top-up settled while a starting pod is between 006 and
009 has no window, which `grantWindow` reads as a permanent grant (`perpetual`).

Fairness: weak on the steps of a handler, which runs until it returns, and strong
on the delivery of each settled and unacknowledged invoice, since BTCPay goes on
delivering and other requests may occupy the slots now and then, not for ever.

### Lightning

`Lightning.cfg`: two owners with a wallet each, two names, two slots, three claims
or changes of settings, one callback, one transfer, revocation or change of
primary. Three writes are what it takes to set a name up, configure it and
reconfigure or inherit it; the second slot is what happens in the middle of
another request. Names and owners are told apart by their wallets, so there is no
symmetry (which the liveness property would not admit either).

| Property | What it says |
|---|---|
| `WalletsOfTheLineage` | the wallets of a name belong to somebody who owned it or a name its settings come from, unless the copy was raced; a mode that needs a wallet has one |
| `ErrorsOfThisWallet` | an error count is about the wallet beside it, unless that was changed while another was asked |
| `CallbackEnds` | a callback ends whatever its wallet does |

Fairness: weak on `Handle`, the steps a handler takes by itself, its thirty-second
timer included; wallets, providers and clients need do nothing. `CallbackEnds`
stops at the proxy step: `http.Get` (`lnurlp.go:236`) has no timeout, and there the
code may indeed wait for ever.

`LightningPaysTheOwner.cfg` refutes `PaysTheOwner`: after a transfer a name draws on
the wallet of its former owner until the new one writes settings.

### InvoiceCall

`InvoiceCall.cfg` has the constants of the code: a budget of 15 s, attempts of 7 s,
a wait of half a second, three attempts, in ticks of half a second, and a caller
that asks three times. Every instant at which BTCPay answers, refuses or is given
up on, to half a second, is a behaviour.

| Property | What it says |
|---|---|
| `OneInvoice` | at most one invoice exists, whatever is retried and by whom |
| `RetryableMintedNothing` | "try again" is said only when no invoice exists and none is on its way |
| `WholeAttempts` | no attempt begins that the budget would cut short |
| `InBudget` | a call without an invoice ends within the budget, one with an invoice a payment methods call later |
| `CallReturns` | a call returns whatever BTCPay does |

`RetryableMintedNothing` rests on what `client.go:178-182` reports as measured, that
a refused create makes nothing (`Refuse`). Fairness: time passes, contexts that end
are noticed, and the timer of the wait fires; BTCPay and the caller need do
nothing.

`InvoiceCallAnswersInTime.cfg` refutes `AnswersInTime`: the payment methods call has
a deadline of its own, so an answer may come seven seconds after a budget that
already equals the server's `WriteTimeout`, and is not written.

### Quota

`Quota.cfg`: two pubkeys that may be in either or both of two tenants from the
start and have one unit stored each (`StartUsage`), one service, two slots, sizes of
one, limits 0 (unlimited) and 1, a default of two for the named and one for the
others, grants of one, two uploads or releases, two edits (an expiry is one), one fault. What is stored
at the start lets a member bring usage into a pool without an upload of its own, so
that both uploads and both edits are left for the race: two uploads for the last
unit, or an upload with two edits between its queries (a grant and a membership
between two sums, a name and an override between two reads, a grant that comes and
expires during the call), a change and its undoing, or a pod start beside a change; two tenants make `LIMIT 1` a choice.
Pubkeys, tenants and slots are symmetric. The bounds reach every case of `Misled`,
`Generous` and every other excuse: without any one of them TLC finds `OverOnlyIfExcused`
violated at these bounds. (A name that is won counts as one that is lost, because
nothing says which of the two defaults is the larger, or unlimited.)

| Property | What it says |
|---|---|
| `TypeOK` | shapes, and no usage is negative in whatever order reports arrive |
| `OverOnlyIfExcused` | an account is over its limit only if it was to begin with, an edit put it there, or an upload it counts was judged by another account or by a number that got worse before the step that rested on it |
| `UsageCoversStored` | once no report is under way, a pubkey is charged for no less than is stored for it, unless a report was lost or a release repeated |

`OverOnlyIfExcused` is the most the code can promise: the check reserves nothing and
its queries share no snapshot. What it excludes is a wrong sum or comparison, an
upload that is allowed on current numbers and does not fit, and any harm from changes
that go the other way, or from changes before the query that reads what they change.
The excuse ends when the account is no longer over and no upload judged by it is
under way, so one race does not excuse an account for good.

Deadlock is not checked in these runs either: behaviours end at the bounds.

## Proofs

### AddressRegistry

`AddressRegistry_proofs` proves, for every value of the constants that satisfies
`RegistryConstants`, each property of the main run.

* `TypeCorrect` uses the inductive invariant `TInv`: `TypeOK` and, per request,
  that it has the name and the pubkey its step needs.
* `HistoryNamesOwner` uses `HistoryInv`, which adds that an active row has an
  owner. It does not depend on flags, locks or the order of anything: each
  write that sets the owner opens the interval in the same transaction.
* `FlagsHold` is the deep one. Its invariant `FlagInv` says in `Ready(req[s])`
  what a request still knows after its SELECTs about a pubkey that never lost an
  address: nobody can have taken the addresses it saw, so a count that was zero
  may have grown, but then the one-primary index refuses the insert, and a count
  that was positive is still positive. The frame lemmas (`Writers`,
  `InsertFrame`, `MoveFrame`, `DeactivateFrame`, `FlagFrame`, `HeirFrame`,
  `BackfillFrame`) say once what each write leaves alone, and the proof has one
  step per action.
* `AutoAssignedLast` and `ClaimedNameTakesOver` follow from `FlagInv` and the
  lemma that only an insert brings a name into being (`BornByInsert`).
* `RegistryImplementsNameBook` shows that every step maps to a step of `NameBook`
  or to a stutter.

`AddressRegistryApart_proofs` adds the two properties that need less concurrency.
A restriction is
a condition on the steps of `Next`, so both specifications are subsets of the
behaviours of `Spec` and the frame lemmas serve again.

* `OpenIntervalIsCurrent` is about `ApartSpec`: no two transfers of one name overlap,
  everything else races as it likes. Its invariant `OwnInv` says that a transfer
  under way moves the name from the pubkey that still owns it (`FromOwner`). That is
  what closing "the owner that was read" needs, and what a second transfer of the
  same name breaks. A revocation needs nothing: it only closes.
* `PrimaryWhenCalm` is about `CalmSpec`: removals stay apart, and no transfer of an
  address to its own owner. `CalmInv` adds to `HasPrimary` that what a request about
  to write has read is still so (`UpToDate`: the owner, the flag, whether the source
  keeps other addresses, whether the recipient has any) and what it was asked
  (`Asked`: a caller transfers its own primary, to somebody else). The last is why the
  code's own check in `transferAddress` is enough for users and an administrator's
  transfer needs `NoSelfTransfer`. `RemovalRests` shows that nothing a
  transfer or revocation read can change while it rests, not even by a pod start,
  since a backfill finds nothing to do (`NothingToBackfill`); `NobodyLoses`, that
  while a request waits to insert or to set a flag nobody loses an address, so a
  count that was positive still is; `SourceKeepsPrimary` is the promotion of an heir.
  A claim that races another needs no restriction: a count of zero that has grown
  makes two primaries, which the index refuses.

### Purchase

`Purchase_proofs` proves, from `PurchaseConstants`:

* `PurchaseTypeCorrect`, by the inductive invariant `TInv`. Beyond `TypeOK` it
  says what the record type of a request leaves out (`GoodRequest`: a purchase
  has a buyer and a name and its discount is at most the price; `Delivered`: a
  delivery is of a settled invoice) and that a minted invoice names its buyer.
  Without the discount bound an invoice's amount might be negative; without
  `Delivered` the webhook might credit nobody. There is a lemma per action, over
  frame lemmas for the tables the action leaves alone and for the ways a request
  goes on (`OneRequest`, `Goes`, `Ends`, `GivesUp`).
* `AckedIsResolved`, by `AckInv`: a delivery about to answer 200 has resolved its
  invoice. It is inductive because `named` and `credited` only grow; every step
  but the webhook's own is `Quiet`.

* `CreditLedgerBalances` and `PayoutsAreCovered`, both by `LedgerInv`. The property
  is not inductive: it is an equation that holds of pubkeys outside `short` and says
  nothing of the others, while the bound on payouts is about everybody. `LedgerInv`
  states both at once, per pubkey: what it has, withdrew, spent, holds in requests and
  gave as discounts (`Wealth` and `Discounts`) is at most its `Income`, with equality
  unless it is in `short`; and credited invoices are settled, so that a credit is
  counted on both sides. A failure only ever lowers the left-hand side. There is one
  lemma per action (`DeductBalanced`, `MintBalanced`, `DeliveryBalanced`, ...), over
  lemmas that say how each of the sums moves (`HeldMoves`, `DiscountMoves`,
  `IncomeMoves`). A grant adds to `Income` and to the balance alike
  (`granted`); one under an invoice's id also takes the invoice out of what deliveries
  repay (`byHand`, `Repaid`).
* `PurchaseKeepsNameBook`: every step of a purchase, a delivery or a failure is a step
  of `NameBook` or leaves it alone.

The sums are `SumFunctionOnSet` of the community modules, a recursive function on the
subsets of a finite set. `SumTheorems` proves what the ledger needs of it: that it
unfolds (`SumUnfolds`), and what it becomes when one summand changes (`SumChanges`,
`SumStays`). The library states induction with an operator for the predicate, which
the provers cannot instantiate, so `SubsetInduction` states it with a set and rests
on the least number of a set of naturals (`LeastNatural`). The theorems assume that
there are finitely many buyers, requests and invoices (`PurchaseConstants`).

`PaidIsResolved` is liveness and model-checked only.

### ProductSettlement

`ProductSettlement_proofs`, from `SettlementConstants`:

* `SettlementTypeCorrect`, by `TInv`, which adds to the types that a settlement is
  `Backed`: by a settled invoice for its product, or by a free product.
* `GrantedOnce`, by `OnceInv`: where no two settlements found a reference ungranted
  at once, at most one is at work on it (`Sole`) and none of what it still has to
  insert is there (`Fresh`). Every step but the settlement's own is `Quiet`.
* `GrantedIsPaidFor` and `AckedOnlyGranted`, by `PaidInv`: a running settlement has
  inserted what is no longer in its `todo` (`Inserted`), and a reference with a grant
  is complete, torn or being worked on (`Whole`).

`PaidIsGranted` is liveness and model-checked only.

### Lightning

`Lightning_proofs`, from `LightningConstants` and `ChoicesAreUpdates`:

* `LightningTypeCorrect`, by `TInv` (a request has what its step needs).
* `WalletsStayInTheLineage`. A write is by row id, so its invariant says what a
  request under way may count on (`BackedAll`): the wallets a request is about to
  write are of the lineage of the row it will write, whoever holds that name by
  then. Lineages only grow, which is why a stale request stays backed
  (`BackedGrows`); `Fresh`, `Held` and `Primaries` tie the rows, the holders and the
  primaries to the lineage.
* `ErrorsAreOfThisWallet`, by `ErrInv`: a callback that may write an error asks the
  wallet of the row, or the row was swapped under it (`AsksTheRow`).

* `LightningKeepsNameBook`: claims, transfers and revocations are steps of `NameBook`.

`CallbackEnds` is liveness and model-checked only.

### InvoiceCall

`InvoiceCall_proofs` proves all five safety properties from one inductive invariant,
`IInv`, for every budget, attempt length, wait and cap of which the first attempt
fits the budget (`InvoiceCallConstants`): `Quiet` says when nothing can be under way
at BTCPay, `InTime` where the clock is in what is waited for and where that is in
the budget. `CallReturns` is model-checked only.

### Quota

`Quota_proofs`, from `QuotaConstants`, which say that pubkeys, services and slots are
finite in number, and with `SumTheorems` for the sums:

* `QuotaTypeCorrect`: usage never goes below zero, and an upload at each query has the
  account and the limit that query works with (`Working`, `Sound`). There is a lemma
  per query that says what it leaves in the report (`ReadTenantIs`, ..., `ReadSumIs`).
* `StoredIsCharged`, by `Covered`: for every pubkey and service whose reports were
  neither lost nor repeated, usage and what reports under way will still add (`Due`)
  are no less than what is stored. The clamp at zero only raises usage, and a retry
  after a lost answer only adds, so the inequality is the most that is inductive.
* `OnlyExcusedAreOver`, by `Judged`. That an unexcused account is not over its limit is
  not inductive: an upload that passed the check is reported later. `Fine` adds what
  the queries found, query by query: of an account without an excuse, `is_named` is
  still what was read, the limit read is no looser than the one that stands, a pool's
  usage no more and a pubkey's grants no fewer than the first sum counted, and an upload
  about to be reported still fits. So the two sums give at most the room there is when
  the second is taken (`JudgeJudged`), although their numbers may never have held
  together. An edit, report or membership that breaks this is one after which the
  account is excused (`StaysFine`), a sum of grants that is too good excuses at once
  (`SeenIsInt`), and a release never needs an excuse.

### What is only model-checked

`PaidIsResolved`, `PaidIsGranted`, `CallbackEnds` and `CallReturns` are liveness under
fairness, which TLAPS cannot prove; the four refuted statements are counterexamples of
TLC. Every invariant and action property of the passing runs is a theorem for every
value of the constants, `HasPrimary` and `OpenIntervalMeansOwned` for the
specifications named above.

## Not modelled

The purchase status page is read-only and has no action. It derives what it shows
from who holds the name now, so a purchase that was credited because the name had
been issued is shown as processing once that name is revoked.

Changes of the prices of names, which an administrator makes and a purchase reads once
(`ReadPrice`); an invoice keeps the price it was minted at.

The audit log, the users row every writer upserts, and columns no decision reads
(verified, ban_reason, display_name); of a withdrawal, everything after the
request, which no code of the repository does yet. Of the LNURL protocol, its
first answer (a read of the same row), the amount limits and comments, and the
length of what a wallet answers (`lnurlp.go:452` slices a payment hash). Of the
quota, the tier functions, which are reads, sums over a negative tenant limit,
which `adminSetTenantQuota` lets through (`tenant.go:177`) and which a grant can
bring to the 0 that means unlimited, and the reconciler a comment mentions, which
is not in the repository. A failed copy of lightning settings aborts its
registration; that is `Drops` of a claim. `PROJECT.json` lists the components
without a module with the reason: lookups are read-only, the authentication is a
function of one signed event and the clock, the rest of the administration is
single statements, and crypto, configuration and metrics have no state another
step could change.

## Plan

What is left, the most important first.

1. `Withdrawals`: the request, its status updates and `RefundFailedWithdrawal`,
   once a caller fixes the order in which they run.
2. Proofs: `HasPrimary` where removals stay apart only from requests about the same
   pubkeys.
3. `Quota` with a reconciler that replaces a component, when a service brings one.
4. The edges of the authentication's time window, as a function of the event's and
   the server's clocks.
5. Invites and domains of the administration.
