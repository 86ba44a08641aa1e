--------------------------- MODULE AddressRegistry ---------------------------
(***************************************************************************)
(* The name registry of cloistr-me: the tables `addresses`,                *)
(* `address_ownership` and `reserved_usernames`, and every transaction of  *)
(* the service that writes them.                                           *)
(*                                                                         *)
(* A transaction runs at READ COMMITTED.  Each SELECT that a transaction   *)
(* decides on is an action of its own and reads the committed tables; what *)
(* it saw is kept in the session's request.  The statements that write,    *)
(* and COMMIT, are one action on the committed tables: PostgreSQL makes a  *)
(* writer wait for an uncommitted writer of the same row or index key and  *)
(* then continue on what was committed, which is the same as writing       *)
(* later.  A write that would break a unique index fails and the           *)
(* transaction rolls back.  AdminRevokeAddress writes before it reads, so  *)
(* its row lock is modelled (LockedByOthers).                              *)
(*                                                                         *)
(* A name stands for one (username, domain) pair.  Auto-assigned names     *)
(* have a shape of their own that the purchase path refuses, hence two     *)
(* disjoint sets.  The users row that every writer upserts first, the      *)
(* audit row the administrative writers add, and the lightning settings a  *)
(* second address inherits are left out.                                   *)
(***************************************************************************)
EXTENDS Naturals, FiniteSets

CONSTANTS
  Pubkeys,    \* the identities that can own an address
  RealNames,  \* names a user can claim
  AutoNames,  \* names of the auto-assigned shape (adjective-noun-NNNN)
  Reservable, \* names an administrator reserves
  Sessions,   \* the requests the service can have in flight at once
  MaxRequests,\* bound on the requests of a behaviour
  Nobody,     \* no pubkey
  NoName      \* no name

Names == RealNames \cup AutoNames

ASSUME RegistryConstants ==
  /\ Nobody \notin Pubkeys
  /\ NoName \notin Names
  /\ RealNames \cap AutoNames = {}
  /\ Reservable \subseteq Names
  /\ MaxRequests \in Nat

VARIABLES
  rows,      \* addresses: the row of each name, Blank when there is none
  open,      \* address_ownership: the pubkeys with an open interval per name
  reserved,  \* reserved_usernames: the Reservation of each name
  cooling,   \* names whose last_transfer_at is less than 7 days old
  req,       \* the request each session is serving
  begun,     \* how many requests began, at most MaxRequests
  lost       \* history: the pubkeys that lost an active address once

vars == <<rows, open, reserved, cooling, req, begun, lost>>
tables == <<rows, open, reserved, cooling, lost>>

-----------------------------------------------------------------------------
(* Rows and requests.                                                       *)

Row == [owner : Pubkeys \cup {Nobody}, active : BOOLEAN,
        primary : BOOLEAN, nip05 : BOOLEAN]

Blank == [owner |-> Nobody, active |-> FALSE, primary |-> FALSE, nip05 |-> FALSE]

Ops == {"idle", "register", "ensure", "provision", "grant", "transfer",
        "adminTransfer", "revoke", "setPrimary", "setNIP05"}

\* What a session does next.
Steps == {"idle", "readPrimary", "countActive", "generate", "checkTaken",
          "checkReserved", "count", "insert", "lookup", "countOthers",
          "countTarget", "move", "lock", "deactivate", "setFlag", "readBack",
          "answered"}

\* One request: its parameters (op, name, who, and the caller of a transfer),
\* where it is (step), and what its SELECTs returned: the owner and the flags of
\* the row (from, wasPrimary, wasNIP05), whether the source pubkey keeps other
\* active addresses (others), whether the recipient has none (first), and
\* whether the new name takes over from an auto-assigned one (promote).
Request == [op : Ops, step : Steps, name : Names \cup {NoName},
            who : Pubkeys \cup {Nobody}, caller : Pubkeys \cup {Nobody},
            from : Pubkeys \cup {Nobody},
            wasPrimary : BOOLEAN, wasNIP05 : BOOLEAN, others : BOOLEAN,
            first : BOOLEAN, promote : BOOLEAN]

\* reserved_usernames: no row, a row for nobody, a row held for a pubkey.
Reservation == {"none", "blocked"} \cup Pubkeys

Idle == [op |-> "idle", step |-> "idle", name |-> NoName, who |-> Nobody,
         caller |-> Nobody, from |-> Nobody, wasPrimary |-> FALSE, wasNIP05 |-> FALSE,
         others |-> FALSE, first |-> FALSE, promote |-> FALSE]

\* Mutant: only active rows count.
ExistsActive(n) == rows[n].active

\* The name has a row, active or not.
Exists(n) == rows[n].owner # Nobody
ActiveOf(p) == {n \in Names : rows[n].owner = p /\ rows[n].active}
PrimaryOf(p) == {n \in ActiveOf(p) : rows[n].primary}

\* is_username_available: no active row of that name, and the name is not
\* blocked; a name held for a pubkey is available to anybody.
Available(n) == ~rows[n].active /\ reserved[n] # "blocked"

\* idx_addresses_one_primary and idx_addresses_one_nip05: neither index looks
\* at `active`, so the row of a revoked name still holds its entry.
UniqueFlags(r) ==
  \A m, n \in Names :
    m # n /\ r[m].owner = r[n].owner /\ r[m].owner # Nobody =>
      ~(r[m].primary /\ r[n].primary) /\ ~(r[m].nip05 /\ r[n].nip05)

Init ==
  /\ rows = [n \in Names |-> Blank]
  /\ open = [n \in Names |-> {}]
  /\ reserved = [n \in Names |-> "none"]
  /\ cooling = {}
  /\ req = [s \in Sessions |-> Idle]
  /\ begun = 0
  /\ lost = {}

-----------------------------------------------------------------------------
(* Control of a session.                                                    *)

At(s, step) == req[s].step = step
Goto(s, step) == req' = [req EXCEPT ![s].step = step]
End(s) == req' = [req EXCEPT ![s] = Idle]

\* AtomicRegisterAddress is over, with or without an address: a purchase hands
\* the outcome to its caller, an ensure reads the primary back in any case.
AfterRegister(s) == IF req[s].op = "ensure" THEN Goto(s, "readBack") ELSE End(s)

\* The names whose row an AdminRevokeAddress of another session has updated
\* and not yet committed.
LockedByOthers(s) ==
  {req[t].name : t \in {u \in Sessions \ {s} :
     req[u].op = "revoke" /\ req[u].step \in {"countOthers", "deactivate"}}}

\* The write phase can take the table to r: it waits for no row lock and breaks
\* no unique index.
Unlocked(s, r) == \A n \in LockedByOthers(s) : r[n] = rows[n]
Writable(s, r) == Unlocked(s, r) /\ UniqueFlags(r)

\* The write phase fails on a unique index.
Conflict(s, r) == Unlocked(s, r) /\ ~UniqueFlags(r)

\* A request with parameters q arrives.
Begin(s, q) ==
  /\ At(s, "idle")
  /\ begun < MaxRequests
  /\ begun' = begun + 1
  /\ req' = [req EXCEPT ![s] = q]
  /\ UNCHANGED tables

Ask(op, step, n, p) ==
  [Idle EXCEPT !.op = op, !.step = step, !.name = n, !.who = p]

EnsureSteps == {"countActive", "generate", "checkTaken", "checkReserved",
                "count", "insert"}

\* The process or its connection dies, the context is cancelled, PostgreSQL
\* aborts the transaction: it rolls back.  A failed EnsureAutoAddress is not
\* fatal to an ensure, which reads the primary back.
Fail(s) ==
  /\ ~At(s, "idle")
  /\ \/ End(s)
     \/ req[s].op = "ensure" /\ req[s].step \in EnsureSteps /\ Goto(s, "readBack")
  /\ UNCHANGED <<tables, begun>>

-----------------------------------------------------------------------------
(* Registering a name: AtomicRegisterAddress, for a claimed name (op        *)
(* "register") and inside EnsureAutoAddress (ops "ensure", "provision"),    *)
(* and AdminGrantAddress.                                                   *)

\* A paid or free claim of a name, from the webhook or createPurchaseInvoice.
BeginRegister(s) ==
  \E n \in RealNames, p \in Pubkeys : Begin(s, Ask("register", "checkTaken", n, p))

\* GET /addresses/me and POST /internal/v1/addresses/ensure.
BeginEnsure(s) == \E p \in Pubkeys : Begin(s, Ask("ensure", "readPrimary", NoName, p))

\* The goroutine nip98AuthMiddleware starts behind every other request.
BeginProvision(s) == \E p \in Pubkeys : Begin(s, Ask("provision", "countActive", NoName, p))

BeginGrant(s) ==
  \E n \in RealNames, p \in Pubkeys : Begin(s, Ask("grant", "count", n, p))

\* ensurePrimaryAddress: answer with the primary if there is one.
ReadPrimary(s) ==
  /\ req[s].op = "ensure" /\ At(s, "readPrimary")
  /\ \/ \E n \in PrimaryOf(req[s].who) :
          req' = [req EXCEPT ![s].step = "answered", ![s].name = n]
     \/ PrimaryOf(req[s].who) = {} /\ Goto(s, "countActive")
  /\ UNCHANGED <<tables, begun>>

\* EnsureAutoAddress does nothing for a pubkey with an active address.
CountActive(s) ==
  /\ At(s, "countActive")
  /\ IF ActiveOf(req[s].who) = {} THEN Goto(s, "generate") ELSE AfterRegister(s)
  /\ UNCHANGED <<tables, begun>>

\* username.Generate: some candidate that is_username_available accepted.
Generate(s) ==
  /\ At(s, "generate")
  /\ \E n \in {m \in AutoNames : Available(m)} :
       req' = [req EXCEPT ![s].step = "checkTaken", ![s].name = n]
  /\ UNCHANGED <<tables, begun>>

CheckTaken(s) ==
  /\ At(s, "checkTaken")
  /\ IF rows[req[s].name].active THEN AfterRegister(s) ELSE Goto(s, "checkReserved")
  /\ UNCHANGED <<tables, begun>>

\* Any row reserves the name, also one held for the pubkey that claims it.
ReservedFrom(p, n) == reserved[n] # "none"

CheckReserved(s) ==
  /\ At(s, "checkReserved")
  /\ IF ReservedFrom(req[s].who, req[s].name) THEN AfterRegister(s) ELSE Goto(s, "count")
  /\ UNCHANGED <<tables, begun>>

\* Mutant: no second count inside the transaction.
AutoNeverRefused(q) == FALSE

\* An auto-assigned address is only for a pubkey with none.
AutoRefused(q) == q.name \in AutoNames /\ ActiveOf(q.who) # {}

\* Mutant: the auto-assigned addresses are not told apart from claimed ones.
TakesOverNothing(q) == q.op = "register" /\ ActiveOf(q.who) = {}

\* A claimed name takes over when every active address of the pubkey is
\* auto-assigned.  A grant never takes over.
TakesOver(q) ==
  q.op = "register" /\ ActiveOf(q.who) # {} /\ ActiveOf(q.who) \subseteq AutoNames

CountExisting(s) ==
  /\ At(s, "count")
  /\ LET q == req[s]
     IN  IF AutoRefused(q) THEN AfterRegister(s)
         ELSE req' = [req EXCEPT ![s].step = "insert",
                                 ![s].first = (ActiveOf(q.who) = {}),
                                 ![s].promote = TakesOver(q)]
  /\ UNCHANGED <<tables, begun>>

\* The active flagged addresses of the pubkey lose their flags to the new one.
Demoted(q) ==
  [m \in Names |-> IF q.promote /\ rows[m].owner = q.who /\ rows[m].active
                   THEN [rows[m] EXCEPT !.primary = FALSE, !.nip05 = FALSE]
                   ELSE rows[m]]

\* Mutant: the incumbent is demoted and nothing takes its place.
MakePrimaryIfFirst(q) == q.first

\* makePrimary.
MakePrimary(q) == q.first \/ q.promote

\* The table after the INSERT of session s.
Inserted(s) ==
  LET q == req[s]
  IN  [Demoted(q) EXCEPT ![q.name] =
         [owner |-> q.who, active |-> TRUE,
          primary |-> MakePrimary(q), nip05 |-> MakePrimary(q)]]

\* Demote, INSERT, openOwnership, COMMIT.
Insert(s) ==
  LET q == req[s]
  IN  /\ At(s, "insert")
      /\ ~Exists(q.name)
      /\ Writable(s, Inserted(s))
      /\ rows' = Inserted(s)
      /\ open' = [open EXCEPT ![q.name] = @ \cup {q.who}]
      /\ AfterRegister(s)
      /\ UNCHANGED <<reserved, cooling, lost, begun>>

\* addresses_unique_username covers inactive rows too; a conflict on any of the
\* three indexes is an error.
InsertConflict(s) ==
  /\ At(s, "insert")
  /\ Exists(req[s].name) \/ Conflict(s, Inserted(s))
  /\ AfterRegister(s)
  /\ UNCHANGED <<tables, begun>>

\* ensurePrimaryAddress answers with what it reads back, possibly nothing.
ReadBack(s) ==
  /\ At(s, "readBack")
  /\ \/ \E n \in PrimaryOf(req[s].who) :
          req' = [req EXCEPT ![s].step = "answered", ![s].name = n]
     \/ /\ PrimaryOf(req[s].who) = {}
        /\ req' = [req EXCEPT ![s].step = "answered", ![s].name = NoName]
  /\ UNCHANGED <<tables, begun>>

Answer(s) == At(s, "answered") /\ End(s) /\ UNCHANGED <<tables, begun>>

-----------------------------------------------------------------------------
(* Moving a name: transferAddress with TransferAddress (op "transfer"), and  *)
(* AdminTransferAddress (op "adminTransfer"), which does not look at         *)
(* `active`.                                                                 *)

\* POST /addresses/transfer: the caller gives up its primary address.
BeginTransfer(s) ==
  \E p \in Pubkeys : \E to \in Pubkeys \ {p} :
    Begin(s, [Ask("transfer", "readPrimary", NoName, to) EXCEPT !.caller = p])

\* GetPrimaryAddressByPubkey does not select last_transfer_at: the row in hand
\* never shows a transfer, whatever the table holds.
CooldownShown(n) == FALSE

ReadOwnPrimary(s) ==
  /\ req[s].op = "transfer" /\ At(s, "readPrimary")
  /\ \/ \E n \in PrimaryOf(req[s].caller) :
          /\ ~CooldownShown(n)
          /\ req' = [req EXCEPT ![s].step = "lookup", ![s].name = n]
     \/ /\ \A n \in PrimaryOf(req[s].caller) : CooldownShown(n)
        /\ End(s)
  /\ UNCHANGED <<tables, begun>>

BeginAdminTransfer(s) ==
  \E n \in Names, p \in Pubkeys : Begin(s, Ask("adminTransfer", "lookup", n, p))

\* Mutant: sql.ErrNoRows is not handled.
ReadAnyRow(s) ==
  LET row == rows[req[s].name]
  IN  req' = [req EXCEPT ![s].step = "countOthers", ![s].from = row.owner,
                ![s].wasPrimary = row.primary, ![s].wasNIP05 = row.nip05]

\* ErrNotFound, or the row's owner and flags.
ReadRow(s) ==
  LET row == rows[req[s].name]
  IN  IF ~Exists(req[s].name) THEN End(s)
      ELSE req' = [req EXCEPT ![s].step = "countOthers", ![s].from = row.owner,
                     ![s].wasPrimary = row.primary, ![s].wasNIP05 = row.nip05]

\* Neither transfer locks the row it reads.
LookupRow(s) ==
  /\ req[s].op \in {"transfer", "adminTransfer"} /\ At(s, "lookup")
  /\ ReadRow(s)
  /\ UNCHANGED <<tables, begun>>

\* A revocation counts once per flag it has to hand on; here the two counts are
\* one.
CountOthers(s) ==
  /\ At(s, "countOthers")
  /\ req' = [req EXCEPT
       ![s].step = IF req[s].op = "revoke" THEN "deactivate" ELSE "countTarget",
       ![s].others = (ActiveOf(req[s].from) \ {req[s].name} # {})]
  /\ UNCHANGED <<tables, begun>>

CountTarget(s) ==
  /\ At(s, "countTarget")
  /\ req' = [req EXCEPT ![s].step = "move", ![s].first = (ActiveOf(req[s].who) = {})]
  /\ UNCHANGED <<tables, begun>>

\* promotePrimaryAddress and promoteNIP05Address: the heir is the oldest other
\* active address of p, by created_at, the time its transaction began; which
\* one that is does not follow from the order of commits, so any will do.
Heirs(r, p, n) == {m \in Names \ {n} : r[m].owner = p /\ r[m].active}

Promoted(r, s, heir) ==
  [r EXCEPT ![heir].primary = @ \/ req[s].wasPrimary,
            ![heir].nip05 = @ \/ req[s].wasNIP05]

\* Mutant: the source's next address is not promoted.
WithoutHeir(s, r) == {r}

\* The tables `r` can become when the promotions of session s, due if the
\* source keeps other addresses, follow.
WithHeir(s, r) ==
  LET heirs == IF req[s].others THEN Heirs(r, req[s].from, req[s].name) ELSE {}
  IN  IF heirs = {} THEN {r} ELSE {Promoted(r, s, h) : h \in heirs}

\* The history variable, when the owner of n loses it.
Losers(n) == lost \cup {p \in Pubkeys : n \in ActiveOf(p)}

Moved(s) ==
  LET q == req[s]
  IN  [rows EXCEPT ![q.name].owner = q.who, ![q.name].primary = q.first,
                   ![q.name].nip05 = q.first]

\* Mutant: the new interval is opened before the old one is closed.
ReassignedEarly(q) == [open EXCEPT ![q.name] = (@ \cup {q.who}) \ {q.from}]

\* Mutant: the old one is left open.
ReassignedOnly(q) == [open EXCEPT ![q.name] = @ \cup {q.who}]

\* closeOwnership for the owner that was read, then openOwnership.
Reassigned(q) == [open EXCEPT ![q.name] = (@ \ {q.from}) \cup {q.who}]

\* UPDATE, promotions, closeOwnership, openOwnership, COMMIT.  The UPDATE names
\* the row by id only.
Move(s) ==
  LET q == req[s]
  IN  /\ At(s, "move")
      /\ q.name \notin LockedByOthers(s)
      /\ \E r \in WithHeir(s, Moved(s)) : Writable(s, r) /\ rows' = r
      /\ open' = Reassigned(q)
      /\ cooling' = cooling \cup {q.name}
      /\ lost' = Losers(q.name)
      /\ End(s)
      /\ UNCHANGED <<reserved, begun>>

MoveConflict(s) ==
  /\ At(s, "move")
  /\ req[s].name \notin LockedByOthers(s)
  /\ \E r \in WithHeir(s, Moved(s)) : Conflict(s, r)
  /\ End(s)
  /\ UNCHANGED <<tables, begun>>

\* Seven days pass.
CooldownElapses(n) ==
  /\ n \in cooling
  /\ cooling' = cooling \ {n}
  /\ UNCHANGED <<rows, open, reserved, lost, req, begun>>

-----------------------------------------------------------------------------
(* Administration: revoking a name, choosing the flagged address, reserving. *)

BeginRevoke(s) == \E n \in Names : Begin(s, Ask("revoke", "lock", n, Nobody))

\* The UPDATE that clears `active` comes first and returns owner and flags; the
\* row stays locked, and the change unseen, until COMMIT.
LockRow(s) ==
  /\ At(s, "lock")
  /\ req[s].name \notin LockedByOthers(s)
  /\ ReadRow(s)
  /\ UNCHANGED <<tables, begun>>

\* The revoked row keeps is_primary and nip05_active.
Deactivated(s) == [rows EXCEPT ![req[s].name].active = FALSE]

\* closeOwnership, promotions, audit row, COMMIT.
Deactivate(s) ==
  LET q == req[s]
  IN  /\ At(s, "deactivate")
      /\ \E r \in WithHeir(s, Deactivated(s)) : Writable(s, r) /\ rows' = r
      /\ open' = [open EXCEPT ![q.name] = @ \ {q.from}]
      /\ lost' = Losers(q.name)
      /\ End(s)
      /\ UNCHANGED <<reserved, cooling, begun>>

DeactivateConflict(s) ==
  /\ At(s, "deactivate")
  /\ \E r \in WithHeir(s, Deactivated(s)) : Conflict(s, r)
  /\ End(s)
  /\ UNCHANGED <<tables, begun>>

BeginSetPrimary(s) ==
  \E n \in Names, p \in Pubkeys : Begin(s, Ask("setPrimary", "lookup", n, p))

BeginSetNIP05(s) ==
  \E n \in Names, p \in Pubkeys : Begin(s, Ask("setNIP05", "lookup", n, p))

\* The address must be active and belong to the pubkey, when it is read.
LookupFlagged(s) ==
  /\ req[s].op \in {"setPrimary", "setNIP05"} /\ At(s, "lookup")
  /\ IF req[s].name \in ActiveOf(req[s].who) THEN Goto(s, "setFlag") ELSE End(s)
  /\ UNCHANGED <<tables, begun>>

\* Unset the flag on every row of the pubkey, set it on the row by id.
Flagged(s) ==
  LET q == req[s]
  IN  IF q.op = "setPrimary"
      THEN [m \in Names |-> [rows[m] EXCEPT
              !.primary = m = q.name \/ (@ /\ rows[m].owner # q.who)]]
      ELSE [m \in Names |-> [rows[m] EXCEPT
              !.nip05 = m = q.name \/ (@ /\ rows[m].owner # q.who)]]

SetFlag(s) ==
  /\ At(s, "setFlag")
  /\ Writable(s, Flagged(s))
  /\ rows' = Flagged(s)
  /\ End(s)
  /\ UNCHANGED <<open, reserved, cooling, lost, begun>>

SetFlagConflict(s) ==
  /\ At(s, "setFlag")
  /\ Conflict(s, Flagged(s))
  /\ End(s)
  /\ UNCHANGED <<tables, begun>>

\* AddReserved upserts the reservation, blocked or held for a pubkey.
AddReserved(n) ==
  /\ \E kind \in Reservation \ {"none"} : reserved' = [reserved EXCEPT ![n] = kind]
  /\ UNCHANGED <<rows, open, cooling, lost, req, begun>>

RemoveReserved(n) ==
  /\ reserved[n] # "none"
  /\ reserved' = [reserved EXCEPT ![n] = "none"]
  /\ UNCHANGED <<rows, open, cooling, lost, req, begun>>

\* Migration 005, re-applied on every pod start: each pubkey with an active
\* address and no row at all with the flag gets it on its smallest active id.
\* Ids do not order rows as commits do, so any active address will do.
Unflagged(flagged) ==
  {p \in Pubkeys : ActiveOf(p) # {} /\ \A n \in flagged : rows[n].owner # p}

\* One active address of each of those pubkeys.
Picks(flagged) ==
  {pick \in [Unflagged(flagged) -> Names] :
     \A p \in Unflagged(flagged) : pick[p] \in ActiveOf(p)}

BackfillPrimary ==
  /\ \E pick \in Picks({n \in Names : rows[n].primary}) :
       rows' = [n \in Names |-> [rows[n] EXCEPT
                  !.primary = @ \/ \E p \in DOMAIN pick : n = pick[p]]]
  /\ \A s \in Sessions : Unlocked(s, rows')
  /\ UNCHANGED <<open, reserved, cooling, lost, req, begun>>

BackfillNIP05 ==
  /\ \E pick \in Picks({n \in Names : rows[n].nip05}) :
       rows' = [n \in Names |-> [rows[n] EXCEPT
                  !.nip05 = @ \/ \E p \in DOMAIN pick : n = pick[p]]]
  /\ \A s \in Sessions : Unlocked(s, rows')
  /\ UNCHANGED <<open, reserved, cooling, lost, req, begun>>

-----------------------------------------------------------------------------

Register(s) ==
  \/ BeginRegister(s) \/ BeginEnsure(s) \/ BeginProvision(s) \/ BeginGrant(s)
  \/ ReadPrimary(s) \/ CountActive(s) \/ Generate(s) \/ CheckTaken(s)
  \/ CheckReserved(s) \/ CountExisting(s) \/ Insert(s) \/ InsertConflict(s)
  \/ ReadBack(s) \/ Answer(s)

Transfer(s) ==
  \/ BeginTransfer(s) \/ ReadOwnPrimary(s) \/ BeginAdminTransfer(s) \/ LookupRow(s)
  \/ CountOthers(s) \/ CountTarget(s) \/ Move(s) \/ MoveConflict(s)

Administer(s) ==
  \/ BeginRevoke(s) \/ LockRow(s) \/ Deactivate(s) \/ DeactivateConflict(s)
  \/ BeginSetPrimary(s) \/ BeginSetNIP05(s) \/ LookupFlagged(s)
  \/ SetFlag(s) \/ SetFlagConflict(s)

Next ==
  \/ \E s \in Sessions : Register(s) \/ Transfer(s) \/ Administer(s) \/ Fail(s)
  \/ \E n \in Reservable : AddReserved(n) \/ RemoveReserved(n)
  \/ \E n \in Names : CooldownElapses(n)
  \/ BackfillPrimary \/ BackfillNIP05

Spec == Init /\ [][Next]_vars

-----------------------------------------------------------------------------
(* Less concurrent behaviours, of which more is true.                       *)

\* A transfer that has read the row it moves.
Moving(s) ==
  req[s].op # "revoke" /\ req[s].step \in {"countOthers", "countTarget", "move"}

\* No two transfers of one name overlap.
TransfersApart ==
  \A s, t \in Sessions : s # t /\ Moving(s) /\ Moving(t) => req[s].name # req[t].name

ApartSpec == Init /\ [][Next /\ TransfersApart']_vars

\* A transfer or revocation that relies on what it read: the caller's primary,
\* the row, the counts.
Removing(s) ==
  \/ req[s].step \in {"countOthers", "countTarget", "move", "deactivate"}
  \/ req[s].op = "transfer" /\ req[s].step = "lookup"

\* No transfer or revocation overlaps a request that is about to write on what
\* it read; claims, ensures, grants and flag changes overlap as they like.
RemovalsApart ==
  \A s, t \in Sessions :
    s # t /\ Removing(s) => ~Removing(t) /\ req[t].step \notin {"insert", "setFlag"}

\* An administrator never transfers an address to the pubkey that owns it.
NoSelfTransfer ==
  \A s \in Sessions :
    req'[s].op = "adminTransfer" /\ req'[s].step = "countOthers" =>
      req'[s].from # req'[s].who

CalmSpec == Init /\ [][Next /\ RemovalsApart' /\ NoSelfTransfer]_vars

-----------------------------------------------------------------------------
(* Properties.                                                              *)

\* Every variable holds a value of its table's or request's shape; a
\* transaction that works on a row has found one.
TypeOK ==
  /\ rows \in [Names -> Row]
  /\ open \in [Names -> SUBSET Pubkeys]
  /\ reserved \in [Names -> Reservation]
  /\ cooling \subseteq Names
  /\ req \in [Sessions -> Request]
  /\ \A s \in Sessions :
       req[s].step \in {"countOthers", "countTarget", "move", "deactivate"} =>
         req[s].from \in Pubkeys
  /\ begun \in 0..MaxRequests
  /\ lost \subseteq Pubkeys

\* The ownership history always names the current owner: every active address
\* has an open interval for the pubkey that owns it, so a name resolves in the
\* audit search whatever transfers and revocations raced to move it.
OwnerHasOpenInterval ==
  \A n \in Names : rows[n].active => rows[n].owner \in open[n]

\* A pubkey with an active address has one that is primary and one that
\* answers NIP-05, as long as it never lost an active address: concurrent
\* claims, ensures, grants, incoming transfers and flag changes never leave it
\* without.
FlaggedUnlessLost ==
  \A p \in Pubkeys \ lost :
    ActiveOf(p) # {} => /\ PrimaryOf(p) # {}
                        /\ \E n \in ActiveOf(p) : rows[n].nip05

\* The same for every pubkey, if removals stay apart (CalmSpec): what
\* ensurePrimaryAddress and transferAddress take for granted when they look for
\* the primary.
HasPrimary == \A p \in Pubkeys : ActiveOf(p) # {} => PrimaryOf(p) # {}

\* A pubkey whose interval of a name is open owns it (005_up.sql:51: "NULL = still
\* owned"), if no two transfers of it overlap: however a name is handed on,
\* revoked and backfilled, each transaction closes what the one before opened.
OpenIntervalMeansOwned == \A n \in Names : open[n] \subseteq {rows[n].owner}

\* The address whose row this step inserted.
Born(n) == rows[n].owner = Nobody /\ rows'[n].owner # Nobody

\* An auto-assigned address is only ever given to a pubkey with no active
\* address, however many ensures, claims and incoming transfers race with it
\* (again for a pubkey that never lost one).
AutoOnlyForNameless ==
  [][\A n \in AutoNames :
       Born(n) /\ rows'[n].owner \notin lost => ActiveOf(rows'[n].owner) = {}]_vars

\* The first name a pubkey claims becomes primary and NIP-05, and takes both
\* from the auto-assigned address, which stays active.
ClaimTakesOver ==
  [][\A s \in Sessions, n \in RealNames :
       Born(n) /\ req[s].op = "register" /\ req[s].step = "insert" /\ req[s].name = n
         /\ req'[s] = Idle /\ req[s].who \notin lost
         /\ ActiveOf(req[s].who) \subseteq AutoNames =>
       /\ rows'[n].primary /\ rows'[n].nip05
       /\ \A m \in ActiveOf(req[s].who) :
            rows'[m].active /\ ~rows'[m].primary /\ ~rows'[m].nip05]_vars

\* The registry implements the name book: see NameBook.
Book == INSTANCE NameBook WITH
  issued <- {n \in Names : Exists(n)},
  holder <- [n \in Names |-> IF rows[n].active THEN rows[n].owner ELSE Nobody]

ImplementsNameBook == Book!Spec

=============================================================================
