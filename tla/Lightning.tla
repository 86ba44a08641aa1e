------------------------------- MODULE Lightning -------------------------------
(***************************************************************************)
(* Lightning addresses: the settings each name keeps (address_lightning),   *)
(* the copy a new name inherits from its owner's primary, and the LNURL-pay *)
(* callback that draws an invoice on the wallet behind a name.              *)
(*                                                                          *)
(* The settings hang on the address row and stay with it when the name      *)
(* changes hands.  Writing them takes two statements, one that finds the    *)
(* row and one that upserts; a callback reads them, waits on a wallet for   *)
(* up to half a minute and writes the wallet's health back by row id.       *)
(*                                                                          *)
(* The registry is its abstract specification, NameBook, with the primary   *)
(* of each pubkey beside it.  Wallets stand for what a proxy address or an  *)
(* NWC connection reaches; relay, pubkey and encrypted secret of an NWC     *)
(* connection are written together and are one value.                       *)
(***************************************************************************)
EXTENDS Integers, FiniteSets

CONSTANTS
  Pubkeys,   \* owners of names
  Names,     \* names, each with its address row
  Wallets,   \* what settings can point to
  Keeper,    \* the pubkey each wallet belongs to
  Choices,   \* the changes of settings that are asked for
  Slots,     \* the requests the service can have in flight at once
  Nobody,    \* no pubkey
  NoName,    \* no name
  NoWallet,  \* a NULL column
  MaxWrites, \* bound on claims and changes of settings
  MaxCalls,  \* bound on LNURL callbacks
  MaxMoves   \* bound on transfers, revocations and changes of primary

ASSUME LightningConstants ==
  /\ Keeper \in [Wallets -> Pubkeys]
  /\ Nobody \notin Pubkeys
  /\ NoName \notin Names
  /\ NoWallet \notin Wallets
  /\ MaxWrites \in Nat
  /\ MaxCalls \in Nat
  /\ MaxMoves \in Nat

VARIABLES
  issued,   \* NameBook: the names ever issued
  holder,   \* NameBook: the pubkey each name answers for
  primary,  \* the primary name of each pubkey
  settings, \* address_lightning: the row of each name
  req,      \* the request each slot is serving
  writes, calls, moves, \* how many of each there were
  lineage,  \* history: who owned each name or a name its settings come from
  raced,    \* history: names whose settings come from a primary that was moved meanwhile
  failed,   \* history: the wallets each name saw fail
  swapped   \* history: names given another NWC wallet while one was asked

book == <<issued, holder, primary>>
counts == <<writes, calls, moves>>
history == <<lineage, raced, failed, swapped>>
vars == <<book, settings, req, counts, history>>

Registry == INSTANCE NameBook

-----------------------------------------------------------------------------
(* Shapes.                                                                  *)

Modes == {"proxy", "nwc", "hosted", "disabled"}

\* A row of address_lightning; "none" is no row.
Settings == [mode : Modes \cup {"none"}, proxy : Wallets \cup {NoWallet},
             nwc : Wallets \cup {NoWallet}, errors : Nat, enabled : BOOLEAN]

NoSettings == [mode |-> "none", proxy |-> NoWallet, nwc |-> NoWallet,
               errors |-> 0, enabled |-> FALSE]

\* LightningConfigUpdate, as updateLightningConfig and adminSetLightning let it
\* through: proxy mode has an address and NWC mode a connection; an address may
\* come with any mode.
Updates ==
  {u \in [mode : Modes, proxy : Wallets \cup {NoWallet}, nwc : Wallets \cup {NoWallet}] :
     /\ u.mode = "proxy" => u.proxy # NoWallet
     /\ u.mode = "nwc" <=> u.nwc # NoWallet}

ASSUME ChoicesAreUpdates == Choices \subseteq Updates

NoUpdate == [mode |-> "none", proxy |-> NoWallet, nwc |-> NoWallet]

ToProxy(w) == [mode |-> "proxy", proxy |-> w, nwc |-> NoWallet]

\* A request: a change of settings at "primary", "lookup" and "upsert", a claim
\* at "claim", a callback at the other steps.  source is the primary a claim
\* inherits from, wallet the one a callback asks.
Request == [at : {"idle", "primary", "lookup", "upsert", "claim", "find", "config",
                  "proxy", "wallet", "success", "failure"},
            pubkey : Pubkeys \cup {Nobody}, name : Names \cup {NoName},
            source : Names \cup {NoName}, wallet : Wallets \cup {NoWallet},
            update : Updates \cup {NoUpdate}, nip44 : BOOLEAN]

Idle == [at |-> "idle", pubkey |-> Nobody, name |-> NoName, source |-> NoName,
         wallet |-> NoWallet, update |-> NoUpdate, nip44 |-> TRUE]

Init ==
  /\ issued = {} /\ holder = [n \in Names |-> Nobody]
  /\ primary = [p \in Pubkeys |-> NoName]
  /\ settings = [n \in Names |-> NoSettings]
  /\ req = [s \in Slots |-> Idle]
  /\ writes = 0 /\ calls = 0 /\ moves = 0
  /\ lineage = [n \in Names |-> {}]
  /\ raced = {}
  /\ failed = [n \in Names |-> {}]
  /\ swapped = {}

At(s, step) == req[s].at = step
Goto(s, step) == req' = [req EXCEPT ![s].at = step]
End(s) == req' = [req EXCEPT ![s] = Idle]
Begin(s, q) == At(s, "idle") /\ req' = [req EXCEPT ![s] = q]

-----------------------------------------------------------------------------
(* Changing the settings.                                                   *)

\* updateLightningConfig for the caller's primary.
BeginUpdate(s, p, u) ==
  /\ writes < MaxWrites /\ writes' = writes + 1
  /\ u.proxy # NoWallet => Keeper[u.proxy] = p
  /\ u.nwc # NoWallet => Keeper[u.nwc] = p
  /\ Begin(s, [Idle EXCEPT !.at = "primary", !.pubkey = p, !.update = u])
  /\ UNCHANGED <<book, settings, calls, moves, history>>

\* adminSetLightning for a name; the administrator sets what its owner asked for.
BeginAdminSet(s, n, u) ==
  /\ writes < MaxWrites /\ writes' = writes + 1
  /\ u.mode \in {"proxy", "disabled"}
  /\ u.proxy # NoWallet => Keeper[u.proxy] = holder[n]
  /\ Begin(s, [Idle EXCEPT !.at = "lookup", !.name = n, !.update = u])
  /\ UNCHANGED <<book, settings, calls, moves, history>>

\* GetPrimaryAddressByPubkey; nil is a 404.
ReadPrimary(s) ==
  LET n == primary[req[s].pubkey] IN
  /\ At(s, "primary")
  /\ \/ n = NoName /\ End(s)
     \/ n # NoName /\ req' = [req EXCEPT ![s].at = "upsert", ![s].name = n]
  /\ UNCHANGED <<book, settings, counts, history>>

\* GetAddressByUsername reads active rows only; nil is a 404.
LookupName(s) ==
  /\ At(s, "lookup")
  /\ IF holder[req[s].name] = Nobody THEN End(s) ELSE Goto(s, "upsert")
  /\ UNCHANGED <<book, settings, counts, history>>

\* Mutant: the address is kept unless the mode is proxy's, as the NWC columns are.
UpsertedKeeping(row, u) ==
  [mode |-> u.mode,
   proxy |-> IF u.mode # "proxy" THEN u.proxy ELSE row.proxy,
   nwc |-> IF u.mode = "nwc" THEN u.nwc ELSE row.nwc,
   errors |-> IF u.mode = "nwc" THEN 0 ELSE row.errors,
   enabled |-> u.mode # "disabled"]

\* Mutant: the errors of the wallet before stay.
UpsertedCounting(row, u) ==
  [mode |-> u.mode, proxy |-> IF u.mode = "proxy" THEN u.proxy ELSE NoWallet,
   nwc |-> IF u.mode = "nwc" THEN u.nwc ELSE row.nwc,
   errors |-> row.errors, enabled |-> u.mode # "disabled"]

\* The row `row` after the upsert of u.  An inserted row takes every column of
\* the update and is enabled; a row there already keeps its NWC columns unless
\* the mode is NWC's.
Upserted(row, u) ==
  IF row = NoSettings
  THEN [mode |-> u.mode, proxy |-> u.proxy, nwc |-> u.nwc, errors |-> 0, enabled |-> TRUE]
  ELSE [mode |-> u.mode,
        proxy |-> IF u.mode = "proxy" THEN u.proxy ELSE NoWallet,
        nwc |-> IF u.mode = "nwc" THEN u.nwc ELSE row.nwc,
        errors |-> IF u.mode = "nwc" THEN 0 ELSE row.errors,
        enabled |-> u.mode # "disabled"]

\* The callbacks that read the settings of n and may write to its row.
Asking(s, n) == req[s].name = n /\ req[s].at \in {"wallet", "success", "failure"}

\* UpsertLightningConfigFull, by the id of the row.
Upsert(s) ==
  LET n == req[s].name
      row == Upserted(settings[n], req[s].update)
  IN  /\ At(s, "upsert")
      /\ settings' = [settings EXCEPT ![n] = row]
      /\ swapped' = IF row.nwc # settings[n].nwc /\ \E t \in Slots : Asking(t, n)
                    THEN swapped \cup {n} ELSE swapped
      /\ End(s)
      /\ UNCHANGED <<book, counts, lineage, raced, failed>>

-----------------------------------------------------------------------------
(* Claiming a name.                                                         *)

\* AtomicRegisterAddress or AdminGrantAddress, up to its read of the primary;
\* w is the lightning address a purchase brings along, or NoWallet.
BeginClaim(s, p, n, w) ==
  /\ writes < MaxWrites /\ writes' = writes + 1
  /\ w # NoWallet => Keeper[w] = p
  /\ Begin(s, [Idle EXCEPT !.at = "claim", !.pubkey = p, !.name = n,
                           !.source = primary[p], !.wallet = w])
  /\ UNCHANGED <<book, settings, calls, moves, history>>

\* copyLightningConfig; a source without a row leaves the new name without one.
Copied(row) == IF row = NoSettings THEN NoSettings ELSE [row EXCEPT !.errors = 0]

\* The rest of the transaction: the insert, the ownership interval, the copy
\* and the commit.  `takes` is whether the name becomes primary: an
\* owner's first name, or a claimed name where all the others were assigned.
CommitClaim(s, takes) ==
  LET p == req[s].pubkey
      n == req[s].name
      src == req[s].source
  IN  /\ At(s, "claim")
      /\ takes /\ src = NoName => primary[p] = NoName
      /\ Registry!Issue(n, p)
      /\ primary' = IF takes THEN [primary EXCEPT ![p] = n] ELSE primary
      /\ IF src = NoName
         THEN /\ lineage' = [lineage EXCEPT ![n] = {p}]
              /\ UNCHANGED <<settings, raced>>
         ELSE /\ settings' = [settings EXCEPT ![n] = Copied(settings[src])]
              /\ lineage' = [lineage EXCEPT ![n] =
                               {p} \cup IF holder[src] = p THEN lineage[src] ELSE {}]
              /\ raced' = IF holder[src] # p \/ src \in raced THEN raced \cup {n} ELSE raced
      /\ failed' = [failed EXCEPT ![n] = {}]
      /\ IF req[s].wallet = NoWallet
         THEN End(s)
         ELSE req' = [req EXCEPT ![s].at = "upsert", ![s].wallet = NoWallet,
                                 ![s].update = ToProxy(req[s].wallet)]
      /\ UNCHANGED <<counts, swapped>>

\* The name is taken, or two names of one owner would be primary.
ClaimRefused(s) ==
  /\ At(s, "claim")
  /\ \/ req[s].name \in issued
     \/ req[s].source = NoName /\ primary[req[s].pubkey] # NoName
  /\ End(s)
  /\ UNCHANGED <<book, settings, counts, history>>

-----------------------------------------------------------------------------
(* Names change hands; no transaction that moves one touches its settings.  *)

\* Who may be primary of the holder of n once n is gone.
Heirs(n) ==
  IF primary[holder[n]] = n
  THEN {m \in Names \ {n} : holder[m] = holder[n]} \cup {NoName}
  ELSE {primary[holder[n]]}

Counted ==
  moves < MaxMoves /\ moves' = moves + 1 /\ UNCHANGED <<settings, req, writes, calls>>

Transfer(n, q) ==
  /\ Counted
  /\ Registry!Transfer(n, q)
  /\ q # holder[n]
  /\ \E heir \in Heirs(n) :
       primary' = [primary EXCEPT ![holder[n]] = heir, ![q] = IF @ = NoName THEN n ELSE @]
  /\ lineage' = [lineage EXCEPT ![n] = @ \cup {q}]
  /\ UNCHANGED <<raced, failed, swapped>>

\* AdminRevokeAddress.  The revoked row keeps its flag and the one-primary index
\* refuses to promote another: a primary goes only if it leaves no name behind.
Revoke(n) ==
  /\ Counted
  /\ Registry!Revoke(n)
  /\ primary[holder[n]] = n => \A m \in Names \ {n} : holder[m] # holder[n]
  /\ primary' = [primary EXCEPT ![holder[n]] = IF @ = n THEN NoName ELSE @]
  /\ UNCHANGED history

\* SetAddressPrimary.
SetPrimary(n) ==
  /\ Counted
  /\ holder[n] # Nobody
  /\ primary' = [primary EXCEPT ![holder[n]] = n]
  /\ UNCHANGED <<issued, holder, history>>

-----------------------------------------------------------------------------
(* The LNURL-pay callback.                                                  *)

BeginCall(s, n) ==
  /\ calls < MaxCalls /\ calls' = calls + 1
  /\ Begin(s, [Idle EXCEPT !.at = "find", !.name = n])
  /\ UNCHANGED <<book, settings, writes, moves, history>>

\* GetAddressByUsername.
Find(s) ==
  /\ At(s, "find")
  /\ IF holder[req[s].name] = Nobody THEN End(s) ELSE Goto(s, "config")
  /\ UNCHANGED <<book, settings, counts, history>>

\* What handleLNURLPCallback hands to a wallet: an enabled row of a mode that
\* has one, with its details.
WalletOf(row) == IF row.mode = "proxy" THEN row.proxy ELSE row.nwc

Payable(row) == row.enabled /\ row.mode \in {"proxy", "nwc"}

\* Mutant: an enabled row is handed on whatever its mode.
ReadConfigAnyMode(s) ==
  LET row == settings[req[s].name] IN
  /\ At(s, "config")
  /\ row.enabled
  /\ req' = [req EXCEPT ![s].at = IF row.mode = "nwc" THEN "wallet" ELSE row.mode,
                        ![s].wallet = WalletOf(row)]
  /\ UNCHANGED <<book, settings, counts, history>>

\* GetLightningConfig, the checks of amount and details and the switch on the mode.
ReadConfig(s) ==
  LET row == settings[req[s].name] IN
  /\ At(s, "config")
  /\ \/ End(s)
     \/ /\ Payable(row)
        /\ WalletOf(row) # NoWallet
        /\ req' = [req EXCEPT ![s].at = IF row.mode = "proxy" THEN "proxy" ELSE "wallet",
                              ![s].wallet = WalletOf(row)]
  /\ UNCHANGED <<book, settings, counts, history>>

\* handleProxyInvoice: the other provider's answer, an invoice or an error, or
\* no answer for as long as it likes.
ProxyAnswers(s) ==
  /\ At(s, "proxy")
  /\ End(s)
  /\ UNCHANGED <<book, settings, counts, history>>

\* handleResponse: NIP-44 until it failed once, then NIP-04.
Decrypted(s, coding) == coding = "nip04" \/ (coding = "nip44" /\ req[s].nip44)

\* An event from the wallet.  What cannot be decrypted is skipped and turns
\* NIP-44 off; what can is an invoice, or an error or something else.
Hear(s, coding) ==
  /\ At(s, "wallet")
  /\ \/ /\ Decrypted(s, coding)
        /\ \E outcome \in {"success", "failure"} : Goto(s, outcome)
     \/ /\ ~Decrypted(s, coding)
        /\ req[s].nip44
        /\ req' = [req EXCEPT ![s].nip44 = FALSE]
  /\ UNCHANGED <<book, settings, counts, history>>

\* Mutant: nothing bounds the wait for the wallet.
TimeoutNever(s) == FALSE /\ UNCHANGED vars

\* ErrTimeout after thirty seconds, or the relay refuses the event.
Timeout(s) ==
  /\ At(s, "wallet")
  /\ Goto(s, "failure")
  /\ UNCHANGED <<book, settings, counts, history>>

\* UpdateNWCSuccess, and the invoice is answered.
RecordSuccess(s) ==
  /\ At(s, "success")
  /\ settings' = [settings EXCEPT ![req[s].name].errors = 0]
  /\ End(s)
  /\ UNCHANGED <<book, counts, history>>

\* UpdateNWCError, on whatever the row holds by now.
RecordFailure(s) ==
  LET n == req[s].name IN
  /\ At(s, "failure")
  /\ settings' = [settings EXCEPT ![n].errors = @ + 1]
  /\ failed' = [failed EXCEPT ![n] = @ \cup {req[s].wallet}]
  /\ End(s)
  /\ UNCHANGED <<book, counts, lineage, raced, swapped>>

-----------------------------------------------------------------------------
\* The client hangs up, a query fails, the relay cannot be reached or the pod
\* dies: no error is recorded.
Drops(s) ==
  /\ ~At(s, "idle")
  /\ End(s)
  /\ UNCHANGED <<book, settings, counts, history>>

\* What a handler does without waiting for anybody but PostgreSQL and the clock.
Handle(s) ==
  \/ ReadPrimary(s) \/ LookupName(s) \/ Upsert(s)
  \/ \E takes \in BOOLEAN : CommitClaim(s, takes)
  \/ ClaimRefused(s)
  \/ Find(s) \/ ReadConfig(s) \/ Timeout(s)
  \/ RecordSuccess(s) \/ RecordFailure(s)

Change(s) ==
  \/ \E p \in Pubkeys, u \in Choices : BeginUpdate(s, p, u)
  \/ \E n \in Names, u \in Choices : BeginAdminSet(s, n, u)
  \/ \E p \in Pubkeys, n \in Names, w \in Wallets \cup {NoWallet} : BeginClaim(s, p, n, w)

Next ==
  \/ \E s \in Slots :
       \/ Change(s)
       \/ \E n \in Names : BeginCall(s, n)
       \/ Handle(s)
       \/ ProxyAnswers(s)
       \/ \E coding \in {"nip44", "nip04", "junk"} : Hear(s, coding)
       \/ Drops(s)
  \/ \E n \in Names : Revoke(n) \/ SetPrimary(n) \/ \E q \in Pubkeys : Transfer(n, q)

Spec == Init /\ [][Next]_vars

\* Handlers go on and timers fire; wallets, providers and clients do as they like.
FairSpec == Spec /\ \A s \in Slots : WF_vars(Handle(s))
-----------------------------------------------------------------------------
(* Properties.                                                              *)

TypeOK ==
  /\ issued \subseteq Names
  /\ holder \in [Names -> Pubkeys \cup {Nobody}]
  /\ primary \in [Pubkeys -> Names \cup {NoName}]
  /\ settings \in [Names -> Settings]
  /\ req \in [Slots -> Request]
  /\ writes \in 0..MaxWrites /\ calls \in 0..MaxCalls /\ moves \in 0..MaxMoves
  /\ lineage \in [Names -> SUBSET Pubkeys]
  /\ raced \subseteq Names
  /\ failed \in [Names -> SUBSET Wallets]
  /\ swapped \subseteq Names

\* Whatever requests race, a name pays to no stranger: the wallets of its row
\* belong to somebody who owned it, or a name its settings were copied from,
\* unless the copy was from a primary that was moved in the middle of the
\* registration; and a mode that needs a wallet has one (postgres.go:563-586,
\* 816-828, management.go:287-323).
WalletsOfTheLineage ==
  \A n \in Names \ raced :
    /\ settings[n].mode \in {"proxy", "nwc"} => WalletOf(settings[n]) # NoWallet
    /\ \A w \in {settings[n].proxy, settings[n].nwc} \ {NoWallet} : Keeper[w] \in lineage[n]

\* The error count of a row is about the NWC wallet beside it, not one that was
\* there before, unless the wallet was changed while another one was asked
\* (004_up.sql:32: "Consecutive NWC errors (reset on success)").
ErrorsOfThisWallet ==
  \A n \in Names \ swapped :
    settings[n].errors > 0 => settings[n].nwc \in failed[n]

\* A callback comes to an end whatever the wallet does, short of waiting on
\* another provider, which has no deadline (nwc/client.go:266-280).
CallbackEnds ==
  \A s \in Slots :
    req[s].at \in {"find", "config", "wallet", "success", "failure"} ~>
      req[s].at \in {"idle", "proxy"}

-----------------------------------------------------------------------------
(* What the code's comments claim and the code does not do.                 *)

\* lnurlp.go:216: "fetches an invoice from the user's configured Lightning
\* Address".  What a name draws on belongs to its owner.
PaysTheOwner ==
  \A n \in Names :
    holder[n] # Nobody /\ Payable(settings[n]) => Keeper[WalletOf(settings[n])] = holder[n]
=============================================================================
