--------------------------- MODULE Lightning_proofs ---------------------------
(***************************************************************************)
(* Theorems about Lightning, for every value of its constants.              *)
(***************************************************************************)
EXTENDS Lightning, TLAPS

-----------------------------------------------------------------------------
(* Types.                                                                   *)

BookOK ==
  /\ issued \subseteq Names
  /\ holder \in [Names -> Pubkeys \cup {Nobody}]
  /\ primary \in [Pubkeys -> Names \cup {NoName}]

CountsOK == writes \in 0..MaxWrites /\ calls \in 0..MaxCalls /\ moves \in 0..MaxMoves

HistoryOK ==
  /\ lineage \in [Names -> SUBSET Pubkeys]
  /\ raced \subseteq Names
  /\ failed \in [Names -> SUBSET Wallets]
  /\ swapped \subseteq Names

SettingsOK == settings \in [Names -> Settings]

CallSteps == {"find", "config", "proxy", "wallet", "success", "failure"}

\* What the type of a request leaves out.
GoodRequest(q) ==
  /\ q \in Request
  /\ q.at \in {"primary", "lookup", "upsert"} => q.update \in Updates
  /\ q.at \in {"primary", "claim"} => q.pubkey \in Pubkeys
  /\ q.at \in {"lookup", "upsert", "claim"} \cup CallSteps => q.name \in Names
  /\ q.at \in {"wallet", "success", "failure"} => q.wallet \in Wallets

RequestsOK == req \in [Slots -> Request] /\ \A s \in Slots : GoodRequest(req[s])

TInv == BookOK /\ CountsOK /\ HistoryOK /\ SettingsOK /\ RequestsOK

LEMMA TInvTypes == TInv => TypeOK
  BY DEF TInv, TypeOK, BookOK, CountsOK, HistoryOK, SettingsOK, RequestsOK

LEMMA IdleGood == GoodRequest(Idle) /\ Idle.at = "idle"
  BY DEF GoodRequest, Request, Idle, CallSteps

LEMMA OneRequest ==
  ASSUME TInv, NEW s \in Slots, NEW q, GoodRequest(q), req' = [req EXCEPT ![s] = q]
  PROVE  /\ RequestsOK'
         /\ req'[s] = q
         /\ \A t \in Slots \ {s} : req'[t] = req[t]
<1>1. /\ req' \in [Slots -> Request]
      /\ \A t \in Slots : GoodRequest(req'[t])
      /\ req'[s] = q
      /\ \A t \in Slots \ {s} : req'[t] = req[t]
  BY DEF TInv, RequestsOK, GoodRequest
<1> QED BY <1>1 DEF RequestsOK, GoodRequest

LEMMA Ends ==
  ASSUME TInv, NEW s \in Slots, End(s)
  PROVE  RequestsOK'
  BY IdleGood, OneRequest DEF End

\* A request goes on, with what the next step needs already there.
LEMMA Goes ==
  ASSUME TInv, NEW s \in Slots, NEW step, Goto(s, step),
         \/ step = "upsert" /\ req[s].at = "lookup"
         \/ step = "config" /\ req[s].at = "find"
         \/ step \in {"success", "failure"} /\ req[s].at = "wallet"
  PROVE  RequestsOK'
<1>1. GoodRequest(req[s])
  BY DEF TInv, RequestsOK
<1>2. PICK q : q = [req[s] EXCEPT !.at = step]
  OBVIOUS
<1>3. /\ q \in Request /\ q.at = step /\ q.name = req[s].name
      /\ q.update = req[s].update /\ q.wallet = req[s].wallet
  BY <1>1, <1>2 DEF GoodRequest, Request
<1>4. GoodRequest(q)
  BY <1>1, <1>3 DEF GoodRequest, CallSteps
<1> QED BY <1>2, <1>4, OneRequest DEF Goto

LEMMA SameBook == ASSUME TInv, UNCHANGED book PROVE BookOK'
  BY DEF TInv, BookOK, book

LEMMA SameCounts == ASSUME TInv, UNCHANGED counts PROVE CountsOK'
  BY DEF TInv, CountsOK, counts

LEMMA SameHistory == ASSUME TInv, UNCHANGED history PROVE HistoryOK'
  BY DEF TInv, HistoryOK, history

LEMMA SameSettings == ASSUME TInv, UNCHANGED settings PROVE SettingsOK'
  BY DEF TInv, SettingsOK

LEMMA SameRequests == ASSUME TInv, UNCHANGED req PROVE RequestsOK'
  BY DEF TInv, RequestsOK, GoodRequest

-----------------------------------------------------------------------------
(* The actions keep the types.                                              *)

LEMMA BeginsGood ==
  ASSUME TInv, NEW s \in Slots, NEW q, GoodRequest(q), Begin(s, q),
         UNCHANGED <<book, settings, history>>,
         \/ writes < MaxWrites /\ writes' = writes + 1 /\ UNCHANGED <<calls, moves>>
         \/ calls < MaxCalls /\ calls' = calls + 1 /\ UNCHANGED <<writes, moves>>
  PROVE  TInv'
<1>1. CountsOK'
  BY LightningConstants DEF TInv, CountsOK
<1>2. RequestsOK'
  BY OneRequest DEF Begin
<1> QED BY <1>1, <1>2, SameBook, SameSettings, SameHistory DEF TInv

LEMMA ChangeKeeps ==
  ASSUME TInv, NEW s \in Slots, Change(s)
  PROVE  TInv'
<1>1. ASSUME NEW p \in Pubkeys, NEW u \in Choices, BeginUpdate(s, p, u)
      PROVE  TInv'
  <2>1. PICK q : q = [Idle EXCEPT !.at = "primary", !.pubkey = p, !.update = u]
    OBVIOUS
  <2>2. GoodRequest(q)
    BY <2>1, ChoicesAreUpdates DEF GoodRequest, Request, Idle, CallSteps
  <2> QED BY <1>1, <2>1, <2>2, BeginsGood DEF BeginUpdate
<1>2. ASSUME NEW n \in Names, NEW u \in Choices, BeginAdminSet(s, n, u)
      PROVE  TInv'
  <2>1. PICK q : q = [Idle EXCEPT !.at = "lookup", !.name = n, !.update = u]
    OBVIOUS
  <2>2. GoodRequest(q)
    BY <2>1, ChoicesAreUpdates DEF GoodRequest, Request, Idle, CallSteps
  <2> QED BY <1>2, <2>1, <2>2, BeginsGood DEF BeginAdminSet
<1>3. ASSUME NEW p \in Pubkeys, NEW n \in Names, NEW w \in Wallets \cup {NoWallet}, BeginClaim(s, p, n, w)
      PROVE  TInv'
  <2>1. PICK q : q = [Idle EXCEPT !.at = "claim", !.pubkey = p, !.name = n,
                                  !.source = primary[p], !.wallet = w]
    OBVIOUS
  <2>2. primary[p] \in Names \cup {NoName}
    BY DEF TInv, BookOK
  <2>3. GoodRequest(q)
    BY <2>1, <2>2 DEF GoodRequest, Request, Idle, CallSteps
  <2> QED BY <1>3, <2>1, <2>3, BeginsGood DEF BeginClaim
<1> QED BY <1>1, <1>2, <1>3 DEF Change

LEMMA BeginCallKeeps ==
  ASSUME TInv, NEW s \in Slots, NEW n \in Names, BeginCall(s, n)
  PROVE  TInv'
<1>1. PICK q : q = [Idle EXCEPT !.at = "find", !.name = n]
  OBVIOUS
<1>2. GoodRequest(q)
  BY <1>1 DEF GoodRequest, Request, Idle, CallSteps
<1> QED BY <1>1, <1>2, BeginsGood DEF BeginCall

LEMMA ReadPrimaryKeeps ==
  ASSUME TInv, NEW s \in Slots, ReadPrimary(s)
  PROVE  TInv'
<1>1. At(s, "primary") /\ UNCHANGED <<book, settings, counts, history>>
  BY DEF ReadPrimary
<1>2. GoodRequest(req[s])
  BY DEF TInv, RequestsOK
<1>3. PICK n \in Names \cup {NoName} : n = primary[req[s].pubkey]
  BY <1>1, <1>2 DEF TInv, BookOK, GoodRequest, At
<1>4. CASE n # NoName /\ req' = [req EXCEPT ![s].at = "upsert", ![s].name = n]
  <2>1. PICK q : q = [req[s] EXCEPT !.at = "upsert", !.name = n]
    OBVIOUS
  <2>2. /\ q \in Request /\ q.at = "upsert" /\ q.name = n /\ q.update = req[s].update
    BY <1>2, <2>1 DEF GoodRequest, Request
  <2>3. GoodRequest(q)
    BY <1>1, <1>2, <1>4, <2>2 DEF GoodRequest, CallSteps, At
  <2> QED BY <1>1, <1>4, <2>1, <2>3, OneRequest, SameBook, SameSettings, SameCounts, SameHistory DEF TInv
<1>5. CASE End(s)
  BY <1>1, <1>5, Ends, SameBook, SameSettings, SameCounts, SameHistory DEF TInv
<1> QED BY <1>3, <1>4, <1>5 DEF ReadPrimary

\* The other steps that write nothing.
LEMMA ReadsKeep ==
  ASSUME TInv, NEW s \in Slots,
         \/ LookupName(s) \/ ClaimRefused(s) \/ Find(s) \/ ProxyAnswers(s)
         \/ Timeout(s) \/ Drops(s)
  PROVE  TInv'
<1>1. UNCHANGED <<book, settings, counts, history>>
  BY DEF LookupName, ClaimRefused, Find, ProxyAnswers, Timeout, Drops
<1>2. \/ End(s)
      \/ Goto(s, "upsert") /\ req[s].at = "lookup"
      \/ Goto(s, "config") /\ req[s].at = "find"
      \/ Goto(s, "failure") /\ req[s].at = "wallet"
  BY DEF LookupName, ClaimRefused, Find, ProxyAnswers, Timeout, Drops, At
<1>3. RequestsOK'
  BY <1>2, Ends, Goes
<1> QED BY <1>1, <1>3, SameBook, SameSettings, SameCounts, SameHistory DEF TInv

LEMMA HearKeeps ==
  ASSUME TInv, NEW s \in Slots, NEW coding, Hear(s, coding)
  PROVE  TInv'
<1>1. At(s, "wallet") /\ UNCHANGED <<book, settings, counts, history>>
  BY DEF Hear
<1>2. GoodRequest(req[s])
  BY DEF TInv, RequestsOK
<1>3. ASSUME NEW outcome \in {"success", "failure"}, Goto(s, outcome)
      PROVE  RequestsOK'
  BY <1>1, <1>3, Goes DEF At
<1>4. ASSUME req' = [req EXCEPT ![s].nip44 = FALSE]
      PROVE  RequestsOK'
  <2>1. PICK q : q = [req[s] EXCEPT !.nip44 = FALSE]
    OBVIOUS
  <2>2. /\ q \in Request /\ q.at = req[s].at /\ q.name = req[s].name /\ q.wallet = req[s].wallet
    BY <1>2, <2>1 DEF GoodRequest, Request
  <2>3. GoodRequest(q)
    BY <1>1, <1>2, <2>2 DEF GoodRequest, CallSteps, At
  <2>4. req' = [req EXCEPT ![s] = q]
    BY <1>4, <2>1, Zenon
  <2> QED BY <2>3, <2>4, OneRequest
<1>5. RequestsOK'
  <2>1. \/ \E outcome \in {"success", "failure"} : Goto(s, outcome)
        \/ req' = [req EXCEPT ![s].nip44 = FALSE]
    BY DEF Hear
  <2> QED BY <1>3, <1>4, <2>1
<1> QED BY <1>1, <1>5, SameBook, SameSettings, SameCounts, SameHistory DEF TInv

LEMMA ReadConfigKeeps ==
  ASSUME TInv, NEW s \in Slots, ReadConfig(s)
  PROVE  TInv'
<1>1. At(s, "config") /\ UNCHANGED <<book, settings, counts, history>>
  BY DEF ReadConfig
<1>2. GoodRequest(req[s])
  BY DEF TInv, RequestsOK
<1>3. PICK row \in Settings : row = settings[req[s].name]
  BY <1>1, <1>2 DEF TInv, SettingsOK, GoodRequest, CallSteps, At
<1>4. PICK w \in Wallets \cup {NoWallet} : w = WalletOf(row)
  BY DEF WalletOf, Settings
<1>5. PICK step \in {"proxy", "wallet"} : step = IF row.mode = "proxy" THEN "proxy" ELSE "wallet"
  OBVIOUS
<1>6. CASE w # NoWallet /\ req' = [req EXCEPT ![s].at = step, ![s].wallet = w]
  <2>1. PICK q : q = [req[s] EXCEPT !.at = step, !.wallet = w]
    OBVIOUS
  <2>2. q \in Request /\ q.at = step /\ q.name = req[s].name /\ q.wallet = w
    BY <1>2, <2>1 DEF GoodRequest, Request
  <2>3. GoodRequest(q)
    BY <1>1, <1>2, <1>6, <2>2 DEF GoodRequest, CallSteps, At
  <2> QED BY <1>1, <1>6, <2>1, <2>3, OneRequest, SameBook, SameSettings, SameCounts, SameHistory DEF TInv
<1>7. CASE End(s)
  BY <1>1, <1>7, Ends, SameBook, SameSettings, SameCounts, SameHistory DEF TInv
<1> QED BY <1>3, <1>4, <1>5, <1>6, <1>7 DEF ReadConfig

LEMMA UpsertedIsRow ==
  ASSUME NEW row \in Settings, NEW u \in Updates
  PROVE  Upserted(row, u) \in Settings
<1>1. u.mode \in Modes /\ u.proxy \in Wallets \cup {NoWallet} /\ u.nwc \in Wallets \cup {NoWallet}
  BY DEF Updates
<1> QED BY <1>1 DEF Upserted, Settings

LEMMA UpsertKeeps ==
  ASSUME TInv, NEW s \in Slots, Upsert(s)
  PROVE  TInv'
<1>1. req[s].name \in Names /\ req[s].update \in Updates
  BY DEF Upsert, At, TInv, RequestsOK, GoodRequest
<1>2. SettingsOK'
  BY <1>1, UpsertedIsRow DEF Upsert, TInv, SettingsOK
<1>3. HistoryOK'
  BY <1>1 DEF Upsert, TInv, HistoryOK
<1>4. RequestsOK'
  BY Ends DEF Upsert
<1> QED BY <1>2, <1>3, <1>4, SameBook, SameCounts DEF TInv, Upsert

LEMMA RecordKeeps ==
  ASSUME TInv, NEW s \in Slots, RecordSuccess(s) \/ RecordFailure(s)
  PROVE  TInv'
<1>1. req[s].name \in Names /\ req[s].wallet \in Wallets
  BY DEF RecordSuccess, RecordFailure, At, TInv, RequestsOK, GoodRequest, CallSteps
<1>2. PICK row \in Settings : row = settings[req[s].name]
  BY <1>1 DEF TInv, SettingsOK
<1>3. PICK e \in Nat : e = row.errors
  BY DEF Settings
<1>4. [row EXCEPT !.errors = 0] \in Settings /\ [row EXCEPT !.errors = e + 1] \in Settings
  BY DEF Settings
<1>5. SettingsOK'
  BY <1>1, <1>2, <1>3, <1>4 DEF RecordSuccess, RecordFailure, TInv, SettingsOK
<1>6. HistoryOK'
  BY <1>1, SameHistory DEF RecordSuccess, RecordFailure, TInv, HistoryOK
<1>7. RequestsOK' /\ UNCHANGED <<book, counts>>
  BY Ends DEF RecordSuccess, RecordFailure
<1> QED BY <1>5, <1>6, <1>7, SameBook, SameCounts DEF TInv

LEMMA CopiedIsRow ==
  ASSUME NEW row \in Settings
  PROVE  Copied(row) \in Settings
  BY DEF Copied, NoSettings, Settings

LEMMA CommitClaimKeeps ==
  ASSUME TInv, NEW s \in Slots, NEW takes \in BOOLEAN, CommitClaim(s, takes)
  PROVE  TInv'
<1>1. GoodRequest(req[s])
  BY DEF TInv, RequestsOK
<1>2. PICK p \in Pubkeys, n \in Names, src \in Names \cup {NoName}, w \in Wallets \cup {NoWallet} :
        p = req[s].pubkey /\ n = req[s].name /\ src = req[s].source /\ w = req[s].wallet
  BY <1>1 DEF CommitClaim, At, GoodRequest, Request
<1>3. BookOK'
  BY <1>2 DEF CommitClaim, Registry!Issue, TInv, BookOK
<1>4. SettingsOK'
  BY <1>2, CopiedIsRow DEF CommitClaim, TInv, SettingsOK
<1>5. HistoryOK'
  BY <1>2 DEF CommitClaim, TInv, HistoryOK
<1>6. RequestsOK'
  <2>1. CASE w = NoWallet
    BY <1>2, <2>1, Ends DEF CommitClaim
  <2>2. CASE w # NoWallet
    <3>1. PICK u \in Updates : u = ToProxy(w)
      BY <2>2 DEF ToProxy, Updates, Modes
    <3>2. PICK q : q = [req[s] EXCEPT !.at = "upsert", !.wallet = NoWallet, !.update = u]
      OBVIOUS
    <3>5. req' = [req EXCEPT ![s] = q]
      <4>1. req' = [req EXCEPT ![s].at = "upsert", ![s].wallet = NoWallet,
                               ![s].update = ToProxy(req[s].wallet)]
        BY <1>2, <2>2 DEF CommitClaim
      <4> QED BY <1>2, <3>1, <3>2, <4>1
    <3>3. /\ q \in Request /\ q.at = "upsert" /\ q.name = n /\ q.update = u
      BY <1>1, <1>2, <3>2 DEF GoodRequest, Request
    <3>4. GoodRequest(q)
      BY <3>3 DEF GoodRequest, CallSteps
    <3> QED BY <3>4, <3>5, OneRequest
  <2> QED BY <2>1, <2>2
<1> QED BY <1>3, <1>4, <1>5, <1>6, SameCounts DEF TInv, CommitClaim

LEMMA HeirsAreNames ==
  ASSUME TInv, NEW n \in Names, holder[n] # Nobody
  PROVE  holder[n] \in Pubkeys /\ Heirs(n) \subseteq Names \cup {NoName}
  BY DEF TInv, BookOK, Heirs

LEMMA MovesKeep ==
  ASSUME TInv, NEW n \in Names,
         Revoke(n) \/ SetPrimary(n) \/ \E q \in Pubkeys : Transfer(n, q)
  PROVE  TInv'
<1>1. Counted /\ holder[n] # Nobody
  BY DEF Revoke, SetPrimary, Transfer, Registry!Revoke, Registry!Transfer
<1>2. CountsOK' /\ UNCHANGED <<settings, req>>
  BY <1>1, LightningConstants DEF Counted, TInv, CountsOK
<1>3. BookOK'
  <2>1. CASE Revoke(n)
    BY <1>1, <2>1, HeirsAreNames DEF Revoke, Registry!Revoke, TInv, BookOK
  <2>2. CASE SetPrimary(n)
    BY <1>1, <2>2 DEF SetPrimary, TInv, BookOK
  <2>3. ASSUME NEW q \in Pubkeys, Transfer(n, q)
        PROVE  BookOK'
    BY <1>1, <2>3, HeirsAreNames DEF Transfer, Registry!Transfer, TInv, BookOK
  <2> QED BY <2>1, <2>2, <2>3
<1>4. HistoryOK'
  BY DEF Revoke, SetPrimary, Transfer, history, TInv, HistoryOK
<1> QED BY <1>2, <1>3, <1>4, SameSettings, SameRequests DEF TInv

LEMMA TInvNext ==
  ASSUME TInv, [Next]_vars
  PROVE  TInv'
<1>1. CASE UNCHANGED vars
  BY <1>1, SameBook, SameCounts, SameHistory, SameSettings, SameRequests DEF vars, TInv
<1>2. CASE Next
  BY <1>2, ChangeKeeps, BeginCallKeeps, ReadPrimaryKeeps, ReadsKeep, HearKeeps, ReadConfigKeeps,
     UpsertKeeps, RecordKeeps, CommitClaimKeeps, MovesKeep DEF Next, Handle
<1> QED BY <1>1, <1>2

LEMMA TInvInit == Init => TInv
<1> SUFFICES ASSUME Init PROVE TInv
  OBVIOUS
<1>1. BookOK /\ HistoryOK
  BY DEF Init, BookOK, HistoryOK
<1>2. CountsOK
  BY LightningConstants DEF Init, CountsOK
<1>3. SettingsOK
  BY DEF Init, SettingsOK, NoSettings, Settings
<1>4. RequestsOK
  BY IdleGood DEF Init, RequestsOK, GoodRequest
<1> QED BY <1>1, <1>2, <1>3, <1>4 DEF TInv

\* Every reachable state of the settings and callbacks is well typed, for any
\* number of names, wallets and requests (postgres.go, lnurlp.go).
THEOREM LightningTypeCorrect == Spec => []TypeOK
<1> QED BY TInvInit, TInvNext, TInvTypes, PTL DEF Spec
-----------------------------------------------------------------------------
(* What requests rest on.  A name never issued has neither settings nor      *)
(* lineage; a holder is of the name's lineage; and a request about to write  *)
(* carries wallets that belong to the lineage of the row it will write.      *)

BelongTo(u, owners) == \A w \in {u.proxy, u.nwc} \ {NoWallet} : Keeper[w] \in owners

Backed(q, known, owners) ==
  /\ q.at = "primary" => BelongTo(q.update, {q.pubkey})
  /\ q.at = "lookup" => BelongTo(q.update, owners[q.name])
  /\ q.at = "upsert" => q.name \in known /\ BelongTo(q.update, owners[q.name])
  /\ q.at = "claim" =>
       /\ q.wallet # NoWallet => Keeper[q.wallet] = q.pubkey
       /\ q.source # NoName => q.source \in known
  /\ q.at \in CallSteps \ {"find"} => q.name \in known

Fresh == \A n \in Names \ issued : settings[n] = NoSettings /\ lineage[n] = {}

Held == \A n \in Names : holder[n] # Nobody => n \in issued /\ holder[n] \in lineage[n]

Primaries == \A p \in Pubkeys : primary[p] # NoName => holder[primary[p]] = p

BackedAll == \A s \in Slots : Backed(req[s], issued, lineage)

Base == TInv /\ Fresh /\ Held /\ Primaries /\ BackedAll

Grows == issued \subseteq issued' /\ \A n \in Names : lineage[n] \subseteq lineage'[n]

LEMMA SameGrows == ASSUME UNCHANGED <<book, lineage>> PROVE Grows
  BY DEF Grows, book

LEMMA BackedGrows ==
  ASSUME TInv, Grows, NEW q, GoodRequest(q), Backed(q, issued, lineage)
  PROVE  Backed(q, issued', lineage')
  BY DEF Grows, Backed, BelongTo, GoodRequest

LEMMA OneBacked ==
  ASSUME TInv, BackedAll, Grows, NEW s \in Slots, NEW q, GoodRequest(q),
         req' = [req EXCEPT ![s] = q], Backed(q, issued', lineage')
  PROVE  BackedAll'
<1>1. req'[s] = q /\ \A t \in Slots \ {s} : req'[t] = req[t]
  BY OneRequest
<1>2. \A t \in Slots : GoodRequest(req[t]) /\ Backed(req[t], issued, lineage)
  BY DEF TInv, RequestsOK, BackedAll
<1>3. \A t \in Slots : Backed(req'[t], issued', lineage')
  BY <1>1, <1>2, BackedGrows
<1> QED BY <1>3 DEF BackedAll, Backed, BelongTo

LEMMA EndsBacked ==
  ASSUME TInv, BackedAll, Grows, NEW s \in Slots, End(s)
  PROVE  BackedAll'
<1>1. Backed(Idle, issued', lineage')
  BY DEF Backed, Idle, CallSteps
<1> QED BY <1>1, IdleGood, OneBacked DEF End

LEMMA StaysBacked ==
  ASSUME TInv, BackedAll, Grows, UNCHANGED req
  PROVE  BackedAll'
<1>1. \A t \in Slots : GoodRequest(req[t]) /\ Backed(req[t], issued, lineage)
  BY DEF TInv, RequestsOK, BackedAll
<1>2. \A t \in Slots : Backed(req'[t], issued', lineage')
  BY <1>1, BackedGrows
<1> QED BY <1>2 DEF BackedAll, Backed, BelongTo

\* A request goes on to a step its backing allows.
LEMMA GoesBacked ==
  ASSUME Base, UNCHANGED <<book, lineage>>, NEW s \in Slots, NEW step, Goto(s, step),
         \/ step = "upsert" /\ req[s].at = "lookup" /\ holder[req[s].name] # Nobody
         \/ step = "config" /\ req[s].at = "find" /\ holder[req[s].name] # Nobody
         \/ step \in {"success", "failure"} /\ req[s].at = "wallet"
  PROVE  BackedAll'
<1>1. GoodRequest(req[s]) /\ Backed(req[s], issued, lineage)
  BY DEF Base, TInv, RequestsOK, BackedAll
<1>2. PICK q : q = [req[s] EXCEPT !.at = step]
  OBVIOUS
<1>3. /\ q \in Request /\ q.at = step /\ q.name = req[s].name
      /\ q.update = req[s].update /\ q.wallet = req[s].wallet
  BY <1>1, <1>2 DEF GoodRequest, Request
<1>4. GoodRequest(q)
  BY <1>1, <1>3 DEF GoodRequest, CallSteps
<1>5. req[s].name \in issued
  BY <1>1 DEF Base, Held, GoodRequest, Backed, CallSteps
<1>6. Backed(q, issued', lineage')
  BY <1>1, <1>3, <1>5 DEF Backed, BelongTo, CallSteps, book
<1> QED BY <1>2, <1>4, <1>6, SameGrows, OneBacked DEF Goto, Base
LEMMA ChangeBacked ==
  ASSUME Base, NEW s \in Slots, Change(s)
  PROVE  BackedAll' /\ UNCHANGED <<book, settings, history>>
<1>0. UNCHANGED <<book, settings, history>>
  BY DEF Change, BeginUpdate, BeginAdminSet, BeginClaim
<1>1. Grows /\ TInv /\ BackedAll
  BY <1>0, SameGrows DEF history, Base
<1>2. \A q : Backed(q, issued, lineage) => Backed(q, issued', lineage')
  BY <1>0 DEF book, history
<1>3. ASSUME NEW p \in Pubkeys, NEW u \in Choices, BeginUpdate(s, p, u)
      PROVE  BackedAll'
  <2>1. PICK q : q = [Idle EXCEPT !.at = "primary", !.pubkey = p, !.update = u]
    OBVIOUS
  <2>2. GoodRequest(q)
    BY <2>1, ChoicesAreUpdates DEF GoodRequest, Request, Idle, CallSteps
  <2>3. q.at = "primary" /\ q.update = u /\ q.pubkey = p
    BY <2>1 DEF Idle
  <2>4. BelongTo(u, {p})
    BY <1>3 DEF BeginUpdate, BelongTo
  <2>5. Backed(q, issued, lineage)
    BY <2>3, <2>4 DEF Backed, CallSteps
  <2> QED BY <1>1, <1>2, <1>3, <2>1, <2>2, <2>5, OneBacked DEF BeginUpdate, Begin
<1>4. ASSUME NEW n \in Names, NEW u \in Choices, BeginAdminSet(s, n, u)
      PROVE  BackedAll'
  <2>1. PICK q : q = [Idle EXCEPT !.at = "lookup", !.name = n, !.update = u]
    OBVIOUS
  <2>2. GoodRequest(q)
    BY <2>1, ChoicesAreUpdates DEF GoodRequest, Request, Idle, CallSteps
  <2>3. q.at = "lookup" /\ q.update = u /\ q.name = n
    BY <2>1 DEF Idle
  <2>4. u.nwc = NoWallet /\ u.proxy \in Wallets \cup {NoWallet}
    BY <1>4, ChoicesAreUpdates DEF BeginAdminSet, Updates
  <2>5. u.proxy # NoWallet => Keeper[u.proxy] = holder[n] /\ holder[n] # Nobody
    BY <1>4, <2>4, LightningConstants DEF BeginAdminSet
  <2>6. BelongTo(u, lineage[n])
    BY <2>4, <2>5 DEF BelongTo, Base, Held
  <2>7. Backed(q, issued, lineage)
    BY <2>3, <2>6 DEF Backed, CallSteps
  <2> QED BY <1>1, <1>2, <1>4, <2>1, <2>2, <2>7, OneBacked DEF BeginAdminSet, Begin
<1>5. ASSUME NEW p \in Pubkeys, NEW n \in Names, NEW w \in Wallets \cup {NoWallet}, BeginClaim(s, p, n, w)
      PROVE  BackedAll'
  <2>1. PICK q : q = [Idle EXCEPT !.at = "claim", !.pubkey = p, !.name = n,
                                  !.source = primary[p], !.wallet = w]
    OBVIOUS
  <2>2. primary[p] \in Names \cup {NoName}
    BY DEF Base, TInv, BookOK
  <2>3. GoodRequest(q)
    BY <2>1, <2>2 DEF GoodRequest, Request, Idle, CallSteps
  <2>4. q.at = "claim" /\ q.wallet = w /\ q.pubkey = p /\ q.source = primary[p]
    BY <2>1 DEF Idle
  <2>5. primary[p] # NoName => primary[p] \in issued
    BY <2>2, LightningConstants DEF Base, Primaries, Held
  <2>6. Backed(q, issued, lineage)
    BY <1>5, <2>4, <2>5 DEF Backed, CallSteps, BeginClaim
  <2> QED BY <1>1, <1>2, <1>5, <2>1, <2>3, <2>6, OneBacked DEF BeginClaim, Begin
<1> QED BY <1>0, <1>3, <1>4, <1>5 DEF Change

LEMMA BeginCallBacked ==
  ASSUME Base, NEW s \in Slots, NEW n \in Names, BeginCall(s, n)
  PROVE  BackedAll'
<1>1. PICK q : q = [Idle EXCEPT !.at = "find", !.name = n]
  OBVIOUS
<1>2. GoodRequest(q) /\ q.at = "find"
  BY <1>1 DEF GoodRequest, Request, Idle, CallSteps
<1>3. Backed(q, issued', lineage')
  BY <1>2 DEF Backed, CallSteps
<1>4. Grows
  BY SameGrows DEF BeginCall, history
<1> QED BY <1>1, <1>2, <1>3, <1>4, OneBacked DEF BeginCall, Begin, Base

LEMMA ReadPrimaryBacked ==
  ASSUME Base, NEW s \in Slots, ReadPrimary(s)
  PROVE  BackedAll'
<1>1. At(s, "primary") /\ UNCHANGED <<book, lineage>>
  BY DEF ReadPrimary, history
<1>2. GoodRequest(req[s]) /\ Backed(req[s], issued, lineage)
  BY DEF Base, TInv, RequestsOK, BackedAll
<1>3. PICK n \in Names \cup {NoName} : n = primary[req[s].pubkey]
  BY <1>1, <1>2 DEF Base, TInv, BookOK, GoodRequest, At
<1>4. ASSUME n # NoName, req' = [req EXCEPT ![s].at = "upsert", ![s].name = n]
      PROVE  BackedAll'
  <2>1. PICK q : q = [req[s] EXCEPT !.at = "upsert", !.name = n]
    OBVIOUS
  <2>2. /\ q \in Request /\ q.at = "upsert" /\ q.name = n /\ q.update = req[s].update
    BY <1>2, <2>1 DEF GoodRequest, Request
  <2>3. GoodRequest(q)
    BY <1>1, <1>2, <1>4, <2>2 DEF GoodRequest, CallSteps, At
  <2>4. req[s].pubkey \in Pubkeys /\ holder[n] = req[s].pubkey
    BY <1>1, <1>2, <1>3, <1>4 DEF GoodRequest, At, Base, Primaries
  <2>5. n \in issued /\ req[s].pubkey \in lineage[n]
    BY <1>3, <1>4, <2>4, LightningConstants DEF Base, Held
  <2>6. Backed(q, issued', lineage')
    BY <1>1, <1>2, <2>2, <2>5 DEF Backed, BelongTo, At, CallSteps, book
  <2> QED BY <1>1, <1>4, <2>1, <2>3, <2>6, SameGrows, OneBacked DEF Base
<1>5. ASSUME End(s)
      PROVE  BackedAll'
  BY <1>1, <1>5, SameGrows, EndsBacked DEF Base
<1> QED BY <1>3, <1>4, <1>5 DEF ReadPrimary

LEMMA ReadsBacked ==
  ASSUME Base, NEW s \in Slots,
         \/ LookupName(s) \/ ClaimRefused(s) \/ Find(s) \/ ProxyAnswers(s)
         \/ Timeout(s) \/ Drops(s)
  PROVE  BackedAll'
<1>1. UNCHANGED <<book, lineage>>
  BY DEF LookupName, ClaimRefused, Find, ProxyAnswers, Timeout, Drops, history
<1>2. \/ End(s)
      \/ Goto(s, "upsert") /\ req[s].at = "lookup" /\ holder[req[s].name] # Nobody
      \/ Goto(s, "config") /\ req[s].at = "find" /\ holder[req[s].name] # Nobody
      \/ Goto(s, "failure") /\ req[s].at = "wallet"
  BY DEF LookupName, ClaimRefused, Find, ProxyAnswers, Timeout, Drops, At
<1> QED BY <1>1, <1>2, SameGrows, EndsBacked, GoesBacked DEF Base

LEMMA HearBacked ==
  ASSUME Base, NEW s \in Slots, NEW coding, Hear(s, coding)
  PROVE  BackedAll'
<1>1. At(s, "wallet") /\ UNCHANGED <<book, lineage>>
  BY DEF Hear, history
<1>2. GoodRequest(req[s]) /\ Backed(req[s], issued, lineage)
  BY DEF Base, TInv, RequestsOK, BackedAll
<1>3. ASSUME NEW outcome \in {"success", "failure"}, Goto(s, outcome)
      PROVE  BackedAll'
  BY <1>1, <1>3, GoesBacked DEF At
<1>4. ASSUME req' = [req EXCEPT ![s].nip44 = FALSE]
      PROVE  BackedAll'
  <2>1. PICK q : q = [req[s] EXCEPT !.nip44 = FALSE]
    OBVIOUS
  <2>2. /\ q \in Request /\ q.at = req[s].at /\ q.name = req[s].name /\ q.wallet = req[s].wallet
    BY <1>2, <2>1 DEF GoodRequest, Request
  <2>3. GoodRequest(q)
    BY <1>1, <1>2, <2>2 DEF GoodRequest, CallSteps, At
  <2>4. req' = [req EXCEPT ![s] = q]
    BY <1>4, <2>1, Zenon
  <2>5. Backed(q, issued', lineage')
    BY <1>1, <1>2, <2>2 DEF Backed, At, CallSteps, book
  <2> QED BY <1>1, <2>3, <2>4, <2>5, SameGrows, OneBacked DEF Base
<1>5. \/ \E outcome \in {"success", "failure"} : Goto(s, outcome)
      \/ req' = [req EXCEPT ![s].nip44 = FALSE]
  BY DEF Hear
<1> QED BY <1>3, <1>4, <1>5

LEMMA ReadConfigBacked ==
  ASSUME Base, NEW s \in Slots, ReadConfig(s)
  PROVE  BackedAll'
<1>1. At(s, "config") /\ UNCHANGED <<book, lineage>>
  BY DEF ReadConfig, history
<1>2. GoodRequest(req[s]) /\ Backed(req[s], issued, lineage)
  BY DEF Base, TInv, RequestsOK, BackedAll
<1>3. PICK row \in Settings : row = settings[req[s].name]
  BY <1>1, <1>2 DEF Base, TInv, SettingsOK, GoodRequest, CallSteps, At
<1>4. PICK w \in Wallets \cup {NoWallet} : w = WalletOf(row)
  BY DEF WalletOf, Settings
<1>5. PICK step \in {"proxy", "wallet"} : step = IF row.mode = "proxy" THEN "proxy" ELSE "wallet"
  OBVIOUS
<1>6. ASSUME w # NoWallet, req' = [req EXCEPT ![s].at = step, ![s].wallet = w]
      PROVE  BackedAll'
  <2>1. PICK q : q = [req[s] EXCEPT !.at = step, !.wallet = w]
    OBVIOUS
  <2>2. q \in Request /\ q.at = step /\ q.name = req[s].name /\ q.wallet = w
    BY <1>2, <2>1 DEF GoodRequest, Request
  <2>3. GoodRequest(q)
    BY <1>1, <1>2, <1>6, <2>2 DEF GoodRequest, CallSteps, At
  <2>4. Backed(q, issued', lineage')
    BY <1>1, <1>2, <2>2 DEF Backed, At, CallSteps, book
  <2> QED BY <1>1, <1>6, <2>1, <2>3, <2>4, SameGrows, OneBacked DEF Base
<1>7. ASSUME End(s)
      PROVE  BackedAll'
  BY <1>1, <1>7, SameGrows, EndsBacked DEF Base
<1> QED BY <1>3, <1>4, <1>5, <1>6, <1>7 DEF ReadConfig

LEMMA WritesBacked ==
  ASSUME Base, NEW s \in Slots, Upsert(s) \/ RecordSuccess(s) \/ RecordFailure(s)
  PROVE  BackedAll'
<1>1. UNCHANGED <<book, lineage>> /\ End(s)
  BY DEF Upsert, RecordSuccess, RecordFailure, history
<1> QED BY <1>1, SameGrows, EndsBacked DEF Base
\* What a committed claim does to the records the lemmas below speak of.
LEMMA ClaimFacts ==
  ASSUME Base, NEW s \in Slots, NEW takes \in BOOLEAN, CommitClaim(s, takes)
  PROVE  \E p \in Pubkeys, n \in Names \ issued, src \in Names \cup {NoName} :
           /\ p = req[s].pubkey /\ n = req[s].name /\ src = req[s].source
           /\ issued' = issued \cup {n}
           /\ holder' = [holder EXCEPT ![n] = p]
           /\ primary' = IF takes THEN [primary EXCEPT ![p] = n] ELSE primary
           /\ lineage' = [lineage EXCEPT ![n] =
                {p} \cup IF src # NoName /\ holder[src] = p THEN lineage[src] ELSE {}]
           /\ src # NoName => src \in issued
<1>1. GoodRequest(req[s]) /\ Backed(req[s], issued, lineage) /\ At(s, "claim")
  BY DEF Base, TInv, RequestsOK, BackedAll, CommitClaim
<1>2. PICK p \in Pubkeys, n \in Names, src \in Names \cup {NoName} :
        p = req[s].pubkey /\ n = req[s].name /\ src = req[s].source
  BY <1>1 DEF At, GoodRequest, Request
<1>3. Registry!Issue(n, p) /\ (src # NoName => src \in issued)
  BY <1>1, <1>2 DEF CommitClaim, Backed, At
<1>4. lineage' = [lineage EXCEPT ![n] =
                {p} \cup IF src # NoName /\ holder[src] = p THEN lineage[src] ELSE {}]
  BY <1>2 DEF CommitClaim
<1>5. primary' = IF takes THEN [primary EXCEPT ![p] = n] ELSE primary
  BY <1>2 DEF CommitClaim
<1> QED BY <1>2, <1>3, <1>4, <1>5 DEF Registry!Issue

LEMMA ClaimGrows ==
  ASSUME Base, NEW s \in Slots, NEW takes \in BOOLEAN, CommitClaim(s, takes)
  PROVE  Grows
<1>1. PICK n \in Names \ issued : issued' = issued \cup {n}
                               /\ \A m \in Names \ {n} : lineage'[m] = lineage[m]
  BY ClaimFacts DEF Base, TInv, HistoryOK
<1>2. lineage[n] = {}
  BY DEF Base, Fresh
<1> QED BY <1>1, <1>2 DEF Grows

LEMMA CommitClaimBacked ==
  ASSUME Base, NEW s \in Slots, NEW takes \in BOOLEAN, CommitClaim(s, takes)
  PROVE  BackedAll'
<1>1. GoodRequest(req[s]) /\ Backed(req[s], issued, lineage) /\ At(s, "claim")
  BY DEF Base, TInv, RequestsOK, BackedAll, CommitClaim
<1>2. PICK p \in Pubkeys, n \in Names :
        p = req[s].pubkey /\ n = req[s].name /\ n \in issued' /\ p \in lineage'[n]
  BY ClaimFacts DEF Base, TInv, HistoryOK
<1>3. PICK w \in Wallets \cup {NoWallet} : w = req[s].wallet
  BY <1>1 DEF GoodRequest, Request
<1>4. CASE w = NoWallet
  BY <1>3, <1>4, EndsBacked, ClaimGrows DEF CommitClaim, Base
<1>5. CASE w # NoWallet
  <2>1. PICK u \in Updates : u = ToProxy(w)
    BY <1>5 DEF ToProxy, Updates, Modes
  <2>2. PICK q : q = [req[s] EXCEPT !.at = "upsert", !.wallet = NoWallet, !.update = u]
    OBVIOUS
  <2>3. req' = [req EXCEPT ![s] = q]
    <3>1. req' = [req EXCEPT ![s].at = "upsert", ![s].wallet = NoWallet,
                             ![s].update = ToProxy(req[s].wallet)]
      BY <1>3, <1>5 DEF CommitClaim
    <3> QED BY <1>3, <2>1, <2>2, <3>1
  <2>4. q \in Request /\ q.at = "upsert" /\ q.name = n /\ q.update = u
    BY <1>1, <1>2, <2>2 DEF GoodRequest, Request
  <2>5. GoodRequest(q)
    BY <2>4 DEF GoodRequest, CallSteps
  <2>6. Keeper[w] = p
    BY <1>1, <1>2, <1>3, <1>5 DEF Backed, At
  <2>7. BelongTo(u, lineage'[n])
    BY <1>2, <2>1, <2>6 DEF BelongTo, ToProxy
  <2>8. Backed(q, issued', lineage')
    BY <1>2, <2>4, <2>7 DEF Backed, CallSteps
  <2> QED BY <2>3, <2>5, <2>8, ClaimGrows, OneBacked DEF Base
<1> QED BY <1>4, <1>5

\* A name that moves stays issued, and its lineage gains whom it went to.
LEMMA MovesFacts ==
  ASSUME Base, NEW n \in Names,
         Revoke(n) \/ SetPrimary(n) \/ \E q \in Pubkeys : Transfer(n, q)
  PROVE  /\ n \in issued /\ holder[n] \in Pubkeys
         /\ UNCHANGED <<issued, settings, req, raced, failed, swapped>>
         /\ Grows
         /\ \A m \in Names \ {n} : holder'[m] = holder[m] /\ lineage'[m] = lineage[m]
         /\ holder'[n] = Nobody \/ holder'[n] \in lineage'[n]
<1>1. Counted /\ holder[n] # Nobody
  BY DEF Revoke, SetPrimary, Transfer, Registry!Revoke, Registry!Transfer
<1>2. n \in issued /\ holder[n] \in Pubkeys /\ holder[n] \in lineage[n]
  BY <1>1 DEF Base, Held, TInv, BookOK
<1>3. CASE Revoke(n)
  BY <1>1, <1>2, <1>3 DEF Revoke, Registry!Revoke, Counted, Grows, history, Base, TInv, BookOK
<1>4. CASE SetPrimary(n)
  BY <1>1, <1>2, <1>4 DEF SetPrimary, Counted, Grows, history
<1>5. ASSUME NEW q \in Pubkeys, Transfer(n, q)
      PROVE  /\ UNCHANGED <<issued, settings, req, raced, failed, swapped>>
             /\ Grows
             /\ \A m \in Names \ {n} : holder'[m] = holder[m] /\ lineage'[m] = lineage[m]
             /\ holder'[n] \in lineage'[n]
  BY <1>1, <1>5 DEF Transfer, Registry!Transfer, Counted, Grows, Base, TInv, BookOK, HistoryOK
<1> QED BY <1>2, <1>3, <1>4, <1>5

LEMMA MovesPrimaries ==
  ASSUME Base, NEW n \in Names,
         Revoke(n) \/ SetPrimary(n) \/ \E q \in Pubkeys : Transfer(n, q)
  PROVE  Primaries'
<1>1. holder[n] \in Pubkeys /\ holder[n] # Nobody
  BY MovesFacts, LightningConstants
<1>2. ASSUME NEW heir \in Heirs(n), heir # NoName
      PROVE  heir \in Names \ {n} /\ holder[heir] = holder[n]
  <2>1. heir \in Names \cup {NoName}
    BY <1>1, HeirsAreNames DEF Base
  <2>2. CASE primary[holder[n]] = n
    BY <1>2, <2>2 DEF Heirs
  <2>3. CASE primary[holder[n]] # n
    BY <1>1, <1>2, <2>1, <2>3 DEF Heirs, Base, Primaries
  <2> QED BY <2>2, <2>3
<1>3. \A p \in Pubkeys \ {holder[n]} : primary[p] # n
  BY LightningConstants DEF Base, Primaries
<1>4. ASSUME NEW p \in Pubkeys, primary[p] # NoName
      PROVE  primary[p] \in Names /\ holder[primary[p]] = p
  BY <1>4 DEF Base, Primaries, TInv, BookOK
<1>5. CASE Revoke(n)
  <2>1. primary' = [primary EXCEPT ![holder[n]] = IF @ = n THEN NoName ELSE @]
    BY <1>5 DEF Revoke
  <2>2. \A m \in Names \ {n} : holder'[m] = holder[m]
    BY MovesFacts
  <2>3. \A p \in Pubkeys \ {holder[n]} : primary'[p] = primary[p]
    BY <2>1 DEF Base, TInv, BookOK
  <2>4. \/ primary'[holder[n]] = NoName
        \/ primary'[holder[n]] = primary[holder[n]] /\ primary[holder[n]] # n
    BY <1>1, <2>1 DEF Base, TInv, BookOK
  <2> QED BY <1>1, <1>3, <1>4, <2>2, <2>3, <2>4 DEF Primaries
<1>6. CASE SetPrimary(n)
  BY <1>1, <1>4, <1>6 DEF SetPrimary, Primaries, Base, TInv, BookOK
<1>7. ASSUME NEW q \in Pubkeys, Transfer(n, q)
      PROVE  Primaries'
  <2>1. PICK heir \in Heirs(n) :
          primary' = [primary EXCEPT ![holder[n]] = heir, ![q] = IF @ = NoName THEN n ELSE @]
    BY <1>7 DEF Transfer
  <2>2. \A m \in Names \ {n} : holder'[m] = holder[m]
    BY MovesFacts
  <2>3. holder'[n] = q /\ q # holder[n]
    BY <1>7 DEF Transfer, Registry!Transfer, Base, TInv, BookOK
  <2>4. \A p \in Pubkeys \ {holder[n], q} : primary'[p] = primary[p]
    BY <2>1 DEF Base, TInv, BookOK
  <2>5. primary'[holder[n]] = heir
    BY <1>1, <2>1, <2>3 DEF Base, TInv, BookOK
  <2>6. primary'[q] = n \/ primary'[q] = primary[q]
    BY <1>1, <2>1, <2>3 DEF Base, TInv, BookOK
  <2> QED BY <1>2, <1>3, <1>4, <2>2, <2>3, <2>4, <2>5, <2>6 DEF Primaries
<1> QED BY <1>5, <1>6, <1>7
\* The steps that leave the registry, the settings and the history alone.
Reads(s) ==
  \/ Change(s) \/ ReadPrimary(s) \/ LookupName(s) \/ ClaimRefused(s)
  \/ Find(s) \/ ReadConfig(s) \/ ProxyAnswers(s) \/ Timeout(s) \/ Drops(s)
  \/ \E n \in Names : BeginCall(s, n)
  \/ \E coding \in {"nip44", "nip04", "junk"} : Hear(s, coding)

LEMMA ReadsStill ==
  ASSUME Base, NEW s \in Slots, Reads(s)
  PROVE  UNCHANGED <<book, settings, history>>
  BY ChangeBacked DEF Reads, ReadPrimary, LookupName, ClaimRefused, Find, ReadConfig,
     ProxyAnswers, Timeout, Drops, BeginCall, Hear

LEMMA NextCases ==
  ASSUME [Next]_vars
  PROVE  \/ UNCHANGED vars
         \/ \E s \in Slots :
              \/ Reads(s) \/ Upsert(s) \/ RecordSuccess(s) \/ RecordFailure(s)
              \/ \E takes \in BOOLEAN : CommitClaim(s, takes)
         \/ \E n \in Names : Revoke(n) \/ SetPrimary(n) \/ \E q \in Pubkeys : Transfer(n, q)
  BY DEF Next, Handle, Reads

LEMMA BackedNext ==
  ASSUME Base, [Next]_vars
  PROVE  BackedAll'
<1>1. CASE UNCHANGED vars
  BY <1>1, SameGrows, StaysBacked DEF vars, history, Base
<1>2. ASSUME NEW s \in Slots, Reads(s)
      PROVE  BackedAll'
  BY <1>2, ChangeBacked, ReadPrimaryBacked, ReadsBacked, ReadConfigBacked, BeginCallBacked,
     HearBacked DEF Reads
<1>3. ASSUME NEW n \in Names, Revoke(n) \/ SetPrimary(n) \/ \E q \in Pubkeys : Transfer(n, q)
      PROVE  BackedAll'
  BY <1>3, MovesFacts, StaysBacked DEF Base
<1> QED BY <1>1, <1>2, <1>3, NextCases, WritesBacked, CommitClaimBacked

\* A write keeps to the row of a name that was issued.
LEMMA WritesFacts ==
  ASSUME Base, NEW s \in Slots, Upsert(s) \/ RecordSuccess(s) \/ RecordFailure(s)
  PROVE  /\ req[s].name \in issued /\ req[s].name \in Names
         /\ UNCHANGED <<book, lineage, raced>>
         /\ \A n \in Names \ {req[s].name} : settings'[n] = settings[n] /\ failed'[n] = failed[n]
<1>1. GoodRequest(req[s]) /\ Backed(req[s], issued, lineage)
  BY DEF Base, TInv, RequestsOK, BackedAll
<1>2. req[s].name \in issued
  BY <1>1 DEF Upsert, RecordSuccess, RecordFailure, At, Backed, CallSteps
<1>3. req[s].name \in Names
  BY <1>1 DEF Upsert, RecordSuccess, RecordFailure, At, GoodRequest, CallSteps
<1>4. \A n \in Names \ {req[s].name} : settings'[n] = settings[n] /\ failed'[n] = failed[n]
  BY <1>3 DEF Upsert, RecordSuccess, RecordFailure, history, Base, TInv, SettingsOK, HistoryOK
<1> QED BY <1>2, <1>3, <1>4 DEF Upsert, RecordSuccess, RecordFailure, history

LEMMA BaseNext ==
  ASSUME Base, [Next]_vars
  PROVE  Base'
<1>1. TInv' /\ BackedAll'
  BY TInvNext, BackedNext DEF Base
<1>2. ASSUME UNCHANGED <<book, settings, history>>
      PROVE  (Fresh /\ Held /\ Primaries)'
  BY <1>2 DEF book, history, Base, Fresh, Held, Primaries
<1>3. ASSUME NEW s \in Slots, Upsert(s) \/ RecordSuccess(s) \/ RecordFailure(s)
      PROVE  (Fresh /\ Held /\ Primaries)'
  <2>1. UNCHANGED <<book, lineage>> /\ \A n \in Names \ issued : settings'[n] = settings[n]
    BY <1>3, WritesFacts
  <2> QED BY <2>1 DEF book, Base, Fresh, Held, Primaries
<1>4. ASSUME NEW s \in Slots, NEW takes \in BOOLEAN, CommitClaim(s, takes)
      PROVE  (Fresh /\ Held /\ Primaries)'
  <2>1. PICK p \in Pubkeys, n \in Names \ issued, src \in Names \cup {NoName} :
           /\ n = req[s].name /\ src = req[s].source
           /\ issued' = issued \cup {n}
           /\ holder' = [holder EXCEPT ![n] = p]
           /\ primary' = IF takes THEN [primary EXCEPT ![p] = n] ELSE primary
           /\ lineage' = [lineage EXCEPT ![n] =
                {p} \cup IF src # NoName /\ holder[src] = p THEN lineage[src] ELSE {}]
    BY <1>4, ClaimFacts
  <2>2. holder[n] = Nobody
    BY DEF Base, Held
  <2>3. \A m \in Names \ {n} : settings'[m] = settings[m]
    BY <1>4, <2>1 DEF CommitClaim, Base, TInv, SettingsOK
  <2>4. Fresh'
    BY <2>1, <2>3 DEF Base, Fresh, TInv, HistoryOK
  <2>5. Held'
    BY <2>1 DEF Base, Held, TInv, HistoryOK, BookOK
  <2>6. Primaries'
    BY <2>1, <2>2, LightningConstants DEF Base, Primaries, TInv, BookOK
  <2> QED BY <2>4, <2>5, <2>6
<1>5. ASSUME NEW n \in Names, Revoke(n) \/ SetPrimary(n) \/ \E q \in Pubkeys : Transfer(n, q)
      PROVE  (Fresh /\ Held /\ Primaries)'
  <2>1. /\ n \in issued /\ UNCHANGED <<issued, settings>>
        /\ \A m \in Names \ {n} : holder'[m] = holder[m] /\ lineage'[m] = lineage[m]
        /\ holder'[n] = Nobody \/ holder'[n] \in lineage'[n]
    BY <1>5, MovesFacts
  <2>2. Fresh' /\ Held'
    BY <2>1 DEF Base, Fresh, Held
  <2> QED BY <1>5, <2>2, MovesPrimaries
<1> QED BY <1>1, <1>2, <1>3, <1>4, <1>5, NextCases, ReadsStill DEF Base, vars

LEMMA BaseInit == Init => Base
<1> SUFFICES ASSUME Init PROVE Base
  OBVIOUS
<1>1. Fresh /\ Held /\ Primaries
  BY DEF Init, Fresh, Held, Primaries
<1>2. BackedAll
  BY DEF Init, BackedAll, Backed, Idle, CallSteps
<1> QED BY <1>1, <1>2, TInvInit DEF Base

-----------------------------------------------------------------------------
(* The wallets of a name.                                                   *)

RowBelongs(row, owners) ==
  /\ row.mode \in {"proxy", "nwc"} => WalletOf(row) # NoWallet
  /\ BelongTo(row, owners)

RowsBelong == \A n \in Names \ raced : RowBelongs(settings[n], lineage[n])

LEMMA RowsAreTheProperty == RowsBelong <=> WalletsOfTheLineage
  BY DEF RowsBelong, RowBelongs, BelongTo, WalletsOfTheLineage

LEMMA UpsertedBelongs ==
  ASSUME NEW row \in Settings, NEW u \in Updates, NEW owners,
         RowBelongs(row, owners), BelongTo(u, owners)
  PROVE  RowBelongs(Upserted(row, u), owners)
<1>1. /\ u.mode \in Modes
      /\ u.mode = "proxy" => u.proxy # NoWallet
      /\ u.mode = "nwc" <=> u.nwc # NoWallet
  BY DEF Updates
<1>2. PICK new : new = Upserted(row, u)
  OBVIOUS
<1>3. /\ new.mode = u.mode
      /\ new.proxy \in {u.proxy, NoWallet} /\ new.nwc \in {u.nwc, row.nwc}
      /\ u.mode = "proxy" => new.proxy = u.proxy
      /\ u.mode = "nwc" => new.nwc = u.nwc
  <2>1. CASE row = NoSettings
    BY <1>2, <2>1 DEF Upserted
  <2>2. CASE row # NoSettings
    BY <1>2, <2>2 DEF Upserted
  <2> QED BY <2>1, <2>2
<1>4. BelongTo(new, owners)
  BY <1>3 DEF BelongTo, RowBelongs
<1>5. new.mode \in {"proxy", "nwc"} => WalletOf(new) # NoWallet
  BY <1>1, <1>3 DEF WalletOf
<1> QED BY <1>2, <1>4, <1>5 DEF RowBelongs

LEMMA RowsNext ==
  ASSUME Base, RowsBelong, [Next]_vars
  PROVE  RowsBelong'
<1>1. CASE UNCHANGED <<book, settings, history>>
  BY <1>1 DEF history, RowsBelong, RowBelongs, BelongTo
<1>2. ASSUME NEW s \in Slots, Upsert(s)
      PROVE  RowsBelong'
  <2>1. PICK n \in Names : n = req[s].name
    BY <1>2, WritesFacts
  <2>2. PICK u \in Updates : u = req[s].update
    BY <1>2 DEF Upsert, At, Base, TInv, RequestsOK, GoodRequest
  <2>3. BelongTo(u, lineage[n])
    BY <1>2, <2>1, <2>2 DEF Upsert, At, Base, BackedAll, Backed
  <2>4. PICK row \in Settings : row = settings[n]
    BY DEF Base, TInv, SettingsOK
  <2>5. settings'[n] = Upserted(row, u)
    BY <1>2, <2>1, <2>2, <2>4 DEF Upsert, Base, TInv, SettingsOK
  <2>6. n \notin raced => RowBelongs(settings'[n], lineage[n])
    BY <2>3, <2>4, <2>5, UpsertedBelongs DEF RowsBelong
  <2>7. UNCHANGED <<lineage, raced>> /\ \A m \in Names \ {n} : settings'[m] = settings[m]
    BY <1>2, <2>1, WritesFacts
  <2>8. \A m \in Names \ raced' : RowBelongs(settings'[m], lineage'[m])
    BY <2>6, <2>7 DEF RowsBelong
  <2> QED BY <2>8 DEF RowsBelong, RowBelongs, BelongTo, WalletOf
<1>3. ASSUME NEW s \in Slots, RecordSuccess(s) \/ RecordFailure(s)
      PROVE  RowsBelong'
  <2>1. UNCHANGED <<lineage, raced>>
    BY <1>3, WritesFacts
  <2>2. ASSUME NEW m \in Names
        PROVE  /\ settings'[m].mode = settings[m].mode
               /\ settings'[m].proxy = settings[m].proxy
               /\ settings'[m].nwc = settings[m].nwc
    <3>1. PICK row \in Settings : row = settings[m]
      BY DEF Base, TInv, SettingsOK
    <3>2. CASE m = req[s].name
      <4>1. \/ settings'[m] = [row EXCEPT !.errors = 0]
            \/ settings'[m] = [row EXCEPT !.errors = row.errors + 1]
        BY <1>3, <3>1, <3>2 DEF RecordSuccess, RecordFailure, Base, TInv, SettingsOK
      <4> QED BY <3>1, <4>1 DEF Settings
    <3>3. CASE m # req[s].name
      BY <1>3, <3>3, WritesFacts
    <3> QED BY <3>2, <3>3
  <2> QED BY <2>1, <2>2 DEF RowsBelong, RowBelongs, BelongTo, WalletOf
<1>4. ASSUME NEW s \in Slots, NEW takes \in BOOLEAN, CommitClaim(s, takes)
      PROVE  RowsBelong'
  <2>1. PICK p \in Pubkeys, n \in Names \ issued, src \in Names \cup {NoName} :
           /\ p = req[s].pubkey /\ n = req[s].name /\ src = req[s].source
           /\ lineage' = [lineage EXCEPT ![n] =
                {p} \cup IF src # NoName /\ holder[src] = p THEN lineage[src] ELSE {}]
           /\ src # NoName => src \in issued
    BY <1>4, ClaimFacts
  <2>2. \A m \in Names \ {n} : settings'[m] = settings[m] /\ lineage'[m] = lineage[m]
    BY <1>4, <2>1 DEF CommitClaim, Base, TInv, SettingsOK, HistoryOK
  <2>3. raced \subseteq raced'
    BY <1>4 DEF CommitClaim
  <2>4. RowBelongs(NoSettings, lineage'[n])
    BY DEF RowBelongs, BelongTo, NoSettings
  <2>5. CASE src = NoName
    <3>1. settings'[n] = NoSettings
      BY <1>4, <2>1, <2>5 DEF CommitClaim, Base, Fresh
    <3>2. \A m \in Names \ raced' : RowBelongs(settings'[m], lineage'[m])
      BY <2>2, <2>3, <2>4, <3>1 DEF RowsBelong
    <3> QED BY <3>2 DEF RowsBelong, RowBelongs, BelongTo, WalletOf
  <2>6. CASE src # NoName
    <3>1. PICK row \in Settings : row = settings[src]
      BY <2>6 DEF Base, TInv, SettingsOK
    <3>2. settings'[n] = Copied(row)
      BY <1>4, <2>1, <2>6, <3>1 DEF CommitClaim, Base, TInv, SettingsOK
    <3>3. ASSUME n \notin raced'
          PROVE  RowBelongs(settings'[n], lineage'[n])
      <4>1. holder[src] = p /\ src \notin raced
        BY <1>4, <2>1, <2>6, <3>3 DEF CommitClaim
      <4>2. RowBelongs(row, lineage[src])
        BY <2>6, <3>1, <4>1 DEF RowsBelong
      <4>3. lineage[src] \subseteq lineage'[n]
        BY <2>1, <2>6, <4>1 DEF Base, TInv, HistoryOK
      <4>4. RowBelongs(Copied(row), lineage[src])
        BY <4>2 DEF RowBelongs, BelongTo, Copied, NoSettings, Settings, WalletOf
      <4> QED BY <3>2, <4>3, <4>4 DEF RowBelongs, BelongTo
    <3>4. \A m \in Names \ raced' : RowBelongs(settings'[m], lineage'[m])
      BY <2>2, <2>3, <3>3 DEF RowsBelong
    <3> QED BY <3>4 DEF RowsBelong, RowBelongs, BelongTo, WalletOf
  <2> QED BY <2>5, <2>6
<1>5. ASSUME NEW n \in Names, Revoke(n) \/ SetPrimary(n) \/ \E q \in Pubkeys : Transfer(n, q)
      PROVE  RowsBelong'
  <2>1. UNCHANGED <<settings, raced>> /\ \A m \in Names : lineage[m] \subseteq lineage'[m]
    BY <1>5, MovesFacts DEF Grows
  <2> QED BY <2>1 DEF RowsBelong, RowBelongs, BelongTo
<1> QED BY <1>1, <1>2, <1>3, <1>4, <1>5, NextCases, ReadsStill DEF vars

\* Whatever requests race, and for any number of them, a name pays to nobody
\* outside its lineage, except where its settings were copied from a primary
\* that was moved in the middle of the registration (postgres.go:545-586,
\* 776-828, management.go:287-323).
THEOREM WalletsStayInTheLineage == Spec => []WalletsOfTheLineage
<1>1. Init => Base /\ RowsBelong
  BY BaseInit DEF Init, RowsBelong, RowBelongs, BelongTo, NoSettings
<1>2. Base /\ RowsBelong /\ [Next]_vars => (Base /\ RowsBelong)'
  BY BaseNext, RowsNext
<1> QED BY <1>1, <1>2, RowsAreTheProperty, PTL DEF Spec
-----------------------------------------------------------------------------
(* The errors of a wallet.  A callback that may write one asks the wallet of *)
(* the row, unless the row was given another while it asked.                *)

AskSteps == {"wallet", "success", "failure"}

AsksTheRow ==
  \A t \in Slots : req[t].at \in AskSteps =>
    req[t].name \in swapped \/ req[t].wallet = settings[req[t].name].nwc

ErrInv == Base /\ AsksTheRow /\ ErrorsOfThisWallet

\* Whoever asks after a step asked before it, or just read the row.
Carries ==
  \A t \in Slots : req'[t].at \in AskSteps =>
    \/ /\ req[t].at \in AskSteps
       /\ req'[t].name = req[t].name /\ req'[t].wallet = req[t].wallet
    \/ /\ UNCHANGED settings
       /\ req'[t].wallet = settings[req'[t].name].nwc

\* Nobody asks for a row that is given another wallet, or it is marked.
Marks ==
  /\ swapped \subseteq swapped'
  /\ \A n \in Names : \/ settings'[n].nwc = settings[n].nwc
                      \/ n \in swapped'
                      \/ \A t \in Slots : req[t].at \in AskSteps => req[t].name # n

LEMMA SlotCarries ==
  ASSUME TInv, NEW s \in Slots, NEW q, req' = [req EXCEPT ![s] = q],
         q.at \in AskSteps =>
           \/ req[s].at \in AskSteps /\ q.name = req[s].name /\ q.wallet = req[s].wallet
           \/ UNCHANGED settings /\ q.wallet = settings[q.name].nwc
  PROVE  Carries
<1>1. req'[s] = q /\ \A t \in Slots \ {s} : req'[t] = req[t]
  BY DEF TInv, RequestsOK
<1> QED BY <1>1 DEF Carries

LEMMA EndCarries == ASSUME TInv, NEW s \in Slots, End(s) PROVE Carries
<1>1. Idle.at \notin AskSteps
  BY DEF Idle, AskSteps
<1> QED BY <1>1, SlotCarries DEF End

LEMMA GotoCarries ==
  ASSUME TInv, NEW s \in Slots, NEW step, Goto(s, step),
         step \in AskSteps => req[s].at \in AskSteps
  PROVE  Carries
<1>1. PICK q : q = [req[s] EXCEPT !.at = step]
  OBVIOUS
<1>2. q.at = step /\ q.name = req[s].name /\ q.wallet = req[s].wallet
  BY <1>1 DEF TInv, RequestsOK, Request
<1> QED BY <1>1, <1>2, SlotCarries DEF Goto

LEMMA BeginCarries ==
  ASSUME TInv, NEW s \in Slots, NEW q, Begin(s, q), q.at \notin AskSteps
  PROVE  Carries
  BY SlotCarries DEF Begin

LEMMA ReadConfigCarries ==
  ASSUME TInv, NEW s \in Slots, ReadConfig(s)
  PROVE  Carries
<1>1. PICK row : row = settings[req[s].name]
  OBVIOUS
<1>2. CASE End(s)
  BY <1>2, EndCarries
<1>3. CASE req' = [req EXCEPT ![s].at = IF row.mode = "proxy" THEN "proxy" ELSE "wallet",
                              ![s].wallet = WalletOf(row)]
  <2>1. PICK step : step = IF row.mode = "proxy" THEN "proxy" ELSE "wallet"
    OBVIOUS
  <2>2. PICK w : w = WalletOf(row)
    OBVIOUS
  <2>3. PICK q : q = [req[s] EXCEPT !.at = step, !.wallet = w]
    OBVIOUS
  <2>4. q.at = step /\ q.name = req[s].name /\ q.wallet = w
    BY <2>3 DEF TInv, RequestsOK, Request
  <2>5. req' = [req EXCEPT ![s] = q]
    BY <1>3, <2>1, <2>2, <2>3
  <2>6. q.at \in AskSteps => w = row.nwc
    BY <2>1, <2>2, <2>4 DEF AskSteps, WalletOf
  <2> QED BY <1>1, <2>4, <2>5, <2>6, SlotCarries DEF ReadConfig
<1> QED BY <1>1, <1>2, <1>3 DEF ReadConfig

LEMMA ReadsCarry ==
  ASSUME Base, NEW s \in Slots, Reads(s)
  PROVE  Carries
<1>1. TInv
  BY DEF Base
<1>2. ASSUME NEW p \in Pubkeys, NEW u, BeginUpdate(s, p, u)
      PROVE  Carries
  <2>1. PICK q : q = [Idle EXCEPT !.at = "primary", !.pubkey = p, !.update = u]
    OBVIOUS
  <2>2. q.at \notin AskSteps
    BY <2>1 DEF Idle, AskSteps
  <2> QED BY <1>1, <1>2, <2>1, <2>2, BeginCarries DEF BeginUpdate
<1>3. ASSUME NEW n \in Names, NEW u, BeginAdminSet(s, n, u)
      PROVE  Carries
  <2>1. PICK q : q = [Idle EXCEPT !.at = "lookup", !.name = n, !.update = u]
    OBVIOUS
  <2>2. q.at \notin AskSteps
    BY <2>1 DEF Idle, AskSteps
  <2> QED BY <1>1, <1>3, <2>1, <2>2, BeginCarries DEF BeginAdminSet
<1>4. ASSUME NEW p \in Pubkeys, NEW n \in Names, NEW w, BeginClaim(s, p, n, w)
      PROVE  Carries
  <2>1. PICK q : q = [Idle EXCEPT !.at = "claim", !.pubkey = p, !.name = n,
                                  !.source = primary[p], !.wallet = w]
    OBVIOUS
  <2>2. q.at \notin AskSteps
    BY <2>1 DEF Idle, AskSteps
  <2> QED BY <1>1, <1>4, <2>1, <2>2, BeginCarries DEF BeginClaim
<1>5. ASSUME NEW n \in Names, BeginCall(s, n)
      PROVE  Carries
  <2>1. PICK q : q = [Idle EXCEPT !.at = "find", !.name = n]
    OBVIOUS
  <2>2. q.at \notin AskSteps
    BY <2>1 DEF Idle, AskSteps
  <2> QED BY <1>1, <1>5, <2>1, <2>2, BeginCarries DEF BeginCall
<1>6. CASE ReadPrimary(s)
  <2>1. PICK n : n = primary[req[s].pubkey]
    OBVIOUS
  <2>2. ASSUME req' = [req EXCEPT ![s].at = "upsert", ![s].name = n]
        PROVE  Carries
    <3>1. PICK q : q = [req[s] EXCEPT !.at = "upsert", !.name = n]
      OBVIOUS
    <3>2. q.at \notin AskSteps
      BY <3>1 DEF TInv, RequestsOK, Request, Base, AskSteps
    <3>3. req' = [req EXCEPT ![s] = q]
      BY <2>2, <3>1
    <3> QED BY <1>1, <3>2, <3>3, SlotCarries
  <2> QED BY <1>1, <1>6, <2>1, <2>2, EndCarries DEF ReadPrimary
<1>7. CASE \/ LookupName(s) \/ ClaimRefused(s) \/ Find(s) \/ ProxyAnswers(s)
           \/ Timeout(s) \/ Drops(s)
  <2>1. \/ End(s)
        \/ Goto(s, "upsert") \/ Goto(s, "config")
        \/ Goto(s, "failure") /\ req[s].at = "wallet"
    BY <1>7 DEF LookupName, ClaimRefused, Find, ProxyAnswers, Timeout, Drops, At
  <2> QED BY <1>1, <2>1, EndCarries, GotoCarries DEF AskSteps
<1>8. ASSUME NEW coding, Hear(s, coding)
      PROVE  Carries
  <2>1. \/ \E outcome \in {"success", "failure"} : Goto(s, outcome)
        \/ req' = [req EXCEPT ![s].nip44 = FALSE]
    BY <1>8 DEF Hear
  <2>2. req[s].at = "wallet"
    BY <1>8 DEF Hear, At
  <2>3. ASSUME req' = [req EXCEPT ![s].nip44 = FALSE]
        PROVE  Carries
    <3>1. PICK q : q = [req[s] EXCEPT !.nip44 = FALSE]
      OBVIOUS
    <3>2. req' = [req EXCEPT ![s] = q]
      BY <2>3, <3>1, Zenon
    <3>3. q.at = req[s].at /\ q.name = req[s].name /\ q.wallet = req[s].wallet
      BY <3>1 DEF TInv, RequestsOK, Request, Base
    <3> QED BY <1>1, <2>2, <3>2, <3>3, SlotCarries DEF AskSteps
  <2> QED BY <1>1, <2>1, <2>2, <2>3, GotoCarries DEF AskSteps
<1> QED BY <1>1, <1>2, <1>3, <1>4, <1>5, <1>6, <1>7, <1>8, ReadConfigCarries DEF Reads, Change
LEMMA AsksStay ==
  ASSUME TInv', AsksTheRow, Carries, Marks
  PROVE  AsksTheRow'
<1> SUFFICES ASSUME NEW t \in Slots, req'[t].at \in AskSteps, req'[t].name \notin swapped'
             PROVE  req'[t].wallet = settings'[req'[t].name].nwc
  BY DEF AsksTheRow
<1>1. req'[t].name \in Names
  BY DEF TInv, RequestsOK, GoodRequest, AskSteps, CallSteps
<1>2. CASE /\ req[t].at \in AskSteps
           /\ req'[t].name = req[t].name /\ req'[t].wallet = req[t].wallet
  BY <1>1, <1>2 DEF AsksTheRow, Marks
<1>3. CASE UNCHANGED settings /\ req'[t].wallet = settings[req'[t].name].nwc
  BY <1>3
<1> QED BY <1>2, <1>3 DEF Carries

\* An upsert that changes the NWC wallet starts its count at none.
LEMMA UpsertedErrors ==
  ASSUME NEW row \in Settings, NEW u \in Updates
  PROVE  \/ Upserted(row, u).errors = 0
         \/ Upserted(row, u).errors = row.errors /\ Upserted(row, u).nwc = row.nwc
<1>1. CASE row = NoSettings \/ u.mode = "nwc"
  BY <1>1 DEF Upserted
<1>2. CASE row # NoSettings /\ u.mode # "nwc"
  BY <1>2 DEF Upserted
<1> QED BY <1>1, <1>2

LEMMA UpsertErr ==
  ASSUME ErrInv, TInv', NEW s \in Slots, Upsert(s)
  PROVE  (AsksTheRow /\ ErrorsOfThisWallet)'
<1>1. PICK n \in Names : n = req[s].name /\ \A m \in Names \ {n} : settings'[m] = settings[m]
  BY WritesFacts DEF ErrInv
<1>2. PICK u \in Updates : u = req[s].update
  BY DEF Upsert, At, ErrInv, Base, TInv, RequestsOK, GoodRequest
<1>3. PICK row \in Settings : row = settings[n]
  BY DEF ErrInv, Base, TInv, SettingsOK
<1>4. settings'[n] = Upserted(row, u) /\ failed' = failed
  BY <1>1, <1>2, <1>3 DEF Upsert, ErrInv, Base, TInv, SettingsOK
<1>5. /\ swapped \subseteq swapped'
      /\ settings'[n].nwc # settings[n].nwc =>
           n \in swapped' \/ ~\E t \in Slots : Asking(t, n)
  BY <1>1, <1>2, <1>3, <1>4 DEF Upsert
<1>6. Marks
  BY <1>1, <1>5 DEF Marks, Asking, AskSteps
<1>7. Carries
  BY EndCarries DEF Upsert, ErrInv, Base
<1>8. AsksTheRow'
  BY <1>6, <1>7, AsksStay DEF ErrInv
<1>9. ASSUME NEW m \in Names \ swapped', settings'[m].errors > 0
      PROVE  settings'[m].nwc \in failed'[m]
  <2>1. CASE m # n
    BY <1>1, <1>4, <1>5, <1>9, <2>1 DEF ErrInv, ErrorsOfThisWallet
  <2>2. CASE m = n
    <3>1. settings'[n].errors = row.errors /\ settings'[n].nwc = row.nwc
      BY <1>4, <1>9, <2>2, UpsertedErrors
    <3> QED BY <1>3, <1>4, <1>5, <1>9, <2>2, <3>1 DEF ErrInv, ErrorsOfThisWallet
  <2> QED BY <2>1, <2>2
<1> QED BY <1>8, <1>9 DEF ErrorsOfThisWallet

LEMMA RecordErr ==
  ASSUME ErrInv, TInv', NEW s \in Slots, RecordSuccess(s) \/ RecordFailure(s)
  PROVE  (AsksTheRow /\ ErrorsOfThisWallet)'
<1>1. PICK n \in Names :
        /\ n = req[s].name
        /\ \A m \in Names \ {n} : settings'[m] = settings[m] /\ failed'[m] = failed[m]
  BY WritesFacts DEF ErrInv
<1>2. PICK row \in Settings : row = settings[n]
  BY DEF ErrInv, Base, TInv, SettingsOK
<1>3. swapped' = swapped
  BY DEF RecordSuccess, RecordFailure, history
<1>4. ASSUME RecordSuccess(s)
      PROVE  settings'[n].errors = 0 /\ settings'[n].nwc = row.nwc
  <2>1. settings'[n] = [row EXCEPT !.errors = 0]
    BY <1>1, <1>2, <1>4 DEF RecordSuccess, ErrInv, Base, TInv, SettingsOK
  <2> QED BY <1>2, <2>1 DEF Settings
<1>5. ASSUME RecordFailure(s)
      PROVE  settings'[n].nwc = row.nwc /\ (n \notin swapped => row.nwc \in failed'[n])
  <2>1. settings'[n] = [row EXCEPT !.errors = row.errors + 1]
    BY <1>1, <1>2, <1>5 DEF RecordFailure, ErrInv, Base, TInv, SettingsOK
  <2>2. failed'[n] = failed[n] \cup {req[s].wallet}
    BY <1>1, <1>5 DEF RecordFailure, ErrInv, Base, TInv, HistoryOK
  <2>3. n \notin swapped => req[s].wallet = row.nwc
    BY <1>1, <1>2, <1>5 DEF RecordFailure, At, ErrInv, AsksTheRow, AskSteps
  <2> QED BY <1>2, <2>1, <2>2, <2>3 DEF Settings
<1>6. settings'[n].nwc = settings[n].nwc
  BY <1>2, <1>4, <1>5
<1>7. AsksTheRow'
  <2>1. Marks
    BY <1>1, <1>3, <1>6 DEF Marks
  <2>2. Carries
    BY EndCarries DEF RecordSuccess, RecordFailure, ErrInv, Base
  <2> QED BY <2>1, <2>2, AsksStay DEF ErrInv
<1>8. ASSUME NEW m \in Names \ swapped', settings'[m].errors > 0
      PROVE  settings'[m].nwc \in failed'[m]
  <2>1. CASE m # n
    BY <1>1, <1>3, <1>8, <2>1 DEF ErrInv, ErrorsOfThisWallet
  <2>2. CASE m = n
    BY <1>3, <1>4, <1>5, <1>8, <2>2
  <2> QED BY <2>1, <2>2
<1> QED BY <1>7, <1>8 DEF ErrorsOfThisWallet

LEMMA ClaimErr ==
  ASSUME ErrInv, TInv', NEW s \in Slots, NEW takes \in BOOLEAN, CommitClaim(s, takes)
  PROVE  (AsksTheRow /\ ErrorsOfThisWallet)'
<1>1. PICK n \in Names \ issued : n = req[s].name
  BY ClaimFacts DEF ErrInv
<1>2. \A m \in Names \ {n} : settings'[m] = settings[m] /\ failed'[m] = failed[m]
  BY <1>1 DEF CommitClaim, ErrInv, Base, TInv, SettingsOK, HistoryOK
<1>3. swapped' = swapped
  BY DEF CommitClaim
<1>4. settings'[n].errors = 0
  <2>1. CASE req[s].source = NoName
    BY <1>1, <2>1 DEF CommitClaim, ErrInv, Base, Fresh, NoSettings
  <2>2. CASE req[s].source # NoName
    <3>1. req[s].source \in Names
      BY <2>2, ClaimFacts DEF ErrInv
    <3>2. PICK row \in Settings : row = settings[req[s].source]
      BY <3>1 DEF ErrInv, Base, TInv, SettingsOK
    <3>3. settings'[n] = Copied(row)
      BY <1>1, <2>2, <3>2 DEF CommitClaim, ErrInv, Base, TInv, SettingsOK
    <3> QED BY <3>2, <3>3 DEF Copied, NoSettings, Settings
  <2> QED BY <2>1, <2>2
<1>5. AsksTheRow'
  <2>1. \A t \in Slots : req[t].at \in AskSteps => req[t].name # n
    BY DEF ErrInv, Base, BackedAll, Backed, AskSteps, CallSteps
  <2>2. Marks
    BY <1>2, <1>3, <2>1 DEF Marks
  <2>3. Carries
    <3>1. CASE End(s)
      BY <3>1, EndCarries DEF ErrInv, Base
    <3>2. ASSUME req' = [req EXCEPT ![s].at = "upsert", ![s].wallet = NoWallet,
                                    ![s].update = ToProxy(req[s].wallet)]
          PROVE  Carries
      <4>1. PICK u : u = ToProxy(req[s].wallet)
        OBVIOUS
      <4>2. PICK q : q = [req[s] EXCEPT !.at = "upsert", !.wallet = NoWallet, !.update = u]
        OBVIOUS
      <4>3. q.at \notin AskSteps
        BY <4>2 DEF ErrInv, Base, TInv, RequestsOK, Request, AskSteps
      <4>4. req' = [req EXCEPT ![s] = q]
        BY <3>2, <4>1, <4>2
      <4> QED BY <4>3, <4>4, SlotCarries DEF ErrInv, Base
    <3> QED BY <3>1, <3>2 DEF CommitClaim
  <2> QED BY <2>2, <2>3, AsksStay DEF ErrInv
<1>6. ASSUME NEW m \in Names \ swapped', settings'[m].errors > 0
      PROVE  settings'[m].nwc \in failed'[m]
  BY <1>2, <1>3, <1>4, <1>6 DEF ErrInv, ErrorsOfThisWallet
<1> QED BY <1>5, <1>6 DEF ErrorsOfThisWallet

LEMMA ErrNext ==
  ASSUME ErrInv, [Next]_vars
  PROVE  ErrInv'
<1>1. Base' /\ TInv'
  BY BaseNext DEF ErrInv, Base
<1>2. CASE UNCHANGED vars
  BY <1>1, <1>2 DEF vars, history, ErrInv, AsksTheRow, ErrorsOfThisWallet
<1>3. ASSUME NEW s \in Slots, Reads(s)
      PROVE  (AsksTheRow /\ ErrorsOfThisWallet)'
  <2>1. UNCHANGED <<settings, failed, swapped>>
    BY <1>3, ReadsStill DEF ErrInv, history
  <2>2. Marks
    BY <2>1 DEF Marks
  <2> QED BY <1>1, <1>3, <2>1, <2>2, ReadsCarry, AsksStay DEF ErrInv, ErrorsOfThisWallet
<1>4. ASSUME NEW n \in Names, Revoke(n) \/ SetPrimary(n) \/ \E q \in Pubkeys : Transfer(n, q)
      PROVE  (AsksTheRow /\ ErrorsOfThisWallet)'
  <2>1. UNCHANGED <<settings, req, failed, swapped>>
    BY <1>4, MovesFacts DEF ErrInv
  <2> QED BY <2>1 DEF ErrInv, AsksTheRow, ErrorsOfThisWallet
<1> QED BY <1>1, <1>2, <1>3, <1>4, NextCases, UpsertErr, RecordErr, ClaimErr DEF ErrInv

\* For any number of callbacks and changes of settings, the errors counted on a
\* row were counted of the NWC wallet it holds, unless the wallet was changed
\* while another was asked (postgres.go:293-322, 545-586).
THEOREM ErrorsAreOfThisWallet == Spec => []ErrorsOfThisWallet
<1>1. Init => ErrInv
  <2> SUFFICES ASSUME Init PROVE ErrInv
    OBVIOUS
  <2>1. AsksTheRow /\ ErrorsOfThisWallet
    BY DEF Init, Idle, AsksTheRow, AskSteps, ErrorsOfThisWallet, NoSettings
  <2> QED BY <2>1, BaseInit DEF ErrInv
<1>2. ErrInv /\ [Next]_vars => ErrInv'
  BY ErrNext
<1>3. ErrInv => ErrorsOfThisWallet
  BY DEF ErrInv
<1> QED BY <1>1, <1>2, <1>3, PTL DEF Spec

-----------------------------------------------------------------------------
(* The registry beneath the settings.                                       *)

\* Claims, transfers and revocations are all that a configuration or a callback
\* can meet: the names behind the settings behave as a name book.
THEOREM LightningKeepsNameBook == Spec => Registry!Spec
<1>1. Init => Registry!Init
  BY DEF Init, Registry!Init
<1>2. Base /\ [Next]_vars => [Registry!Next]_(Registry!bvars)
  <2> SUFFICES ASSUME Base, [Next]_vars
               PROVE  Registry!Next \/ UNCHANGED <<issued, holder>>
    BY DEF Registry!bvars
  <2>1. ASSUME NEW s \in Slots, NEW takes \in BOOLEAN, CommitClaim(s, takes)
        PROVE  Registry!Next
    <3>1. PICK p \in Pubkeys, n \in Names \ issued : p = req[s].pubkey /\ n = req[s].name
      BY <2>1, ClaimFacts
    <3>2. Registry!Issue(n, p)
      BY <2>1, <3>1 DEF CommitClaim
    <3> QED BY <3>2 DEF Registry!Next
  <2>2. ASSUME NEW n \in Names,
               Revoke(n) \/ SetPrimary(n) \/ \E q \in Pubkeys : Transfer(n, q)
        PROVE  Registry!Next \/ UNCHANGED <<issued, holder>>
    BY <2>2 DEF Revoke, SetPrimary, Transfer, Registry!Next
  <2>3. ASSUME NEW s \in Slots, Reads(s) \/ Upsert(s) \/ RecordSuccess(s) \/ RecordFailure(s)
        PROVE  UNCHANGED <<issued, holder>>
    BY <2>3, ReadsStill DEF Upsert, RecordSuccess, RecordFailure, book
  <2> QED BY <2>1, <2>2, <2>3, NextCases DEF vars, book
<1>3. Base /\ [Next]_vars => Base'
  BY BackedNext, BaseNext
<1> QED BY <1>1, <1>2, <1>3, BaseInit, PTL DEF Spec, Registry!Spec
=============================================================================
