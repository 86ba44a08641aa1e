----------------------- MODULE AddressRegistry_proofs -----------------------
(***************************************************************************)
(* Theorems about AddressRegistry, for every value of its constants.       *)
(***************************************************************************)
EXTENDS AddressRegistry, TLAPS

-----------------------------------------------------------------------------
(* Types.                                                                   *)

\* The steps at which a request works on a name.
Named == {"checkTaken", "checkReserved", "count", "insert", "lookup",
          "countOthers", "countTarget", "move", "lock", "deactivate", "setFlag"}

\* What the type of a request leaves out: it has a name and a pubkey when it
\* needs them, and only a revocation has no pubkey.
RequestOK(q) ==
  /\ q.step \in Named => q.name \in Names
  /\ q.step # "idle" /\ q.op # "revoke" => q.who \in Pubkeys
  /\ q.op = "revoke" => q.step \in {"lock", "countOthers", "deactivate"}

TInv == TypeOK /\ \A s \in Sessions : RequestOK(req[s])

\* What TypeOK asks of one request, with RequestOK.
GoodRequest(q) ==
  /\ q \in Request
  /\ q.step \in {"countOthers", "countTarget", "move", "deactivate"} => q.from \in Pubkeys
  /\ RequestOK(q)

TablesOK ==
  /\ rows \in [Names -> Row]
  /\ open \in [Names -> SUBSET Pubkeys]
  /\ reserved \in [Names -> Reservation]
  /\ cooling \subseteq Names
  /\ lost \subseteq Pubkeys

\* The typing invariant, request by request.
LEMMA TypeByRequest ==
  TInv <=> /\ TablesOK
           /\ req \in [Sessions -> Request]
           /\ \A s \in Sessions : GoodRequest(req[s])
           /\ begun \in 0..MaxRequests
  BY Zenon DEF TInv, TypeOK, TablesOK, GoodRequest

LEMMA IdleGood == GoodRequest(Idle)
  BY DEF GoodRequest, RequestOK, Request, Idle, Named, Ops, Steps

\* A step that changes only the request of s keeps the types if it leaves a
\* well-formed request.
LEMMA OneRequest ==
  ASSUME TInv, NEW s \in Sessions, NEW q, GoodRequest(q),
         req' = [req EXCEPT ![s] = q], UNCHANGED begun, TablesOK'
  PROVE  TInv'
<1>1. /\ req' \in [Sessions -> Request]
      /\ \A t \in Sessions : GoodRequest(req'[t])
  BY TypeByRequest DEF GoodRequest
<1>2. begun' \in 0..MaxRequests
  BY TypeByRequest
<1>3. \A t \in Sessions : GoodRequest(req[t])'
  BY <1>1 DEF GoodRequest, RequestOK
<1> QED BY <1>1, <1>2, <1>3 DEF TInv, TypeOK, TablesOK, GoodRequest

LEMMA Ends ==
  ASSUME TInv, NEW s \in Sessions, End(s), UNCHANGED begun, TablesOK'
  PROVE  TInv'
  BY OneRequest, IdleGood DEF End

LEMMA Goes ==
  ASSUME TInv, NEW s \in Sessions, NEW step \in Steps, Goto(s, step),
         GoodRequest([req[s] EXCEPT !.step = step]), UNCHANGED begun, TablesOK'
  PROVE  TInv'
  BY OneRequest DEF Goto

LEMMA SameTables == ASSUME TInv, UNCHANGED tables PROVE TablesOK'
  BY DEF TInv, TypeOK, TablesOK, tables

LEMMA Begins ==
  ASSUME TInv, NEW s \in Sessions, NEW q, Begin(s, q), GoodRequest(q)
  PROVE  TInv'
<1>1. TablesOK'
  BY SameTables DEF Begin
<1>2. /\ req' \in [Sessions -> Request]
      /\ \A t \in Sessions : GoodRequest(req[t])'
  BY TypeByRequest DEF GoodRequest, RequestOK, Begin
<1>3. begun' \in 0..MaxRequests
  BY TypeByRequest, RegistryConstants DEF Begin
<1> QED BY <1>1, <1>2, <1>3 DEF TInv, TypeOK, TablesOK, GoodRequest

LEMMA AskGood ==
  ASSUME NEW op \in Ops, NEW step \in Steps, NEW n \in Names \cup {NoName},
         NEW p \in Pubkeys \cup {Nobody},
         step \notin {"countOthers", "countTarget", "move", "deactivate"},
         step \in Named => n \in Names,
         op # "revoke" => p \in Pubkeys,
         op = "revoke" => step = "lock"
  PROVE  GoodRequest(Ask(op, step, n, p))
<1>1. Idle \in Request
  BY IdleGood DEF GoodRequest
<1>2. /\ Ask(op, step, n, p) \in Request
      /\ Ask(op, step, n, p).step = step
      /\ Ask(op, step, n, p).op = op
      /\ Ask(op, step, n, p).name = n
      /\ Ask(op, step, n, p).who = p
  BY <1>1 DEF Ask, Request, Idle
<1> QED BY <1>1, <1>2 DEF GoodRequest, RequestOK

LEMMA BeginTypes ==
  ASSUME TInv, NEW s \in Sessions,
         \/ BeginRegister(s) \/ BeginEnsure(s) \/ BeginProvision(s) \/ BeginGrant(s)
         \/ BeginTransfer(s) \/ BeginAdminTransfer(s)
         \/ BeginRevoke(s) \/ BeginSetPrimary(s) \/ BeginSetNIP05(s)
  PROVE  TInv'
<1> USE DEF Ops, Steps, Named, Names
<1>1. CASE BeginRegister(s)
  BY <1>1, Begins, AskGood DEF BeginRegister
<1>2. CASE BeginEnsure(s)
  BY <1>2, Begins, AskGood DEF BeginEnsure
<1>3. CASE BeginProvision(s)
  BY <1>3, Begins, AskGood DEF BeginProvision
<1>4. CASE BeginGrant(s)
  BY <1>4, Begins, AskGood DEF BeginGrant
<1>5. CASE BeginTransfer(s)
  <2>1. PICK p \in Pubkeys, to \in Pubkeys :
          Begin(s, [Ask("transfer", "readPrimary", NoName, to) EXCEPT !.caller = p])
    BY <1>5 DEF BeginTransfer
  <2>2. GoodRequest(Ask("transfer", "readPrimary", NoName, to))
    BY AskGood
  <2>3. GoodRequest([Ask("transfer", "readPrimary", NoName, to) EXCEPT !.caller = p])
    BY <2>2 DEF GoodRequest, RequestOK, Request
  <2> QED BY <2>1, <2>3, Begins
<1>6. CASE BeginAdminTransfer(s)
  BY <1>6, Begins, AskGood DEF BeginAdminTransfer
<1>7. CASE BeginRevoke(s)
  BY <1>7, Begins, AskGood DEF BeginRevoke
<1>8. CASE BeginSetPrimary(s)
  BY <1>8, Begins, AskGood DEF BeginSetPrimary
<1>9. CASE BeginSetNIP05(s)
  BY <1>9, Begins, AskGood DEF BeginSetNIP05
<1> QED BY <1>1, <1>2, <1>3, <1>4, <1>5, <1>6, <1>7, <1>8, <1>9

\* A request that moves on to a step with no found row.
LEMMA StepGood ==
  ASSUME TInv, NEW s \in Sessions, NEW step \in Steps,
         req[s].step \notin {"idle", "lock", "countOthers", "deactivate"},
         step \notin {"countOthers", "countTarget", "move", "deactivate"},
         step \in Named => req[s].name \in Names
  PROVE  /\ GoodRequest([req[s] EXCEPT !.step = step])
         /\ GoodRequest(req[s]) /\ req[s].op # "revoke" /\ req[s].who \in Pubkeys
<1>1. GoodRequest(req[s])
  BY TypeByRequest
<1>2. req[s].op # "revoke" /\ req[s].who \in Pubkeys
  BY <1>1 DEF GoodRequest, RequestOK
<1>3. [req[s] EXCEPT !.step = step] \in Request
  BY <1>1 DEF GoodRequest, Request
<1> QED BY <1>1, <1>2, <1>3 DEF GoodRequest, RequestOK, Request

LEMMA GoesOn ==
  ASSUME TInv, NEW s \in Sessions, NEW step \in Steps, Goto(s, step),
         req[s].step \notin {"idle", "lock", "countOthers", "deactivate"},
         step \notin {"countOthers", "countTarget", "move", "deactivate"},
         step \in Named => req[s].name \in Names,
         UNCHANGED <<tables, begun>>
  PROVE  TInv'
  BY StepGood, Goes, SameTables

LEMMA AfterRegisterTypes ==
  ASSUME TInv, NEW s \in Sessions, AfterRegister(s), UNCHANGED begun, TablesOK',
         req[s].step \notin {"idle", "lock", "countOthers", "deactivate"}
  PROVE  TInv'
<1>1. "readBack" \in Steps /\ "readBack" \notin Named
  BY DEF Steps, Named
<1>2. CASE req[s].op = "ensure"
  BY <1>1, <1>2, StepGood, Goes DEF AfterRegister
<1>3. CASE req[s].op # "ensure"
  BY <1>3, Ends DEF AfterRegister
<1> QED BY <1>2, <1>3

LEMMA AnswerTypes ==
  ASSUME TInv, NEW s \in Sessions, UNCHANGED <<tables, begun>>,
         req[s].step \in {"readPrimary", "readBack"}, NEW n \in Names \cup {NoName},
         req' = [req EXCEPT ![s].step = "answered", ![s].name = n]
  PROVE  TInv'
<1> DEFINE q == [req[s] EXCEPT !.step = "answered", !.name = n]
<1>1. GoodRequest(req[s]) /\ req[s].op # "revoke" /\ req[s].who \in Pubkeys
  BY StepGood DEF Steps, Named
<1>2. q \in Request
  BY <1>1 DEF GoodRequest, Request, Steps
<1>3. GoodRequest(q)
  BY <1>1, <1>2 DEF GoodRequest, RequestOK, Request, Named
<1>4. req' = [req EXCEPT ![s] = q]
  BY TypeByRequest
<1> HIDE DEF q
<1> QED BY <1>3, <1>4, OneRequest, SameTables

LEMMA RegisterTypes ==
  ASSUME TInv, NEW s \in Sessions, Register(s)
  PROVE  TInv'
<1> USE DEF At
<1>1. CASE BeginRegister(s) \/ BeginEnsure(s) \/ BeginProvision(s) \/ BeginGrant(s)
  BY <1>1, BeginTypes
<1>2. CASE ReadPrimary(s)
  <2>1. PrimaryOf(req[s].who) \subseteq Names
    BY DEF PrimaryOf, ActiveOf
  <2>2. CASE Goto(s, "countActive")
    BY <1>2, <2>2, GoesOn DEF ReadPrimary, Steps, Named
  <2> QED BY <1>2, <2>1, <2>2, AnswerTypes DEF ReadPrimary
<1>3. CASE CountActive(s)
  <2>1. CASE Goto(s, "generate")
    BY <1>3, <2>1, GoesOn DEF CountActive, Steps, Named
  <2>2. CASE AfterRegister(s)
    BY <1>3, <2>2, AfterRegisterTypes, SameTables DEF CountActive
  <2> QED BY <1>3, <2>1, <2>2 DEF CountActive
<1>4. CASE Generate(s)
  <2>1. PICK n \in AutoNames :
          req' = [req EXCEPT ![s].step = "checkTaken", ![s].name = n]
    BY <1>4 DEF Generate
  <2> DEFINE q == [req[s] EXCEPT !.step = "checkTaken", !.name = n]
  <2>2. GoodRequest(req[s]) /\ req[s].op # "revoke" /\ req[s].who \in Pubkeys
    BY <1>4, StepGood DEF Generate, Steps, Named
  <2>3. q \in Request
    BY <2>2 DEF GoodRequest, Request, Steps, Names
  <2>4. GoodRequest(q)
    BY <2>2, <2>3 DEF GoodRequest, RequestOK, Request, Named, Names
  <2>5. req' = [req EXCEPT ![s] = q]
    BY <2>1, TypeByRequest
  <2> HIDE DEF q
  <2> QED BY <1>4, <2>4, <2>5, OneRequest, SameTables DEF Generate
<1>5. CASE CheckTaken(s)
  <2>3. req[s].name \in Names
    BY <1>5, TypeByRequest DEF CheckTaken, Named, GoodRequest, RequestOK
  <2>1. CASE Goto(s, "checkReserved")
    BY <1>5, <2>1, <2>3, GoesOn DEF CheckTaken, Steps
  <2>2. CASE AfterRegister(s)
    BY <1>5, <2>2, AfterRegisterTypes, SameTables DEF CheckTaken
  <2> QED BY <1>5, <2>1, <2>2 DEF CheckTaken
<1>6. CASE CheckReserved(s)
  <2>3. req[s].name \in Names
    BY <1>6, TypeByRequest DEF CheckReserved, Named, GoodRequest, RequestOK
  <2>1. CASE Goto(s, "count")
    BY <1>6, <2>1, <2>3, GoesOn DEF CheckReserved, Steps
  <2>2. CASE AfterRegister(s)
    BY <1>6, <2>2, AfterRegisterTypes, SameTables DEF CheckReserved
  <2> QED BY <1>6, <2>1, <2>2 DEF CheckReserved
<1>7. CASE CountExisting(s)
  <2>1. CASE AutoRefused(req[s])
    BY <1>7, <2>1, AfterRegisterTypes, SameTables DEF CountExisting
  <2>2. CASE ~AutoRefused(req[s])
    <3> DEFINE q == [req[s] EXCEPT !.step = "insert",
                       !.first = (ActiveOf(req[s].who) = {}),
                       !.promote = TakesOver(req[s])]
    <3>1. GoodRequest(req[s]) /\ req[s].op # "revoke" /\ req[s].who \in Pubkeys
      BY <1>7, StepGood DEF CountExisting, Steps, Named
    <3>2. (ActiveOf(req[s].who) = {}) \in BOOLEAN /\ TakesOver(req[s]) \in BOOLEAN
      BY DEF TakesOver
    <3>3. q \in Request
      BY <3>1, <3>2 DEF GoodRequest, Request, Steps
    <3>4. GoodRequest(q)
      BY <1>7, <3>1, <3>3 DEF GoodRequest, RequestOK, Request, Named, CountExisting
    <3>5. req' = [req EXCEPT ![s] = q]
      BY <1>7, <2>2, TypeByRequest DEF CountExisting
    <3> HIDE DEF q
    <3> QED BY <1>7, <3>4, <3>5, OneRequest, SameTables DEF CountExisting
  <2> QED BY <2>1, <2>2
<1>8. CASE Insert(s)
  <2>1. GoodRequest(req[s]) /\ req[s].who \in Pubkeys /\ req[s].name \in Names
    BY <1>8, StepGood, TypeByRequest DEF Insert, Steps, Named, GoodRequest, RequestOK
  <2>2. req[s].first \in BOOLEAN /\ req[s].promote \in BOOLEAN
    BY <2>1 DEF GoodRequest, Request
  <2>3. Demoted(req[s]) \in [Names -> Row]
    BY TypeByRequest DEF TablesOK, Demoted, Row
  <2>4. Inserted(s) \in [Names -> Row]
    BY <2>1, <2>2, <2>3 DEF Inserted, MakePrimary, Row
  <2>5. TablesOK'
    BY <1>8, <2>1, <2>4, TypeByRequest DEF Insert, TablesOK
  <2> QED BY <1>8, <2>5, AfterRegisterTypes DEF Insert
<1>9. CASE InsertConflict(s)
  BY <1>9, AfterRegisterTypes, SameTables DEF InsertConflict
<1>10. CASE ReadBack(s)
  <2>1. PrimaryOf(req[s].who) \subseteq Names
    BY DEF PrimaryOf, ActiveOf
  <2> QED BY <1>10, <2>1, AnswerTypes DEF ReadBack
<1>11. CASE Answer(s)
  BY <1>11, Ends, SameTables DEF Answer
<1> QED BY <1>1, <1>2, <1>3, <1>4, <1>5, <1>6, <1>7, <1>8, <1>9, <1>10, <1>11
        DEF Register

\* A transaction that found its row.
LEMMA FoundGood ==
  ASSUME TInv, NEW s \in Sessions,
         req[s].step \in {"countOthers", "countTarget", "move", "deactivate"}
  PROVE  /\ GoodRequest(req[s])
         /\ req[s].name \in Names /\ req[s].from \in Pubkeys
         /\ req[s].op # "revoke" => req[s].who \in Pubkeys
         /\ req[s].step \in {"countTarget", "move"} => req[s].op # "revoke"
         /\ req[s].wasPrimary \in BOOLEAN /\ req[s].wasNIP05 \in BOOLEAN
         /\ req[s].first \in BOOLEAN
<1>1. GoodRequest(req[s])
  BY TypeByRequest
<1> QED BY <1>1 DEF GoodRequest, RequestOK, Request, Named

LEMMA ReadRowTypes ==
  ASSUME TInv, NEW s \in Sessions, ReadRow(s), UNCHANGED <<tables, begun>>,
         req[s].step \in {"lookup", "lock"},
         req[s].step = "lookup" => req[s].op \in {"transfer", "adminTransfer"}
  PROVE  TInv'
<1>1. GoodRequest(req[s]) /\ req[s].name \in Names
  BY TypeByRequest DEF GoodRequest, RequestOK, Named
<1>2. CASE ~Exists(req[s].name)
  BY <1>2, Ends, SameTables DEF ReadRow
<1>3. CASE Exists(req[s].name)
  <2> DEFINE row == rows[req[s].name]
             q == [req[s] EXCEPT !.step = "countOthers", !.from = row.owner,
                     !.wasPrimary = row.primary, !.wasNIP05 = row.nip05]
  <2>1. row \in Row
    BY <1>1, TypeByRequest DEF TablesOK
  <2>2. row.owner \in Pubkeys
    BY <1>3, <2>1 DEF Exists, Row
  <2>3. row.primary \in BOOLEAN /\ row.nip05 \in BOOLEAN
    BY <2>1 DEF Row
  <2> HIDE DEF row
  <2>4. q \in Request
    BY <1>1, <2>2, <2>3 DEF GoodRequest, Request, Steps
  <2>5. GoodRequest(q)
    BY <1>1, <2>2, <2>4 DEF GoodRequest, RequestOK, Request, Named
  <2>6. req' = [req EXCEPT ![s] = q]
    BY <1>3, TypeByRequest DEF ReadRow, row
  <2> HIDE DEF q
  <2> QED BY <2>5, <2>6, OneRequest, SameTables
<1> QED BY <1>2, <1>3

\* What a promotion leaves alone: it only sets flags.
LEMMA HeirFrame ==
  ASSUME NEW r \in [Names -> Row], NEW s, NEW h \in WithHeir(s, r),
         req[s].wasPrimary \in BOOLEAN, req[s].wasNIP05 \in BOOLEAN
  PROVE  /\ h \in [Names -> Row]
         /\ \A m \in Names : /\ h[m].owner = r[m].owner /\ h[m].active = r[m].active
                             /\ r[m].primary => h[m].primary
                             /\ r[m].nip05 => h[m].nip05
<1>1. CASE h = r
  BY <1>1
<1>2. ASSUME NEW heir \in Names, h = Promoted(r, s, heir)
      PROVE  /\ h \in [Names -> Row]
             /\ \A m \in Names : /\ h[m].owner = r[m].owner /\ h[m].active = r[m].active
                                 /\ r[m].primary => h[m].primary
                                 /\ r[m].nip05 => h[m].nip05
  BY <1>2 DEF Promoted, Row
<1>3. h = r \/ \E heir \in Names : h = Promoted(r, s, heir)
  BY DEF WithHeir, Heirs
<1> QED BY <1>1, <1>2, <1>3

LEMMA TransferTypes ==
  ASSUME TInv, NEW s \in Sessions, Transfer(s)
  PROVE  TInv'
<1> USE DEF At
<1>1. CASE BeginTransfer(s) \/ BeginAdminTransfer(s)
  BY <1>1, BeginTypes
<1>2. CASE ReadOwnPrimary(s)
  <2>1. CASE End(s)
    BY <1>2, <2>1, Ends, SameTables DEF ReadOwnPrimary
  <2>2. CASE ~End(s)
    <3>1. PICK n \in Names :
            req' = [req EXCEPT ![s].step = "lookup", ![s].name = n]
      BY <1>2, <2>2 DEF ReadOwnPrimary, PrimaryOf, ActiveOf
    <3> DEFINE q == [req[s] EXCEPT !.step = "lookup", !.name = n]
    <3>2. GoodRequest(req[s]) /\ req[s].op # "revoke" /\ req[s].who \in Pubkeys
      BY <1>2, TypeByRequest DEF ReadOwnPrimary, GoodRequest, RequestOK
    <3>3. q \in Request
      BY <3>2 DEF GoodRequest, Request, Steps
    <3>4. GoodRequest(q)
      BY <3>2, <3>3 DEF GoodRequest, RequestOK, Request
    <3>5. req' = [req EXCEPT ![s] = q]
      BY <3>1, TypeByRequest
    <3> HIDE DEF q
    <3> QED BY <1>2, <3>4, <3>5, OneRequest, SameTables DEF ReadOwnPrimary
  <2> QED BY <2>1, <2>2
<1>3. CASE LookupRow(s)
  BY <1>3, ReadRowTypes DEF LookupRow
<1>4. CASE CountOthers(s)
  <2> DEFINE next == IF req[s].op = "revoke" THEN "deactivate" ELSE "countTarget"
             some == ActiveOf(req[s].from) \ {req[s].name} # {}
             q == [req[s] EXCEPT !.step = next, !.others = some]
  <2>1. GoodRequest(req[s]) /\ req[s].name \in Names /\ req[s].from \in Pubkeys
        /\ (req[s].op # "revoke" => req[s].who \in Pubkeys)
    BY <1>4, FoundGood DEF CountOthers
  <2>2. next \in {"deactivate", "countTarget"} /\ (req[s].op = "revoke" <=> next = "deactivate")
    OBVIOUS
  <2>3. some \in BOOLEAN
    OBVIOUS
  <2>4. req' = [req EXCEPT ![s] = q]
    BY <1>4, TypeByRequest DEF CountOthers
  <2> HIDE DEF next, some
  <2>5. q \in Request
    BY <2>1, <2>2, <2>3 DEF GoodRequest, Request, Steps
  <2>6. GoodRequest(q)
    BY <2>1, <2>2, <2>5 DEF GoodRequest, RequestOK, Request
  <2> HIDE DEF q
  <2> QED BY <1>4, <2>4, <2>6, OneRequest, SameTables DEF CountOthers
<1>5. CASE CountTarget(s)
  <2> DEFINE none == ActiveOf(req[s].who) = {}
             q == [req[s] EXCEPT !.step = "move", !.first = none]
  <2>1. GoodRequest(req[s]) /\ req[s].name \in Names /\ req[s].from \in Pubkeys
        /\ req[s].op # "revoke" /\ req[s].who \in Pubkeys
    BY <1>5, FoundGood DEF CountTarget
  <2>2. none \in BOOLEAN
    OBVIOUS
  <2>3. req' = [req EXCEPT ![s] = q]
    BY <1>5, TypeByRequest DEF CountTarget
  <2> HIDE DEF none
  <2>4. q \in Request
    BY <2>1, <2>2 DEF GoodRequest, Request, Steps
  <2>5. GoodRequest(q)
    BY <2>1, <2>4 DEF GoodRequest, RequestOK, Request
  <2> HIDE DEF q
  <2> QED BY <1>5, <2>3, <2>5, OneRequest, SameTables DEF CountTarget
<1>6. CASE Move(s)
  <2>1. /\ GoodRequest(req[s]) /\ req[s].name \in Names /\ req[s].who \in Pubkeys
        /\ req[s].wasPrimary \in BOOLEAN /\ req[s].wasNIP05 \in BOOLEAN
        /\ req[s].first \in BOOLEAN
    BY <1>6, FoundGood DEF Move
  <2>2. Moved(s) \in [Names -> Row]
    BY <2>1, TypeByRequest DEF Moved, TablesOK, Row
  <2>3. rows' \in [Names -> Row]
    BY <1>6, <2>1, <2>2, HeirFrame DEF Move
  <2>4. TablesOK'
    BY <1>6, <2>1, <2>3, TypeByRequest DEF Move, TablesOK, Reassigned, Losers
  <2> QED BY <1>6, <2>4, Ends DEF Move
<1>7. CASE MoveConflict(s)
  BY <1>7, Ends, SameTables DEF MoveConflict
<1> QED BY <1>1, <1>2, <1>3, <1>4, <1>5, <1>6, <1>7 DEF Transfer

LEMMA SetFlagFrame ==
  ASSUME TInv, NEW s \in Sessions, At(s, "setFlag")
  PROVE  /\ req[s].name \in Names /\ req[s].who \in Pubkeys
         /\ Flagged(s) \in [Names -> Row]
         /\ \A m \in Names : /\ Flagged(s)[m].owner = rows[m].owner
                             /\ Flagged(s)[m].active = rows[m].active
<1>1. req[s].name \in Names /\ req[s].who \in Pubkeys
  BY TypeByRequest DEF At, GoodRequest, RequestOK, Named
<1>2. rows \in [Names -> Row]
  BY TypeByRequest DEF TablesOK
<1>3. CASE req[s].op = "setPrimary"
  BY <1>1, <1>2, <1>3 DEF Flagged, Row
<1>4. CASE req[s].op # "setPrimary"
  BY <1>1, <1>2, <1>4 DEF Flagged, Row
<1> QED BY <1>1, <1>3, <1>4

\* What a backfill leaves alone: it only sets flags.
LEMMA BackfillFrame ==
  ASSUME TInv, BackfillPrimary \/ BackfillNIP05
  PROVE  /\ rows' \in [Names -> Row]
         /\ \A m \in Names : /\ rows'[m].owner = rows[m].owner
                             /\ rows'[m].active = rows[m].active
                             /\ rows[m].primary => rows'[m].primary
                             /\ rows[m].nip05 => rows'[m].nip05
<1>1. rows \in [Names -> Row]
  BY TypeByRequest DEF TablesOK
<1>2. CASE BackfillPrimary
  <2>1. PICK pick : rows' = [n \in Names |-> [rows[n] EXCEPT
                        !.primary = @ \/ \E p \in DOMAIN pick : n = pick[p]]]
    BY <1>2 DEF BackfillPrimary
  <2> QED BY <1>1, <2>1 DEF Row
<1>3. CASE BackfillNIP05
  <2>1. PICK pick : rows' = [n \in Names |-> [rows[n] EXCEPT
                        !.nip05 = @ \/ \E p \in DOMAIN pick : n = pick[p]]]
    BY <1>3 DEF BackfillNIP05
  <2> QED BY <1>1, <2>1 DEF Row
<1> QED BY <1>2, <1>3

LEMMA AdministerTypes ==
  ASSUME TInv, NEW s \in Sessions, Administer(s)
  PROVE  TInv'
<1>1. CASE BeginRevoke(s) \/ BeginSetPrimary(s) \/ BeginSetNIP05(s)
  BY <1>1, BeginTypes
<1>2. CASE LockRow(s)
  BY <1>2, ReadRowTypes DEF LockRow, At
<1>3. CASE Deactivate(s)
  <2>1. /\ req[s].name \in Names
        /\ req[s].wasPrimary \in BOOLEAN /\ req[s].wasNIP05 \in BOOLEAN
    BY <1>3, FoundGood DEF Deactivate, At
  <2>2. Deactivated(s) \in [Names -> Row]
    BY <2>1, TypeByRequest DEF Deactivated, TablesOK, Row
  <2>3. rows' \in [Names -> Row]
    BY <1>3, <2>1, <2>2, HeirFrame DEF Deactivate
  <2>4. TablesOK'
    BY <1>3, <2>1, <2>3, TypeByRequest DEF Deactivate, TablesOK, Losers
  <2> QED BY <1>3, <2>4, Ends DEF Deactivate
<1>4. CASE DeactivateConflict(s)
  BY <1>4, Ends, SameTables DEF DeactivateConflict
<1>5. CASE LookupFlagged(s)
  <2>1. CASE End(s)
    BY <1>5, <2>1, Ends, SameTables DEF LookupFlagged
  <2>2. CASE Goto(s, "setFlag")
    <3>1. req[s].name \in Names
      BY <1>5, TypeByRequest DEF LookupFlagged, At, GoodRequest, RequestOK, Named
    <3> QED BY <1>5, <2>2, <3>1, GoesOn DEF LookupFlagged, At, Steps
  <2> QED BY <1>5, <2>1, <2>2 DEF LookupFlagged
<1>6. CASE SetFlag(s)
  <2>1. TablesOK'
    BY <1>6, SetFlagFrame, TypeByRequest DEF SetFlag, TablesOK
  <2> QED BY <1>6, <2>1, Ends DEF SetFlag
<1>7. CASE SetFlagConflict(s)
  BY <1>7, Ends, SameTables DEF SetFlagConflict
<1> QED BY <1>1, <1>2, <1>3, <1>4, <1>5, <1>6, <1>7 DEF Administer

LEMMA FailTypes ==
  ASSUME TInv, NEW s \in Sessions, Fail(s)
  PROVE  TInv'
<1>1. CASE End(s)
  BY <1>1, Ends, SameTables DEF Fail
<1>2. CASE req[s].step \in EnsureSteps /\ Goto(s, "readBack")
  BY <1>2, GoesOn DEF Fail, EnsureSteps, Steps, Named
<1> QED BY <1>1, <1>2 DEF Fail

\* A step that leaves the requests alone.
LEMMA OtherTypes ==
  ASSUME TInv, UNCHANGED <<req, begun>>, TablesOK'
  PROVE  TInv'
  BY TypeByRequest DEF TInv, TypeOK, TablesOK, GoodRequest, RequestOK

LEMMA TypeStep == TInv /\ [Next]_vars => TInv'
<1> SUFFICES ASSUME TInv, [Next]_vars PROVE TInv'
  OBVIOUS
<1>1. CASE \E s \in Sessions : Register(s) \/ Transfer(s) \/ Administer(s) \/ Fail(s)
  BY <1>1, RegisterTypes, TransferTypes, AdministerTypes, FailTypes
<1>2. CASE \E n \in Reservable : AddReserved(n) \/ RemoveReserved(n)
  <2>1. TablesOK'
    BY <1>2, TypeByRequest DEF TablesOK, AddReserved, RemoveReserved, Reservation
  <2> QED BY <1>2, <2>1, OtherTypes DEF AddReserved, RemoveReserved
<1>3. CASE \E n \in Names : CooldownElapses(n)
  <2>1. TablesOK'
    BY <1>3, TypeByRequest DEF TablesOK, CooldownElapses
  <2> QED BY <1>3, <2>1, OtherTypes DEF CooldownElapses
<1>4. CASE BackfillPrimary \/ BackfillNIP05
  <2>1. TablesOK'
    BY <1>4, BackfillFrame, TypeByRequest DEF TablesOK, BackfillPrimary, BackfillNIP05
  <2> QED BY <1>4, <2>1, OtherTypes DEF BackfillPrimary, BackfillNIP05
<1>5. CASE UNCHANGED vars
  BY <1>5, SameTables, OtherTypes DEF vars, tables
<1> QED BY <1>1, <1>2, <1>3, <1>4, <1>5 DEF Next

LEMMA TypeInit == Init => TInv
<1> SUFFICES ASSUME Init PROVE TInv
  OBVIOUS
<1>1. TablesOK
  BY DEF Init, TablesOK, Row, Blank, Reservation
<1>2. \A s \in Sessions : req[s] = Idle
  BY DEF Init
<1>3. Idle \in Request
  BY IdleGood DEF GoodRequest
<1>4. req \in [Sessions -> Request]
  BY <1>3 DEF Init
<1>5. begun \in 0..MaxRequests
  BY RegistryConstants DEF Init
<1> QED BY <1>1, <1>2, <1>4, <1>5, IdleGood, TypeByRequest

\* Every variable keeps the shape of its table or request, whatever requests
\* interleave: TypeOK, with the names and pubkeys of the requests at work.
THEOREM TypeCorrect == Spec => []TypeOK
<1>1. TInv => TypeOK
  BY DEF TInv
<1> QED BY <1>1, TypeInit, TypeStep, PTL DEF Spec

-----------------------------------------------------------------------------
(* What a step does to the tables.                                          *)

\* A step that writes addresses is an INSERT, a move, a revocation, a flag
\* change or a backfill.
LEMMA Writers ==
  ASSUME [Next]_vars
  PROVE  \/ UNCHANGED <<rows, open, lost>>
         \/ \E s \in Sessions : Insert(s) \/ Move(s) \/ Deactivate(s) \/ SetFlag(s)
         \/ BackfillPrimary \/ BackfillNIP05
<1>1. CASE UNCHANGED vars
  BY <1>1 DEF vars
<1>2. ASSUME NEW s \in Sessions, Register(s)
      PROVE  UNCHANGED <<rows, open, lost>> \/ Insert(s)
  BY <1>2 DEF Register, Begin, BeginRegister, BeginEnsure, BeginProvision, BeginGrant,
       ReadPrimary, CountActive, Generate, CheckTaken, CheckReserved, CountExisting,
       InsertConflict, ReadBack, Answer, tables
<1>3. ASSUME NEW s \in Sessions, Transfer(s)
      PROVE  UNCHANGED <<rows, open, lost>> \/ Move(s)
  BY <1>3 DEF Transfer, Begin, BeginTransfer, BeginAdminTransfer, ReadOwnPrimary,
       LookupRow, CountOthers, CountTarget, MoveConflict, tables
<1>4. ASSUME NEW s \in Sessions, Administer(s)
      PROVE  UNCHANGED <<rows, open, lost>> \/ Deactivate(s) \/ SetFlag(s)
  BY <1>4 DEF Administer, Begin, BeginRevoke, BeginSetPrimary, BeginSetNIP05, LockRow,
       DeactivateConflict, LookupFlagged, SetFlagConflict, tables
<1> QED BY <1>1, <1>2, <1>3, <1>4
        DEF Next, Fail, AddReserved, RemoveReserved, CooldownElapses, tables

\* An INSERT puts one new row in; it takes flags only from the pubkey's own.
LEMMA InsertFrame ==
  ASSUME TInv, NEW s \in Sessions, Insert(s)
  PROVE  LET q == req[s] IN
         /\ q.name \in Names /\ q.who \in Pubkeys /\ rows[q.name].owner = Nobody
         /\ rows'[q.name].owner = q.who /\ rows'[q.name].active
         /\ MakePrimary(q) => rows'[q.name].primary /\ rows'[q.name].nip05
         /\ \A m \in Names \ {q.name} :
              /\ rows'[m].owner = rows[m].owner /\ rows'[m].active = rows[m].active
              /\ ~(q.promote /\ rows[m].owner = q.who /\ rows[m].active) =>
                   rows'[m] = rows[m]
              /\ q.promote /\ rows[m].owner = q.who /\ rows[m].active =>
                   ~rows'[m].primary /\ ~rows'[m].nip05
         /\ UniqueFlags(rows')
<1>1. req[s].who \in Pubkeys /\ req[s].name \in Names
  BY TypeByRequest DEF Insert, At, GoodRequest, RequestOK, Named
<1>2. rows \in [Names -> Row]
  BY TypeByRequest DEF TablesOK
<1>3. rows' = Inserted(s) /\ rows[req[s].name].owner = Nobody /\ UniqueFlags(rows')
  BY DEF Insert, Exists, Writable
<1>4. \A m \in Names : Demoted(req[s])[m] \in Row
  BY <1>2 DEF Demoted, Row
<1>5. \A m \in Names \ {req[s].name} : rows'[m] = Demoted(req[s])[m]
  BY <1>3, <1>1 DEF Inserted, Demoted
<1>6. \A m \in Names \ {req[s].name} :
        /\ rows'[m].owner = rows[m].owner /\ rows'[m].active = rows[m].active
        /\ ~(req[s].promote /\ rows[m].owner = req[s].who /\ rows[m].active) =>
             rows'[m] = rows[m]
        /\ req[s].promote /\ rows[m].owner = req[s].who /\ rows[m].active =>
             ~rows'[m].primary /\ ~rows'[m].nip05
  BY <1>2, <1>5 DEF Demoted, Row
<1>7. rows'[req[s].name] = [owner |-> req[s].who, active |-> TRUE,
                            primary |-> MakePrimary(req[s]), nip05 |-> MakePrimary(req[s])]
  BY <1>1, <1>3 DEF Inserted, Demoted
<1>8. /\ rows'[req[s].name].owner = req[s].who /\ rows'[req[s].name].active
      /\ MakePrimary(req[s]) => rows'[req[s].name].primary /\ rows'[req[s].name].nip05
  BY <1>7
<1> QED BY <1>1, <1>3, <1>6, <1>8

\* A move hands one row over; elsewhere it only sets flags.
LEMMA MoveFrame ==
  ASSUME TInv, NEW s \in Sessions, Move(s)
  PROVE  LET q == req[s] IN
         /\ q.name \in Names /\ q.who \in Pubkeys /\ q.from \in Pubkeys
         /\ rows'[q.name].owner = q.who /\ rows'[q.name].active = rows[q.name].active
         /\ q.first => rows'[q.name].primary /\ rows'[q.name].nip05
         /\ \A m \in Names \ {q.name} :
              /\ rows'[m].owner = rows[m].owner /\ rows'[m].active = rows[m].active
              /\ rows[m].primary => rows'[m].primary
              /\ rows[m].nip05 => rows'[m].nip05
<1>1. /\ req[s].name \in Names /\ req[s].who \in Pubkeys /\ req[s].from \in Pubkeys
      /\ req[s].wasPrimary \in BOOLEAN /\ req[s].wasNIP05 \in BOOLEAN
      /\ req[s].first \in BOOLEAN
  BY FoundGood DEF Move, At
<1>2. rows \in [Names -> Row]
  BY TypeByRequest DEF TablesOK
<1>3. Moved(s) \in [Names -> Row]
  BY <1>1, <1>2 DEF Moved, Row
<1>4. rows' \in WithHeir(s, Moved(s))
  BY DEF Move
<1>5. \A m \in Names :
        /\ rows'[m].owner = Moved(s)[m].owner /\ rows'[m].active = Moved(s)[m].active
        /\ Moved(s)[m].primary => rows'[m].primary
        /\ Moved(s)[m].nip05 => rows'[m].nip05
  BY <1>1, <1>3, <1>4, HeirFrame
<1>6. /\ Moved(s)[req[s].name].owner = req[s].who
      /\ Moved(s)[req[s].name].active = rows[req[s].name].active
      /\ Moved(s)[req[s].name].primary = req[s].first
      /\ Moved(s)[req[s].name].nip05 = req[s].first
  BY <1>1, <1>2 DEF Moved, Row
<1>7. \A m \in Names \ {req[s].name} : Moved(s)[m] = rows[m]
  BY <1>1, <1>2 DEF Moved
<1> QED BY <1>1, <1>5, <1>6, <1>7

\* A revocation clears `active` on one row; elsewhere it only sets flags.
LEMMA DeactivateFrame ==
  ASSUME TInv, NEW s \in Sessions, Deactivate(s)
  PROVE  LET q == req[s] IN
         /\ q.name \in Names /\ q.from \in Pubkeys
         /\ rows'[q.name].owner = rows[q.name].owner /\ ~rows'[q.name].active
         /\ \A m \in Names \ {q.name} :
              /\ rows'[m].owner = rows[m].owner /\ rows'[m].active = rows[m].active
              /\ rows[m].primary => rows'[m].primary
              /\ rows[m].nip05 => rows'[m].nip05
<1>1. /\ req[s].name \in Names /\ req[s].from \in Pubkeys
      /\ req[s].wasPrimary \in BOOLEAN /\ req[s].wasNIP05 \in BOOLEAN
  BY FoundGood DEF Deactivate, At
<1>2. rows \in [Names -> Row]
  BY TypeByRequest DEF TablesOK
<1>3. Deactivated(s) \in [Names -> Row]
  BY <1>1, <1>2 DEF Deactivated, Row
<1>4. rows' \in WithHeir(s, Deactivated(s))
  BY DEF Deactivate
<1>5. \A m \in Names :
        /\ rows'[m].owner = Deactivated(s)[m].owner
        /\ rows'[m].active = Deactivated(s)[m].active
        /\ Deactivated(s)[m].primary => rows'[m].primary
        /\ Deactivated(s)[m].nip05 => rows'[m].nip05
  BY <1>1, <1>3, <1>4, HeirFrame
<1>6. /\ Deactivated(s)[req[s].name].owner = rows[req[s].name].owner
      /\ Deactivated(s)[req[s].name].active = FALSE
  BY <1>1, <1>2 DEF Deactivated, Row
<1>7. \A m \in Names \ {req[s].name} : Deactivated(s)[m] = rows[m]
  BY <1>1, <1>2 DEF Deactivated
<1> QED BY <1>1, <1>5, <1>6, <1>7

\* Flag changes and backfills leave owners and `active` alone.
LEMMA FlagFrame ==
  ASSUME TInv, NEW s \in Sessions, SetFlag(s) \/ BackfillPrimary \/ BackfillNIP05
  PROVE  /\ \A m \in Names : /\ rows'[m].owner = rows[m].owner
                             /\ rows'[m].active = rows[m].active
         /\ UNCHANGED <<open, lost>>
  BY SetFlagFrame, BackfillFrame DEF SetFlag, BackfillPrimary, BackfillNIP05

-----------------------------------------------------------------------------
(* The ownership history.                                                   *)

\* What the history adds to the types: inactive or not, an active row is owned.
HistoryInv ==
  /\ OwnerHasOpenInterval
  /\ \A n \in Names : rows[n].active => rows[n].owner \in Pubkeys

LEMMA HistoryStep == TInv /\ HistoryInv /\ [Next]_vars => HistoryInv'
<1> SUFFICES ASSUME TInv, HistoryInv, [Next]_vars PROVE HistoryInv'
  OBVIOUS
<1> USE DEF HistoryInv, OwnerHasOpenInterval
<1>0. open \in [Names -> SUBSET Pubkeys]
  BY TypeByRequest DEF TablesOK
<1>1. CASE UNCHANGED <<rows, open, lost>>
  BY <1>1
<1>2. ASSUME NEW s \in Sessions, Insert(s) PROVE HistoryInv'
  <2>1. open' = [open EXCEPT ![req[s].name] = @ \cup {req[s].who}]
    BY <1>2 DEF Insert
  <2>2. /\ req[s].name \in Names /\ req[s].who \in Pubkeys
        /\ rows'[req[s].name].owner = req[s].who
        /\ \A m \in Names \ {req[s].name} :
             rows'[m].owner = rows[m].owner /\ rows'[m].active = rows[m].active
    BY <1>2, InsertFrame
  <2> QED BY <1>0, <2>1, <2>2
<1>3. ASSUME NEW s \in Sessions, Move(s) PROVE HistoryInv'
  <2>1. open' = [open EXCEPT ![req[s].name] = (@ \ {req[s].from}) \cup {req[s].who}]
    BY <1>3 DEF Move, Reassigned
  <2> QED BY <1>0, <1>3, <2>1, MoveFrame
<1>4. ASSUME NEW s \in Sessions, Deactivate(s) PROVE HistoryInv'
  <2>1. open' = [open EXCEPT ![req[s].name] = @ \ {req[s].from}]
    BY <1>4 DEF Deactivate
  <2> QED BY <1>0, <1>4, <2>1, DeactivateFrame
<1>5. ASSUME NEW s \in Sessions, SetFlag(s) PROVE HistoryInv'
  BY <1>5, FlagFrame
<1>6. CASE BackfillPrimary \/ BackfillNIP05
  BY <1>6, BackfillFrame DEF BackfillPrimary, BackfillNIP05
<1> QED BY <1>1, <1>2, <1>3, <1>4, <1>5, <1>6, Writers

LEMMA HistoryInit == Init => HistoryInv
  BY DEF Init, HistoryInv, OwnerHasOpenInterval, Blank

\* Every active address has an open ownership interval for its owner.
THEOREM HistoryNamesOwner == Spec => []OwnerHasOpenInterval
<1>1. HistoryInv => OwnerHasOpenInterval
  BY DEF HistoryInv
<1> QED BY <1>1, TypeInit, TypeStep, HistoryInit, HistoryStep, PTL DEF Spec

-----------------------------------------------------------------------------
(* The flags.                                                               *)

\* The steps at which a request relies on what it read.
Working == {"insert", "move", "setFlag", "countOthers", "countTarget", "deactivate"}

\* What a request read still holds, as far as it matters, for a pubkey that
\* never lost an active address.
Ready(q) ==
  /\ q.step = "insert" =>
       /\ ~(q.first /\ q.promote)
       /\ q.name \in AutoNames => q.first
       /\ q.op = "register" /\ ~q.first /\ ~q.promote /\ q.who \notin lost =>
            ~(ActiveOf(q.who) \subseteq AutoNames)
  /\ q.step \in {"insert", "move"} /\ ~q.first /\ q.who \notin lost =>
       ActiveOf(q.who) # {}
  /\ q.step = "setFlag" /\ q.who \notin lost => q.name \in ActiveOf(q.who)
  /\ q.step \in {"countOthers", "countTarget", "move", "deactivate"} => Exists(q.name)

\* Addresses are only lost to a transfer or a revocation, rows never.
LEMMA KeepsAddresses ==
  ASSUME TInv, [Next]_vars
  PROVE  /\ lost \subseteq lost'
         /\ \A p \in Pubkeys \ lost' : ActiveOf(p) \subseteq ActiveOf(p)'
         /\ \A n \in Names : Exists(n) => Exists(n)'
<1> DEFINE Goal == /\ lost \subseteq lost'
                   /\ \A p \in Pubkeys \ lost' : ActiveOf(p) \subseteq ActiveOf(p)'
                   /\ \A n \in Names : Exists(n) => Exists(n)'
<1>1. CASE UNCHANGED <<rows, open, lost>>
  BY <1>1 DEF ActiveOf, Exists
<1>2. ASSUME NEW s \in Sessions, Insert(s) PROVE Goal
  <2>1. UNCHANGED lost
    BY <1>2 DEF Insert
  <2>2. /\ req[s].name \in Names /\ rows[req[s].name].owner = Nobody
        /\ req[s].who \in Pubkeys /\ rows'[req[s].name].owner = req[s].who
        /\ \A m \in Names \ {req[s].name} :
             rows'[m].owner = rows[m].owner /\ rows'[m].active = rows[m].active
    BY <1>2, InsertFrame
  <2> QED BY <2>1, <2>2, RegistryConstants DEF ActiveOf, Exists
<1>3. ASSUME NEW s \in Sessions, Move(s) PROVE Goal
  <2>1. lost' = lost \cup {p \in Pubkeys : req[s].name \in ActiveOf(p)}
    BY <1>3 DEF Move, Losers
  <2> QED BY <1>3, <2>1, MoveFrame, RegistryConstants DEF ActiveOf, Exists
<1>4. ASSUME NEW s \in Sessions, Deactivate(s) PROVE Goal
  <2>1. lost' = lost \cup {p \in Pubkeys : req[s].name \in ActiveOf(p)}
    BY <1>4 DEF Deactivate, Losers
  <2> QED BY <1>4, <2>1, DeactivateFrame DEF ActiveOf, Exists
<1>5. ASSUME NEW s \in Sessions, SetFlag(s) PROVE Goal
  BY <1>5, FlagFrame DEF ActiveOf, Exists
<1>6. CASE BackfillPrimary \/ BackfillNIP05
  BY <1>6, BackfillFrame DEF ActiveOf, Exists, BackfillPrimary, BackfillNIP05
<1> QED BY <1>1, <1>2, <1>3, <1>4, <1>5, <1>6, Writers

\* A request that rests stays ready.
LEMMA ReadyKept ==
  ASSUME TInv, [Next]_vars, NEW s \in Sessions, Ready(req[s]), req'[s] = req[s]
  PROVE  Ready(req[s])'
<1>1. GoodRequest(req[s])
  BY TypeByRequest
<1>2. CASE req[s].step \notin Working
  BY <1>2 DEF Ready, Working
<1>3. CASE req[s].step \in {"insert", "setFlag"}
  <2>1. req[s].who \in Pubkeys
    BY <1>1, <1>3 DEF GoodRequest, RequestOK
  <2> QED BY <1>3, <2>1, KeepsAddresses DEF Ready
<1>4. CASE req[s].step \in {"move", "countOthers", "countTarget", "deactivate"}
  <2>1. req[s].name \in Names /\ (req[s].step = "move" => req[s].who \in Pubkeys)
    BY <1>4, FoundGood
  <2> QED BY <1>4, <2>1, KeepsAddresses DEF Ready
<1> QED BY <1>2, <1>3, <1>4 DEF Working

\* The only steps that bring a request to one where it relies on what it read.
LEMMA Arrivals ==
  ASSUME TInv, [Next]_vars, NEW t \in Sessions
  PROVE  \/ req'[t] = req[t]
         \/ req'[t].step \notin Working
         \/ CountExisting(t) \/ CountTarget(t) \/ LookupFlagged(t)
         \/ LookupRow(t) \/ LockRow(t) \/ CountOthers(t)
<1> DEFINE Goal == \/ req'[t] = req[t]
                   \/ req'[t].step \notin Working
                   \/ CountExisting(t) \/ CountTarget(t) \/ LookupFlagged(t)
                   \/ LookupRow(t) \/ LockRow(t) \/ CountOthers(t)
<1>1. req \in [Sessions -> Request]
  BY TypeByRequest
<1>2. ASSUME NEW s \in Sessions, NEW q, req' = [req EXCEPT ![s] = q], q.step \notin Working
      PROVE  Goal
  BY <1>1, <1>2
<1>3. Idle.step \notin Working
  BY DEF Idle, Working
<1>4. ASSUME NEW s \in Sessions, End(s) PROVE Goal
  BY <1>2, <1>3, <1>4 DEF End
<1>5. ASSUME NEW s \in Sessions, NEW step, step \notin Working, Goto(s, step) PROVE Goal
  BY <1>1, <1>5 DEF Goto, Request
<1>6. ASSUME NEW s \in Sessions, AfterRegister(s) PROVE Goal
  BY <1>4, <1>5, <1>6 DEF AfterRegister, Working
<1>7. ASSUME NEW s \in Sessions, NEW op, NEW step, NEW n, NEW p, step \notin Working,
             Begin(s, Ask(op, step, n, p))
      PROVE  Goal
  <2>1. Ask(op, step, n, p).step = step
    BY DEF Ask, Idle
  <2> QED BY <1>2, <1>7, <2>1 DEF Begin
<1>8. ASSUME NEW s \in Sessions, NEW p, NEW to,
             Begin(s, [Ask("transfer", "readPrimary", NoName, to) EXCEPT !.caller = p])
      PROVE  Goal
  <2>1. [Ask("transfer", "readPrimary", NoName, to) EXCEPT !.caller = p].step = "readPrimary"
    BY DEF Ask, Idle
  <2> QED BY <1>2, <1>8, <2>1 DEF Begin, Working
<1>9. ASSUME NEW s \in Sessions, NEW step, NEW n, step \notin Working,
             req' = [req EXCEPT ![s].step = step, ![s].name = n]
      PROVE  Goal
  BY <1>1, <1>9 DEF Request
<1>10. ASSUME NEW s \in Sessions, Register(s) PROVE Goal
  <2>1. CASE BeginRegister(s) \/ BeginEnsure(s) \/ BeginProvision(s) \/ BeginGrant(s)
    BY <2>1, <1>7 DEF BeginRegister, BeginEnsure, BeginProvision, BeginGrant, Working
  <2>2. CASE ReadPrimary(s) \/ CountActive(s) \/ Generate(s) \/ CheckTaken(s)
               \/ CheckReserved(s) \/ ReadBack(s) \/ Answer(s)
    BY <2>2, <1>4, <1>5, <1>6, <1>9 DEF ReadPrimary, CountActive, Generate, CheckTaken,
         CheckReserved, ReadBack, Answer, Working
  <2>3. CASE Insert(s) \/ InsertConflict(s)
    BY <2>3, <1>6 DEF Insert, InsertConflict
  <2>4. CASE CountExisting(s)
    <3>1. s = t \/ req'[t] = req[t]
      BY <2>4, <1>1 DEF CountExisting, AfterRegister, Goto, End
    <3> QED BY <2>4, <3>1
  <2> QED BY <1>10, <2>1, <2>2, <2>3, <2>4 DEF Register
<1>11. ASSUME NEW s \in Sessions, Transfer(s) PROVE Goal
  <2>1. CASE BeginTransfer(s) \/ BeginAdminTransfer(s)
    BY <2>1, <1>7, <1>8 DEF BeginTransfer, BeginAdminTransfer, Working
  <2>2. CASE Move(s) \/ MoveConflict(s)
    BY <2>2, <1>4 DEF Move, MoveConflict
  <2>4. CASE ReadOwnPrimary(s)
    <3>1. CASE End(s)
      BY <3>1, <1>4
    <3>2. CASE ~End(s)
      <4>1. PICK n : req' = [req EXCEPT ![s].step = "lookup", ![s].name = n]
        BY <2>4, <3>2 DEF ReadOwnPrimary
      <4>2. "lookup" \notin Working
        BY DEF Working
      <4> QED BY <4>1, <4>2, <1>9
    <3> QED BY <3>1, <3>2
  <2>3. CASE LookupRow(s) \/ CountOthers(s) \/ CountTarget(s)
    <3>1. s = t \/ req'[t] = req[t]
      BY <2>3, <1>1 DEF LookupRow, ReadRow, CountOthers, CountTarget, End
    <3> QED BY <2>3, <3>1
  <2> QED BY <1>11, <2>1, <2>2, <2>3, <2>4 DEF Transfer
<1>12. ASSUME NEW s \in Sessions, Administer(s) PROVE Goal
  <2>1. CASE BeginRevoke(s) \/ BeginSetPrimary(s) \/ BeginSetNIP05(s)
    BY <2>1, <1>7 DEF BeginRevoke, BeginSetPrimary, BeginSetNIP05, Working
  <2>2. CASE Deactivate(s) \/ DeactivateConflict(s) \/ SetFlag(s) \/ SetFlagConflict(s)
    BY <2>2, <1>4 DEF Deactivate, DeactivateConflict, SetFlag, SetFlagConflict
  <2>3. CASE LockRow(s) \/ LookupFlagged(s)
    <3>1. s = t \/ req'[t] = req[t]
      BY <2>3, <1>1 DEF LockRow, ReadRow, LookupFlagged, Goto, End
    <3> QED BY <2>3, <3>1
  <2> QED BY <1>12, <2>1, <2>2, <2>3 DEF Administer
<1>13. ASSUME NEW s \in Sessions, Fail(s) PROVE Goal
  BY <1>4, <1>5, <1>13 DEF Fail, Working
<1>14. CASE UNCHANGED req
  BY <1>14
<1> QED BY <1>10, <1>11, <1>12, <1>13, <1>14
        DEF Next, vars, AddReserved, RemoveReserved, CooldownElapses,
            BackfillPrimary, BackfillNIP05

\* A request that arrives at such a step is ready.
LEMMA ReadyStep ==
  ASSUME TInv, \A s \in Sessions : Ready(req[s]), [Next]_vars
  PROVE  \A s \in Sessions : Ready(req[s])'
<1> SUFFICES ASSUME NEW s \in Sessions PROVE Ready(req[s])'
  OBVIOUS
<1> USE DEF At
<1>1. GoodRequest(req[s]) /\ Ready(req[s]) /\ req \in [Sessions -> Request]
  BY TypeByRequest
<1>2. CASE req'[s] = req[s]
  BY <1>2, ReadyKept
<1>3. CASE req'[s].step \notin Working
  BY <1>3 DEF Ready, Working
<1>4. CASE CountExisting(s)
  <2>1. CASE AutoRefused(req[s])
    <3>1. req'[s].step \notin Working
      BY <1>1, <1>4, <2>1 DEF CountExisting, AfterRegister, Goto, End, Idle, Working, Request
    <3> QED BY <3>1, <1>3
  <2>2. CASE ~AutoRefused(req[s])
    <3> DEFINE none == ActiveOf(req[s].who) = {}
               takes == TakesOver(req[s])
    <3>1. req' = [req EXCEPT ![s].step = "insert", ![s].first = none, ![s].promote = takes]
      BY <1>4, <2>2 DEF CountExisting
    <3>2. none \in BOOLEAN /\ takes \in BOOLEAN
      BY DEF TakesOver
    <3> HIDE DEF none, takes
    <3>3. /\ req'[s].step = "insert" /\ req'[s].first = none /\ req'[s].promote = takes
          /\ req'[s].name = req[s].name /\ req'[s].who = req[s].who
          /\ req'[s].op = req[s].op
      BY <1>1, <3>1 DEF Request
    <3>4. UNCHANGED <<rows, lost>>
      BY <1>4 DEF CountExisting, tables
    <3>5. /\ ~(none /\ takes)
          /\ req[s].name \in AutoNames => none
          /\ req[s].op = "register" /\ ~none /\ ~takes =>
               ~(ActiveOf(req[s].who) \subseteq AutoNames)
          /\ ~none => ActiveOf(req[s].who) # {}
      BY <2>2 DEF none, takes, TakesOver, AutoRefused
    <3> QED BY <3>2, <3>3, <3>4, <3>5 DEF Ready, ActiveOf
  <2> QED BY <2>1, <2>2
<1>5. CASE CountTarget(s)
  <2>1. /\ req[s].step = "countTarget" /\ req'[s].step = "move"
        /\ req'[s].first = (ActiveOf(req[s].who) = {})
        /\ req'[s].name = req[s].name /\ req'[s].who = req[s].who
        /\ UNCHANGED <<rows, lost>>
    BY <1>1, <1>5 DEF CountTarget, Request, tables
  <2> QED BY <1>1, <2>1 DEF Ready, ActiveOf, Exists
<1>6. CASE LookupFlagged(s)
  <2>1. CASE req[s].name \in ActiveOf(req[s].who)
    <3>1. /\ req'[s].step = "setFlag"
          /\ req'[s].name = req[s].name /\ req'[s].who = req[s].who
          /\ UNCHANGED <<rows, lost>>
      BY <1>1, <1>6, <2>1 DEF LookupFlagged, Goto, Request, tables
    <3> QED BY <3>1, <2>1 DEF Ready, ActiveOf
  <2>2. CASE End(s)
    BY <1>1, <1>3, <2>2 DEF End, Idle, Working
  <2> QED BY <1>6, <2>1, <2>2 DEF LookupFlagged
<1>7. CASE LookupRow(s) \/ LockRow(s)
  <2>1. CASE ~Exists(req[s].name)
    <3>1. End(s)
      BY <1>7, <2>1 DEF LookupRow, LockRow, ReadRow
    <3> QED BY <1>1, <1>3, <3>1 DEF End, Idle, Working
  <2>2. CASE Exists(req[s].name)
    <3>1. /\ req'[s].step = "countOthers" /\ req'[s].name = req[s].name
          /\ UNCHANGED rows
      BY <1>1, <1>7, <2>2 DEF LookupRow, LockRow, ReadRow, Request, tables
    <3> QED BY <3>1, <2>2 DEF Ready, Exists
  <2> QED BY <2>1, <2>2
<1>8. CASE CountOthers(s)
  <2>1. /\ req[s].step = "countOthers"
        /\ req'[s].step \in {"deactivate", "countTarget"} /\ req'[s].name = req[s].name
        /\ UNCHANGED rows
    BY <1>1, <1>8 DEF CountOthers, Request, tables
  <2> QED BY <1>1, <2>1 DEF Ready, Exists
<1> QED BY <1>2, <1>3, <1>4, <1>5, <1>6, <1>7, <1>8, Arrivals

\* Once flagged, still flagged, for the pubkeys whose addresses and flags a
\* step does not take.
LEMMA FlagsKept ==
  ASSUME FlaggedUnlessLost, NEW p \in Pubkeys \ lost,
         ActiveOf(p) # {},
         \A m \in ActiveOf(p) :
           /\ rows'[m].owner = p /\ rows'[m].active
           /\ rows[m].primary => rows'[m].primary
           /\ rows[m].nip05 => rows'[m].nip05
  PROVE  PrimaryOf(p)' # {} /\ \E n \in ActiveOf(p)' : rows'[n].nip05
<1>1. PICK m \in ActiveOf(p) : rows[m].primary
  BY DEF FlaggedUnlessLost, PrimaryOf
<1>2. PICK n \in ActiveOf(p) : rows[n].nip05
  BY DEF FlaggedUnlessLost
<1> QED BY <1>1, <1>2 DEF PrimaryOf, ActiveOf

FlagInv == FlaggedUnlessLost /\ \A s \in Sessions : Ready(req[s])

LEMMA FlagStep == TInv /\ FlagInv /\ [Next]_vars => FlagInv'
<1> SUFFICES ASSUME TInv, FlagInv, [Next]_vars PROVE FlagInv'
  OBVIOUS
<1>1. \A s \in Sessions : Ready(req[s])'
  BY ReadyStep DEF FlagInv
<1> SUFFICES FlaggedUnlessLost'
  BY <1>1 DEF FlagInv
<1> SUFFICES ASSUME NEW p \in Pubkeys, p \notin lost', ActiveOf(p)' # {}
             PROVE  PrimaryOf(p)' # {} /\ \E n \in ActiveOf(p)' : rows'[n].nip05
  BY DEF FlaggedUnlessLost
<1> DEFINE Goal == PrimaryOf(p)' # {} /\ \E n \in ActiveOf(p)' : rows'[n].nip05
<1>2. p \notin lost /\ FlaggedUnlessLost
  BY KeepsAddresses DEF FlagInv
<1>3. CASE UNCHANGED <<rows, open, lost>>
  BY <1>2, <1>3 DEF FlaggedUnlessLost, PrimaryOf, ActiveOf
<1>4. ASSUME NEW s \in Sessions, Insert(s) PROVE Goal
  <2> DEFINE q == req[s]
  <2>1. /\ q.name \in Names /\ q.who \in Pubkeys /\ rows[q.name].owner = Nobody
        /\ rows'[q.name].owner = q.who /\ rows'[q.name].active
        /\ MakePrimary(q) => rows'[q.name].primary /\ rows'[q.name].nip05
        /\ \A m \in Names \ {q.name} :
             /\ rows'[m].owner = rows[m].owner /\ rows'[m].active = rows[m].active
             /\ ~(q.promote /\ rows[m].owner = q.who /\ rows[m].active) =>
                  rows'[m] = rows[m]
    BY <1>4, InsertFrame
  <2>2. CASE p = q.who /\ MakePrimary(q)
    BY <2>1, <2>2 DEF PrimaryOf, ActiveOf
  <2>3. CASE ~(p = q.who /\ MakePrimary(q))
    <3>1. \A m \in Names : rows[m].owner = p => rows'[m] = rows[m]
      BY <2>1, <2>3, RegistryConstants DEF MakePrimary
    <3>2. ActiveOf(p) # {}
      <4>1. CASE p = q.who
        BY <1>2, <1>4, <2>3, <4>1 DEF FlagInv, Ready, Insert, At, MakePrimary
      <4>2. CASE p # q.who
        BY <2>1, <4>2 DEF ActiveOf
      <4> QED BY <4>1, <4>2
    <3> QED BY <1>2, <3>1, <3>2, FlagsKept DEF ActiveOf
  <2> QED BY <2>2, <2>3
<1>5. ASSUME NEW s \in Sessions, Move(s) PROVE Goal
  <2> DEFINE q == req[s]
  <2>1. /\ q.name \in Names /\ q.who \in Pubkeys
        /\ rows'[q.name].owner = q.who /\ rows'[q.name].active = rows[q.name].active
        /\ q.first => rows'[q.name].primary /\ rows'[q.name].nip05
        /\ \A m \in Names \ {q.name} :
             /\ rows'[m].owner = rows[m].owner /\ rows'[m].active = rows[m].active
             /\ rows[m].primary => rows'[m].primary
             /\ rows[m].nip05 => rows'[m].nip05
    BY <1>5, MoveFrame
  <2>2. q.name \notin ActiveOf(p)
    BY <1>5 DEF Move, Losers
  <2>3. CASE p = q.who /\ q.first /\ rows[q.name].active
    BY <2>1, <2>3 DEF PrimaryOf, ActiveOf
  <2>4. CASE ~(p = q.who /\ q.first /\ rows[q.name].active)
    <3>1. ActiveOf(p) # {}
      <4>1. CASE p = q.who /\ ~q.first
        BY <1>2, <1>5, <4>1 DEF FlagInv, Ready, Move, At
      <4>2. CASE p # q.who \/ ~rows[q.name].active
        BY <2>1, <4>2 DEF ActiveOf
      <4> QED BY <2>4, <4>1, <4>2
    <3>2. \A m \in ActiveOf(p) :
            /\ rows'[m].owner = p /\ rows'[m].active
            /\ rows[m].primary => rows'[m].primary
            /\ rows[m].nip05 => rows'[m].nip05
      BY <2>1, <2>2 DEF ActiveOf
    <3> QED BY <1>2, <3>1, <3>2, FlagsKept
  <2> QED BY <2>3, <2>4
<1>6. ASSUME NEW s \in Sessions, Deactivate(s) PROVE Goal
  <2> DEFINE q == req[s]
  <2>1. /\ q.name \in Names /\ ~rows'[q.name].active
        /\ \A m \in Names \ {q.name} :
             /\ rows'[m].owner = rows[m].owner /\ rows'[m].active = rows[m].active
             /\ rows[m].primary => rows'[m].primary
             /\ rows[m].nip05 => rows'[m].nip05
    BY <1>6, DeactivateFrame
  <2>2. q.name \notin ActiveOf(p)
    BY <1>6 DEF Deactivate, Losers
  <2>3. ActiveOf(p) # {}
    BY <2>1 DEF ActiveOf
  <2>4. \A m \in ActiveOf(p) :
          /\ rows'[m].owner = p /\ rows'[m].active
          /\ rows[m].primary => rows'[m].primary
          /\ rows[m].nip05 => rows'[m].nip05
    BY <2>1, <2>2 DEF ActiveOf
  <2> QED BY <1>2, <2>3, <2>4, FlagsKept
<1>7. ASSUME NEW s \in Sessions, SetFlag(s) PROVE Goal
  <2>1. ActiveOf(p) # {} /\ \A m \in ActiveOf(p) : rows'[m].owner = p /\ rows'[m].active
    BY <1>7, FlagFrame DEF ActiveOf
  <2>2. /\ rows' = Flagged(s) /\ req[s].name \in Names /\ req[s].step = "setFlag"
        /\ rows \in [Names -> Row]
    BY <1>7, SetFlagFrame, TypeByRequest DEF SetFlag, At, TablesOK
  <2>3. CASE p # req[s].who
    <3>1. \A m \in ActiveOf(p) : /\ rows[m].primary => rows'[m].primary
                                 /\ rows[m].nip05 => rows'[m].nip05
      BY <2>2, <2>3 DEF Flagged, ActiveOf, Row
    <3> QED BY <1>2, <2>1, <3>1, FlagsKept
  <2>4. CASE p = req[s].who
    <3>1. req[s].name \in ActiveOf(p)
      BY <1>2, <2>2, <2>4 DEF FlagInv, Ready
    <3>2. CASE req[s].op = "setPrimary"
      <4>1. rows'[req[s].name].primary /\ \A m \in Names : rows'[m].nip05 = rows[m].nip05
        BY <2>2, <3>2 DEF Flagged, Row
      <4>2. \E n \in ActiveOf(p) : rows'[n].nip05
        BY <1>2, <2>1, <4>1 DEF FlaggedUnlessLost, ActiveOf
      <4> QED BY <2>1, <3>1, <4>1, <4>2 DEF PrimaryOf, ActiveOf
    <3>3. CASE req[s].op # "setPrimary"
      <4>1. rows'[req[s].name].nip05 /\ \A m \in Names : rows'[m].primary = rows[m].primary
        BY <2>2, <3>3 DEF Flagged, Row
      <4>2. \E n \in ActiveOf(p) : rows'[n].primary
        BY <1>2, <2>1, <4>1 DEF FlaggedUnlessLost, PrimaryOf, ActiveOf
      <4> QED BY <2>1, <3>1, <4>1, <4>2 DEF PrimaryOf, ActiveOf
    <3> QED BY <3>2, <3>3
  <2> QED BY <2>3, <2>4
<1>8. CASE BackfillPrimary \/ BackfillNIP05
  <2>1. \A m \in Names : /\ rows'[m].owner = rows[m].owner
                         /\ rows'[m].active = rows[m].active
                         /\ rows[m].primary => rows'[m].primary
                         /\ rows[m].nip05 => rows'[m].nip05
    BY <1>8, BackfillFrame
  <2>2. ActiveOf(p) # {}
    BY <2>1 DEF ActiveOf
  <2> QED BY <1>2, <2>1, <2>2, FlagsKept DEF ActiveOf
<1> QED BY <1>3, <1>4, <1>5, <1>6, <1>7, <1>8, Writers

LEMMA FlagInit == Init => FlagInv
  BY DEF Init, FlagInv, FlaggedUnlessLost, Ready, ActiveOf, Blank, Idle

\* A pubkey that never lost an active address has a primary and a NIP-05
\* address as soon as it has an address: no interleaving of claims, ensures,
\* grants, incoming transfers and flag changes leaves it without.
THEOREM FlagsHold == Spec => []FlaggedUnlessLost
<1>1. FlagInv => FlaggedUnlessLost
  BY DEF FlagInv
<1> QED BY <1>1, TypeInit, TypeStep, FlagInit, FlagStep, PTL DEF Spec

-----------------------------------------------------------------------------
(* What an INSERT may do.                                                   *)

\* Only an INSERT gives an owner to a name that has none.
LEMMA BornByInsert ==
  ASSUME TInv, FlagInv, [Next]_vars, NEW n \in Names, Born(n)
  PROVE  \E s \in Sessions : Insert(s) /\ req[s].name = n
<1>1. CASE UNCHANGED <<rows, open, lost>>
  BY <1>1 DEF Born
<1>2. ASSUME NEW s \in Sessions, Insert(s) PROVE req[s].name = n
  BY <1>2, InsertFrame DEF Born
<1>3. ASSUME NEW s \in Sessions, Move(s) PROVE FALSE
  <2>1. Exists(req[s].name)
    BY <1>3 DEF FlagInv, Ready, Move, At
  <2>2. \A m \in Names \ {req[s].name} : rows'[m].owner = rows[m].owner
    BY <1>3, MoveFrame
  <2> QED BY <2>1, <2>2 DEF Born, Exists
<1>4. ASSUME NEW s \in Sessions, Deactivate(s) PROVE FALSE
  BY <1>4, DeactivateFrame DEF Born
<1>5. ASSUME NEW s \in Sessions, SetFlag(s) PROVE FALSE
  BY <1>5, FlagFrame DEF Born
<1>6. CASE BackfillPrimary \/ BackfillNIP05
  BY <1>6, BackfillFrame DEF Born
<1> QED BY <1>1, <1>2, <1>3, <1>4, <1>5, <1>6, Writers

\* An INSERT that makes its row primary unflags the other rows of the pubkey,
\* or fails on the unique indexes.
LEMMA InsertUnique ==
  ASSUME TInv, NEW s \in Sessions, Insert(s), MakePrimary(req[s]),
         NEW m \in Names, rows[m].owner = req[s].who
  PROVE  ~rows'[m].primary /\ ~rows'[m].nip05
<1>1. /\ req[s].name \in Names /\ req[s].who \in Pubkeys /\ rows[req[s].name].owner = Nobody
      /\ rows'[req[s].name].owner = req[s].who
      /\ rows'[req[s].name].primary /\ rows'[req[s].name].nip05
      /\ \A k \in Names \ {req[s].name} : rows'[k].owner = rows[k].owner
      /\ UniqueFlags(rows')
  BY InsertFrame
<1> QED BY <1>1, RegistryConstants DEF UniqueFlags

\* An auto-assigned address only goes to a pubkey with no active address: when
\* the pubkey has one, one of its rows is flagged, and the INSERT fails.
THEOREM AutoAssignedLast == Spec => AutoOnlyForNameless
<1> DEFINE A == \A n \in AutoNames :
                  Born(n) /\ rows'[n].owner \notin lost => ActiveOf(rows'[n].owner) = {}
<1>1. TInv /\ FlagInv /\ [Next]_vars => A
  <2> SUFFICES ASSUME TInv, FlagInv, [Next]_vars, NEW n \in AutoNames, Born(n),
                      rows'[n].owner \notin lost, ActiveOf(rows'[n].owner) # {}
               PROVE  FALSE
    OBVIOUS
  <2>1. PICK s \in Sessions : Insert(s) /\ req[s].name = n
    BY BornByInsert DEF Names
  <2>2. /\ req[s].who \in Pubkeys /\ rows'[n].owner = req[s].who
        /\ rows[n].owner = Nobody
        /\ \A m \in Names \ {n} :
             ~req[s].promote => rows'[m] = rows[m]
    BY <2>1, InsertFrame
  <2>3. req[s].first /\ ~req[s].promote
    BY <2>1 DEF FlagInv, Ready, Insert, At
  <2>4. PICK m \in ActiveOf(req[s].who) : rows[m].primary
    BY <2>2 DEF FlagInv, FlaggedUnlessLost, PrimaryOf
  <2>5. m \in Names /\ m # n /\ rows[m].owner = req[s].who
    BY <2>2, <2>4, RegistryConstants DEF ActiveOf
  <2> QED BY <2>1, <2>2, <2>3, <2>4, <2>5, InsertUnique DEF MakePrimary
<1>2. TInv /\ FlagInv /\ [Next]_vars => [A]_vars
  BY <1>1
<1> QED BY <1>2, TypeInit, TypeStep, FlagInit, FlagStep, PTL DEF Spec, AutoOnlyForNameless

\* The session whose claim of n is inserted is the one that inserts n.
LEMMA ClaimInserts ==
  ASSUME TInv, FlagInv, [Next]_vars, NEW n \in Names, Born(n), NEW s \in Sessions,
         req[s].step = "insert", req[s].name = n, req'[s] = Idle
  PROVE  Insert(s)
<1>1. PICK t \in Sessions : Insert(t) /\ req[t].name = n
  BY BornByInsert
<1>2. s = t \/ req'[s] = req[s]
  BY <1>1, TypeByRequest DEF Insert, AfterRegister, Goto, End
<1>3. req[s] # Idle
  BY DEF Idle
<1> QED BY <1>1, <1>2, <1>3

\* The first claimed name of a pubkey is flagged, and the auto-assigned address
\* stays active without flags.
THEOREM ClaimedNameTakesOver == Spec => ClaimTakesOver
<1> DEFINE A ==
      \A s \in Sessions, n \in RealNames :
        Born(n) /\ req[s].op = "register" /\ req[s].step = "insert" /\ req[s].name = n
          /\ req'[s] = Idle /\ req[s].who \notin lost
          /\ ActiveOf(req[s].who) \subseteq AutoNames =>
        /\ rows'[n].primary /\ rows'[n].nip05
        /\ \A m \in ActiveOf(req[s].who) :
             rows'[m].active /\ ~rows'[m].primary /\ ~rows'[m].nip05
<1>1. TInv /\ FlagInv /\ [Next]_vars => A
  <2> SUFFICES ASSUME TInv, FlagInv, [Next]_vars,
                      NEW s \in Sessions, NEW n \in RealNames, Born(n),
                      req[s].op = "register", req[s].step = "insert", req[s].name = n,
                      req'[s] = Idle, req[s].who \notin lost,
                      ActiveOf(req[s].who) \subseteq AutoNames
               PROVE  /\ rows'[n].primary /\ rows'[n].nip05
                      /\ \A m \in ActiveOf(req[s].who) :
                           rows'[m].active /\ ~rows'[m].primary /\ ~rows'[m].nip05
    OBVIOUS
  <2>1. Insert(s)
    BY ClaimInserts DEF Names
  <2>2. MakePrimary(req[s])
    BY DEF FlagInv, Ready, MakePrimary
  <2>3. /\ rows[n].owner = Nobody /\ req[s].who \in Pubkeys
        /\ rows'[n].primary /\ rows'[n].nip05
        /\ \A m \in Names \ {n} : rows'[m].active = rows[m].active
    BY <2>1, <2>2, InsertFrame
  <2>4. ASSUME NEW m \in ActiveOf(req[s].who)
        PROVE  rows'[m].active /\ ~rows'[m].primary /\ ~rows'[m].nip05
    <3>1. m \in Names \ {n} /\ rows[m].owner = req[s].who /\ rows[m].active
      BY <2>3, RegistryConstants DEF ActiveOf
    <3> QED BY <2>1, <2>2, <2>3, <3>1, InsertUnique
  <2> QED BY <2>3, <2>4
<1>2. TInv /\ FlagInv /\ [Next]_vars => [A]_vars
  BY <1>1
<1> QED BY <1>2, TypeInit, TypeStep, FlagInit, FlagStep, PTL DEF Spec, ClaimTakesOver

-----------------------------------------------------------------------------
(* The name book.                                                           *)

LEMMA BookInit == Init => Book!Init
  BY DEF Init, Book!Init, Exists, Blank

LEMMA BookStep == TInv /\ HistoryInv /\ FlagInv /\ [Next]_vars => [Book!Next]_(Book!bvars)
<1> SUFFICES ASSUME TInv, HistoryInv, FlagInv, [Next]_vars
             PROVE  Book!Next \/ UNCHANGED Book!bvars
  OBVIOUS
<1> DEFINE issued == {n \in Names : Exists(n)}
           holder == [n \in Names |-> IF rows[n].active THEN rows[n].owner ELSE Nobody]
           Goal == Book!Next \/ UNCHANGED Book!bvars
<1>8. ASSUME NEW n \in Names, NEW p \in Pubkeys,
             Book!Issue(n, p) \/ Book!Transfer(n, p)
      PROVE  Goal
  BY <1>8 DEF Book!Next
<1>9. ASSUME NEW n \in Names, Book!Revoke(n) PROVE Goal
  BY <1>9 DEF Book!Next
<1>1. ASSUME \A m \in Names : /\ rows'[m].owner = rows[m].owner
                              /\ rows'[m].active = rows[m].active
      PROVE  Goal
  <2>1. issued' = issued
    BY <1>1 DEF Exists
  <2>2. holder' = holder
    BY <1>1
  <2> QED BY <2>1, <2>2 DEF Book!bvars
<1>2. ASSUME NEW s \in Sessions, Insert(s) PROVE Goal
  <2>0. PICK n \in Names, p \in Pubkeys : n = req[s].name /\ p = req[s].who
    BY <1>2, InsertFrame
  <2>1. /\ n \in Names /\ p \in Pubkeys /\ rows[n].owner = Nobody
        /\ rows'[n].owner = p /\ rows'[n].active
        /\ \A m \in Names \ {n} :
             rows'[m].owner = rows[m].owner /\ rows'[m].active = rows[m].active
    BY <1>2, <2>0, InsertFrame
  <2>2. n \notin issued /\ issued' = issued \cup {n}
    BY <2>1, RegistryConstants DEF Exists
  <2>3. holder' = [holder EXCEPT ![n] = p]
    BY <2>1
  <2>4. Book!Issue(n, p)
    BY <2>2, <2>3 DEF Book!Issue
  <2> QED BY <1>8, <2>4
<1>3. ASSUME NEW s \in Sessions, Move(s) PROVE Goal
  <2>0. PICK n \in Names, p \in Pubkeys : n = req[s].name /\ p = req[s].who
    BY <1>3, MoveFrame
  <2>1. /\ n \in Names /\ p \in Pubkeys
        /\ rows'[n].owner = p /\ rows'[n].active = rows[n].active
        /\ \A m \in Names \ {n} :
             rows'[m].owner = rows[m].owner /\ rows'[m].active = rows[m].active
    BY <1>3, <2>0, MoveFrame
  <2>2. rows[n].owner # Nobody
    BY <1>3, <2>0 DEF FlagInv, Ready, Move, At, Exists
  <2>3. issued' = issued
    BY <2>1, <2>2, RegistryConstants DEF Exists
  <2>4. CASE rows[n].active
    <3>1. holder' = [holder EXCEPT ![n] = p] /\ holder[n] # Nobody
      BY <2>1, <2>2, <2>4
    <3>2. Book!Transfer(n, p)
      BY <2>3, <3>1 DEF Book!Transfer
    <3> QED BY <1>8, <3>2
  <2>5. CASE ~rows[n].active
    <3>1. holder' = holder
      BY <2>1, <2>5
    <3> QED BY <2>3, <3>1 DEF Book!bvars
  <2> QED BY <2>4, <2>5
<1>4. ASSUME NEW s \in Sessions, Deactivate(s) PROVE Goal
  <2>0. PICK n \in Names : n = req[s].name
    BY <1>4, DeactivateFrame
  <2>1. /\ n \in Names /\ rows'[n].owner = rows[n].owner /\ ~rows'[n].active
        /\ \A m \in Names \ {n} :
             rows'[m].owner = rows[m].owner /\ rows'[m].active = rows[m].active
    BY <1>4, <2>0, DeactivateFrame
  <2>2. issued' = issued
    BY <2>1 DEF Exists
  <2>3. CASE rows[n].active
    <3>1. rows[n].owner # Nobody /\ rows[n].owner \in Pubkeys
      BY <2>1, <2>3, RegistryConstants DEF HistoryInv
    <3>2. holder' = [holder EXCEPT ![n] = Nobody] /\ holder[n] # Nobody
      BY <2>1, <2>3, <3>1
    <3>3. Book!Revoke(n)
      BY <2>2, <3>2 DEF Book!Revoke
    <3> QED BY <1>9, <3>3
  <2>4. CASE ~rows[n].active
    <3>1. holder' = holder
      BY <2>1, <2>4
    <3> QED BY <2>2, <3>1 DEF Book!bvars
  <2> QED BY <2>3, <2>4
<1>5. ASSUME NEW s \in Sessions, SetFlag(s) PROVE Goal
  BY <1>1, <1>5, FlagFrame
<1>6. CASE BackfillPrimary \/ BackfillNIP05
  BY <1>1, <1>6, BackfillFrame
<1>7. CASE UNCHANGED <<rows, open, lost>>
  BY <1>1, <1>7
<1> QED BY <1>2, <1>3, <1>4, <1>5, <1>6, <1>7, Writers

\* The registry implements the name book: a name is issued once, changes hands
\* only by a transfer, and answers for nobody after its revocation.
THEOREM RegistryImplementsNameBook == Spec => ImplementsNameBook
<1>1. Spec => [](TInv /\ HistoryInv /\ FlagInv)
  BY TypeInit, TypeStep, HistoryInit, HistoryStep, FlagInit, FlagStep, PTL DEF Spec
<1> QED BY <1>1, BookInit, BookStep, PTL DEF Spec, ImplementsNameBook, Book!Spec
=============================================================================
