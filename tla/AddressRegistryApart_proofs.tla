-------------------- MODULE AddressRegistryApart_proofs ---------------------
(***************************************************************************)
(* Theorems about the less concurrent behaviours of AddressRegistry: what  *)
(* is true of the registry when transfers of one name do not overlap       *)
(* (ApartSpec), and when transfers and revocations overlap nothing that is *)
(* about to write on what it read (CalmSpec).                              *)
(***************************************************************************)
EXTENDS AddressRegistry_proofs

-----------------------------------------------------------------------------
(* Transfers of one name that do not overlap.                               *)

\* A transfer hands the name on from the pubkey that still owns it.
FromOwner(s) == Moving(s) => req[s].from = rows[req[s].name].owner

OwnInv == OpenIntervalMeansOwned /\ \A s \in Sessions : FromOwner(s)

\* The owner of a name that is issued changes by a move of that name only.
LEMMA OwnerKept ==
  ASSUME TInv, [Next]_vars, NEW n \in Names, rows[n].owner # Nobody,
         \A s \in Sessions : Move(s) => req[s].name # n
  PROVE  rows'[n].owner = rows[n].owner
<1>1. ASSUME NEW s \in Sessions, Insert(s) PROVE rows'[n].owner = rows[n].owner
  BY <1>1, InsertFrame
<1>2. ASSUME NEW s \in Sessions, Move(s) PROVE rows'[n].owner = rows[n].owner
  BY <1>2, MoveFrame
<1>3. ASSUME NEW s \in Sessions, Deactivate(s) PROVE rows'[n].owner = rows[n].owner
  BY <1>3, DeactivateFrame
<1>4. ASSUME NEW s \in Sessions, SetFlag(s) PROVE rows'[n].owner = rows[n].owner
  BY <1>4, FlagFrame
<1>5. CASE BackfillPrimary \/ BackfillNIP05
  BY <1>5, BackfillFrame
<1> QED BY <1>1, <1>2, <1>3, <1>4, <1>5, Writers

\* A transfer that rests still moves the name from its owner: nobody else has
\* moved that name.
LEMMA FromOwnerKept ==
  ASSUME TInv, TransfersApart, [Next]_vars, NEW s \in Sessions, FromOwner(s),
         req'[s] = req[s]
  PROVE  FromOwner(s)'
<1> SUFFICES ASSUME Moving(s) PROVE rows'[req[s].name].owner = rows[req[s].name].owner
  BY DEF FromOwner, Moving
<1>1. req[s].name \in Names /\ req[s].from \in Pubkeys
  BY FoundGood DEF Moving
<1>2. rows[req[s].name].owner # Nobody
  BY <1>1, RegistryConstants DEF FromOwner
<1>3. ASSUME NEW t \in Sessions, Move(t) PROVE req[t].name # req[s].name
  <2>1. Moving(t)
    BY <1>3, FoundGood DEF Move, At, Moving
  <2>2. req'[t] = Idle
    BY <1>3, TypeByRequest DEF Move, End
  <2>3. t # s
    BY <2>1, <2>2 DEF Moving, Idle
  <2> QED BY <2>1, <2>3 DEF TransfersApart
<1> QED BY <1>1, <1>2, <1>3, OwnerKept

LEMMA FromOwnerStep ==
  ASSUME TInv, TransfersApart, [Next]_vars, NEW s \in Sessions, FromOwner(s)
  PROVE  FromOwner(s)'
<1>1. req \in [Sessions -> Request]
  BY TypeByRequest
<1>2. CASE req'[s] = req[s]
  BY <1>2, FromOwnerKept
<1>3. CASE req'[s].step \notin Working
  BY <1>3 DEF FromOwner, Moving, Working
<1>4. CASE CountExisting(s) \/ LookupFlagged(s)
  <2>1. req'[s].step \notin {"countOthers", "countTarget", "move"}
    <3>1. CASE CountExisting(s) /\ AutoRefused(req[s])
      BY <1>1, <3>1 DEF CountExisting, AfterRegister, Goto, End, Idle, Request
    <3>2. CASE CountExisting(s) /\ ~AutoRefused(req[s])
      <4> DEFINE none == ActiveOf(req[s].who) = {}
                 takes == TakesOver(req[s])
      <4>1. req' = [req EXCEPT ![s].step = "insert", ![s].first = none, ![s].promote = takes]
        BY <3>2 DEF CountExisting
      <4> HIDE DEF none, takes
      <4> QED BY <1>1, <4>1 DEF Request
    <3>3. CASE LookupFlagged(s)
      BY <1>1, <3>3 DEF LookupFlagged, Goto, End, Idle, Request
    <3> QED BY <1>4, <3>1, <3>2, <3>3
  <2> QED BY <2>1 DEF FromOwner, Moving
<1>5. CASE CountTarget(s) \/ CountOthers(s)
  <2>1. /\ req'[s].op = req[s].op /\ req'[s].name = req[s].name
        /\ req'[s].from = req[s].from
        /\ UNCHANGED rows /\ req[s].step \in {"countOthers", "countTarget"}
    BY <1>1, <1>5 DEF CountTarget, CountOthers, At, Request, tables
  <2> QED BY <2>1 DEF FromOwner, Moving
<1>6. CASE LookupRow(s) \/ LockRow(s)
  <2>1. CASE Exists(req[s].name)
    <3>1. /\ req'[s].name = req[s].name /\ req'[s].from = rows[req[s].name].owner
          /\ UNCHANGED rows
      BY <1>1, <1>6, <2>1 DEF LookupRow, LockRow, ReadRow, Request, tables
    <3> QED BY <3>1 DEF FromOwner
  <2>2. CASE ~Exists(req[s].name)
    BY <1>1, <1>3, <1>6, <2>2 DEF LookupRow, LockRow, ReadRow, End, Idle, Working
  <2> QED BY <2>1, <2>2
<1> QED BY <1>2, <1>3, <1>4, <1>5, <1>6, Arrivals

LEMMA OwnStep == TInv /\ OwnInv /\ TransfersApart /\ [Next]_vars => OwnInv'
<1> SUFFICES ASSUME TInv, OwnInv, TransfersApart, [Next]_vars PROVE OwnInv'
  OBVIOUS
<1>1. \A s \in Sessions : FromOwner(s)'
  BY FromOwnerStep DEF OwnInv
<1> SUFFICES OpenIntervalMeansOwned'
  BY <1>1 DEF OwnInv
<1>0. open \in [Names -> SUBSET Pubkeys]
  BY TypeByRequest DEF TablesOK
<1> USE DEF OpenIntervalMeansOwned
<1>2. \A n \in Names : open[n] \subseteq {rows[n].owner}
  BY DEF OwnInv
<1>3. CASE UNCHANGED <<rows, open, lost>>
  BY <1>2, <1>3
<1>4. ASSUME NEW s \in Sessions, Insert(s) PROVE OpenIntervalMeansOwned'
  <2>1. open' = [open EXCEPT ![req[s].name] = @ \cup {req[s].who}]
    BY <1>4 DEF Insert
  <2>2. /\ req[s].name \in Names /\ rows[req[s].name].owner = Nobody
        /\ rows'[req[s].name].owner = req[s].who
        /\ \A m \in Names \ {req[s].name} : rows'[m].owner = rows[m].owner
    BY <1>4, InsertFrame
  <2>3. open[req[s].name] = {}
    BY <1>0, <1>2, <2>2, RegistryConstants
  <2> QED BY <1>0, <1>2, <2>1, <2>2, <2>3
<1>5. ASSUME NEW s \in Sessions, Move(s) PROVE OpenIntervalMeansOwned'
  <2>1. open' = [open EXCEPT ![req[s].name] = (@ \ {req[s].from}) \cup {req[s].who}]
    BY <1>5 DEF Move, Reassigned
  <2>2. Moving(s)
    BY <1>5, FoundGood DEF Move, At, Moving
  <2>3. req[s].from = rows[req[s].name].owner
    BY <2>2 DEF OwnInv, FromOwner
  <2>4. /\ req[s].name \in Names /\ rows'[req[s].name].owner = req[s].who
        /\ \A m \in Names \ {req[s].name} : rows'[m].owner = rows[m].owner
    BY <1>5, MoveFrame
  <2>5. open[req[s].name] \ {req[s].from} = {}
    BY <1>2, <2>3, <2>4
  <2> QED BY <1>0, <1>2, <2>1, <2>4, <2>5
<1>6. ASSUME NEW s \in Sessions, Deactivate(s) PROVE OpenIntervalMeansOwned'
  <2>1. open' = [open EXCEPT ![req[s].name] = @ \ {req[s].from}]
    BY <1>6 DEF Deactivate
  <2> QED BY <1>0, <1>2, <1>6, <2>1, DeactivateFrame
<1>7. ASSUME NEW s \in Sessions, SetFlag(s) PROVE OpenIntervalMeansOwned'
  BY <1>2, <1>7, FlagFrame
<1>8. CASE BackfillPrimary \/ BackfillNIP05
  BY <1>2, <1>8, BackfillFrame DEF BackfillPrimary, BackfillNIP05
<1> QED BY <1>3, <1>4, <1>5, <1>6, <1>7, <1>8, Writers

LEMMA OwnInit == Init => OwnInv /\ TransfersApart
  BY DEF Init, OwnInv, OpenIntervalMeansOwned, FromOwner, TransfersApart, Moving, Idle

\* A step that keeps transfers apart is a step of the registry.
LEMMA ApartStep ==
  TransfersApart /\ [Next /\ TransfersApart']_vars => TransfersApart' /\ [Next]_vars
  BY DEF TransfersApart, Moving, vars

\* While no two transfers of one name overlap, a pubkey with an open ownership
\* interval of a name owns it, whatever claims, revocations and transfers of
\* other names run beside them.
THEOREM OpenIntervalIsCurrent == ApartSpec => []OpenIntervalMeansOwned
<1>1. OwnInv => OpenIntervalMeansOwned
  BY DEF OwnInv
<1> QED BY <1>1, TypeInit, TypeStep, OwnInit, OwnStep, ApartStep, PTL DEF ApartSpec

-----------------------------------------------------------------------------
(* Removals apart: what a request asked for.                                *)

\* A transfer is to another pubkey, and the name it looks up is its caller's;
\* only a revocation locks.
Asked(q) ==
  /\ q.op = "transfer" => q.caller # q.who
  /\ q.op = "transfer" /\ q.step = "lookup" => rows[q.name].owner = q.caller
  /\ q.step = "lock" => q.op = "revoke"

\* The same of a request that looks nothing up: the tables do not matter.
Plain(q) ==
  /\ q.op = "transfer" => q.caller # q.who /\ q.step # "lookup"
  /\ q.step = "lock" => q.op = "revoke"

\* A step leaves a request alone, leaves it plain, or is the lookup of the
\* caller's primary.
LEMMA Changes ==
  ASSUME TInv, \A s \in Sessions : Asked(req[s]), [Next]_vars, NEW t \in Sessions
  PROVE  req'[t] = req[t] \/ Plain(req'[t]) \/ ReadOwnPrimary(t)
<1> DEFINE Goal == req'[t] = req[t] \/ Plain(req'[t]) \/ ReadOwnPrimary(t)
           \* q is request r at another step.
           Same(q, r) == q.op = r.op /\ q.who = r.who /\ q.caller = r.caller
<1>1. req \in [Sessions -> Request]
  BY TypeByRequest
<1>2. ASSUME NEW s \in Sessions, NEW q, req' = [req EXCEPT ![s] = q], Plain(q)
      PROVE  Goal
  BY <1>1, <1>2
<1>3. ASSUME NEW s \in Sessions, NEW q, req' = [req EXCEPT ![s] = q], Same(q, req[s]),
             q.step \notin {"lookup", "lock"}
      PROVE  Goal
  <2>1. Plain(q)
    BY <1>3 DEF Plain, Asked
  <2> QED BY <1>2, <1>3, <2>1
<1>4. ASSUME NEW s \in Sessions, End(s) PROVE Goal
  <2>1. Plain(Idle)
    BY DEF Plain, Idle
  <2> QED BY <1>2, <1>4, <2>1 DEF End
<1>5. ASSUME NEW s \in Sessions, NEW step, step \notin {"lookup", "lock"}, Goto(s, step)
      PROVE  Goal
  <2> DEFINE q == [req[s] EXCEPT !.step = step]
  <2>1. Same(q, req[s]) /\ q.step = step /\ req' = [req EXCEPT ![s] = q]
    BY <1>1, <1>5 DEF Goto, Request
  <2> HIDE DEF q
  <2> QED BY <1>3, <1>5, <2>1
<1>6. ASSUME NEW s \in Sessions, AfterRegister(s) PROVE Goal
  BY <1>4, <1>5, <1>6 DEF AfterRegister
<1>7. ASSUME NEW s \in Sessions, NEW op, NEW step, NEW n, NEW p, op # "transfer",
             step = "lock" => op = "revoke", Begin(s, Ask(op, step, n, p))
      PROVE  Goal
  <2>1. Ask(op, step, n, p).step = step /\ Ask(op, step, n, p).op = op
    BY DEF Ask, Idle
  <2>2. Plain(Ask(op, step, n, p))
    BY <1>7, <2>1 DEF Plain
  <2> QED BY <1>2, <1>7, <2>2 DEF Begin
<1>8. ASSUME NEW s \in Sessions, NEW p, NEW to, p # to,
             Begin(s, [Ask("transfer", "readPrimary", NoName, to) EXCEPT !.caller = p])
      PROVE  Goal
  <2>1. Plain([Ask("transfer", "readPrimary", NoName, to) EXCEPT !.caller = p])
    BY <1>8 DEF Ask, Idle, Plain
  <2> QED BY <1>2, <1>8, <2>1 DEF Begin
<1>9. ASSUME NEW s \in Sessions, NEW step, NEW n, step \notin {"lookup", "lock"},
             req' = [req EXCEPT ![s].step = step, ![s].name = n]
      PROVE  Goal
  <2> DEFINE q == [req[s] EXCEPT !.step = step, !.name = n]
  <2>1. Same(q, req[s]) /\ q.step = step /\ req' = [req EXCEPT ![s] = q]
    BY <1>1, <1>9 DEF Request
  <2> HIDE DEF q
  <2> QED BY <1>3, <1>9, <2>1
<1>10. ASSUME NEW s \in Sessions, Register(s) PROVE Goal
  <2>1. CASE BeginRegister(s) \/ BeginEnsure(s) \/ BeginProvision(s) \/ BeginGrant(s)
    BY <2>1, <1>7 DEF BeginRegister, BeginEnsure, BeginProvision, BeginGrant
  <2>2. CASE ReadPrimary(s) \/ CountActive(s) \/ Generate(s) \/ CheckTaken(s)
               \/ CheckReserved(s) \/ ReadBack(s) \/ Answer(s)
    BY <2>2, <1>4, <1>5, <1>6, <1>9 DEF ReadPrimary, CountActive, Generate, CheckTaken,
         CheckReserved, ReadBack, Answer
  <2>3. CASE Insert(s) \/ InsertConflict(s)
    BY <2>3, <1>6 DEF Insert, InsertConflict
  <2>4. CASE CountExisting(s)
    <3>1. CASE AutoRefused(req[s])
      BY <2>4, <3>1, <1>6 DEF CountExisting
    <3>2. CASE ~AutoRefused(req[s])
      <4> DEFINE none == ActiveOf(req[s].who) = {}
                 takes == TakesOver(req[s])
                 q == [req[s] EXCEPT !.step = "insert", !.first = none, !.promote = takes]
      <4>1. req' = [req EXCEPT ![s].step = "insert", ![s].first = none,
                               ![s].promote = takes]
        BY <2>4, <3>2 DEF CountExisting
      <4> HIDE DEF none, takes
      <4>2. Same(q, req[s]) /\ q.step = "insert" /\ req' = [req EXCEPT ![s] = q]
        BY <1>1, <4>1 DEF Request
      <4> HIDE DEF q
      <4> QED BY <1>3, <4>2
    <3> QED BY <3>1, <3>2
  <2> QED BY <1>10, <2>1, <2>2, <2>3, <2>4 DEF Register
<1>11. ASSUME NEW s \in Sessions, ReadRow(s) PROVE Goal
  <2>1. CASE ~Exists(req[s].name)
    BY <1>4, <1>11, <2>1 DEF ReadRow
  <2>2. CASE Exists(req[s].name)
    <3> DEFINE row == rows[req[s].name]
               q == [req[s] EXCEPT !.step = "countOthers", !.from = row.owner,
                       !.wasPrimary = row.primary, !.wasNIP05 = row.nip05]
    <3>1. req' = [req EXCEPT ![s].step = "countOthers", ![s].from = row.owner,
                    ![s].wasPrimary = row.primary, ![s].wasNIP05 = row.nip05]
      BY <1>11, <2>2 DEF ReadRow
    <3> HIDE DEF row
    <3>2. Same(q, req[s]) /\ q.step = "countOthers" /\ req' = [req EXCEPT ![s] = q]
      BY <1>1, <3>1 DEF Request
    <3> HIDE DEF q
    <3> QED BY <1>3, <3>2
  <2> QED BY <2>1, <2>2
<1>12. ASSUME NEW s \in Sessions, Transfer(s) PROVE Goal
  <2>1. CASE BeginTransfer(s)
    BY <2>1, <1>8 DEF BeginTransfer
  <2>2. CASE BeginAdminTransfer(s)
    BY <2>2, <1>7 DEF BeginAdminTransfer
  <2>3. CASE Move(s) \/ MoveConflict(s)
    BY <2>3, <1>4 DEF Move, MoveConflict
  <2>4. CASE ReadOwnPrimary(s)
    <3>1. s = t \/ req'[t] = req[t]
      BY <2>4, <1>1 DEF ReadOwnPrimary, End
    <3> QED BY <2>4, <3>1
  <2>5. CASE LookupRow(s)
    BY <2>5, <1>11 DEF LookupRow
  <2>6. CASE CountOthers(s)
    <3> DEFINE next == IF req[s].op = "revoke" THEN "deactivate" ELSE "countTarget"
               some == ActiveOf(req[s].from) \ {req[s].name} # {}
               q == [req[s] EXCEPT !.step = next, !.others = some]
    <3>1. next \notin {"lookup", "lock"}
      OBVIOUS
    <3>2. req' = [req EXCEPT ![s].step = next, ![s].others = some]
      BY <2>6 DEF CountOthers
    <3> HIDE DEF next, some
    <3>3. Same(q, req[s]) /\ q.step = next /\ req' = [req EXCEPT ![s] = q]
      BY <1>1, <3>2 DEF Request
    <3> HIDE DEF q
    <3> QED BY <1>3, <3>1, <3>3
  <2>7. CASE CountTarget(s)
    <3> DEFINE none == ActiveOf(req[s].who) = {}
               q == [req[s] EXCEPT !.step = "move", !.first = none]
    <3>1. req' = [req EXCEPT ![s].step = "move", ![s].first = none]
      BY <2>7 DEF CountTarget
    <3> HIDE DEF none
    <3>2. Same(q, req[s]) /\ q.step = "move" /\ req' = [req EXCEPT ![s] = q]
      BY <1>1, <3>1 DEF Request
    <3> HIDE DEF q
    <3> QED BY <1>3, <3>2
  <2> QED BY <1>12, <2>1, <2>2, <2>3, <2>4, <2>5, <2>6, <2>7 DEF Transfer
<1>13. ASSUME NEW s \in Sessions, Administer(s) PROVE Goal
  <2>1. CASE BeginRevoke(s) \/ BeginSetPrimary(s) \/ BeginSetNIP05(s)
    BY <2>1, <1>7 DEF BeginRevoke, BeginSetPrimary, BeginSetNIP05
  <2>2. CASE Deactivate(s) \/ DeactivateConflict(s) \/ SetFlag(s) \/ SetFlagConflict(s)
    BY <2>2, <1>4 DEF Deactivate, DeactivateConflict, SetFlag, SetFlagConflict
  <2>3. CASE LockRow(s)
    BY <2>3, <1>11 DEF LockRow
  <2>4. CASE LookupFlagged(s)
    BY <2>4, <1>4, <1>5 DEF LookupFlagged
  <2> QED BY <1>13, <2>1, <2>2, <2>3, <2>4 DEF Administer
<1>14. ASSUME NEW s \in Sessions, Fail(s) PROVE Goal
  BY <1>4, <1>5, <1>14 DEF Fail
<1>15. CASE UNCHANGED req
  BY <1>15
<1> QED BY <1>10, <1>12, <1>13, <1>14, <1>15
        DEF Next, vars, AddReserved, RemoveReserved, CooldownElapses,
            BackfillPrimary, BackfillNIP05

LEMMA AskedInit == Init => \A s \in Sessions : Asked(req[s])
  BY DEF Init, Asked, Idle

-----------------------------------------------------------------------------
(* Removals apart: what a request read.                                     *)

\* What a request that is about to write has read is still so.
UpToDate(q) ==
  /\ q.step \in {"insert", "move"} /\ ~q.first => ActiveOf(q.who) # {}
  /\ q.step = "setFlag" => q.name \in ActiveOf(q.who)
  /\ q.step \in {"countOthers", "countTarget", "move", "deactivate"} =>
       /\ q.from = rows[q.name].owner
       /\ q.wasPrimary = rows[q.name].primary
       /\ q.op # "revoke" => q.from # q.who
  /\ q.step \in {"countTarget", "move", "deactivate"} =>
       q.others = (ActiveOf(q.from) \ {q.name} # {})

CalmInv ==
  /\ HasPrimary
  /\ \A s \in Sessions : Asked(req[s]) /\ UpToDate(req[s])

\* Where every pubkey with an address has a primary one, the migration has
\* nothing to backfill.
LEMMA NothingToBackfill ==
  ASSUME TInv, HasPrimary, BackfillPrimary
  PROVE  \A m \in Names : rows'[m].primary = rows[m].primary
<1> DEFINE flagged == {n \in Names : rows[n].primary}
<1>1. Unflagged(flagged) = {}
  BY DEF Unflagged, HasPrimary, PrimaryOf, ActiveOf
<1>2. PICK pick \in Picks(flagged) :
        rows' = [n \in Names |-> [rows[n] EXCEPT
                   !.primary = @ \/ \E p \in DOMAIN pick : n = pick[p]]]
  BY DEF BackfillPrimary
<1>3. DOMAIN pick = {}
  BY <1>1, <1>2 DEF Picks
<1>4. rows \in [Names -> Row]
  BY TypeByRequest DEF TablesOK
<1> QED BY <1>2, <1>3, <1>4 DEF Row

\* A request that writes does not rest.
LEMMA WriterEnds ==
  ASSUME TInv, NEW s \in Sessions, Insert(s) \/ Move(s) \/ Deactivate(s) \/ SetFlag(s)
  PROVE  req[s].step \in {"insert", "move", "deactivate", "setFlag"} /\ req'[s] # req[s]
<1>1. req \in [Sessions -> Request]
  BY TypeByRequest
<1>2. req[s].step \in {"insert", "move", "deactivate", "setFlag"}
  BY DEF Insert, Move, Deactivate, SetFlag, At
<1>3. End(s) \/ Goto(s, "readBack")
  BY DEF Insert, Move, Deactivate, SetFlag, AfterRegister
<1>4. req'[s].step \in {"idle", "readBack"}
  BY <1>1, <1>3 DEF End, Goto, Idle, Request
<1> QED BY <1>2, <1>4

\* While a transfer or revocation rests, nothing it has read changes: no other
\* request writes an owner, `active` or the primary flag.
LEMMA RemovalRests ==
  ASSUME TInv, HasPrimary, RemovalsApart, [Next]_vars,
         NEW s \in Sessions, Removing(s), req'[s] = req[s]
  PROVE  \A m \in Names : /\ rows'[m].owner = rows[m].owner
                          /\ rows'[m].active = rows[m].active
                          /\ rows'[m].primary = rows[m].primary
<1>1. ASSUME NEW t \in Sessions, Insert(t) \/ Move(t) \/ Deactivate(t) \/ SetFlag(t)
      PROVE  FALSE
  BY <1>1, WriterEnds DEF RemovalsApart, Removing
<1>2. CASE BackfillPrimary
  BY <1>2, BackfillFrame, NothingToBackfill
<1>3. CASE BackfillNIP05
  <2>1. PICK pick : rows' = [n \in Names |-> [rows[n] EXCEPT
                        !.nip05 = @ \/ \E p \in DOMAIN pick : n = pick[p]]]
    BY <1>3 DEF BackfillNIP05
  <2>2. rows \in [Names -> Row]
    BY TypeByRequest DEF TablesOK
  <2> QED BY <2>1, <2>2 DEF Row
<1>4. CASE UNCHANGED <<rows, open, lost>>
  BY <1>4
<1> QED BY <1>1, <1>2, <1>3, <1>4, Writers

\* While a request rests before its INSERT or its flag change, nobody loses an
\* address.
LEMMA NobodyLoses ==
  ASSUME TInv, RemovalsApart, [Next]_vars, NEW s \in Sessions,
         req[s].step \in {"insert", "setFlag"}, NEW p \in Pubkeys
  PROVE  ActiveOf(p) \subseteq ActiveOf(p)'
<1> DEFINE Goal == ActiveOf(p) \subseteq ActiveOf(p)'
<1>1. ASSUME NEW t \in Sessions, Insert(t) PROVE Goal
  BY <1>1, InsertFrame, RegistryConstants DEF ActiveOf
<1>2. ASSUME NEW t \in Sessions, SetFlag(t) PROVE Goal
  BY <1>2, FlagFrame DEF ActiveOf
<1>3. ASSUME NEW t \in Sessions, Move(t) \/ Deactivate(t) PROVE Goal
  <2>1. req[t].step \in {"move", "deactivate"}
    BY <1>3 DEF Move, Deactivate, At
  <2> QED BY <2>1 DEF RemovalsApart, Removing
<1>4. CASE BackfillPrimary \/ BackfillNIP05
  BY <1>4, FlagFrame DEF ActiveOf
<1>5. CASE UNCHANGED <<rows, open, lost>>
  BY <1>5 DEF ActiveOf
<1> QED BY <1>1, <1>2, <1>3, <1>4, <1>5, Writers

LEMMA AskedStep ==
  ASSUME TInv, CalmInv, RemovalsApart, [Next]_vars, NEW s \in Sessions
  PROVE  Asked(req[s])'
<1>1. req \in [Sessions -> Request]
  BY TypeByRequest
<1>2. CASE req'[s] = req[s]
  <2>1. CASE ~(req[s].op = "transfer" /\ req[s].step = "lookup")
    BY <1>2, <2>1 DEF CalmInv, Asked
  <2>2. CASE req[s].op = "transfer" /\ req[s].step = "lookup"
    <3>1. req[s].name \in Names
      BY <2>2, TypeByRequest DEF GoodRequest, RequestOK, Named
    <3> QED BY <1>2, <2>2, <3>1, RemovalRests DEF CalmInv, Asked, Removing
  <2> QED BY <2>1, <2>2
<1>3. CASE Plain(req'[s])
  BY <1>3 DEF Plain, Asked
<1>4. CASE ReadOwnPrimary(s)
  <2>1. CASE End(s)
    BY <1>1, <2>1 DEF End, Idle, Asked
  <2>2. CASE ~End(s)
    <3>1. PICK n \in PrimaryOf(req[s].caller) :
            req' = [req EXCEPT ![s].step = "lookup", ![s].name = n]
      BY <1>4, <2>2 DEF ReadOwnPrimary
    <3>2. /\ req'[s].step = "lookup" /\ req'[s].name = n /\ req'[s].op = req[s].op
          /\ req'[s].who = req[s].who /\ req'[s].caller = req[s].caller
      BY <1>1, <3>1 DEF Request
    <3>3. UNCHANGED rows /\ rows[n].owner = req[s].caller
      BY <1>4, <3>1 DEF ReadOwnPrimary, tables, PrimaryOf, ActiveOf
    <3> QED BY <3>2, <3>3 DEF CalmInv, Asked
  <2> QED BY <2>1, <2>2
<1> QED BY <1>2, <1>3, <1>4, Changes DEF CalmInv

\* What the request at work has read stays so, and what it reads is so.
LEMMA UpToDateStep ==
  ASSUME TInv, CalmInv, RemovalsApart, [Next]_vars, NoSelfTransfer, NEW s \in Sessions
  PROVE  UpToDate(req[s])'
<1> USE DEF At
<1>1. /\ GoodRequest(req[s]) /\ UpToDate(req[s]) /\ Asked(req[s])
      /\ req \in [Sessions -> Request]
  BY TypeByRequest DEF CalmInv
<1>2. CASE req'[s] = req[s]
  <2>1. CASE req[s].step \notin Working
    BY <1>2, <2>1 DEF UpToDate, Working
  <2>2. CASE req[s].step \in {"insert", "setFlag"}
    <3>1. PICK p \in Pubkeys : p = req[s].who
      BY <1>1, <2>2 DEF GoodRequest, RequestOK
    <3>2. ActiveOf(p) \subseteq ActiveOf(p)'
      BY <2>2, NobodyLoses
    <3>3. \/ req[s].step = "insert" /\ ~req[s].first /\ ActiveOf(p) # {}
          \/ req[s].step = "insert" /\ req[s].first
          \/ req[s].step = "setFlag" /\ req[s].name \in ActiveOf(p)
      BY <1>1, <2>2, <3>1 DEF UpToDate
    <3> QED BY <1>2, <3>1, <3>2, <3>3 DEF UpToDate, ActiveOf
  <2>3. CASE req[s].step \in Working \ {"insert", "setFlag"}
    <3>1. \A m \in Names : /\ rows'[m].owner = rows[m].owner
                           /\ rows'[m].active = rows[m].active
                           /\ rows'[m].primary = rows[m].primary
      BY <1>2, <2>3, RemovalRests DEF Working, Removing, CalmInv
    <3>2. \A p : ActiveOf(p)' = ActiveOf(p)
      BY <3>1 DEF ActiveOf
    <3>3. req[s].name \in Names
      BY <1>1, <2>3 DEF GoodRequest, RequestOK, Working, Named
    <3> QED BY <1>1, <1>2, <3>1, <3>2, <3>3 DEF UpToDate
  <2> QED BY <2>1, <2>2, <2>3
<1>3. CASE req'[s].step \notin Working
  BY <1>3 DEF UpToDate, Working
<1>4. CASE CountExisting(s)
  <2>1. CASE AutoRefused(req[s])
    <3>1. req'[s].step \notin Working
      BY <1>1, <1>4, <2>1 DEF CountExisting, AfterRegister, Goto, End, Idle, Working, Request
    <3> QED BY <3>1, <1>3
  <2>2. CASE ~AutoRefused(req[s])
    <3> DEFINE none == ActiveOf(req[s].who) = {}
               takes == TakesOver(req[s])
    <3>1. req' = [req EXCEPT ![s].step = "insert", ![s].first = none, ![s].promote = takes]
      BY <1>4, <2>2 DEF CountExisting
    <3>2. UNCHANGED rows
      BY <1>4 DEF CountExisting, tables
    <3> HIDE DEF takes
    <3>3. req'[s].step = "insert" /\ req'[s].first = none /\ req'[s].who = req[s].who
      BY <1>1, <3>1 DEF Request
    <3> QED BY <3>2, <3>3 DEF UpToDate, ActiveOf
  <2> QED BY <2>1, <2>2
<1>5. CASE CountTarget(s)
  <2>1. /\ req[s].step = "countTarget" /\ req'[s].step = "move"
        /\ req'[s].first = (ActiveOf(req[s].who) = {})
        /\ req'[s].name = req[s].name /\ req'[s].who = req[s].who
        /\ req'[s].op = req[s].op /\ req'[s].from = req[s].from
        /\ req'[s].wasPrimary = req[s].wasPrimary /\ req'[s].others = req[s].others
        /\ UNCHANGED rows
    BY <1>1, <1>5 DEF CountTarget, Request, tables
  <2> QED BY <1>1, <2>1 DEF UpToDate, ActiveOf
<1>6. CASE LookupFlagged(s)
  <2>1. CASE req[s].name \in ActiveOf(req[s].who)
    <3>1. /\ req'[s].step = "setFlag"
          /\ req'[s].name = req[s].name /\ req'[s].who = req[s].who
          /\ UNCHANGED rows
      BY <1>1, <1>6, <2>1 DEF LookupFlagged, Goto, Request, tables
    <3> QED BY <3>1, <2>1 DEF UpToDate, ActiveOf
  <2>2. CASE End(s)
    BY <1>1, <1>3, <2>2 DEF End, Idle, Working
  <2> QED BY <1>6, <2>1, <2>2 DEF LookupFlagged
<1>7. CASE LookupRow(s) \/ LockRow(s)
  <2>1. CASE ~Exists(req[s].name)
    <3>1. End(s)
      BY <1>7, <2>1 DEF LookupRow, LockRow, ReadRow
    <3> QED BY <1>1, <1>3, <3>1 DEF End, Idle, Working
  <2>2. CASE Exists(req[s].name)
    <3>1. /\ req'[s].step = "countOthers" /\ req'[s].name = req[s].name
          /\ req'[s].op = req[s].op /\ req'[s].who = req[s].who
          /\ req'[s].from = rows[req[s].name].owner
          /\ req'[s].wasPrimary = rows[req[s].name].primary
          /\ UNCHANGED rows
      BY <1>1, <1>7, <2>2 DEF LookupRow, LockRow, ReadRow, Request, tables
    <3>2. req'[s].op # "revoke" => req'[s].from # req'[s].who
      <4>1. CASE LockRow(s)
        BY <1>1, <3>1, <4>1 DEF LockRow, Asked
      <4>2. CASE LookupRow(s) /\ req[s].op = "transfer"
        BY <1>1, <3>1, <4>2 DEF LookupRow, Asked
      <4>3. CASE LookupRow(s) /\ req[s].op = "adminTransfer"
        BY <3>1, <4>3 DEF NoSelfTransfer
      <4> QED BY <1>7, <4>1, <4>2, <4>3 DEF LookupRow
    <3> QED BY <3>1, <3>2 DEF UpToDate
  <2> QED BY <2>1, <2>2
<1>8. CASE CountOthers(s)
  <2>1. /\ req[s].step = "countOthers"
        /\ req'[s].step \in {"deactivate", "countTarget"} /\ req'[s].name = req[s].name
        /\ req'[s].others = (ActiveOf(req[s].from) \ {req[s].name} # {})
        /\ req'[s].who = req[s].who /\ req'[s].op = req[s].op
        /\ req'[s].from = req[s].from /\ req'[s].wasPrimary = req[s].wasPrimary
        /\ UNCHANGED rows
    BY <1>1, <1>8 DEF CountOthers, Request, tables
  <2> QED BY <1>1, <2>1 DEF UpToDate, ActiveOf
<1> QED BY <1>2, <1>3, <1>4, <1>5, <1>6, <1>7, <1>8, Arrivals

-----------------------------------------------------------------------------
(* Removals apart: the primary address.                                     *)

\* A pubkey keeps its primary if a step takes none of its addresses or flags.
LEMMA PrimaryKept ==
  ASSUME HasPrimary, NEW p \in Pubkeys, ActiveOf(p) # {},
         \A m \in ActiveOf(p) : /\ rows'[m].owner = p /\ rows'[m].active
                                /\ rows[m].primary => rows'[m].primary
  PROVE  PrimaryOf(p)' # {}
<1>1. PICK m \in ActiveOf(p) : rows[m].primary
  BY DEF HasPrimary, PrimaryOf
<1> QED BY <1>1 DEF PrimaryOf, ActiveOf

\* If a primary address goes and its owner keeps another, that one or a second
\* one becomes primary.
LEMMA HeirIsPrimary ==
  ASSUME NEW r \in [Names -> Row], NEW s, NEW h \in WithHeir(s, r),
         req[s].others, req[s].wasPrimary, req[s].wasNIP05 \in BOOLEAN,
         Heirs(r, req[s].from, req[s].name) # {}
  PROVE  \E m \in Names : /\ h[m].owner = req[s].from /\ h[m].active /\ h[m].primary
<1>1. PICK heir \in Heirs(r, req[s].from, req[s].name) : h = Promoted(r, s, heir)
  BY DEF WithHeir
<1>2. heir \in Names /\ r[heir].owner = req[s].from /\ r[heir].active
  BY <1>1 DEF Heirs
<1> QED BY <1>1, <1>2 DEF Promoted, Row

\* The pubkey p that gives up the name of request s had a primary, and has one
\* still if it has an address.
LEMMA SourceKeepsPrimary ==
  ASSUME TInv, HasPrimary, NEW s \in Sessions, UpToDate(req[s]),
         req[s].step \in {"move", "deactivate"},
         NEW r \in [Names -> Row], rows' \in WithHeir(s, r),
         \A m \in Names \ {req[s].name} : r[m] = rows[m],
         NEW p \in Pubkeys, p = req[s].from, req[s].name \notin ActiveOf(p)',
         ActiveOf(p)' # {}
  PROVE  PrimaryOf(p)' # {}
<1> DEFINE n == req[s].name
<1>1. /\ n \in Names /\ p \in Pubkeys
      /\ req[s].wasPrimary \in BOOLEAN /\ req[s].wasNIP05 \in BOOLEAN
  BY FoundGood
<1>2. /\ rows[n].owner = p /\ req[s].wasPrimary = rows[n].primary
      /\ req[s].others = (ActiveOf(p) \ {n} # {})
  BY DEF UpToDate
<1>3. \A m \in Names : /\ rows'[m].owner = r[m].owner /\ rows'[m].active = r[m].active
                       /\ r[m].primary => rows'[m].primary
  BY <1>1, HeirFrame
<1>4. PICK m \in Names \ {n} : rows[m].owner = p /\ rows[m].active
  BY <1>3 DEF ActiveOf
<1>5. PICK k \in ActiveOf(p) : rows[k].primary
  BY <1>1, <1>4 DEF HasPrimary, PrimaryOf, ActiveOf
<1>6. CASE k # n
  BY <1>3, <1>5, <1>6 DEF PrimaryOf, ActiveOf
<1>7. CASE k = n
  <2>1. m \in Heirs(r, p, n)
    BY <1>4 DEF Heirs
  <2>2. req[s].others /\ req[s].wasPrimary
    BY <1>2, <1>4, <1>5, <1>7 DEF ActiveOf
  <2>3. \E i \in Names : rows'[i].owner = p /\ rows'[i].active /\ rows'[i].primary
    BY <1>1, <2>1, <2>2, HeirIsPrimary
  <2> QED BY <2>3 DEF PrimaryOf, ActiveOf
<1> QED BY <1>6, <1>7

LEMMA PrimaryStep ==
  ASSUME TInv, CalmInv, RemovalsApart, [Next]_vars
  PROVE  HasPrimary'
<1> SUFFICES ASSUME NEW p \in Pubkeys, ActiveOf(p)' # {} PROVE PrimaryOf(p)' # {}
  BY DEF HasPrimary
<1> DEFINE Goal == PrimaryOf(p)' # {}
<1>1. HasPrimary /\ \A s \in Sessions : UpToDate(req[s])
  BY DEF CalmInv
<1>2. rows \in [Names -> Row]
  BY TypeByRequest DEF TablesOK
<1>3. CASE UNCHANGED <<rows, open, lost>>
  BY <1>1, <1>3 DEF HasPrimary, PrimaryOf, ActiveOf
<1>4. ASSUME NEW s \in Sessions, Insert(s) PROVE Goal
  <2> DEFINE q == req[s]
  <2>1. /\ q.name \in Names /\ q.who \in Pubkeys /\ rows[q.name].owner = Nobody
        /\ rows'[q.name].owner = q.who /\ rows'[q.name].active
        /\ MakePrimary(q) => rows'[q.name].primary
        /\ \A m \in Names \ {q.name} :
             /\ rows'[m].owner = rows[m].owner /\ rows'[m].active = rows[m].active
             /\ ~(q.promote /\ rows[m].owner = q.who /\ rows[m].active) =>
                  rows'[m] = rows[m]
    BY <1>4, InsertFrame
  <2>2. CASE p = q.who /\ MakePrimary(q)
    BY <2>1, <2>2 DEF PrimaryOf, ActiveOf
  <2>3. CASE ~(p = q.who /\ MakePrimary(q))
    <3>1. \A m \in Names : rows[m].owner = p => rows'[m] = rows[m]
      BY <2>1, <2>3, RegistryConstants DEF MakePrimary
    <3>2. ActiveOf(p) # {}
      <4>1. CASE p = q.who
        BY <1>1, <1>4, <2>3, <4>1 DEF UpToDate, Insert, At, MakePrimary
      <4>2. CASE p # q.who
        BY <2>1, <4>2 DEF ActiveOf
      <4> QED BY <4>1, <4>2
    <3> QED BY <1>1, <3>1, <3>2, PrimaryKept DEF ActiveOf
  <2> QED BY <2>2, <2>3
<1>5. ASSUME NEW s \in Sessions, Move(s) PROVE Goal
  <2> DEFINE q == req[s]
  <2>1. /\ q.name \in Names /\ q.who \in Pubkeys
        /\ rows'[q.name].owner = q.who /\ rows'[q.name].active = rows[q.name].active
        /\ q.first => rows'[q.name].primary
        /\ \A m \in Names \ {q.name} :
             /\ rows'[m].owner = rows[m].owner /\ rows'[m].active = rows[m].active
             /\ rows[m].primary => rows'[m].primary
    BY <1>5, MoveFrame
  <2>2. /\ q.step = "move" /\ q.op # "revoke" /\ q.first \in BOOLEAN
        /\ q.from = rows[q.name].owner /\ q.from # q.who
        /\ ~q.first => ActiveOf(q.who) # {}
    BY <1>1, <1>5, FoundGood DEF UpToDate, Move, At
  <2>3. CASE p = q.from
    <3>1. /\ Moved(s) \in [Names -> Row]
          /\ \A m \in Names \ {q.name} : Moved(s)[m] = rows[m]
      <4> HIDE DEF q
      <4> DEFINE first == q.first
      <4>1. Moved(s) = [rows EXCEPT ![q.name].owner = q.who, ![q.name].primary = first,
                                    ![q.name].nip05 = first]
        BY DEF Moved, q
      <4>2. first \in BOOLEAN
        BY <2>2
      <4> HIDE DEF first
      <4> QED BY <1>2, <2>1, <4>1, <4>2 DEF Row
    <3>2. rows' \in WithHeir(s, Moved(s))
      BY <1>5 DEF Move
    <3>3. q.name \notin ActiveOf(p)'
      BY <2>1, <2>2, <2>3 DEF ActiveOf
    <3> QED BY <1>1, <2>2, <2>3, <3>1, <3>2, <3>3, SourceKeepsPrimary
  <2>4. CASE p # q.from
    <3>1. \A m \in ActiveOf(p) : /\ rows'[m].owner = p /\ rows'[m].active
                                 /\ rows[m].primary => rows'[m].primary
      BY <2>1, <2>2, <2>4 DEF ActiveOf
    <3>2. CASE ActiveOf(p) # {}
      BY <1>1, <3>1, <3>2, PrimaryKept
    <3>3. CASE ActiveOf(p) = {}
      <4>1. q.name \in ActiveOf(p)'
        BY <2>1, <3>3 DEF ActiveOf
      <4>2. p = q.who /\ q.first
        BY <2>1, <2>2, <3>3, <4>1 DEF ActiveOf
      <4> QED BY <2>1, <4>1, <4>2 DEF PrimaryOf
    <3> QED BY <3>2, <3>3
  <2> QED BY <2>3, <2>4
<1>6. ASSUME NEW s \in Sessions, Deactivate(s) PROVE Goal
  <2> DEFINE q == req[s]
  <2>1. /\ q.name \in Names /\ ~rows'[q.name].active
        /\ \A m \in Names \ {q.name} :
             /\ rows'[m].owner = rows[m].owner /\ rows'[m].active = rows[m].active
             /\ rows[m].primary => rows'[m].primary
    BY <1>6, DeactivateFrame
  <2>2. q.step = "deactivate" /\ q.from = rows[q.name].owner
    BY <1>1, <1>6 DEF UpToDate, Deactivate, At
  <2>3. q.name \notin ActiveOf(p)'
    BY <2>1 DEF ActiveOf
  <2>4. CASE p = q.from
    <3>1. /\ Deactivated(s) \in [Names -> Row]
          /\ \A m \in Names \ {q.name} : Deactivated(s)[m] = rows[m]
      BY <1>2, <2>1 DEF Deactivated, Row
    <3>2. rows' \in WithHeir(s, Deactivated(s))
      BY <1>6 DEF Deactivate
    <3> QED BY <1>1, <2>2, <2>3, <2>4, <3>1, <3>2, SourceKeepsPrimary
  <2>5. CASE p # q.from
    <3>1. \A m \in ActiveOf(p) : /\ rows'[m].owner = p /\ rows'[m].active
                                 /\ rows[m].primary => rows'[m].primary
      BY <2>1, <2>2, <2>5 DEF ActiveOf
    <3>2. ActiveOf(p) # {}
      BY <2>1, <2>3 DEF ActiveOf
    <3> QED BY <1>1, <3>1, <3>2, PrimaryKept
  <2> QED BY <2>4, <2>5
<1>7. ASSUME NEW s \in Sessions, SetFlag(s) PROVE Goal
  <2>1. /\ \A m \in Names : rows'[m].owner = rows[m].owner /\ rows'[m].active = rows[m].active
        /\ rows' = Flagged(s) /\ req[s].name \in Names /\ req[s].step = "setFlag"
    BY <1>7, FlagFrame, SetFlagFrame DEF SetFlag, At
  <2>2. ActiveOf(p)' = ActiveOf(p)
    BY <2>1 DEF ActiveOf
  <2>3. CASE req[s].op = "setPrimary" /\ p = req[s].who
    <3>1. req[s].name \in ActiveOf(p)
      BY <1>1, <2>1, <2>3 DEF UpToDate
    <3>2. rows'[req[s].name].primary
      BY <1>2, <2>1, <2>3 DEF Flagged, Row
    <3> QED BY <2>2, <3>1, <3>2 DEF PrimaryOf
  <2>4. CASE ~(req[s].op = "setPrimary" /\ p = req[s].who)
    <3>1. \A m \in ActiveOf(p) : rows[m].primary => rows'[m].primary
      BY <1>2, <2>1, <2>4 DEF Flagged, ActiveOf, Row
    <3> QED BY <1>1, <2>1, <2>2, <3>1, PrimaryKept DEF ActiveOf
  <2> QED BY <2>3, <2>4
<1>8. CASE BackfillPrimary \/ BackfillNIP05
  <2>1. \A m \in Names : /\ rows'[m].owner = rows[m].owner
                         /\ rows'[m].active = rows[m].active
                         /\ rows[m].primary => rows'[m].primary
    BY <1>8, BackfillFrame
  <2>2. ActiveOf(p) # {}
    BY <2>1 DEF ActiveOf
  <2> QED BY <1>1, <2>1, <2>2, PrimaryKept DEF ActiveOf
<1> QED BY <1>3, <1>4, <1>5, <1>6, <1>7, <1>8, Writers

LEMMA CalmInit == Init => CalmInv /\ RemovalsApart
<1> SUFFICES ASSUME Init PROVE CalmInv /\ RemovalsApart
  OBVIOUS
<1>1. HasPrimary /\ RemovalsApart
  BY DEF Init, HasPrimary, RemovalsApart, Removing, ActiveOf, Blank, Idle
<1>2. \A s \in Sessions : UpToDate(req[s])
  BY DEF Init, UpToDate, Idle
<1> QED BY <1>1, <1>2, AskedInit DEF CalmInv

LEMMA CalmStep ==
  TInv /\ CalmInv /\ RemovalsApart /\ [Next /\ RemovalsApart' /\ NoSelfTransfer]_vars
    => CalmInv' /\ RemovalsApart'
<1> SUFFICES ASSUME TInv, CalmInv, RemovalsApart,
                    [Next /\ RemovalsApart' /\ NoSelfTransfer]_vars
             PROVE  CalmInv' /\ RemovalsApart'
  OBVIOUS
<1>1. CASE Next /\ RemovalsApart' /\ NoSelfTransfer
  <2>1. HasPrimary'
    BY <1>1, PrimaryStep
  <2>2. \A s \in Sessions : Asked(req[s])' /\ UpToDate(req[s])'
    BY <1>1, AskedStep, UpToDateStep
  <2> QED BY <1>1, <2>1, <2>2 DEF CalmInv
<1>2. CASE UNCHANGED vars
  <2>1. \A s \in Sessions : Asked(req[s])' /\ UpToDate(req[s])'
    BY <1>2 DEF CalmInv, Asked, UpToDate, ActiveOf, vars
  <2> QED BY <1>2, <2>1 DEF CalmInv, HasPrimary, PrimaryOf, ActiveOf, RemovalsApart, Removing, vars
<1> QED BY <1>1, <1>2

LEMMA CalmIsNext ==
  [Next /\ RemovalsApart' /\ NoSelfTransfer]_vars => [Next]_vars
  OBVIOUS

\* If no transfer or revocation overlaps another, or a request that is about to
\* insert or to set a flag, and no address is transferred to its own owner, no
\* pubkey is left with addresses and none primary: each transfer and revocation
\* promotes one the pubkey keeps, whatever claims, ensures, grants and flag
\* changes overlap one another.
THEOREM PrimaryWhenCalm == CalmSpec => []HasPrimary
<1>1. CalmInv => HasPrimary
  BY DEF CalmInv
<1> QED BY <1>1, TypeInit, TypeStep, CalmInit, CalmStep, CalmIsNext, PTL DEF CalmSpec
=============================================================================
