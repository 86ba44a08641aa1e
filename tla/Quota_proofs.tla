----------------------------- MODULE Quota_proofs -----------------------------
(***************************************************************************)
(* Theorems about Quota, for any pubkeys, tenants, services, limits and     *)
(* numbers of reports under way.                                            *)
(***************************************************************************)
EXTENDS Quota, SumTheorems, TLAPS

\* What a report knows: whom it is for, how much, and as its queries go on which
\* account judges it and by which limit.
Sound(r) ==
  /\ r.at # "idle" => r.pubkey \in Pubkeys /\ r.service \in Services
  /\ r.at \in Queries => r.delta \in Nat
  /\ r.at = "tenantLimit" => r.account \in Tenants
  /\ r.at \in {"name", "override"} => r.account \in Pubkeys
  /\ r.at \in {"sum", "judge"} => r.account \in Accounts /\ r.limit \in Nat

Working == \A s \in Slots : Sound(req[s])

IInv == TypeOK /\ Working

LEMMA Finite == IsFiniteSet(Pubkeys) /\ IsFiniteSet(Services) /\ IsFiniteSet(Slots)
BY QuotaConstants

LEMMA BooksAreNats ==
  ASSUME IInv, NEW p \in Pubkeys, NEW v \in Services
  PROVE  usage[p][v] \in Nat /\ stored[p][v] \in Nat
BY DEF IInv, TypeOK

LEMMA NewBooksAreNats ==
  ASSUME IInv', NEW p \in Pubkeys, NEW v \in Services
  PROVE  usage'[p][v] \in Nat /\ stored'[p][v] \in Nat
BY DEF IInv, TypeOK

\* The numbers of an account are numbers.
Numbers ==
  \A x \in Accounts :
    /\ GrantsOf(x) \in Int /\ UsedBy(x) \in Int
    /\ ~Unlimited(x) => BaseOf(x) \in Nat \ {0}

LEMMA CountedArePubkeys ==
  ASSUME IInv, NEW x \in Accounts
  PROVE  Counted(x) \subseteq Pubkeys /\ IsFiniteSet(Counted(x))
<1>1. Counted(x) \subseteq Pubkeys
  BY DEF Counted, Accounts, IInv, TypeOK
<1> QED BY <1>1, Finite, FS_Subset

LEMMA NumbersHold == IInv => Numbers
<1> SUFFICES ASSUME IInv, NEW x \in Accounts
             PROVE  /\ GrantsOf(x) \in Int /\ UsedBy(x) \in Int
                    /\ ~Unlimited(x) => BaseOf(x) \in Nat \ {0}
  BY DEF Numbers
<1> DEFINE C == Counted(x)
           u == [pv \in Pubkeys \X Services |-> usage[pv[1]][pv[2]]]
<1>1. C \subseteq Pubkeys /\ IsFiniteSet(C)
  BY CountedArePubkeys
<1>2. IsFiniteSet(C \X Services)
  BY <1>1, Finite, FS_Product
<1>3. \A p \in C : grant[p] \in Int
  BY <1>1, QuotaConstants DEF IInv, TypeOK
<1>4. \A pv \in C \X Services : u[pv] \in Int
  BY <1>1, BooksAreNats
<1>5. GrantsOf(x) = SumFunctionOnSet(grant, C) /\ UsedBy(x) = SumFunctionOnSet(u, C \X Services)
  BY DEF GrantsOf, UsedBy
<1>6. ~Unlimited(x) => BaseOf(x) \in Nat \ {0}
  <2>1. x \in Tenants => pooled[x] \in Limits \cup {NoLimit}
    BY DEF IInv, TypeOK
  <2>2. x \notin Tenants => override[x] \in Limits \cup {NoLimit}
    BY DEF Accounts, IInv, TypeOK
  <2> QED BY <2>1, <2>2, QuotaConstants DEF Unlimited, BaseOf, OwnLimit
<1> HIDE DEF C, u
<1>7. SumFunctionOnSet(grant, C) \in Int
  BY <1>1, <1>3, SumType
<1>8. SumFunctionOnSet(u, C \X Services) \in Int
  BY <1>2, <1>4, SumType
<1> QED BY <1>5, <1>6, <1>7, <1>8

\* What a call sees of the grants of an account is what there is, unless one has
\* expired since it began.
LEMMA SeenIsInt ==
  ASSUME IInv, NEW x \in Accounts, NEW r \in Report
  PROVE  /\ GrantsSeen(r, x) \in Int
         /\ ~Generous(r, x) => GrantsSeen(r, x) = GrantsOf(x)
<1> DEFINE C == Counted(x)
           g == [p \in Pubkeys |-> grant[p] + r.lapsed[p]]
<1>1. C \subseteq Pubkeys /\ IsFiniteSet(C)
  BY CountedArePubkeys
<1>2. \A p \in C : grant[p] \in Nat /\ r.lapsed[p] \in Nat
  <2>1. r.lapsed \in [Pubkeys -> Nat]
    BY DEF Report
  <2>2. \A p \in Pubkeys : grant[p] \in {0, GrantSize}
    BY DEF IInv, TypeOK
  <2> QED BY <1>1, <2>1, <2>2, QuotaConstants
<1>3. \A p \in C : g[p] \in Int
  BY <1>1, <1>2
<1>4. ~Generous(r, x) => \A p \in C : g[p] = grant[p]
  BY <1>1, <1>2 DEF Generous
<1>5. GrantsSeen(r, x) = SumFunctionOnSet(g, C) /\ GrantsOf(x) = SumFunctionOnSet(grant, C)
  BY DEF GrantsSeen, GrantsOf
<1> HIDE DEF C, g
<1>6. SumFunctionOnSet(g, C) \in Int
  BY <1>1, <1>3, SumType
<1>7. ~Generous(r, x) => SumFunctionOnSet(g, C) = SumFunctionOnSet(grant, C)
  BY <1>1, <1>4, SumSame
<1> QED BY <1>5, <1>6, <1>7

LEMMA OwnLimitIsNat ==
  ASSUME IInv, NEW p \in Pubkeys, NEW isNamed \in BOOLEAN
  PROVE  OwnLimit(p, isNamed) \in Nat
<1>1. override[p] \in Limits \cup {NoLimit}
  BY DEF IInv, TypeOK
<1> QED BY <1>1, QuotaConstants DEF OwnLimit

\* What every upload and release keeps of the type.
Frame ==
  /\ named' \subseteq Pubkeys
  /\ override' \in [Pubkeys -> Limits \cup {NoLimit}]
  /\ grant' \in [Pubkeys -> {0, GrantSize}]
  /\ created' \subseteq Tenants
  /\ members' \in [Tenants -> SUBSET Pubkeys]
  /\ pooled' \in [Tenants -> (Limits \ {0}) \cup {NoLimit}]
  /\ pooling' \in BOOLEAN

LEMMA FrameKept ==
  ASSUME TypeOK, UNCHANGED <<identity, tenancy, pooling>>
  PROVE  Frame
BY DEF TypeOK, identity, tenancy, Frame

\* The books stay natural numbers and pubkeys', whatever a step adds.
LEMMA BookKept ==
  ASSUME NEW b \in [Pubkeys -> [Services -> Nat]], NEW p \in Pubkeys, NEW v \in Services,
         NEW n \in Nat
  PROVE  [b EXCEPT ![p][v] = n] \in [Pubkeys -> [Services -> Nat]]
OBVIOUS

\* A slot's new record is all that changes of req.
LEMMA SlotKept ==
  ASSUME IInv, NEW s \in Slots, NEW r \in Report, req' = [req EXCEPT ![s] = r], Sound(r)
  PROVE  req' \in [Slots -> Report] /\ Working'
<1>1. req' \in [Slots -> Report] /\ \A q \in Slots : req'[q] = IF q = s THEN r ELSE req[q]
  BY DEF IInv, TypeOK
<1> QED BY <1>1 DEF IInv, Working

LEMMA NothingIsType == Nothing \in [Pubkeys -> Nat]
BY DEF Nothing

LEMMA IdleIsReport == Idle \in Report /\ Idle.at = "idle" /\ Sound(Idle)
BY NothingIsType DEF Idle, Report, Sound, Queries

\* The records that begin a report.
LEMMA UploadBegins ==
  ASSUME NEW s \in Slots, NEW p \in Pubkeys, NEW v \in Services, NEW n \in Sizes,
         BeginUpload(s, p, v, n)
  PROVE  \E r \in Report :
           /\ Sound(r) /\ r.at \in {"tenant", "name"} /\ (r.at = "tenant" => r.account = None)
           /\ req' = [req EXCEPT ![s] = r]
<1>1. n \in Nat /\ n \in Int
  BY QuotaConstants
<1> DEFINE at == IF pooling THEN "tenant" ELSE "name"
           account == IF pooling THEN None ELSE p
           r == [Idle EXCEPT !.at = at, !.pubkey = p, !.service = v, !.delta = n,
                             !.account = account]
<1>2. req' = [req EXCEPT ![s] = r]
  BY DEF BeginUpload
<1>3. /\ at \in {"tenant", "name"} /\ account \in Accounts \cup {None}
      /\ (at = "tenant" => account = None) /\ (at = "name" => account = p)
  BY DEF Accounts
<1> HIDE DEF at, account
<1>4. r \in Report
  BY <1>1, <1>3, IdleIsReport DEF Report, Queries
<1>5. r.at = at /\ r.pubkey = p /\ r.service = v /\ r.delta = n /\ r.account = account
  BY IdleIsReport DEF Report
<1> HIDE DEF r
<1>6. Sound(r)
  BY <1>1, <1>3, <1>5 DEF Sound, Queries
<1> QED BY <1>2, <1>3, <1>4, <1>5, <1>6

LEMMA ReleaseBegins ==
  ASSUME NEW s \in Slots, NEW p \in Pubkeys, NEW v \in Services, NEW n \in Sizes,
         BeginRelease(s, p, v, n)
  PROVE  \E r \in Report :
           /\ Sound(r) /\ r.at = "record" /\ r.account = None
           /\ r.pubkey = p /\ r.service = v /\ r.delta = -n
           /\ req' = [req EXCEPT ![s] = r]
<1>1. n \in Nat /\ -n \in Int
  BY QuotaConstants
<1> DEFINE r == [Idle EXCEPT !.at = "record", !.pubkey = p, !.service = v, !.delta = -n]
<1>2. req' = [req EXCEPT ![s] = r]
  BY DEF BeginRelease
<1>3. r \in Report
  BY <1>1, IdleIsReport DEF Report, Queries
<1>4. r.at = "record" /\ r.account = None /\ r.pubkey = p /\ r.service = v /\ r.delta = -n
  <2>1. Idle.account = None
    BY DEF Idle
  <2> QED BY <2>1, IdleIsReport DEF Report
<1> HIDE DEF r
<1>5. Sound(r)
  BY <1>4 DEF Sound, Queries
<1> QED BY <1>2, <1>3, <1>4, <1>5

LEMMA BeginKeeps ==
  ASSUME IInv, NEW s \in Slots, NEW p \in Pubkeys, NEW v \in Services, NEW n \in Sizes,
         BeginUpload(s, p, v, n) \/ BeginRelease(s, p, v, n)
  PROVE  IInv'
<1>1. n \in Nat
  BY QuotaConstants
<1>2. reports' \in 0..MaxReports
  BY QuotaConstants DEF BeginUpload, BeginRelease, Reported, IInv, TypeOK
<1>3. Frame
  BY FrameKept DEF BeginUpload, BeginRelease, IInv
<1>4. ASSUME BeginUpload(s, p, v, n)
      PROVE  IInv'
  <2>3. req' \in [Slots -> Report] /\ Working'
    BY <1>4, UploadBegins, SlotKept
  <2> QED BY <1>2, <1>3, <1>4, <2>3 DEF BeginUpload, IInv, TypeOK, Frame
<1>5. ASSUME BeginRelease(s, p, v, n)
      PROVE  IInv'
  <2>3. req' \in [Slots -> Report] /\ Working'
    BY <1>5, ReleaseBegins, SlotKept
  <2>4. stored[p][v] - n \in Nat
    BY <1>1, <1>5 DEF BeginRelease, IInv, TypeOK
  <2>5. stored' = [stored EXCEPT ![p][v] = stored[p][v] - n]
    BY <1>5 DEF BeginRelease
  <2>6. stored' \in [Pubkeys -> [Services -> Nat]]
    BY <2>4, <2>5, BookKept DEF IInv, TypeOK
  <2> QED BY <1>2, <1>3, <1>5, <2>3, <2>6 DEF BeginRelease, IInv, TypeOK, Frame
<1> QED BY <1>4, <1>5

\* A query that leaves a sound report leaves the books alone.
LEMMA ReadsKeep ==
  ASSUME IInv, NEW s \in Slots, NEW r \in Report, Sound(r), Reads(s, r),
         Asking, UNCHANGED stored, excused' \subseteq Accounts
  PROVE  IInv'
<1>1. req' \in [Slots -> Report] /\ Working'
  BY SlotKept DEF Reads
<1> QED BY <1>1, FrameKept DEF Asking, IInv, TypeOK, Frame

LEMMA ExcusesAreAccounts ==
  ASSUME IInv, NEW a, a \subseteq Accounts, Excuse(a)
  PROVE  excused' \subseteq Accounts
BY DEF Excuse, IInv, TypeOK

\* One query of an upload: where it was, what it leaves, and that it leaves a sound
\* report.
Query(s, r) ==
  /\ req[s].at \in Queries \ {"judge"}
  /\ Asking /\ UNCHANGED stored /\ excused' \subseteq Accounts
  /\ Reads(s, r)
  /\ r \in Report /\ Sound(r) /\ r.at \in Queries

LEMMA Upload ==
  ASSUME IInv, NEW s \in Slots, req[s].at \in Queries
  PROVE  /\ req[s] \in Report /\ Sound(req[s]) /\ req[s].at # "idle"
         /\ req[s].pubkey \in Pubkeys /\ req[s].service \in Services /\ req[s].delta \in Nat
BY DEF IInv, Working, Sound, TypeOK, Queries

LEMMA ReadTenantIs ==
  ASSUME IInv, NEW s \in Slots, ReadTenant(s)
  PROVE  \E r : Query(s, r) /\ r.at \in {"name", "tenantLimit"}
<1>1. req[s].at \in Queries \ {"judge"}
  BY DEF ReadTenant, At, Queries
<1>2. CASE Reads(s, [req[s] EXCEPT !.at = "name", !.account = req[s].pubkey])
  <2> DEFINE r == [req[s] EXCEPT !.at = "name", !.account = req[s].pubkey]
  <2>1. r \in Report /\ Sound(r) /\ r.at = "name"
    BY <1>1, Upload DEF Report, Sound, Queries, Accounts
  <2>2. Query(s, r)
    BY <1>1, <1>2, <2>1 DEF ReadTenant, Unjudged, Query, Queries, IInv, TypeOK
  <2> QED BY <2>1, <2>2
<1>3. ASSUME NEW t \in Tenants,
             Reads(s, [req[s] EXCEPT !.at = "tenantLimit", !.account = t])
      PROVE  \E r : Query(s, r) /\ r.at \in {"name", "tenantLimit"}
  <2> DEFINE r == [req[s] EXCEPT !.at = "tenantLimit", !.account = t]
  <2>1. r \in Report /\ Sound(r) /\ r.at = "tenantLimit"
    BY <1>1, Upload DEF Report, Sound, Queries, Accounts
  <2>2. Query(s, r)
    BY <1>1, <1>3, <2>1 DEF ReadTenant, Unjudged, Query, Queries, IInv, TypeOK
  <2> QED BY <2>1, <2>2
<1> QED BY <1>2, <1>3 DEF ReadTenant

LEMMA ReadTenantLimitIs ==
  ASSUME IInv, NEW s \in Slots, ReadTenantLimit(s)
  PROVE  \E r : /\ Query(s, r) /\ r.at \in {"name", "sum"}
                /\ r.at = "sum" => r.limit = BaseOf(r.account)
<1>1. req[s].at \in Queries \ {"judge"} /\ req[s].at = "tenantLimit"
  BY DEF ReadTenantLimit, At, Queries
<1>2. req[s].account \in Tenants
  BY <1>1, Upload DEF Sound
<1>3. CASE pooled[req[s].account] = NoLimit
  <2> DEFINE r == [req[s] EXCEPT !.at = "name", !.account = req[s].pubkey]
  <2>1. r \in Report /\ Sound(r) /\ r.at = "name"
    BY <1>1, Upload DEF Report, Sound, Queries, Accounts
  <2>2. Query(s, r)
    BY <1>1, <1>3, <2>1 DEF ReadTenantLimit, Unjudged, Query, Queries, IInv, TypeOK
  <2> QED BY <2>1, <2>2
<1>4. CASE pooled[req[s].account] # NoLimit
  <2> DEFINE r == [req[s] EXCEPT !.at = "sum", !.limit = pooled[req[s].account]]
  <2>1. pooled[req[s].account] \in Nat
    BY <1>2, <1>4, QuotaConstants DEF IInv, TypeOK
  <2>2. /\ r \in Report /\ Sound(r) /\ r.at = "sum"
        /\ r.limit = pooled[req[s].account] /\ r.account = req[s].account
    BY <1>1, <1>2, <2>1, Upload DEF Report, Sound, Queries, Accounts
  <2>3. Query(s, r)
    BY <1>1, <1>4, <2>2 DEF ReadTenantLimit, Unjudged, Query, Queries, IInv, TypeOK
  <2> QED BY <1>2, <2>2, <2>3 DEF BaseOf
<1> QED BY <1>3, <1>4

LEMMA ReadNameIs ==
  ASSUME IInv, NEW s \in Slots, ReadName(s)
  PROVE  \E r : /\ Query(s, r) /\ r.at = "override"
                /\ r.named <=> r.account \in named
<1>1. req[s].at \in Queries \ {"judge"} /\ req[s].at = "name"
  BY DEF ReadName, At, Queries
<1>2. req[s].account \in Pubkeys
  BY <1>1, Upload DEF Sound
<1> DEFINE b == (req[s].account \in named)
           r == [req[s] EXCEPT !.at = "override", !.named = b]
<1>3. b \in BOOLEAN
  OBVIOUS
<1>4. Reads(s, r)
  BY DEF ReadName
<1>5. b <=> req[s].account \in named
  OBVIOUS
<1> HIDE DEF b
<1>6. /\ r \in Report /\ Sound(r) /\ r.at = "override"
      /\ r.named = b /\ r.account = req[s].account
  BY <1>1, <1>2, <1>3, Upload DEF Report, Sound, Queries, Accounts
<1>7. Query(s, r)
  BY <1>1, <1>4, <1>6 DEF ReadName, Unjudged, Query, Queries, IInv, TypeOK
<1> QED BY <1>5, <1>6, <1>7

LEMMA ReadOverrideIs ==
  ASSUME IInv, NEW s \in Slots, ReadOverride(s)
  PROVE  \E r : /\ Query(s, r) /\ r.at = "sum" /\ r.account = req[s].account
                /\ r.limit = OwnLimit(r.account, req[s].named)
                /\ req[s].at = "override" /\ r.account \in Pubkeys
<1>1. req[s].at \in Queries \ {"judge"} /\ req[s].at = "override"
  BY DEF ReadOverride, At, Queries
<1>2. req[s].account \in Pubkeys /\ req[s].named \in BOOLEAN
  BY <1>1, Upload DEF Sound, Report
<1> DEFINE n == OwnLimit(req[s].account, req[s].named)
           r == [req[s] EXCEPT !.at = "sum", !.named = FALSE, !.limit = n]
<1>3. n \in Nat
  BY <1>2, OwnLimitIsNat
<1>4. Reads(s, r)
  BY DEF ReadOverride
<1> HIDE DEF n
<1>5. /\ r \in Report /\ Sound(r) /\ r.at = "sum"
      /\ r.limit = n /\ r.account = req[s].account
  BY <1>1, <1>2, <1>3, Upload DEF Report, Sound, Queries, Accounts
<1>6. Query(s, r)
  BY <1>1, <1>4, <1>5 DEF ReadOverride, Unjudged, Query, Queries, IInv, TypeOK
<1> QED BY <1>1, <1>2, <1>5, <1>6 DEF n

LEMMA ReadSumIs ==
  ASSUME IInv, NEW s \in Slots, ReadSum(s)
  PROVE  \E r : /\ Query(s, r) /\ req[s].at = "sum" /\ r.at = "judge"
                /\ req[s].account \in Accounts /\ req[s] \in Report
                /\ r.account = req[s].account /\ r.limit = req[s].limit
                /\ r.sum = IF r.account \in Tenants THEN UsedBy(r.account)
                                                    ELSE GrantsSeen(req[s], r.account)
<1>1. req[s].at \in Queries \ {"judge"} /\ req[s].at = "sum"
  BY DEF ReadSum, At, Queries
<1>2. req[s].account \in Accounts /\ req[s].limit \in Nat /\ req[s] \in Report
  BY <1>1, Upload DEF Sound
<1> DEFINE n == IF req[s].account \in Tenants THEN UsedBy(req[s].account)
                                              ELSE GrantsSeen(req[s], req[s].account)
           r == [req[s] EXCEPT !.at = "judge", !.sum = n]
<1>3. n \in Int
  BY <1>2, NumbersHold, SeenIsInt DEF Numbers
<1>4. Reads(s, r)
  BY DEF ReadSum
<1>5. n = IF req[s].account \in Tenants THEN UsedBy(req[s].account)
                                        ELSE GrantsSeen(req[s], req[s].account)
  OBVIOUS
<1> HIDE DEF n
<1>6. /\ r \in Report /\ Sound(r) /\ r.at = "judge"
      /\ r.sum = n /\ r.account = req[s].account /\ r.limit = req[s].limit
  BY <1>1, <1>2, <1>3, Upload DEF Report, Sound, Queries, Accounts
<1>7. excused' \subseteq Accounts
  <2>1. {y \in {req[s].account} \ Tenants : Generous(req[s], y)} \subseteq Accounts
    BY <1>2
  <2> QED BY <2>1, ExcusesAreAccounts DEF ReadSum
<1>8. Query(s, r)
  BY <1>1, <1>4, <1>6, <1>7 DEF ReadSum, Query, Queries
<1> QED BY <1>1, <1>2, <1>5, <1>6, <1>8

\* The queries before the answer.
Asks(s) == ReadTenant(s) \/ ReadTenantLimit(s) \/ ReadName(s) \/ ReadOverride(s) \/ ReadSum(s)

LEMMA AsksIsQuery ==
  ASSUME IInv, NEW s \in Slots, Asks(s)
  PROVE  \E r : Query(s, r)
BY ReadTenantIs, ReadTenantLimitIs, ReadNameIs, ReadOverrideIs, ReadSumIs DEF Asks

LEMMA AsksKeeps == ASSUME IInv, NEW s \in Slots, Asks(s) PROVE IInv'
BY AsksIsQuery, ReadsKeep DEF Query

\* What the answer leaves: an upload to be reported, or nothing.
LEMMA Allowed ==
  ASSUME IInv, NEW s \in Slots, Judge(s), Fits(req[s])
  PROVE  \E r \in Report :
           /\ Sound(r) /\ r.at = "record" /\ r.account = req[s].account
           /\ r.pubkey = req[s].pubkey /\ r.service = req[s].service /\ r.delta = req[s].delta
           /\ req' = [req EXCEPT ![s] = r]
<1>1. req[s].at = "judge" /\ req[s].at \in Queries
  BY DEF Judge, At, Queries
<1>4. req[s] \in Report /\ req[s].pubkey \in Pubkeys /\ req[s].service \in Services
  BY <1>1, Upload
<1> DEFINE r == [req[s] EXCEPT !.at = "record", !.limit = NoLimit, !.sum = 0,
                           !.lapsed = Nothing]
<1>2. /\ r \in Report /\ Sound(r) /\ r.at = "record" /\ r.account = req[s].account
      /\ r.pubkey = req[s].pubkey /\ r.service = req[s].service /\ r.delta = req[s].delta
  <2>1. /\ r.at = "record" /\ r.account = req[s].account
        /\ r.pubkey = req[s].pubkey /\ r.service = req[s].service /\ r.delta = req[s].delta
    BY <1>4 DEF Report
  <2>2. r \in Report
    <3> DEFINE none == NoLimit
               zero == 0
    <3>1. none \in Nat \cup {NoLimit} /\ zero \in Int
      OBVIOUS
    <3>2. r = [req[s] EXCEPT !.at = "record", !.limit = none, !.sum = zero, !.lapsed = Nothing]
      OBVIOUS
    <3> HIDE DEF none, zero, r
    <3> QED BY <1>4, <3>1, <3>2, NothingIsType DEF Report, Queries
  <2> HIDE DEF r
  <2>3. Sound(r)
    BY <1>4, <2>1 DEF Sound, Queries
  <2> QED BY <2>1, <2>2, <2>3
<1>3. req' = [req EXCEPT ![s] = r]
  BY DEF Judge, Reads
<1> QED BY <1>2, <1>3

LEMMA JudgeKeeps == ASSUME IInv, NEW s \in Slots, Judge(s) PROVE IInv'
<1>1. req[s].at = "judge" /\ req[s].at \in Queries /\ Asking
  BY DEF Judge, At, Queries
<1>2. req[s].pubkey \in Pubkeys /\ req[s].service \in Services /\ req[s].delta \in Nat
  BY <1>1, Upload
<1>3. Frame
  BY <1>1, FrameKept DEF Asking, IInv
<1>6. excused' \subseteq Accounts
  <2>1. {y \in {req[s].account} \cap Tenants : Generous(req[s], y)} \subseteq Accounts
    BY DEF Accounts
  <2> QED BY <2>1, ExcusesAreAccounts DEF Judge
<1>4. ASSUME Fits(req[s])
      PROVE  IInv'
  <2>1. req' \in [Slots -> Report] /\ Working'
    BY <1>4, Allowed, SlotKept
  <2>2. stored[req[s].pubkey][req[s].service] + req[s].delta \in Nat
    BY <1>2 DEF IInv, TypeOK
  <2>3. stored' = [stored EXCEPT ![req[s].pubkey][req[s].service] =
                     stored[req[s].pubkey][req[s].service] + req[s].delta]
    BY <1>4 DEF Judge
  <2>4. stored' \in [Pubkeys -> [Services -> Nat]]
    BY <1>2, <2>2, <2>3, BookKept DEF IInv, TypeOK
  <2> QED BY <1>1, <1>3, <1>6, <2>1, <2>4 DEF Asking, IInv, TypeOK, Frame
<1>5. ASSUME ~Fits(req[s])
      PROVE  IInv'
  <2>1. req' = [req EXCEPT ![s] = Idle] /\ UNCHANGED stored
    BY <1>5 DEF Judge, End
  <2>2. req' \in [Slots -> Report] /\ Working'
    BY <2>1, SlotKept, IdleIsReport
  <2> QED BY <1>1, <1>3, <1>6, <2>1, <2>2 DEF Asking, IInv, TypeOK, Frame
<1> QED BY <1>4, <1>5

LEMMA AddKeeps ==
  ASSUME IInv, NEW s \in Slots, At(s, "record"), Add(s)
  PROVE  usage' \in [Pubkeys -> [Services -> Nat]]
<1> DEFINE p == req[s].pubkey
           v == req[s].service
<1>1. p \in Pubkeys /\ v \in Services /\ req[s].delta \in Int
  BY DEF IInv, Working, Sound, At, TypeOK, Report
<1>2. Recorded(usage[p][v], req[s].delta) \in Nat
  BY <1>1 DEF IInv, TypeOK, Recorded
<1>3. usage' = [usage EXCEPT ![p][v] = Recorded(usage[p][v], req[s].delta)]
  BY DEF Add
<1> QED BY <1>1, <1>2, <1>3, BookKept DEF IInv, TypeOK

LEMMA RecordKeeps == ASSUME IInv, NEW s \in Slots, Record(s) PROVE IInv'
<1>1. usage' \in [Pubkeys -> [Services -> Nat]]
  BY AddKeeps DEF Record
<1>2. req' \in [Slots -> Report] /\ Working'
  BY SlotKept, IdleIsReport DEF Record, End
<1>3. excused' \subseteq Accounts
  BY ExcusesAreAccounts DEF Record, Landed, Stale
<1> QED BY <1>1, <1>2, <1>3, FrameKept DEF Record, IInv, TypeOK, Frame

LEMMA RecordUnknownKeeps == ASSUME IInv, NEW s \in Slots, RecordUnknown(s) PROVE IInv'
<1>1. usage' \in [Pubkeys -> [Services -> Nat]]
  BY AddKeeps DEF RecordUnknown
<1>2. excused' \subseteq Accounts
  BY ExcusesAreAccounts DEF RecordUnknown, Landed, Stale
<1>3. faults' \in 0..MaxFaults
  BY QuotaConstants DEF RecordUnknown, IInv, TypeOK
<1>4. misreported' \subseteq Pubkeys \X Services
  BY DEF RecordUnknown, IInv, TypeOK, Working, Sound, At
<1>5. Working'
  BY DEF RecordUnknown, IInv, Working, Sound, At
<1> QED BY <1>1, <1>2, <1>3, <1>4, <1>5, FrameKept DEF RecordUnknown, IInv, TypeOK, Frame

LEMMA DropKeeps == ASSUME IInv, NEW s \in Slots, Drop(s) PROVE IInv'
<1>1. req' \in [Slots -> Report] /\ Working'
  BY SlotKept, IdleIsReport DEF Drop, End
<1>2. faults' \in 0..MaxFaults
  BY QuotaConstants DEF Drop, IInv, TypeOK
<1>3. misreported' \subseteq Pubkeys \X Services
  BY DEF Drop, IInv, TypeOK, Working, Sound, At
<1> QED BY <1>1, <1>2, <1>3, FrameKept DEF Drop, IInv, TypeOK, Frame

\* An edit is over at once and touches no report.
LEMMA EditKeeps ==
  ASSUME IInv, Rest, Frame, edits' \in 0..MaxEdits, excused' \subseteq Accounts
  PROVE  IInv'
BY DEF IInv, TypeOK, Working, Rest, Frame, At

LEMMA EditedKeeps == ASSUME IInv, Edited PROVE excused' \subseteq Accounts
BY ExcusesAreAccounts DEF Edited, Stale

LEMMA EditCounted == ASSUME IInv, Edit PROVE edits' \in 0..MaxEdits
BY QuotaConstants DEF Edit, IInv, TypeOK

LEMMA SetQuotaKeeps ==
  ASSUME IInv, NEW p \in Pubkeys, NEW limit \in Limits \cup {NoLimit}, SetQuota(p, limit)
  PROVE  IInv'
<1>1. Frame
  BY DEF SetQuota, IInv, TypeOK, tenancy, Frame
<1> QED BY <1>1, EditKeeps, EditedKeeps, EditCounted DEF SetQuota

LEMMA PubkeyEditKeeps ==
  ASSUME IInv, NEW p \in Pubkeys, Identify(p) \/ Grant(p)
  PROVE  IInv'
<1>1. CASE Identify(p)
  <2>1. Frame
    BY <1>1 DEF Identify, IInv, TypeOK, tenancy, Frame
  <2> QED BY <1>1, <2>1, EditKeeps, EditedKeeps, EditCounted DEF Identify
<1>2. CASE Grant(p)
  <2>1. Frame
    BY <1>2 DEF Grant, IInv, TypeOK, tenancy, Frame
  <2> QED BY <1>2, <2>1, EditKeeps, EditedKeeps, EditCounted DEF Grant
<1> QED BY <1>1, <1>2

\* What a grant that expires leaves of a report.
Alike(r, q) ==
  /\ q.at = r.at /\ q.pubkey = r.pubkey /\ q.service = r.service /\ q.delta = r.delta
  /\ q.account = r.account /\ q.named = r.named /\ q.limit = r.limit /\ q.sum = r.sum

LEMMA LapseIsAlike ==
  ASSUME IInv, NEW p \in Pubkeys, Expire(p), NEW s \in Slots
  PROVE  req'[s] \in Report /\ Alike(req[s], req'[s]) /\ Sound(req'[s])
<1> DEFINE n == req[s].lapsed[p] + grant[p]
           l == [req[s].lapsed EXCEPT ![p] = n]
           r == [req[s] EXCEPT !.lapsed = l]
<1>1. req[s] \in Report /\ Sound(req[s])
  BY DEF IInv, TypeOK, Working
<1>2. n \in Nat
  <2>1. req[s].lapsed \in [Pubkeys -> Nat]
    BY <1>1 DEF Report
  <2>2. grant[p] \in {0, GrantSize}
    BY DEF IInv, TypeOK
  <2> QED BY <2>1, <2>2, QuotaConstants
<1>3. req'[s] = r \/ req'[s] = req[s]
  BY DEF Expire
<1> HIDE DEF n
<1>4. l \in [Pubkeys -> Nat]
  BY <1>1, <1>2 DEF Report
<1> HIDE DEF l
<1>5. r \in Report /\ Alike(req[s], r)
  BY <1>1, <1>4 DEF Report, Alike
<1>6. Alike(req[s], req[s])
  BY DEF Alike
<1> HIDE DEF r
<1>7. Sound(r)
  BY <1>1, <1>5 DEF Sound, Alike
<1> QED BY <1>1, <1>3, <1>5, <1>6, <1>7

LEMMA ExpireKeeps == ASSUME IInv, NEW p \in Pubkeys, Expire(p) PROVE IInv'
<1>1. req' \in [Slots -> Report] /\ Working'
  <2>1. \A s \in Slots : req'[s] \in Report /\ Sound(req'[s])
    BY LapseIsAlike
  <2>2. req' = [s \in Slots |-> req'[s]]
    BY DEF Expire
  <2> QED BY <2>1, <2>2 DEF Working
<1>2. Frame
  BY DEF Expire, IInv, TypeOK, tenancy, Frame
<1>3. edits' \in 0..MaxEdits /\ excused' \subseteq Accounts
  BY EditedKeeps, EditCounted DEF Expire
<1> QED BY <1>1, <1>2, <1>3 DEF Expire, IInv, TypeOK, Frame

LEMMA CreateKeeps == ASSUME IInv, NEW t \in Tenants, CreateTenant(t) PROVE IInv'
<1>1. Frame
  BY DEF CreateTenant, IInv, TypeOK, identity, Frame
<1>2. excused' \subseteq Accounts
  BY DEF CreateTenant, IInv, TypeOK
<1> QED BY <1>1, <1>2, EditKeeps, EditCounted DEF CreateTenant

LEMMA MemberKeeps ==
  ASSUME IInv, NEW t \in Tenants, NEW p \in Pubkeys, AddMember(t, p) \/ RemoveMember(t, p)
  PROVE  IInv'
<1>1. CASE AddMember(t, p)
  <2>1. Frame
    BY <1>1 DEF AddMember, IInv, TypeOK, identity, Frame
  <2> QED BY <1>1, <2>1, EditKeeps, EditedKeeps, EditCounted DEF AddMember
<1>2. CASE RemoveMember(t, p)
  <2>1. Frame
    BY <1>2 DEF RemoveMember, IInv, TypeOK, identity, Frame
  <2> QED BY <1>2, <2>1, EditKeeps, EditedKeeps, EditCounted DEF RemoveMember
<1> QED BY <1>1, <1>2

LEMMA TenantQuotaKeeps ==
  ASSUME IInv, NEW t \in Tenants, NEW limit \in Limits, SetTenantQuota(t, limit)
  PROVE  IInv'
<1>1. Frame
  BY DEF SetTenantQuota, IInv, TypeOK, identity, Frame
<1> QED BY <1>1, EditKeeps, EditedKeeps, EditCounted DEF SetTenantQuota

LEMMA PodKeeps == ASSUME IInv, PodStarts \/ PoolingBack PROVE IInv'
<1>1. Frame /\ Rest
  BY DEF PodStarts, PoolingBack, IInv, TypeOK, identity, tenancy, Frame
<1>2. edits' \in 0..MaxEdits /\ excused' \subseteq Accounts
  BY EditCounted DEF PodStarts, PoolingBack, IInv, TypeOK
<1> QED BY <1>1, <1>2, EditKeeps

LEMMA InitHolds == Init => IInv
<1> SUFFICES ASSUME Init PROVE IInv
  OBVIOUS
<1>1. usage \in [Pubkeys -> [Services -> Nat]] /\ stored = usage
  <2>1. usage \in [Pubkeys -> [Services -> StartUsage]] /\ stored = usage
    BY DEF Init
  <2>2. StartUsage \subseteq Nat
    BY QuotaConstants
  <2> QED BY <2>1, <2>2
<1>3. TypeOK
  BY <1>1, QuotaConstants, IdleIsReport DEF Init, TypeOK
<1>2. Working
  BY IdleIsReport DEF Init, Working, Sound, At
<1> QED BY <1>2, <1>3 DEF IInv

LEMMA NextKeeps == ASSUME IInv, [Next]_vars PROVE IInv'
<1>1. CASE UNCHANGED vars
  BY <1>1 DEF vars, identity, tenancy, IInv, TypeOK, Working, Sound, At
<1>2. ASSUME NEW s \in Slots, Uploads(s)
      PROVE  IInv'
  BY <1>2, BeginKeeps, AsksKeeps, JudgeKeeps, RecordKeeps, RecordUnknownKeeps, DropKeeps
     DEF Uploads, Asks
<1>3. ASSUME NEW p \in Pubkeys, NEW limit \in Limits, SetQuota(p, limit)
      PROVE  IInv'
  BY <1>3, SetQuotaKeeps
<1>4. ASSUME NEW p \in Pubkeys, ResetQuota(p) \/ Identify(p) \/ Grant(p) \/ Expire(p)
      PROVE  IInv'
  BY <1>4, SetQuotaKeeps, PubkeyEditKeeps, ExpireKeeps DEF ResetQuota
<1>5. ASSUME NEW t \in Tenants, CreateTenant(t)
      PROVE  IInv'
  BY <1>5, CreateKeeps
<1>6. ASSUME NEW t \in Tenants, NEW p \in Pubkeys, AddMember(t, p) \/ RemoveMember(t, p)
      PROVE  IInv'
  BY <1>6, MemberKeeps
<1>7. ASSUME NEW t \in Tenants, NEW limit \in Limits, SetTenantQuota(t, limit)
      PROVE  IInv'
  BY <1>7, TenantQuotaKeeps
<1> QED BY <1>1, <1>2, <1>3, <1>4, <1>5, <1>6, <1>7, PodKeeps DEF Next, Edits

\* Every reachable state of the quotas is well typed; in particular no report,
\* whatever the order reports arrive in, drives a component below zero
\* (quota_usage.go:45-49).
THEOREM QuotaTypeCorrect == Spec => []TypeOK
<1>1. IInv /\ [Next]_vars => IInv'
  BY NextKeeps
<1>2. IInv => TypeOK
  BY DEF IInv
<1> QED BY InitHolds, <1>1, <1>2, PTL DEF Spec
-----------------------------------------------------------------------------
(* Usage covers what is stored.                                             *)

\* What the reports under way for p and v will add.
Pending(p, v) == {s \in Slots : At(s, "record") /\ req[s].pubkey = p /\ req[s].service = v}
Due(p, v) == SumFunctionOnSet([s \in Slots |-> req[s].delta], Pending(p, v))

\* With what is still to be reported, no service stores more than is recorded.
Covers(p, v) == usage[p][v] + Due(p, v) >= stored[p][v]
Covered == \A p \in Pubkeys, v \in Services : <<p, v>> \in misreported \/ Covers(p, v)

\* What one report will add.
Adds(r, p, v) == IF r.at = "record" /\ r.pubkey = p /\ r.service = v THEN r.delta ELSE 0

LEMMA DeltaIsInt ==
  ASSUME IInv, NEW s \in Slots
  PROVE  req[s].delta \in Int
<1>1. req[s] \in Report
  BY DEF IInv, TypeOK
<1> QED BY <1>1 DEF Report

LEMMA DueIsInt == ASSUME IInv, NEW p, NEW v PROVE Due(p, v) \in Int
<1> DEFINE f == [s \in Slots |-> req[s].delta]
<1>1. Pending(p, v) \subseteq Slots
  BY DEF Pending
<1>2. \A s \in Pending(p, v) : f[s] \in Int
  BY <1>1, DeltaIsInt
<1>3. IsFiniteSet(Pending(p, v))
  BY <1>1, Finite, FS_Subset
<1> HIDE DEF f
<1>4. SumFunctionOnSet(f, Pending(p, v)) \in Int
  BY <1>2, <1>3, SumType
<1> QED BY <1>4 DEF f, Due

\* A step of slot s changes what is due by its own report.
LEMMA DueMoves ==
  ASSUME IInv, IInv', NEW s \in Slots, NEW r, req' = [req EXCEPT ![s] = r], NEW p, NEW v
  PROVE  Due(p, v)' = Due(p, v) + Adds(r, p, v) - Adds(req[s], p, v)
<1> DEFINE f == [t \in Slots |-> req[t].delta]
           g == [t \in Slots |-> req'[t].delta]
           A == Pending(p, v)
           B == Pending(p, v)'
<1>1. \A t \in A : f[t] \in Int
  BY DeltaIsInt DEF Pending
<1>2. \A t \in B : g[t] \in Int
  <2>1. \A t \in Slots : req'[t] \in Report
    BY DEF IInv, TypeOK
  <2> QED BY <2>1 DEF Pending, Report
<1>3. req'[s] = r /\ \A t \in Slots \ {s} : req'[t] = req[t]
  BY DEF IInv, TypeOK
<1>4. A \in SUBSET Slots /\ B \in SUBSET Slots
  BY DEF Pending
<1>5. \A t \in Slots \ {s} : (t \in A <=> t \in B) /\ (t \in A => f[t] = g[t])
  BY <1>3 DEF Pending, At
<1>6. Part(f, A, s) = Adds(req[s], p, v) /\ Part(g, B, s) = Adds(r, p, v)
  BY <1>3 DEF Part, Adds, Pending, At
<1>7. Due(p, v) = SumFunctionOnSet(f, A) /\ Due(p, v)' = SumFunctionOnSet(g, B)
  BY DEF Due
<1> HIDE DEF f, g, A, B
<1>8. SumFunctionOnSet(g, B) = SumFunctionOnSet(f, A) + Part(g, B, s) - Part(f, A, s)
  BY <1>1, <1>2, <1>4, <1>5, Finite, SumChanges
<1> QED BY <1>6, <1>7, <1>8

\* A step of slot s keeps a pubkey's bytes at a service covered if it stores no
\* more than it records or leaves to be reported.
LEMMA CoversMoves ==
  ASSUME IInv, IInv', NEW s \in Slots, NEW r, req' = [req EXCEPT ![s] = r],
         NEW p \in Pubkeys, NEW v \in Services, Covers(p, v),
         usage'[p][v] + Adds(r, p, v) + stored[p][v]
           >= usage[p][v] + Adds(req[s], p, v) + stored'[p][v]
  PROVE  Covers(p, v)'
<1>1. Due(p, v)' = Due(p, v) + Adds(r, p, v) - Adds(req[s], p, v)
  BY DueMoves
<1>2. Due(p, v) \in Int /\ usage[p][v] \in Nat /\ stored[p][v] \in Nat
  BY DueIsInt, BooksAreNats
<1>3. usage'[p][v] \in Nat /\ stored'[p][v] \in Nat
  BY NewBooksAreNats
<1>4. usage[p][v] + Due(p, v) >= stored[p][v]
  BY DEF Covers
<1>5. Adds(req[s], p, v) \in Int /\ Adds(r, p, v) \in Int
  <2>1. r = req'[s] /\ req[s] \in Report /\ r \in Report
    BY DEF IInv, TypeOK
  <2> QED BY <2>1 DEF Adds, Report
<1>6. usage'[p][v] + Due(p, v)' >= stored'[p][v]
  BY <1>1, <1>2, <1>3, <1>4, <1>5
<1> QED BY <1>6 DEF Covers

LEMMA AddsIsInt ==
  ASSUME IInv, NEW s \in Slots, NEW p, NEW v
  PROVE  Adds(req[s], p, v) \in Int
BY DeltaIsInt DEF Adds

\* Only a report adds.
LEMMA AddsNothing ==
  ASSUME NEW r, r.at # "record", NEW p, NEW v
  PROVE  Adds(r, p, v) = 0
BY DEF Adds

\* A step that stores and records nothing, and leaves a report to its slot only if
\* it was there.
LEMMA QuietCovered ==
  ASSUME IInv, IInv', Covered, UNCHANGED <<usage, stored, misreported>>,
         NEW s \in Slots, NEW r, req' = [req EXCEPT ![s] = r],
         req[s].at # "record", r.at # "record"
  PROVE  Covered'
<1>1. ASSUME NEW p \in Pubkeys, NEW v \in Services, <<p, v>> \notin misreported'
      PROVE  Covers(p, v)'
  <2>1. Covers(p, v)
    BY <1>1 DEF Covered
  <2>2. Adds(r, p, v) = 0 /\ Adds(req[s], p, v) = 0
    BY AddsNothing
  <2>3. usage'[p][v] + Adds(r, p, v) + stored[p][v]
          >= usage[p][v] + Adds(req[s], p, v) + stored'[p][v]
    BY <2>2, BooksAreNats
  <2> QED BY <2>1, <2>3, CoversMoves
<1> QED BY <1>1 DEF Covered

LEMMA BeginUploadCovered ==
  ASSUME IInv, IInv', Covered, NEW s \in Slots, NEW p \in Pubkeys, NEW v \in Services,
         NEW n \in Sizes, BeginUpload(s, p, v, n)
  PROVE  Covered'
<1>1. PICK r \in Report : r.at \in {"tenant", "name"} /\ req' = [req EXCEPT ![s] = r]
  BY UploadBegins
<1>2. req[s].at = "idle" /\ UNCHANGED <<usage, stored, misreported>>
  BY DEF BeginUpload, At
<1>3. r.at # "record"
  BY <1>1
<1> QED BY <1>1, <1>2, <1>3, QuietCovered

\* What is released is still to be reported.
LEMMA BeginReleaseCovered ==
  ASSUME IInv, IInv', Covered, NEW s \in Slots, NEW p \in Pubkeys, NEW v \in Services,
         NEW n \in Sizes, BeginRelease(s, p, v, n)
  PROVE  Covered'
<1>3. PICK r \in Report :
        /\ r.at = "record" /\ r.pubkey = p /\ r.service = v /\ r.delta = -n
        /\ req' = [req EXCEPT ![s] = r]
  BY ReleaseBegins
<1>1. /\ r.at = "record" /\ r.pubkey = p /\ r.service = v /\ r.delta = -n
      /\ req[s].at = "idle" /\ req' = [req EXCEPT ![s] = r] /\ n \in Nat
      /\ UNCHANGED <<usage, misreported>> /\ stored' = [stored EXCEPT ![p][v] = @ - n]
  BY <1>3, QuotaConstants DEF BeginRelease, At
<1>2. ASSUME NEW q \in Pubkeys, NEW w \in Services, <<q, w>> \notin misreported'
      PROVE  Covers(q, w)'
  <2> DEFINE b == IF q = p /\ w = v THEN -n ELSE 0
  <2>1. Covers(q, w)
    BY <1>1, <1>2 DEF Covered
  <2>2. Adds(r, q, w) = b /\ Adds(req[s], q, w) = 0 /\ b \in Int
    BY <1>1 DEF Adds
  <2>3. usage'[q][w] >= usage[q][w] + 0 /\ stored'[q][w] = stored[q][w] + b
    BY <1>1, BooksAreNats DEF IInv, TypeOK
  <2> HIDE DEF b
  <2>4. usage'[q][w] + Adds(r, q, w) + stored[q][w]
          >= usage[q][w] + Adds(req[s], q, w) + stored'[q][w]
    BY <2>2, <2>3, BooksAreNats, NewBooksAreNats
  <2> QED BY <1>1, <2>1, <2>4, CoversMoves
<1> QED BY <1>2 DEF Covered

LEMMA AsksCovered ==
  ASSUME IInv, IInv', Covered, NEW s \in Slots, Asks(s)
  PROVE  Covered'
<1>1. PICK r : Query(s, r)
  BY AsksIsQuery
<1>2. req[s].at # "record" /\ r.at # "record"
  BY <1>1 DEF Query, Queries
<1> QED BY <1>1, <1>2, QuietCovered DEF Query, Reads, Asking

\* What is stored is still to be reported.
LEMMA JudgeCovered ==
  ASSUME IInv, IInv', Covered, NEW s \in Slots, Judge(s)
  PROVE  Covered'
<1>1. /\ req[s].at = "judge" /\ UNCHANGED <<usage, misreported>>
      /\ req[s].delta \in Nat /\ req[s] \in Report
      /\ req[s].pubkey \in Pubkeys /\ req[s].service \in Services
  <2>1. req[s].at = "judge" /\ req[s].at \in Queries
    BY DEF Judge, At, Queries
  <2> QED BY <2>1, Upload DEF Judge, Asking
<1>2. CASE ~Fits(req[s])
  <2>1. req' = [req EXCEPT ![s] = Idle] /\ UNCHANGED stored /\ Idle.at # "record"
    BY <1>2, IdleIsReport DEF Judge, End
  <2> QED BY <1>1, <2>1, QuietCovered
<1>3. CASE Fits(req[s])
  <2> DEFINE n == req[s].delta
  <2>3. PICK r \in Report :
          /\ r.at = "record" /\ r.pubkey = req[s].pubkey /\ r.service = req[s].service
          /\ r.delta = n /\ req' = [req EXCEPT ![s] = r]
    BY <1>3, Allowed
  <2>1. /\ r.at = "record" /\ r.pubkey = req[s].pubkey /\ r.service = req[s].service
        /\ r.delta = n /\ req' = [req EXCEPT ![s] = r]
        /\ stored' = [stored EXCEPT ![req[s].pubkey][req[s].service] = @ + n]
    BY <1>1, <1>3, <2>3 DEF Judge
  <2>2. ASSUME NEW q \in Pubkeys, NEW w \in Services, <<q, w>> \notin misreported'
        PROVE  Covers(q, w)'
    <3> DEFINE b == IF q = req[s].pubkey /\ w = req[s].service THEN n ELSE 0
    <3>1. Covers(q, w)
      BY <1>1, <2>2 DEF Covered
    <3>2. Adds(r, q, w) = b /\ Adds(req[s], q, w) = 0 /\ b \in Int
      BY <1>1, <2>1 DEF Adds
    <3>3. usage'[q][w] >= usage[q][w] + 0 /\ stored'[q][w] = stored[q][w] + b
      BY <1>1, <2>1, BooksAreNats DEF IInv, TypeOK
    <3> HIDE DEF b
    <3>4. usage'[q][w] + Adds(r, q, w) + stored[q][w]
            >= usage[q][w] + Adds(req[s], q, w) + stored'[q][w]
      BY <3>2, <3>3, BooksAreNats, NewBooksAreNats
    <3> QED BY <2>1, <3>1, <3>4, CoversMoves
  <2> QED BY <2>2 DEF Covered
<1> QED BY <1>2, <1>3

\* A report under way adds at least its delta to the book, and nothing to others.
LEMMA AddMoves ==
  ASSUME IInv, NEW s \in Slots, At(s, "record"), Add(s), NEW p \in Pubkeys, NEW v \in Services
  PROVE  usage'[p][v] >= usage[p][v] + Adds(req[s], p, v)
<1>1. /\ req[s].pubkey \in Pubkeys /\ req[s].service \in Services /\ req[s].delta \in Int
      /\ req[s].at = "record"
  BY DeltaIsInt DEF IInv, Working, Sound, At
<1>2. usage[p][v] \in Nat
  BY BooksAreNats
<1>3. CASE req[s].pubkey = p /\ req[s].service = v
  <2>1. usage'[p][v] = Recorded(usage[p][v], req[s].delta)
    BY <1>1, <1>3 DEF Add, IInv, TypeOK
  <2> QED BY <1>1, <1>2, <1>3, <2>1 DEF Recorded, Adds
<1>4. CASE ~(req[s].pubkey = p /\ req[s].service = v)
  <2>1. usage'[p][v] = usage[p][v]
    BY <1>1, <1>4 DEF Add, IInv, TypeOK
  <2> QED BY <1>2, <1>4, <2>1 DEF Adds
<1> QED BY <1>3, <1>4

\* A recorded report is no longer due.
LEMMA RecordCovered ==
  ASSUME IInv, IInv', Covered, NEW s \in Slots, Record(s)
  PROVE  Covered'
<1>1. /\ At(s, "record") /\ Add(s) /\ req' = [req EXCEPT ![s] = Idle]
      /\ UNCHANGED <<stored, misreported>> /\ Idle.at # "record"
  BY IdleIsReport DEF Record, End
<1>2. ASSUME NEW q \in Pubkeys, NEW w \in Services, <<q, w>> \notin misreported'
      PROVE  Covers(q, w)'
  <2>1. Covers(q, w)
    BY <1>1, <1>2 DEF Covered
  <2>2. Adds(Idle, q, w) = 0 /\ Adds(req[s], q, w) \in Int
    BY <1>1, AddsNothing, AddsIsInt
  <2>3. /\ usage'[q][w] >= usage[q][w] + Adds(req[s], q, w)
        /\ stored'[q][w] = stored[q][w] + 0
    BY <1>1, AddMoves, BooksAreNats
  <2>4. usage'[q][w] + Adds(Idle, q, w) + stored[q][w]
          >= usage[q][w] + Adds(req[s], q, w) + stored'[q][w]
    BY <2>2, <2>3, BooksAreNats, NewBooksAreNats
  <2> QED BY <1>1, <2>1, <2>4, CoversMoves
<1> QED BY <1>2 DEF Covered

\* A report that is recorded and stays due is an upload, or its book is misreported.
LEMMA RecordUnknownCovered ==
  ASSUME IInv, IInv', Covered, NEW s \in Slots, RecordUnknown(s)
  PROVE  Covered'
<1>1. /\ At(s, "record") /\ Add(s) /\ req' = [req EXCEPT ![s] = req[s]]
      /\ UNCHANGED stored /\ misreported \subseteq misreported'
      /\ req[s].delta < 0 => <<req[s].pubkey, req[s].service>> \in misreported'
  BY DEF RecordUnknown, IInv, TypeOK
<1>2. ASSUME NEW q \in Pubkeys, NEW w \in Services, <<q, w>> \notin misreported'
      PROVE  Covers(q, w)'
  <2>1. Covers(q, w)
    BY <1>1, <1>2 DEF Covered
  <2>2. Adds(req[s], q, w) \in Int /\ Adds(req[s], q, w) >= 0
    BY <1>1, <1>2, AddsIsInt, DeltaIsInt DEF Adds
  <2>3. /\ usage'[q][w] >= usage[q][w] + Adds(req[s], q, w)
        /\ stored'[q][w] = stored[q][w] + 0
    BY <1>1, AddMoves, BooksAreNats
  <2>4. usage'[q][w] + Adds(req[s], q, w) + stored[q][w]
          >= usage[q][w] + Adds(req[s], q, w) + stored'[q][w]
    BY <2>2, <2>3, BooksAreNats, NewBooksAreNats
  <2> QED BY <1>1, <2>1, <2>4, CoversMoves
<1> QED BY <1>2 DEF Covered

\* A report that is dropped is a release, or its book is misreported.
LEMMA DropCovered ==
  ASSUME IInv, IInv', Covered, NEW s \in Slots, Drop(s)
  PROVE  Covered'
<1>1. /\ req' = [req EXCEPT ![s] = Idle] /\ Idle.at # "record"
      /\ UNCHANGED <<usage, stored>> /\ misreported \subseteq misreported'
      /\ req[s].at = "record" /\ req[s].delta > 0
           => <<req[s].pubkey, req[s].service>> \in misreported'
  BY IdleIsReport DEF Drop, End, At
<1>2. ASSUME NEW q \in Pubkeys, NEW w \in Services, <<q, w>> \notin misreported'
      PROVE  Covers(q, w)'
  <2>1. Covers(q, w)
    BY <1>1, <1>2 DEF Covered
  <2>2. Adds(Idle, q, w) = 0 /\ Adds(req[s], q, w) \in Int /\ Adds(req[s], q, w) <= 0
    BY <1>1, <1>2, AddsNothing, AddsIsInt, DeltaIsInt DEF Adds
  <2>3. usage'[q][w] >= usage[q][w] + 0 /\ stored'[q][w] = stored[q][w] + 0
    BY <1>1, BooksAreNats
  <2>4. usage'[q][w] + Adds(Idle, q, w) + stored[q][w]
          >= usage[q][w] + Adds(req[s], q, w) + stored'[q][w]
    BY <2>2, <2>3, BooksAreNats, NewBooksAreNats
  <2> QED BY <1>1, <2>1, <2>4, CoversMoves
<1> QED BY <1>2 DEF Covered

\* Edits touch no book, and of a report what is not due.
LEMMA EditCovered ==
  ASSUME Covered, UNCHANGED <<usage, stored, misreported>>,
         \A s \in Slots : Alike(req[s], req'[s])
  PROVE  Covered'
<1>1. ASSUME NEW p, NEW v
      PROVE  Due(p, v)' = Due(p, v)
  <2>1. Pending(p, v)' = Pending(p, v)
    BY DEF Pending, At, Alike
  <2>2. [s \in Slots |-> req[s].delta]' = [s \in Slots |-> req[s].delta]
    BY DEF Alike
  <2> QED BY <2>1, <2>2 DEF Due
<1> QED BY <1>1 DEF Covered, Covers

LEMMA EditsRest ==
  ASSUME IInv, Edits \/ UNCHANGED vars
  PROVE  /\ UNCHANGED <<usage, reports, faults, stored, misreported>>
         /\ \A s \in Slots : Alike(req[s], req'[s])
<1>1. ASSUME UNCHANGED <<usage, req, reports, faults, stored, misreported>>
      PROVE  /\ UNCHANGED <<usage, reports, faults, stored, misreported>>
             /\ \A s \in Slots : Alike(req[s], req'[s])
  BY <1>1 DEF Alike
<1>2. ASSUME NEW p \in Pubkeys, Expire(p)
      PROVE  /\ UNCHANGED <<usage, reports, faults, stored, misreported>>
             /\ \A s \in Slots : Alike(req[s], req'[s])
  BY <1>2, LapseIsAlike DEF Expire
<1> QED BY <1>1, <1>2
        DEF Edits, SetQuota, ResetQuota, Identify, Grant, CreateTenant, AddMember,
            RemoveMember, SetTenantQuota, PodStarts, PoolingBack, Rest, vars

LEMMA CoveredInit == Init => Covered
<1> SUFFICES ASSUME Init, NEW p \in Pubkeys, NEW v \in Services
             PROVE  Covers(p, v)
  BY DEF Covered
<1>1. Pending(p, v) = {}
  BY IdleIsReport DEF Init, Pending, At
<1>2. Due(p, v) = 0
  BY <1>1, SumOfNone DEF Due
<1> QED BY <1>2, InitHolds, BooksAreNats DEF Init, Covers

LEMMA CoveredStep == IInv /\ Covered /\ [Next]_vars => Covered'
<1> SUFFICES ASSUME IInv, Covered, [Next]_vars PROVE Covered'
  OBVIOUS
<1>1. IInv'
  BY NextKeeps
<1>2. ASSUME NEW s \in Slots, Uploads(s)
      PROVE  Covered'
  BY <1>1, <1>2, BeginUploadCovered, BeginReleaseCovered, AsksCovered, JudgeCovered,
     RecordCovered, RecordUnknownCovered, DropCovered DEF Uploads, Asks
<1>3. CASE Edits \/ UNCHANGED vars
  BY <1>3, EditsRest, EditCovered
<1> QED BY <1>2, <1>3 DEF Next

\* However reports are ordered, and with releases reported before the uploads they
\* undo, a pubkey is charged for no less than a service stores for it once none is
\* under way, unless an upload's report was lost or a release's arrived twice
\* (RecordServiceUsage's GREATEST(0, ...), quota_usage.go:45-57).
THEOREM StoredIsCharged == Spec => []UsageCoversStored
<1>1. ASSUME IInv, Covered, NEW p \in Pubkeys, NEW v \in Services
      PROVE  \/ <<p, v>> \in misreported
             \/ \E s \in Slots : At(s, "record") /\ req[s].pubkey = p /\ req[s].service = v
             \/ usage[p][v] >= stored[p][v]
  <2>1. CASE Pending(p, v) = {}
    <3>1. Due(p, v) = 0
      BY <2>1, SumOfNone DEF Due
    <3> QED BY <1>1, <3>1, BooksAreNats DEF Covered, Covers
  <2>2. CASE Pending(p, v) # {}
    BY <2>2 DEF Pending
  <2> QED BY <2>1, <2>2
<1>2. IInv /\ Covered => UsageCoversStored
  BY <1>1 DEF UsageCoversStored
<1>3. IInv /\ [Next]_vars => IInv'
  BY NextKeeps
<1> QED BY <1>2, <1>3, InitHolds, CoveredInit, CoveredStep, PTL DEF Spec
-----------------------------------------------------------------------------
(* Over the limit only if excused.                                          *)

\* What an account that is not excused owes to each report: what is_named, the limit
\* and the first sum were read for it is no better than its own, and an upload it
\* allowed still fits.
Fine(x, r) ==
  r.account = x =>
    /\ r.at = "override" => (r.named <=> x \in named)
    /\ r.at \in {"sum", "judge"} => Unlimited(x) \/ (r.limit # 0 /\ r.limit <= BaseOf(x))
    /\ r.at = "judge" => IF x \in Tenants THEN r.sum >= UsedBy(x) ELSE r.sum <= GrantsOf(x)
    /\ r.at = "record" => r.delta \in Nat /\ (Unlimited(x) \/ Left(x) >= r.delta)

Judged ==
  \A x \in Accounts \ excused : ~Over(x) /\ \A s \in Slots : Fine(x, req[s])

LEMMA NumbersStay == IInv' => Numbers'
BY NumbersHold, PTL

LEMMA LeftIsInt ==
  ASSUME Numbers, NEW x \in Accounts, ~Unlimited(x)
  PROVE  BaseOf(x) \in Nat \ {0} /\ Left(x) \in Int
BY DEF Numbers, Left

LEMMA NewLeftIsInt ==
  ASSUME Numbers', NEW x \in Accounts, ~Unlimited(x)'
  PROVE  BaseOf(x)' \in Nat \ {0} /\ Left(x)' \in Int
BY DEF Numbers, Left

\* What a step that touches no account's numbers must leave of the reports.
SameNumbers == UNCHANGED <<named, override, grant, usage, members, pooled>>

LEMMA QuietJudged ==
  ASSUME SameNumbers,
         \A x \in Accounts \ excused' : ~Over(x) /\ \A s \in Slots : Fine(x, req'[s])
  PROVE  Judged'
<1>1. ASSUME NEW x
      PROVE  BaseOf(x)' = BaseOf(x) /\ GrantsOf(x)' = GrantsOf(x) /\ UsedBy(x)' = UsedBy(x)
  BY DEF SameNumbers, BaseOf, OwnLimit, GrantsOf, UsedBy, Counted
<1>2. ASSUME NEW x
      PROVE  /\ Unlimited(x)' <=> Unlimited(x)
             /\ Left(x)' = Left(x)
  BY <1>1 DEF Unlimited, Left
<1>3. ASSUME NEW x \in Accounts \ excused'
      PROVE  ~Over(x)' /\ \A s \in Slots : Fine(x, req[s])'
  <2>1. ~Over(x)'
    BY <1>2 DEF Over
  <2>2. \A s \in Slots : Fine(x, req[s])'
    <3>1. named' = named
      BY DEF SameNumbers
    <3> QED BY <1>1, <1>2, <3>1 DEF Fine
  <2> QED BY <2>1, <2>2
<1> QED BY <1>3 DEF Judged

\* An account that is not excused was not, and the step did not excuse it; or it is
\* within its limit and judges nothing any more.
LEMMA Unexcused ==
  ASSUME NEW a, Excuse(a), NEW x \in Accounts \ excused'
  PROVE  \/ x \notin excused /\ x \notin a
         \/ ~Over(x)' /\ \A s \in Slots : req'[s].account # x
BY DEF Excuse, Clear

\* A slot's new report is all that the step has to leave fine.
LEMMA SlotJudged ==
  ASSUME IInv, Judged, SameNumbers, NEW s \in Slots, NEW r, req' = [req EXCEPT ![s] = r],
         NEW a, Excuse(a) \/ (a = {} /\ UNCHANGED excused),
         \A x \in Accounts \ (excused \cup a) : Fine(x, r)
  PROVE  Judged'
<1>1. \A q \in Slots : req'[q] = IF q = s THEN r ELSE req[q]
  BY DEF IInv, TypeOK
<1>2. ASSUME NEW x \in Accounts \ excused'
      PROVE  ~Over(x) /\ \A q \in Slots : Fine(x, req'[q])
  <2>1. CASE x \notin excused /\ x \notin a
    BY <1>1, <2>1 DEF Judged
  <2>2. CASE ~Over(x)' /\ \A q \in Slots : req'[q].account # x
    <3>1. ~Over(x)
      BY <2>2 DEF Over, Unlimited, Left, SameNumbers, BaseOf, OwnLimit, GrantsOf, UsedBy, Counted
    <3> QED BY <2>2, <3>1 DEF Fine
  <2> QED BY <2>1, <2>2, Unexcused
<1> QED BY <1>2, QuietJudged

LEMMA QuietSlotJudged ==
  ASSUME IInv, Judged, SameNumbers, UNCHANGED excused,
         NEW s \in Slots, NEW r, req' = [req EXCEPT ![s] = r],
         \A x \in Accounts \ excused : Fine(x, r)
  PROVE  Judged'
BY SlotJudged

LEMMA NobodysIsFine ==
  ASSUME NEW x \in Accounts, NEW r, r.account = None
  PROVE  Fine(x, r)
BY QuotaConstants DEF Fine, Accounts

LEMMA IdleIsFine == ASSUME NEW x \in Accounts PROVE Fine(x, Idle)
BY NobodysIsFine DEF Idle

LEMMA BeginJudged ==
  ASSUME IInv, Judged, NEW s \in Slots, NEW p \in Pubkeys, NEW v \in Services,
         NEW n \in Sizes, BeginUpload(s, p, v, n) \/ BeginRelease(s, p, v, n)
  PROVE  Judged'
<1>1. SameNumbers /\ UNCHANGED excused
  BY DEF BeginUpload, BeginRelease, SameNumbers, identity, tenancy
<1>2. ASSUME BeginUpload(s, p, v, n)
      PROVE  Judged'
  <2>1. PICK r \in Report : /\ r.at \in {"tenant", "name"}
                            /\ req' = [req EXCEPT ![s] = r]
    BY <1>2, UploadBegins
  <2>2. \A x \in Accounts : Fine(x, r)
    BY <2>1 DEF Fine
  <2> QED BY <1>1, <2>1, <2>2, QuietSlotJudged
<1>3. ASSUME BeginRelease(s, p, v, n)
      PROVE  Judged'
  <2>1. PICK r \in Report : r.account = None /\ req' = [req EXCEPT ![s] = r]
    BY <1>3, ReleaseBegins
  <2> QED BY <1>1, <2>1, NobodysIsFine, QuietSlotJudged
<1> QED BY <1>2, <1>3

\* A query leaves what its account has now.
LEMMA QueryJudged ==
  ASSUME IInv, Judged, NEW s \in Slots, NEW r, Query(s, r),
         NEW a, Excuse(a) \/ (a = {} /\ UNCHANGED excused),
         \A x \in Accounts \ (excused \cup a) : Fine(x, r)
  PROVE  Judged'
<1>1. SameNumbers /\ req' = [req EXCEPT ![s] = r]
  BY DEF Query, Asking, Reads, SameNumbers, identity, tenancy
<1> QED BY <1>1, SlotJudged

LEMMA QuietQueryJudged ==
  ASSUME IInv, Judged, NEW s \in Slots, NEW r, Query(s, r), UNCHANGED excused,
         \A x \in Accounts \ excused : Fine(x, r)
  PROVE  Judged'
BY QueryJudged

LEMMA LimitIsFine ==
  ASSUME IInv, NEW x \in Accounts, ~Unlimited(x)
  PROVE  BaseOf(x) # 0 /\ BaseOf(x) <= BaseOf(x)
BY NumbersHold DEF Numbers

LEMMA AsksJudged ==
  ASSUME IInv, Judged, NEW s \in Slots, Asks(s)
  PROVE  Judged'
<1>6. ReadTenant(s) \/ ReadTenantLimit(s) \/ ReadName(s) \/ ReadOverride(s) => UNCHANGED excused
  BY DEF ReadTenant, ReadTenantLimit, ReadName, ReadOverride, Unjudged
<1>1. CASE ReadTenant(s)
  <2>1. PICK r : Query(s, r) /\ r.at \in {"name", "tenantLimit"}
    BY <1>1, ReadTenantIs
  <2>2. \A x \in Accounts : Fine(x, r)
    BY <2>1 DEF Fine
  <2> QED BY <1>1, <1>6, <2>1, <2>2, QuietQueryJudged
<1>2. CASE ReadTenantLimit(s)
  <2>1. PICK r : /\ Query(s, r) /\ r.at \in {"name", "sum"}
                 /\ r.at = "sum" => r.limit = BaseOf(r.account)
    BY <1>2, ReadTenantLimitIs
  <2>2. \A x \in Accounts : Fine(x, r)
    BY <2>1, LimitIsFine DEF Fine
  <2> QED BY <1>2, <1>6, <2>1, <2>2, QuietQueryJudged
<1>3. CASE ReadName(s)
  <2>1. PICK r : /\ Query(s, r) /\ r.at = "override"
                 /\ r.named <=> r.account \in named
    BY <1>3, ReadNameIs
  <2>2. \A x \in Accounts : Fine(x, r)
    BY <2>1 DEF Fine
  <2> QED BY <1>3, <1>6, <2>1, <2>2, QuietQueryJudged
<1>4. CASE ReadOverride(s)
  <2>1. PICK r : /\ Query(s, r) /\ r.at = "sum" /\ r.account = req[s].account
                 /\ r.limit = OwnLimit(r.account, req[s].named)
                 /\ req[s].at = "override" /\ r.account \in Pubkeys
    BY <1>4, ReadOverrideIs
  <2>2. ASSUME NEW x \in Accounts \ excused, r.account = x
        PROVE  r.limit = BaseOf(x)
    <3>1. req[s].named <=> x \in named
      BY <2>1, <2>2 DEF Judged, Fine
    <3>2. x \notin Tenants
      BY <2>1, <2>2, QuotaConstants
    <3> QED BY <2>1, <2>2, <3>1, <3>2 DEF BaseOf, OwnLimit
  <2>3. \A x \in Accounts \ excused : Fine(x, r)
    BY <2>1, <2>2, LimitIsFine DEF Fine
  <2> QED BY <1>4, <1>6, <2>1, <2>3, QuietQueryJudged
<1>5. CASE ReadSum(s)
  <2> DEFINE a == {y \in {req[s].account} \ Tenants : Generous(req[s], y)}
  <2>1. PICK r : /\ Query(s, r) /\ req[s].at = "sum" /\ r.at = "judge"
                 /\ req[s].account \in Accounts /\ req[s] \in Report
                 /\ r.account = req[s].account /\ r.limit = req[s].limit
                 /\ r.sum = IF r.account \in Tenants THEN UsedBy(r.account)
                                                     ELSE GrantsSeen(req[s], r.account)
    BY <1>5, ReadSumIs
  <2>2. ASSUME NEW x \in Accounts \ (excused \cup a), r.account = x
        PROVE  /\ Unlimited(x) \/ (r.limit # 0 /\ r.limit <= BaseOf(x))
               /\ IF x \in Tenants THEN r.sum >= UsedBy(x) ELSE r.sum <= GrantsOf(x)
    <3>1. Unlimited(x) \/ (r.limit # 0 /\ r.limit <= BaseOf(x))
      BY <2>1, <2>2 DEF Judged, Fine
    <3>2. GrantsOf(x) \in Int /\ UsedBy(x) \in Int
      BY NumbersHold DEF Numbers
    <3>3. x \notin Tenants => ~Generous(req[s], x)
      BY <2>1, <2>2
    <3>4. r.sum = IF x \in Tenants THEN UsedBy(x) ELSE GrantsOf(x)
      BY <2>1, <2>2, <3>3, SeenIsInt
    <3> QED BY <3>1, <3>2, <3>4
  <2>3. \A x \in Accounts \ (excused \cup a) : Fine(x, r)
    BY <2>1, <2>2 DEF Fine
  <2>4. Excuse(a)
    BY <1>5 DEF ReadSum
  <2> HIDE DEF a
  <2> QED BY <2>1, <2>3, <2>4, QueryJudged
<1> QED BY <1>1, <1>2, <1>3, <1>4, <1>5 DEF Asks

\* check_quota allows an upload only if it fits the account that judges it.
LEMMA JudgeJudged ==
  ASSUME IInv, Judged, NEW s \in Slots, Judge(s)
  PROVE  Judged'
<1> DEFINE a == {y \in {req[s].account} \cap Tenants : Generous(req[s], y)}
<1>1. /\ req[s].at = "judge" /\ req[s] \in Report /\ req[s].delta \in Nat
      /\ req[s].account \in Accounts /\ req[s].limit \in Nat /\ req[s].sum \in Int
  <2>1. req[s].at = "judge" /\ req[s].at \in Queries
    BY DEF Judge, At, Queries
  <2> QED BY <2>1, Upload DEF Sound, Report
<1>2. SameNumbers
  BY DEF Judge, Asking, SameNumbers, identity, tenancy
<1>5. Excuse(a)
  BY DEF Judge
<1>3. CASE ~Fits(req[s])
  <2>1. req' = [req EXCEPT ![s] = Idle]
    BY <1>3 DEF Judge, End
  <2> QED BY <1>2, <1>5, <2>1, IdleIsFine, SlotJudged
<1>4. CASE Fits(req[s])
  <2>1. PICK r \in Report :
          /\ r.at = "record" /\ r.account = req[s].account /\ r.delta = req[s].delta
          /\ req' = [req EXCEPT ![s] = r]
    BY <1>4, Allowed
  <2>2. ASSUME NEW x \in Accounts \ (excused \cup a), x = req[s].account, ~Unlimited(x)
        PROVE  Left(x) >= req[s].delta
    <3> DEFINE limit == req[s].limit
               sum == req[s].sum
    <3>1. /\ limit # 0 /\ limit <= BaseOf(x)
          /\ IF x \in Tenants THEN sum >= UsedBy(x) ELSE sum <= GrantsOf(x)
      BY <1>1, <2>2 DEF Judged, Fine
    <3>6. x \in Tenants => GrantsSeen(req[s], x) = GrantsOf(x)
      <4>1. x \in Tenants => ~Generous(req[s], x)
        BY <2>2
      <4> QED BY <1>1, <4>1, SeenIsInt
    <3>2. (IF x \in Tenants THEN limit + GrantsOf(x) - sum ELSE limit + sum - UsedBy(x))
            >= req[s].delta
      BY <1>4, <2>2, <3>1, <3>6 DEF Fits, Room
    <3>3. GrantsOf(x) \in Int /\ UsedBy(x) \in Int /\ BaseOf(x) \in Nat
      BY <2>2, NumbersHold DEF Numbers
    <3>4. limit \in Nat /\ sum \in Int /\ req[s].delta \in Nat
      BY <1>1
    <3> HIDE DEF limit, sum
    <3>5. BaseOf(x) + GrantsOf(x) - UsedBy(x) >= req[s].delta
      <4>1. CASE x \in Tenants
        BY <3>1, <3>2, <3>3, <3>4, <4>1
      <4>2. CASE x \notin Tenants
        BY <3>1, <3>2, <3>3, <3>4, <4>2
      <4> QED BY <4>1, <4>2
    <3> QED BY <3>5 DEF Left
  <2>3. \A x \in Accounts \ (excused \cup a) : Fine(x, r)
    BY <1>1, <2>1, <2>2 DEF Fine
  <2> QED BY <1>2, <1>5, <2>1, <2>3, SlotJudged
<1> QED BY <1>3, <1>4

LEMMA DropJudged ==
  ASSUME IInv, Judged, NEW s \in Slots, Drop(s)
  PROVE  Judged'
<1>1. req' = [req EXCEPT ![s] = Idle] /\ SameNumbers /\ UNCHANGED excused
  BY DEF Drop, End, SameNumbers, identity, tenancy
<1> QED BY <1>1, IdleIsFine, QuietSlotJudged

\* A report that stays is still fine if what it was judged by has not got worse.
LEMMA StaysFine ==
  ASSUME Numbers, Numbers', NEW x \in Accounts, NEW s \in Slots, NEW r, Alike(req[s], r),
         r.sum \in Int, r.limit \in Nat \cup {NoLimit},
         r.at \in {"sum", "judge"} => r.limit \in Nat,
         Fine(x, req[s]), req[s].account = x => ~Misled(s, x)
  PROVE  Fine(x, r)'
<1> SUFFICES ASSUME r.account = x
             PROVE  /\ r.at = "override" => (r.named <=> x \in named')
                    /\ r.at \in {"sum", "judge"}
                         => Unlimited(x)' \/ (r.limit # 0 /\ r.limit <= BaseOf(x)')
                    /\ r.at = "judge" => IF x \in Tenants THEN r.sum >= UsedBy(x)'
                                                         ELSE r.sum <= GrantsOf(x)'
                    /\ r.at = "record" => r.delta \in Nat /\ (Unlimited(x)' \/ Left(x)' >= r.delta)
  BY DEF Fine
<1>1. ~Unlimited(x)' => BaseOf(x)' \in Nat \ {0} /\ Left(x)' \in Int
  BY NewLeftIsInt
<1>2. ~Unlimited(x) => BaseOf(x) \in Nat \ {0} /\ Left(x) \in Int
  BY LeftIsInt
<1>3. ~Misled(s, x) /\ Fine(x, r) /\ req[s].at = r.at
  BY DEF Alike, Fine
<1>4. ASSUME r.at = "override"
      PROVE  r.named <=> x \in named'
  <2>1. (x \in named) = (x \in named')
    BY <1>3, <1>4 DEF Misled, At
  <2> QED BY <1>3, <1>4, <2>1 DEF Fine
<1>5. ASSUME r.at \in {"sum", "judge"}, ~Unlimited(x)'
      PROVE  r.limit # 0 /\ r.limit <= BaseOf(x)'
  <2>1. ~Lowered(x)
    BY <1>3, <1>5 DEF Misled
  <2>2. ~Unlimited(x) /\ ~(BaseOf(x)' < BaseOf(x))
    BY <1>5, <2>1 DEF Lowered
  <2>3. r.limit \in Nat /\ r.limit # 0 /\ r.limit <= BaseOf(x)
    BY <1>3, <1>5, <2>2 DEF Fine
  <2> QED BY <1>1, <1>2, <1>5, <2>2, <2>3
<1>6. ASSUME r.at = "judge"
      PROVE  IF x \in Tenants THEN r.sum >= UsedBy(x)' ELSE r.sum <= GrantsOf(x)'
  <2>1. ~Outdated(x)
    BY <1>3, <1>6 DEF Misled, At
  <2>2. IF x \in Tenants THEN r.sum >= UsedBy(x) ELSE r.sum <= GrantsOf(x)
    BY <1>3, <1>6 DEF Fine
  <2>3. GrantsOf(x) \in Int /\ UsedBy(x) \in Int /\ GrantsOf(x)' \in Int /\ UsedBy(x)' \in Int
    BY DEF Numbers
  <2>4. CASE x \in Tenants
    BY <2>1, <2>2, <2>3, <2>4 DEF Outdated
  <2>5. CASE x \notin Tenants
    BY <2>1, <2>2, <2>3, <2>5 DEF Outdated
  <2> QED BY <2>4, <2>5
<1>7. ASSUME r.at = "record"
      PROVE  r.delta \in Nat /\ (Unlimited(x)' \/ Left(x)' >= r.delta)
  <2>1. ~Tightened(x)
    BY <1>3, <1>7 DEF Misled, At
  <2> QED BY <1>1, <1>2, <1>3, <1>7, <2>1 DEF Tightened, Fine
<1> QED BY <1>4, <1>5, <1>6, <1>7

\* So every report but those that land stays fine with an account that is not stale.
LEMMA OthersStayFine ==
  ASSUME IInv, IInv', Judged, NEW x \in Accounts \ excused,
         NEW landing, x \notin Stale(landing), NEW s \in Slots \ landing, Alike(req[s], req'[s])
  PROVE  Fine(x, req[s])'
<1>1. Numbers /\ Numbers'
  BY NumbersHold, NumbersStay
<1>2. Fine(x, req[s])
  BY DEF Judged
<1> DEFINE r == req'[s]
<1>3. /\ r.sum \in Int /\ r.limit \in Nat \cup {NoLimit}
      /\ r.at \in {"sum", "judge"} => r.limit \in Nat
  BY DEF IInv, Working, Sound, TypeOK, Report
<1>4. req[s].account = x => ~Misled(s, x)
  BY DEF Stale
<1> QED BY <1>1, <1>2, <1>3, <1>4, StaysFine DEF Fine

\* An edit excuses whoever it leaves less than an upload was judged by, and whoever it puts over.
LEMMA EditJudged ==
  ASSUME IInv, IInv', Judged, Edited, \A s \in Slots : Alike(req[s], req'[s])
  PROVE  Judged'
<1> SUFFICES ASSUME NEW x \in Accounts \ excused'
             PROVE  ~Over(x)' /\ \A s \in Slots : Fine(x, req[s])'
  BY DEF Judged
<1>1. CASE ~Over(x)' /\ \A s \in Slots : req'[s].account # x
  BY <1>1 DEF Fine
<1>2. CASE x \notin excused /\ x \notin Stale({}) \cup {y \in Accounts : Exceeded(y)}
  <2>1. ~Over(x)'
    BY <1>2 DEF Judged, Exceeded
  <2>2. \A s \in Slots : Fine(x, req[s])'
    BY <1>2, OthersStayFine
  <2> QED BY <2>1, <2>2
<1> QED BY <1>1, <1>2, Unexcused DEF Edited

LEMMA EditsJudged ==
  ASSUME IInv, IInv', Judged, Edits \/ UNCHANGED vars
  PROVE  Judged'
<1>1. \A s \in Slots : Alike(req[s], req'[s])
  BY EditsRest
<1>2. ASSUME Edited
      PROVE  Judged'
  BY <1>1, <1>2, EditJudged
<1>3. ASSUME SameNumbers, UNCHANGED <<req, excused>>
      PROVE  Judged'
  BY <1>3, QuietJudged DEF Judged
<1>4. ASSUME NEW p \in Pubkeys, NEW limit \in Limits \cup {NoLimit}, SetQuota(p, limit)
      PROVE  Judged'
  BY <1>2, <1>4 DEF SetQuota
<1>5. ASSUME NEW p \in Pubkeys, Identify(p)
      PROVE  Judged'
  BY <1>2, <1>5 DEF Identify
<1>6. ASSUME NEW p \in Pubkeys, Grant(p) \/ Expire(p)
      PROVE  Judged'
  BY <1>2, <1>6 DEF Grant, Expire
<1>7. ASSUME NEW t \in Tenants, NEW p \in Pubkeys, AddMember(t, p) \/ RemoveMember(t, p)
      PROVE  Judged'
  BY <1>2, <1>7 DEF AddMember, RemoveMember
<1>8. ASSUME NEW t \in Tenants, NEW limit \in Limits, SetTenantQuota(t, limit)
      PROVE  Judged'
  BY <1>2, <1>8 DEF SetTenantQuota
<1>9. ASSUME NEW t \in Tenants, CreateTenant(t)
      PROVE  Judged'
  BY <1>3, <1>9 DEF CreateTenant, Rest, SameNumbers, identity
<1>10. CASE PodStarts \/ PoolingBack \/ UNCHANGED vars
  BY <1>3, <1>10 DEF PodStarts, PoolingBack, Rest, SameNumbers, identity, tenancy, vars
<1> QED BY <1>4, <1>5, <1>6, <1>7, <1>8, <1>9, <1>10 DEF Edits, ResetQuota

\* A report moves the usage of the accounts that count its pubkey, by what it adds
\* to that one book.
LEMMA UsedMoves ==
  ASSUME IInv, IInv', NEW s \in Slots, At(s, "record"), Add(s), UNCHANGED members,
         NEW x \in Accounts
  PROVE  LET u == usage[req[s].pubkey][req[s].service]
         IN  UsedBy(x)' = UsedBy(x) + IF req[s].pubkey \in Counted(x)
                                      THEN Recorded(u, req[s].delta) - u ELSE 0
<1> DEFINE p == req[s].pubkey
           v == req[s].service
           y == <<p, v>>
           books == Pubkeys \X Services
           f == [pv \in books |-> usage[pv[1]][pv[2]]]
           g == [pv \in books |-> usage'[pv[1]][pv[2]]]
           A == Counted(x) \X Services
           B == Counted(x)' \X Services
<1>1. p \in Pubkeys /\ v \in Services
  BY DEF IInv, Working, Sound, At
<1>2. Counted(x)' = Counted(x)
  BY DEF Counted
<1>3. y \in books /\ A \in SUBSET books /\ B = A
  BY <1>1, <1>2, CountedArePubkeys
<1>4. \A pv \in books : f[pv] \in Int /\ g[pv] \in Int
  BY BooksAreNats, NewBooksAreNats
<1>5. \A pv \in books \ {y} : f[pv] = g[pv]
  BY <1>1 DEF Add, IInv, TypeOK
<1>6. f[y] = usage[p][v] /\ g[y] = Recorded(usage[p][v], req[s].delta)
  BY <1>1 DEF Add, IInv, TypeOK
<1>7. y \in A <=> p \in Counted(x)
  BY <1>1
<1>8. UsedBy(x) = SumFunctionOnSet(f, A) /\ UsedBy(x)' = SumFunctionOnSet(g, B)
  BY DEF UsedBy
<1>9. IsFiniteSet(books)
  BY Finite, FS_Product
<1>10. UsedBy(x) \in Int
  BY NumbersHold DEF Numbers
<1> HIDE DEF y, books, f, g, A, B
<1>11. /\ \A pv \in A : f[pv] \in Int
       /\ \A pv \in B : g[pv] \in Int
       /\ \A pv \in books \ {y} : (pv \in A <=> pv \in B) /\ (pv \in A => f[pv] = g[pv])
  BY <1>3, <1>4, <1>5
<1>12. SumFunctionOnSet(g, B) = SumFunctionOnSet(f, A) + Part(g, B, y) - Part(f, A, y)
  BY <1>3, <1>9, <1>11, SumChanges
<1>13. CASE p \in Counted(x)
  <2>1. Part(g, B, y) = g[y] /\ Part(f, A, y) = f[y]
    BY <1>3, <1>7, <1>13 DEF Part
  <2>2. f[y] \in Int /\ g[y] \in Int
    BY <1>3, <1>4
  <2>3. UsedBy(x)' = UsedBy(x) + (g[y] - f[y])
    BY <1>8, <1>10, <1>12, <2>1, <2>2
  <2> QED BY <1>6, <1>13, <2>3
<1>14. CASE p \notin Counted(x)
  <2>1. Part(g, B, y) = 0 /\ Part(f, A, y) = 0
    BY <1>3, <1>7, <1>14 DEF Part
  <2>2. UsedBy(x)' = UsedBy(x) + 0
    BY <1>8, <1>10, <1>12, <2>1
  <2> QED BY <1>14, <2>2
<1> QED BY <1>13, <1>14

\* An account loses no more room than the upload takes, and none if it does not
\* count the pubkey or a release is reported.
LEMMA LeftMoves ==
  ASSUME IInv, IInv', NEW s \in Slots, At(s, "record"), Add(s),
         UNCHANGED <<identity, tenancy>>, NEW x \in Accounts, ~Unlimited(x)
  PROVE  Left(x)'
           >= Left(x) - (IF req[s].pubkey \in Counted(x) /\ req[s].delta > 0
                                    THEN req[s].delta ELSE 0)
<1> DEFINE u == usage[req[s].pubkey][req[s].service]
           d == req[s].delta
           added == IF req[s].pubkey \in Counted(x) THEN Recorded(u, d) - u ELSE 0
           taken == IF req[s].pubkey \in Counted(x) /\ d > 0 THEN d ELSE 0
<1>1. UNCHANGED <<named, override, grant, members, pooled>>
  BY DEF identity, tenancy
<1>2. u \in Nat /\ d \in Int
  BY BooksAreNats, DeltaIsInt DEF IInv, Working, Sound, At
<1>3. added \in Int /\ taken \in Int /\ added <= taken
  BY <1>2 DEF Recorded
<1>4. UsedBy(x)' = UsedBy(x) + added
  BY <1>1, UsedMoves
<1>5. GrantsOf(x)' = GrantsOf(x) /\ BaseOf(x)' = BaseOf(x)
  BY <1>1 DEF GrantsOf, Counted, BaseOf, OwnLimit
<1>6. GrantsOf(x) \in Int /\ UsedBy(x) \in Int /\ BaseOf(x) \in Nat
  BY NumbersHold DEF Numbers
<1> HIDE DEF added, taken
<1>7. Left(x)' = Left(x) - added
  BY <1>4, <1>5, <1>6, <1>3 DEF Left
<1>8. Left(x) \in Int
  BY <1>6 DEF Left
<1>9. Left(x)' >= Left(x) - taken
  BY <1>3, <1>7, <1>8
<1> QED BY <1>9 DEF taken

\* A report puts nobody over who judged it, or whom it does not excuse.
LEMMA LandedJudged ==
  ASSUME IInv, IInv', Judged, NEW s \in Slots, At(s, "record"), Add(s),
         NEW landing, landing \subseteq {s}, Landed(s, landing),
         UNCHANGED <<identity, tenancy>>,
         \A q \in Slots : req'[q] = IF q \in landing THEN Idle ELSE req[q]
  PROVE  Judged'
<1> SUFFICES ASSUME NEW x \in Accounts \ excused'
             PROVE  ~Over(x)' /\ \A q \in Slots : Fine(x, req[q])'
  BY DEF Judged
<1>1. CASE ~Over(x)' /\ \A q \in Slots : req'[q].account # x
  BY <1>1 DEF Fine
<1>2. CASE /\ x \notin excused /\ x \notin Stale(landing)
           /\ ~(req[s].delta > 0 /\ req[s].pubkey \in Counted(x) /\ x # req[s].account)
  <2>1. ~Over(x)'
    <3> SUFFICES ASSUME ~Unlimited(x)'
                 PROVE  Left(x)' >= 0
      BY NumbersStay, NewLeftIsInt DEF Over
    <3>1. ~Unlimited(x) /\ ~Over(x)
      BY <1>2 DEF Unlimited, BaseOf, OwnLimit, identity, tenancy, Judged
    <3>2. Left(x) \in Int /\ Left(x) >= 0
      BY <3>1, NumbersHold, LeftIsInt DEF Over
    <3>3. Left(x)' \in Int
      BY NumbersStay, NewLeftIsInt
    <3>4. CASE ~(req[s].pubkey \in Counted(x) /\ req[s].delta > 0)
      BY <3>1, <3>2, <3>3, <3>4, LeftMoves
    <3>5. CASE req[s].pubkey \in Counted(x) /\ req[s].delta > 0
      <4>1. Left(x) >= req[s].delta
        BY <1>2, <3>1, <3>5 DEF Judged, Fine, At
      <4>2. Left(x)' >= Left(x) - req[s].delta
        BY <3>1, <3>5, LeftMoves
      <4> QED BY <3>2, <3>3, <4>1, <4>2, DeltaIsInt
    <3> QED BY <3>4, <3>5
  <2>2. ASSUME NEW q \in Slots
        PROVE  Fine(x, req[q])'
    <3>1. CASE q \in landing
      <4>1. req'[q].account = None
        BY <3>1 DEF Idle
      <4> QED BY <4>1, QuotaConstants DEF Fine, Accounts
    <3>2. CASE q \notin landing
      <4>1. req'[q] = req[q]
        BY <3>2
      <4> QED BY <1>2, <3>2, <4>1, OthersStayFine DEF Alike
    <3> QED BY <3>1, <3>2
  <2> QED BY <2>1, <2>2
<1> QED BY <1>1, <1>2, Unexcused DEF Landed

LEMMA RecordJudged ==
  ASSUME IInv, IInv', Judged, NEW s \in Slots, Record(s) \/ RecordUnknown(s)
  PROVE  Judged'
<1>1. At(s, "record") /\ Add(s) /\ UNCHANGED <<identity, tenancy>>
  BY DEF Record, RecordUnknown
<1>2. CASE Record(s)
  <2>1. \A q \in Slots : req'[q] = IF q \in {s} THEN Idle ELSE req[q]
    BY <1>2 DEF Record, End, IInv, TypeOK
  <2> QED BY <1>1, <1>2, <2>1, LandedJudged DEF Record
<1>3. CASE RecordUnknown(s)
  <2>1. \A q \in Slots : req'[q] = IF q \in {} THEN Idle ELSE req[q]
    BY <1>3 DEF RecordUnknown
  <2> QED BY <1>1, <1>3, <2>1, LandedJudged DEF RecordUnknown
<1> QED BY <1>2, <1>3

LEMMA JudgedInit == Init => Judged
<1> SUFFICES ASSUME Init, NEW x \in Accounts \ excused
             PROVE  ~Over(x) /\ \A s \in Slots : Fine(x, req[s])
  BY DEF Judged
<1>1. ~Over(x)
  BY DEF Init
<1>2. \A s \in Slots : Fine(x, req[s])
  BY IdleIsFine DEF Init
<1> QED BY <1>1, <1>2

LEMMA JudgedStep == IInv /\ Judged /\ [Next]_vars => Judged'
<1> SUFFICES ASSUME IInv, Judged, [Next]_vars PROVE Judged'
  OBVIOUS
<1>1. IInv'
  BY NextKeeps
<1>2. ASSUME NEW s \in Slots, Uploads(s)
      PROVE  Judged'
  BY <1>1, <1>2, BeginJudged, AsksJudged, JudgeJudged, RecordJudged, DropJudged
     DEF Uploads, Asks
<1>3. CASE Edits \/ UNCHANGED vars
  BY <1>1, <1>3, EditsJudged
<1> QED BY <1>2, <1>3 DEF Next

\* An account, pooled or a pubkey's own, is over its limit only if an edit put it
\* there, or an upload it counts was judged by another account or by numbers that got
\* worse between the query that read them and the report: with any number of uploads
\* at any of their queries, effective_quota and check_quota let nothing else past
\* (007_up.sql:106-117, 010_up.sql:92-179).
THEOREM OnlyExcusedAreOver == Spec => []OverOnlyIfExcused
<1>1. Judged => OverOnlyIfExcused
  BY DEF Judged, OverOnlyIfExcused
<1>2. IInv /\ [Next]_vars => IInv'
  BY NextKeeps
<1> QED BY <1>1, <1>2, InitHolds, JudgedInit, JudgedStep, PTL DEF Spec
=============================================================================
