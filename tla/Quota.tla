--------------------------------- MODULE Quota ---------------------------------
(***************************************************************************)
(* Quotas of one type: what a pubkey may store, alone or in a tenant that   *)
(* pools its members, and how the services that store for it ask and report.*)
(*                                                                          *)
(* A service asks check_quota, stores, and reports a delta with a second    *)
(* call; nothing reserves room in between.  The numbers it is judged by     *)
(* come from one account, the pubkey's own or that of a tenant it is in.    *)
(* effective_quota is VOLATILE: each of its queries sees what is committed  *)
(* by then, so each is a step, and everybody's limits, members, grants,     *)
(* names and usage change in between; but NOW() is when the call began, so a*)
(* grant that expires during a call still counts for it.  Every pod start   *)
(* re-applies migration 007, whose effective_quota knows no tenants, before *)
(* 010.                                                                     *)
(***************************************************************************)
EXTENDS Integers, FiniteSets, Functions

CONSTANTS
  Pubkeys, Tenants, Services,
  Slots,        \* the uploads and releases services have under way at once
  Sizes,        \* how much is stored or released at a time
  StartUsage,   \* what may be stored for a pubkey at a service to begin with
  Limits,       \* the limits administrators set; 0 is unlimited
  NamedDefault, \* quota_types.default_limit
  FreeDefault,  \* quota_types.default_limit_free
  GrantSize,    \* what a grant adds
  NoLimit,      \* no row
  None,         \* no account
  MaxReports,   \* bound on uploads and releases
  MaxEdits,     \* bound on everything an administrator, owner or purchase changes
  MaxFaults     \* bound on lost reports and lost answers

ASSUME QuotaConstants ==
  /\ Pubkeys \cap Tenants = {}
  /\ None \notin Pubkeys \cup Tenants
  /\ IsFiniteSet(Pubkeys) /\ IsFiniteSet(Services) /\ IsFiniteSet(Slots)
  /\ Sizes \subseteq Nat \ {0} /\ StartUsage \subseteq Nat
  /\ Limits \subseteq Nat
  /\ NoLimit \notin Nat
  /\ NamedDefault \in Nat /\ FreeDefault \in Nat /\ GrantSize \in Nat
  /\ MaxReports \in Nat /\ MaxEdits \in Nat /\ MaxFaults \in Nat

VARIABLES
  named,    \* pubkeys with an active claimed address
  override, \* user_quotas
  grant,    \* quota_grants: each pubkey's, as long as they have not expired
  usage,    \* user_quota_usage
  created,  \* tenants
  members,  \* tenant_members
  pooled,   \* tenant_quotas
  pooling,  \* effective_quota is 010's and not 007's
  req,      \* what each slot is doing
  reports, edits, faults, \* how many of each there were
  stored,   \* history: what each service stores for each pubkey
  misreported, \* history: books an upload's report of which was lost, or a release's repeated
  excused   \* history: accounts an upload was not judged by the numbers of

identity == <<named, override, grant>>
tenancy == <<created, members, pooled>>
vars == <<identity, usage, tenancy, pooling, req, reports, edits, faults, stored, misreported, excused>>

Accounts == Pubkeys \cup Tenants

\* Where an upload is in effective_quota: its next query.
Queries == {"tenant", "tenantLimit", "name", "override", "sum", "judge"}

\* A report: an upload at its queries and at "record", a release at "record"; with
\* the account that judges it, what is_named, the limit and the first sum were, and
\* the grants that expired since the call began.
Report == [at : Queries \cup {"idle", "record"}, pubkey : Pubkeys \cup {None},
           service : Services \cup {None}, delta : Int, account : Accounts \cup {None},
           named : BOOLEAN, limit : Nat \cup {NoLimit}, sum : Int,
           lapsed : [Pubkeys -> Nat]]

Nothing == [p \in Pubkeys |-> 0]

Idle == [at |-> "idle", pubkey |-> None, service |-> None, delta |-> 0, account |-> None,
         named |-> FALSE, limit |-> NoLimit, sum |-> 0, lapsed |-> Nothing]

-----------------------------------------------------------------------------
(* The numbers of an account.                                               *)

\* Whose usage and grants an account sums up.
Counted(x) == IF x \in Tenants THEN members[x] ELSE {x}

\* The limit of a pubkey that has, or has not, a claimed address.
OwnLimit(p, isNamed) ==
  IF override[p] # NoLimit THEN override[p] ELSE IF isNamed THEN NamedDefault ELSE FreeDefault

BaseOf(x) == IF x \in Tenants THEN pooled[x] ELSE OwnLimit(x, x \in named)

GrantsOf(x) == SumFunctionOnSet(grant, Counted(x))

\* The grants of x as a call sees them.
GrantsSeen(r, x) == SumFunctionOnSet([p \in Pubkeys |-> grant[p] + r.lapsed[p]], Counted(x))

UsedBy(x) ==
  SumFunctionOnSet([pv \in Pubkeys \X Services |-> usage[pv[1]][pv[2]]], Counted(x) \X Services)

Left(x) == BaseOf(x) + GrantsOf(x) - UsedBy(x)

Unlimited(x) == BaseOf(x) \in {0, NoLimit}
Over(x) == ~Unlimited(x) /\ Left(x) < 0

\* A deployment with tenants, and with usage that covers what is stored; who is
\* over then stays excused until it is not.
Init ==
  /\ named = {} /\ override = [p \in Pubkeys |-> NoLimit] /\ grant = [p \in Pubkeys |-> 0]
  /\ usage \in [Pubkeys -> [Services -> StartUsage]]
  /\ created \in SUBSET Tenants
  /\ members \in [Tenants -> SUBSET Pubkeys]
  /\ pooled \in [Tenants -> (Limits \ {0}) \cup {NoLimit}]
  /\ \A t \in Tenants \ created : members[t] = {} /\ pooled[t] = NoLimit
  /\ pooling = TRUE
  /\ req = [s \in Slots |-> Idle]
  /\ reports = 0 /\ edits = 0 /\ faults = 0
  /\ stored = usage
  /\ misreported = {} /\ excused = {x \in Accounts : Over(x)}

At(s, step) == req[s].at = step
End(s) == req' = [req EXCEPT ![s] = Idle]

-----------------------------------------------------------------------------
(* History: who may be over a limit.                                        *)

\* The step leaves x less room, lowers its limit or gives it one, puts it over.
Tightened(x) == ~Unlimited(x)' /\ (Unlimited(x) \/ Left(x)' < Left(x))
Lowered(x) == ~Unlimited(x)' /\ (Unlimited(x) \/ BaseOf(x)' < BaseOf(x))
Exceeded(x) == Over(x)' /\ ~Over(x)

\* The step gives x more usage, or fewer grants, than the first sum counted: a pool
\* sums its usage first, a pubkey alone its grants.
Outdated(x) == IF x \in Tenants THEN UsedBy(x)' > UsedBy(x) ELSE GrantsOf(x)' < GrantsOf(x)

\* A sum that the call of r takes of x's grants counts one that has expired.
Generous(r, x) == \E p \in Counted(x) : r.lapsed[p] > 0

\* What slot s has read of x, which judges it, is better than what x has after the
\* step; or it was allowed and loses room before it is reported.
Misled(s, x) ==
  \/ At(s, "override") /\ (x \in named) # (x \in named')
  \/ req[s].at \in {"sum", "judge"} /\ Lowered(x)
  \/ At(s, "judge") /\ Outdated(x)
  \/ At(s, "record") /\ Tightened(x)

\* The accounts whose numbers change under an upload they judge, in another slot than
\* landing.
Stale(landing) ==
  {x \in Accounts : \E s \in Slots \ landing : req[s].account = x /\ Misled(s, x)}

\* An excuse lasts while the account is over or an upload it judges is under way.
Clear == {x \in Accounts : ~Over(x) /\ \A s \in Slots : req[s].account # x}
Excuse(accounts) == excused' = (excused \cup accounts) \ Clear'

\* An edit excuses whom it puts over.
Edited == Excuse(Stale({}) \cup {x \in Accounts : Exceeded(x)})

\* An upload excuses the accounts that count it and that it was not judged by.
Landed(s, landing) ==
  Excuse(Stale(landing)
           \cup {x \in Accounts : /\ req[s].delta > 0
                                 /\ req[s].pubkey \in Counted(x) /\ x # req[s].account})
-----------------------------------------------------------------------------
(* A service stores and releases.                                           *)

Reported == reports < MaxReports /\ reports' = reports + 1

\* GET /internal/v1/quotas/check; the body of effective_quota is the one in force
\* when the call starts.
BeginUpload(s, p, v, n) ==
  /\ Reported
  /\ At(s, "idle")
  /\ req' = [req EXCEPT ![s] =
       [Idle EXCEPT !.at = IF pooling THEN "tenant" ELSE "name",
                    !.pubkey = p, !.service = v, !.delta = n,
                    !.account = IF pooling THEN None ELSE p]]
  /\ UNCHANGED <<identity, usage, tenancy, pooling, edits, faults, stored, misreported, excused>>

Asking == UNCHANGED <<identity, usage, tenancy, pooling, reports, edits, faults, misreported>>
Unjudged == UNCHANGED <<stored, excused>>

\* The query at hand moves the upload on, and the numbers it read go along.
Reads(s, r) == req' = [req EXCEPT ![s] = r]

\* LIMIT 1 takes any tenant of the pubkey.
ReadTenant(s) ==
  LET p == req[s].pubkey
      pools == {t \in Tenants : p \in members[t]}
  IN  /\ At(s, "tenant")
      /\ \/ pools = {} /\ Reads(s, [req[s] EXCEPT !.at = "name", !.account = p])
         \/ \E t \in pools : Reads(s, [req[s] EXCEPT !.at = "tenantLimit", !.account = t])
      /\ Asking /\ Unjudged

\* A tenant without a limit leaves its member to its own account.
ReadTenantLimit(s) ==
  LET t == req[s].account
  IN  /\ At(s, "tenantLimit")
      /\ IF pooled[t] = NoLimit
         THEN Reads(s, [req[s] EXCEPT !.at = "name", !.account = req[s].pubkey])
         ELSE Reads(s, [req[s] EXCEPT !.at = "sum", !.limit = pooled[t]])
      /\ Asking /\ Unjudged

\* is_named.
ReadName(s) ==
  /\ At(s, "name")
  /\ Reads(s, [req[s] EXCEPT !.at = "override", !.named = (req[s].account \in named)])
  /\ Asking /\ Unjudged

\* The override, or the default for what is_named was; quota_types changes with
\* migrations only.
ReadOverride(s) ==
  /\ At(s, "override")
  /\ Reads(s, [req[s] EXCEPT !.at = "sum", !.named = FALSE,
                             !.limit = OwnLimit(req[s].account, req[s].named)])
  /\ Asking /\ Unjudged

\* The first sum: of a pool's usage, of a pubkey's grants.
ReadSum(s) ==
  LET x == req[s].account
  IN  /\ At(s, "sum")
      /\ Reads(s, [req[s] EXCEPT !.at = "judge",
                                 !.sum = IF x \in Tenants THEN UsedBy(x)
                                         ELSE GrantsSeen(req[s], x)])
      /\ Asking /\ UNCHANGED stored
      /\ Excuse({y \in {x} \ Tenants : Generous(req[s], y)})

\* What the second sum leaves: that of a pool's grants, of a pubkey's usage.
Room(r) ==
  IF r.account \in Tenants THEN r.limit + GrantsSeen(r, r.account) - r.sum
  ELSE r.limit + r.sum - UsedBy(r.account)

\* Mutant: the bytes to come are left out.
FitsAlready(r) == r.limit = 0 \/ Room(r) >= 0

\* check_quota on the bytes to come, as checkQuota asks it; a limit of 0 is none.
Fits(r) == r.limit = 0 \/ Room(r) >= r.delta

\* The second sum, and check_quota's answer; the service stores what is allowed.
Judge(s) ==
  /\ At(s, "judge")
  /\ IF Fits(req[s])
     THEN /\ Reads(s, [req[s] EXCEPT !.at = "record", !.limit = NoLimit, !.sum = 0,
                                     !.lapsed = Nothing])
          /\ stored' = [stored EXCEPT ![req[s].pubkey][req[s].service] = @ + req[s].delta]
     ELSE End(s) /\ UNCHANGED stored
  /\ Asking
  /\ Excuse({y \in {req[s].account} \cap Tenants : Generous(req[s], y)})

\* A service deletes something it stores, and will report that.
BeginRelease(s, p, v, n) ==
  /\ Reported
  /\ At(s, "idle")
  /\ stored[p][v] >= n
  /\ stored' = [stored EXCEPT ![p][v] = @ - n]
  /\ req' = [req EXCEPT ![s] =
       [Idle EXCEPT !.at = "record", !.pubkey = p, !.service = v, !.delta = -n]]
  /\ UNCHANGED <<identity, usage, tenancy, pooling, edits, faults, misreported, excused>>

\* Mutant: no clamp.
RecordedSigned(bytes, delta) == bytes + delta

\* Mutant: a report replaces the component.
RecordedLast(bytes, delta) == IF delta < 0 THEN 0 ELSE delta

\* GREATEST(0, bytes + delta).
Recorded(bytes, delta) == IF bytes + delta < 0 THEN 0 ELSE bytes + delta

Add(s) ==
  usage' = [usage EXCEPT ![req[s].pubkey][req[s].service] = Recorded(@, req[s].delta)]

\* POST /internal/v1/quotas/usage: RecordServiceUsage.
Record(s) ==
  /\ At(s, "record")
  /\ Add(s)
  /\ End(s)
  /\ UNCHANGED <<identity, tenancy, pooling, reports, edits, faults, stored, misreported>>
  /\ Landed(s, {s})

\* The answer is lost and the service reports again: a delta has no reference
\* to tell it from the first.
RecordUnknown(s) ==
  /\ At(s, "record")
  /\ faults < MaxFaults /\ faults' = faults + 1
  /\ Add(s)
  /\ misreported' = IF req[s].delta < 0
                    THEN misreported \cup {<<req[s].pubkey, req[s].service>>} ELSE misreported
  /\ UNCHANGED <<identity, tenancy, pooling, req, reports, edits, stored>>
  /\ Landed(s, {})

\* The service dies, or gives up; an upload it stored is never reported.
Drop(s) ==
  /\ ~At(s, "idle")
  /\ faults < MaxFaults /\ faults' = faults + 1
  /\ misreported' = IF At(s, "record") /\ req[s].delta > 0
                    THEN misreported \cup {<<req[s].pubkey, req[s].service>>} ELSE misreported
  /\ End(s)
  /\ UNCHANGED <<identity, usage, tenancy, pooling, reports, edits, stored, excused>>

-----------------------------------------------------------------------------
(* Limits, grants, names and tenants.                                       *)

Edit == edits < MaxEdits /\ edits' = edits + 1
Rest == UNCHANGED <<usage, req, reports, faults, stored, misreported>>

\* adminSetQuota.
SetQuota(p, limit) ==
  /\ Edit
  /\ override' = [override EXCEPT ![p] = limit]
  /\ UNCHANGED <<named, grant, tenancy, pooling>>
  /\ Rest
  /\ Edited

\* adminResetQuota; without a row there is nothing to reset.
ResetQuota(p) ==
  /\ override[p] # NoLimit
  /\ SetQuota(p, NoLimit)

\* The registry gives p its first claimed name, or takes its last.
Identify(p) ==
  /\ Edit
  /\ named' = IF p \in named THEN named \ {p} ELSE named \cup {p}
  /\ UNCHANGED <<override, grant, tenancy, pooling>>
  /\ Rest
  /\ Edited

\* A product is settled.
Grant(p) ==
  /\ Edit
  /\ grant[p] = 0
  /\ grant' = [grant EXCEPT ![p] = GrantSize]
  /\ UNCHANGED <<named, override, tenancy, pooling>>
  /\ Rest
  /\ Edited

\* What it granted expires, but for the calls that have begun.
Expire(p) ==
  /\ Edit
  /\ grant[p] > 0
  /\ grant' = [grant EXCEPT ![p] = 0]
  /\ req' = [s \in Slots |-> IF req[s].at \in Queries
                             THEN [req[s] EXCEPT !.lapsed[p] = @ + grant[p]] ELSE req[s]]
  /\ UNCHANGED <<named, override, usage, tenancy, pooling, reports, faults, stored, misreported>>
  /\ Edited

\* adminCreateTenant; an id that exists is refused.
CreateTenant(t) ==
  /\ Edit
  /\ t \notin created
  /\ created' = created \cup {t}
  /\ UNCHANGED <<identity, members, pooled, pooling, excused>>
  /\ Rest

\* handleAddTenantMember, by the tenant's owner.  Nothing deletes a tenant or
\* changes its owner, so what GetTenant found still holds when the row is written.
AddMember(t, p) ==
  /\ Edit
  /\ t \in created
  /\ members' = [members EXCEPT ![t] = @ \cup {p}]
  /\ UNCHANGED <<identity, created, pooled, pooling>>
  /\ Rest
  /\ Edited

\* handleRemoveTenantMember, by the tenant's owner.
RemoveMember(t, p) ==
  /\ Edit
  /\ t \in created
  /\ members' = [members EXCEPT ![t] = @ \ {p}]
  /\ UNCHANGED <<identity, created, pooled, pooling>>
  /\ Rest
  /\ Edited

\* adminSetTenantQuota; the binding refuses 0, and no request takes a limit away.
\* It lets a negative limit through, which is left out.
SetTenantQuota(t, limit) ==
  /\ Edit
  /\ t \in created
  /\ limit # 0
  /\ pooled' = [pooled EXCEPT ![t] = limit]
  /\ UNCHANGED <<identity, created, members, pooling>>
  /\ Rest
  /\ Edited

\* A pod starts: 007 puts back the effective_quota that knows no tenants.
PodStarts ==
  /\ Edit
  /\ pooling' = FALSE
  /\ UNCHANGED <<identity, tenancy, excused>>
  /\ Rest

\* And 010 replaces it.
PoolingBack ==
  /\ ~pooling
  /\ pooling' = TRUE
  /\ UNCHANGED <<identity, tenancy, edits, excused>>
  /\ Rest

-----------------------------------------------------------------------------
Uploads(s) ==
  \/ \E p \in Pubkeys, v \in Services, n \in Sizes : BeginUpload(s, p, v, n) \/ BeginRelease(s, p, v, n)
  \/ ReadTenant(s) \/ ReadTenantLimit(s) \/ ReadName(s) \/ ReadOverride(s) \/ ReadSum(s)
  \/ Judge(s) \/ Record(s) \/ RecordUnknown(s) \/ Drop(s)

Edits ==
  \/ \E p \in Pubkeys :
       \/ \E limit \in Limits : SetQuota(p, limit)
       \/ ResetQuota(p) \/ Identify(p) \/ Grant(p) \/ Expire(p)
  \/ \E t \in Tenants :
       \/ CreateTenant(t)
       \/ \E p \in Pubkeys : AddMember(t, p) \/ RemoveMember(t, p)
       \/ \E limit \in Limits : SetTenantQuota(t, limit)
  \/ PodStarts \/ PoolingBack

Next == (\E s \in Slots : Uploads(s)) \/ Edits

Spec == Init /\ [][Next]_vars
-----------------------------------------------------------------------------
(* Properties.                                                              *)

TypeOK ==
  /\ named \subseteq Pubkeys
  /\ override \in [Pubkeys -> Limits \cup {NoLimit}]
  /\ grant \in [Pubkeys -> {0, GrantSize}]
  /\ usage \in [Pubkeys -> [Services -> Nat]]
  /\ created \subseteq Tenants
  /\ members \in [Tenants -> SUBSET Pubkeys]
  /\ pooled \in [Tenants -> (Limits \ {0}) \cup {NoLimit}]
  /\ pooling \in BOOLEAN
  /\ req \in [Slots -> Report]
  /\ reports \in 0..MaxReports /\ edits \in 0..MaxEdits /\ faults \in 0..MaxFaults
  /\ stored \in [Pubkeys -> [Services -> Nat]]
  /\ misreported \subseteq Pubkeys \X Services
  /\ excused \subseteq Accounts

\* An account is over its limit only if somebody's edit put it there, or an upload it
\* counts was judged by another account or by numbers that got worse before it was
\* reported: the name between is_named and the override, the limit between its query
\* and the answer, what the first sum counted before the second, a grant between the
\* call and its sum, the room between the answer and the report.  The check lets
\* nothing else past (007_up.sql:106-117, 010_up.sql:92-179).
OverOnlyIfExcused == \A x \in Accounts \ excused : ~Over(x)

\* Reports that arrive in any order, or after the release of what they report,
\* leave a pubkey charged for no less than a service stores for it, once none is
\* under way, unless an upload's was lost or a release's arrived twice
\* (quota_usage.go:45-49: "a release (negative delta) never drives a component
\* negative").
UsageCoversStored ==
  \A p \in Pubkeys, v \in Services :
    \/ <<p, v>> \in misreported
    \/ \E s \in Slots : At(s, "record") /\ req[s].pubkey = p /\ req[s].service = v
    \/ usage[p][v] >= stored[p][v]
=============================================================================
