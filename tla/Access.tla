------------------------------- MODULE Access --------------------------------
\* Whether a request passes PermissionGuard: the subscriptions of one company,
\* the permissions of their plans, and the Redis copy that the guard and two
\* other loaders fill, service calls clear and a TTL expires.
EXTENDS Catalog, Endpoints, FiniteSets, Sequences

CONSTANTS
    Handlers,      \* calls in flight
    Offered,       \* plans that requests name
    Asked,         \* the endpoints that users call, out of those of Controllers
    Edited,        \* permissions that an administrator adds to plans or takes away
    Requests,      \* what may be asked, see Request
    MaxSubs, MaxFailures, MaxLost

VARIABLES
    subs,        \* the company's subscriptions, oldest first
    granted,     \* plan_permissions: the permissions of each plan
    cache,       \* permissions cached for the company, or Null
    served,      \* what the last request for it was granted: sets of permissions
    calls, failures, lost

vars == <<subs, granted, cache, served, calls, failures, lost>>

Statuses == {"active", "pending_payment", "suspended", "canceled"}

Codes == UNION {PlanPermissions[plan] : plan \in Plans}

Active == {s \in DOMAIN subs : subs[s].status = "active"}

\* The newest active subscription decides (ORDER BY created_at DESC LIMIT 1).
Effective ==
    IF Active = {} THEN {}
    ELSE granted[subs[CHOOSE s \in Active : \A t \in Active : t <= s].plan]

\* auth/me/permissions joins every active subscription.
Combined == UNION {granted[subs[s].plan] : s \in Active}

Idle(h) == calls[h] = Null

Init ==
    /\ subs = <<>> /\ granted = [plan \in Offered |-> PlanPermissions[plan]]
    /\ cache = Null /\ served = {} /\ calls = [h \in Handlers |-> Null]
    /\ failures = 0 /\ lost = 0

-----------------------------------------------------------------------------
\* Subscriptions.

\* Mutant: the active subscriptions stay active (createFreeSubscription).
CreateBeside(h) ==
    /\ "create" \in Requests /\ Idle(h) /\ Len(subs) < MaxSubs
    /\ \E plan \in Offered :
        calls' = [calls EXCEPT ![h] = [op |-> "create", step |-> "insert", plan |-> plan]]
    /\ UNCHANGED <<subs, granted, cache, served, failures, lost>>

\* createFreeSubscription: UPDATE, INSERT and DEL are separate statements.
CreateFree(h) ==
    /\ "create" \in Requests /\ Idle(h) /\ Len(subs) < MaxSubs
    /\ \E plan \in Offered :
        calls' = [calls EXCEPT ![h] = [op |-> "create", step |-> "insert", plan |-> plan]]
    /\ subs' = [s \in DOMAIN subs |->
                    IF s \in Active THEN [subs[s] EXCEPT !.status = "canceled"] ELSE subs[s]]
    /\ UNCHANGED <<granted, cache, served, failures, lost>>

InsertFree(h) ==
    /\ ~Idle(h) /\ calls[h].step = "insert" /\ Len(subs) < MaxSubs
    /\ subs' = Append(subs, [plan |-> calls[h].plan, status |-> "active", pending |-> Null])
    /\ calls' = [calls EXCEPT ![h].step = "invalidate"]
    /\ UNCHANGED <<granted, cache, served, failures, lost>>

\* upgradeSubscription and downgradeSubscription check the plan they read...
ChangePlan(h) ==
    /\ Idle(h)
    /\ \E direction \in {"upgrade", "downgrade"} \cap Requests, s \in DOMAIN subs, plan \in Offered :
        /\ PlanChangeAllowed(direction, subs[s].plan, plan)
        /\ calls' = [calls EXCEPT ![h] =
                        [op |-> "change", step |-> "update", plan |-> plan, sub |-> s]]
    /\ UNCHANGED <<subs, granted, cache, served, failures, lost>>

\* ...and update the row: a plan to pay for waits in pending_plan_id.
UpdatePlan(h) ==
    /\ ~Idle(h) /\ calls[h].step = "update"
    /\ LET to == calls[h].plan
       IN  subs' = [subs EXCEPT ![calls[h].sub] =
                        IF StatusForPlan(to) = "pending_payment"
                        THEN [@ EXCEPT !.status = "pending_payment", !.pending = to]
                        ELSE [plan |-> to, status |-> "active", pending |-> Null]]
    /\ calls' = [calls EXCEPT ![h].step = "invalidate"]
    /\ UNCHANGED <<granted, cache, served, failures, lost>>

Invalidate(h) ==
    /\ ~Idle(h) /\ calls[h].step = "invalidate"
    /\ cache' = Null /\ calls' = [calls EXCEPT ![h] = Null]
    /\ UNCHANGED <<subs, granted, served, failures, lost>>

\* An approved payment takes the pending plan and activates: no invalidation.
Paid(s) ==
    /\ "pay" \in Requests /\ subs[s].status = "pending_payment"
    /\ subs' = [subs EXCEPT ![s] =
                    [plan |-> IF @.pending = Null THEN @.plan ELSE @.pending,
                     status |-> "active", pending |-> Null]]
    /\ UNCHANGED <<granted, cache, served, calls, failures, lost>>

Suspend(s) ==
    /\ "suspend" \in Requests /\ subs[s].status # "suspended"
    /\ subs' = [subs EXCEPT ![s].status = "suspended"]
    /\ UNCHANGED <<granted, cache, served, calls, failures, lost>>

\* assignPermissionToPlan clears the key of the plan's id, which no company has;
\* removePermission clears nothing.
EditPermission(plan, code) ==
    /\ "edit" \in Requests
    /\ granted' = [granted EXCEPT ![plan] = IF code \in @ THEN @ \ {code} ELSE @ \cup {code}]
    /\ UNCHANGED <<subs, cache, served, calls, failures, lost>>

-----------------------------------------------------------------------------
\* Requests of users.

Answer(needs, permissions) ==
    served' = IF needs \subseteq permissions THEN served \cup {needs} ELSE served \ {needs}

\* What the endpoints that some role of the company may call need of its plan.
Guarded ==
    {e.needs : e \in {x \in Asked :
        /\ x.needs # {} /\ Anonymous \notin x.roles
        /\ \E role \in Roles \ {SuperAdmin} : RoleAllows(x, role)}}

\* PermissionGuard with getOrLoad: the cached set decides, an empty one too.
Use(h) ==
    /\ Idle(h)
    /\ \E needs \in Guarded :
        IF cache # Null
        THEN Answer(needs, cache) /\ UNCHANGED calls
        ELSE /\ calls' = [calls EXCEPT ![h] = [op |-> "use", step |-> "load", needs |-> needs]]
             /\ served' = served \ {needs}
    /\ UNCHANGED <<subs, granted, cache, failures, lost>>

\* auth/me/permissions fills the same key with its own query.
MyPermissions(h) ==
    /\ "mine" \in Requests /\ Idle(h) /\ cache = Null
    /\ calls' = [calls EXCEPT ![h] =
                    [op |-> "mine", step |-> "set", needs |-> {}, permissions |-> Combined]]
    /\ UNCHANGED <<subs, granted, cache, served, failures, lost>>

Loaded(h, permissions) ==
    calls' = [calls EXCEPT ![h] =
                 [op |-> "use", step |-> "set", needs |-> calls[h].needs,
                  permissions |-> permissions]]

Load(h) ==
    /\ ~Idle(h) /\ calls[h].step = "load" /\ Loaded(h, Effective)
    /\ UNCHANGED <<subs, granted, cache, served, failures, lost>>

\* A query that fails is logged, and an empty list is cached in its place.
LoadFails(h) ==
    /\ ~Idle(h) /\ calls[h].step = "load" /\ failures < MaxFailures /\ Loaded(h, {})
    /\ failures' = failures + 1
    /\ UNCHANGED <<subs, granted, cache, served, lost>>

SetCache(h) ==
    /\ ~Idle(h) /\ calls[h].step = "set"
    /\ cache' = calls[h].permissions
    /\ IF calls[h].op = "use" THEN Answer(calls[h].needs, calls[h].permissions)
                              ELSE UNCHANGED served
    /\ calls' = [calls EXCEPT ![h] = Null]
    /\ UNCHANGED <<subs, granted, failures, lost>>

\* Mutant: an empty list never expires.
ExpireUnlessEmpty ==
    /\ cache \notin {Null, {}} /\ cache' = Null
    /\ UNCHANGED <<subs, granted, served, calls, failures, lost>>

\* The five minutes of the key are over.
Expire ==
    /\ cache # Null /\ cache' = Null
    /\ UNCHANGED <<subs, granted, served, calls, failures, lost>>

\* A process dies between two of its statements.
Lose(h) ==
    /\ ~Idle(h) /\ lost < MaxLost /\ lost' = lost + 1
    /\ calls' = [calls EXCEPT ![h] = Null]
    /\ UNCHANGED <<subs, granted, cache, served, failures>>

Continue(h) ==
    InsertFree(h) \/ UpdatePlan(h) \/ Invalidate(h) \/ Load(h) \/ SetCache(h)

Request(h) == CreateFree(h) \/ ChangePlan(h) \/ Use(h) \/ MyPermissions(h)

Next ==
    \/ \E h \in Handlers : Request(h) \/ Continue(h) \/ LoadFails(h) \/ Lose(h)
    \/ \E s \in DOMAIN subs : Paid(s) \/ Suspend(s)
    \/ \E plan \in Offered, code \in Edited : EditPermission(plan, code)
    \/ Expire

Spec == Init /\ [][Next]_vars

\* Calls end, keys expire, and a user who is refused asks again and again: other
\* calls do not keep a request out for ever.
Fairness ==
    /\ \A h \in Handlers : WF_vars(Continue(h))
    /\ SF_vars(\E h \in Handlers : Use(h))
    /\ WF_vars(Expire)

FairSpec == Spec /\ Fairness

-----------------------------------------------------------------------------
SubRows ==
    [plan : Offered, status : Statuses, pending : Offered \cup {Null}]

\* Subscriptions, plan permissions and the cache keep their types.
TypeOK ==
    /\ DOMAIN subs \subseteq 1 .. MaxSubs /\ \A s \in DOMAIN subs : subs[s] \in SubRows
    /\ \A plan \in Offered : granted[plan] \subseteq Codes \cup Edited
    /\ cache = Null \/ cache \subseteq Codes \cup Edited
    /\ failures \in 0 .. MaxFailures /\ lost \in 0 .. MaxLost

\* A company has at most as many active subscriptions as calls overlap: each new
\* free subscription cancels the active ones before it is inserted
\* (createFreeSubscription), which overlapping calls can only exceed by their own.
ActivePlansNearOne == Cardinality(Active) <= Cardinality(Handlers)

\* A change to a higher tier takes no permission away and lowers no limit, however the
\* change came about (upgradeSubscription, the payment, the plans-v2 catalogue).  The
\* audiences are compatible unless a payment activates another plan between the check
\* of a change and its UPDATE.
NothingLost(from, to) ==
    /\ PlanPermissions[from] \subseteq PlanPermissions[to]
    /\ \A code \in DOMAIN PlanLimits :
        Null \notin {PlanLimits[code][from], PlanLimits[code][to]}
            => PlanLimits[code][from] <= PlanLimits[code][to]

UpgradeKeepsAccess ==
    [][\A s \in DOMAIN subs :
        (/\ Tier[subs'[s].plan] > Tier[subs[s].plan]
         /\ CompatibleAudience(subs[s].plan, subs'[s].plan))
            => NothingLost(subs[s].plan, subs'[s].plan)]_vars

\* What a company is entitled to is granted in the end to a user who keeps asking,
\* or stops being due: a stale copy, an empty list cached when the query failed and
\* a fill that overtakes a plan change all expire (PermissionGuard).
EntitledIsServed ==
    \A needs \in Guarded :
        needs \subseteq Effective
            ~> (needs \in served \/ ~(needs \subseteq Effective))
==============================================================================
