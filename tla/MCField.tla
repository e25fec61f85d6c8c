------------------------------- MODULE MCField -------------------------------
\* What has to happen in the end, in three scenes that do not interact: the stops of
\* a run, the billing cycle, and a user who keeps asking for what the plan grants.
\* A behaviour plays one scene; the variables of the others keep their first value.
EXTENDS Integers, FiniteSets

CONSTANTS Null, h1, h2, r1, s1, s2, d1, t1, p1, b1, free, pro

VARIABLES
    scene,
    rounds, stops, steps, dropped,                        \* scene "stops"
    now, rows, jobs, calls, checkouts, offered, payments, \* scene "billing"
    events, invoices, spent,
    subs, granted, cache, served, asks, misses, lost      \* scene "access"

stopVars == <<rounds, stops, steps, dropped>>
billingVars ==
    <<now, rows, jobs, calls, checkouts, offered, payments, events, invoices, spent>>
accessVars == <<subs, granted, cache, served, asks, misses, lost>>
vars == <<scene, stopVars, billingVars, accessVars>>

\* The stops of one run, one call at a time, none lost.
Round == INSTANCE Dispatch WITH
    runs <- rounds, ships <- stops, calls <- steps, lost <- dropped,
    Handlers <- {h1}, Runs <- {r1}, Shipments <- {s1, s2}, Drivers <- {d1}, Trucks <- {t1},
    Requests <- {"create", "add", "remove", "start", "cancel", "done", "incident",
                 "transit", "arrive", "newShipment"},
    NewStatuses <- {"confirmed"},
    MaxLost <- 0

\* The crons, the worker and the provider together, with fewer refusals than a job
\* has attempts.
Billing == INSTANCE SubscriptionBilling WITH
    Plans <- {free, pro}, PaidPlans <- {pro}, SignupPlans <- {free, pro},
    Subs <- {b1}, Handlers <- {h1, h2}, PayIds <- {p1},
    FirstPeriod <- FALSE, Requests <- {}, Outcomes <- {"approved"},
    Month <- 1, Grace <- 1, LookAhead <- 1, Throttle <- 1, Warning <- 1,
    Attempts <- 2, RetryWait <- 0,
    MaxTime <- 2, MaxCheckouts <- 1,
    MaxFailures <- 1, MaxCrashes <- 0, MaxChanges <- 0, MaxSpent <- 1

Doors == INSTANCE Endpoints

\* Two calls at a time, one of which may be lost and one whose query may fail.
Guard == INSTANCE Access WITH
    calls <- asks, failures <- misses,
    Handlers <- {h1, h2}, Offered <- {"free_courier", "pro_courier"}, Asked <- Doors!ChatController,
    Edited <- {}, Requests <- {"create", "upgrade", "pay", "suspend"},
    MaxSubs <- 1, MaxFailures <- 1, MaxLost <- 1

Init ==
    /\ scene \in {"stops", "billing", "access"}
    /\ Round!Init /\ Billing!Init /\ Guard!Init
    /\ scene # "billing" => rows[b1].plan = free

NotStops == UNCHANGED <<scene, billingVars, accessVars>>
NotBilling == UNCHANGED <<scene, stopVars, accessVars>>
NotAccess == UNCHANGED <<scene, stopVars, billingVars>>

Next ==
    \/ scene = "stops" /\ Round!Next /\ NotStops
    \/ scene = "billing" /\ Billing!Next /\ NotBilling
    \/ scene = "access" /\ Guard!Next /\ NotAccess

\* The fairness that each component states, in its scene.
Fairness ==
    /\ WF_vars(scene = "stops" /\ Round!Continue(h1) /\ NotStops)
    /\ WF_vars(scene = "billing" /\ Billing!Tick /\ NotBilling)
    /\ WF_vars(scene = "billing" /\ Billing!RenewalScan /\ NotBilling)
    /\ WF_vars(scene = "billing" /\ NotBilling
                 /\ \E h \in {h1, h2}, job \in jobs : Billing!RenewStart(h, job))
    /\ WF_vars(scene = "billing" /\ NotBilling
                 /\ \E h \in {h1, h2} : b1 \in Billing!Existing /\ Billing!SuspendStart(h, b1))
    /\ WF_vars(scene = "billing" /\ NotBilling
                 /\ \E h \in {h1, h2} : Billing!HookRead(h, p1))
    /\ \A h \in {h1, h2} :
         /\ WF_vars(scene = "billing" /\ Billing!Continue(h) /\ NotBilling)
         /\ WF_vars(scene = "access" /\ Guard!Continue(h) /\ NotAccess)
    /\ SF_vars(scene = "access" /\ (\E h \in {h1, h2} : Guard!Use(h)) /\ NotAccess)
    /\ WF_vars(scene = "access" /\ Guard!Expire /\ NotAccess)

Spec == Init /\ [][Next]_vars /\ Fairness

-----------------------------------------------------------------------------
\* A run whose last stop is closed completes (Dispatch).
ClosedRunCompletes == Round!ClosedRunCompletes

\* A paid plan that expires is handled (SubscriptionBilling).
ExpiryIsHandled == Billing!ExpiryIsHandled

\* What the provider took is recorded (SubscriptionBilling).
EveryPaymentRecorded == Billing!EveryPaymentRecorded

\* A grace that ran out is decided (SubscriptionBilling).
OverdueIsDecided == Billing!OverdueIsDecided

\* What the plan grants is granted in the end to who keeps asking (Access).
EntitledIsServed == Guard!EntitledIsServed
==============================================================================
