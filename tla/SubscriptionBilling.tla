------------------------- MODULE SubscriptionBilling -------------------------
(***************************************************************************)
(* Recurring billing of one company: the subscriptions table, the BullMQ   *)
(* queue "subscription-renewal" and its processor, the hourly and          *)
(* six-hourly scans, manual retry, checkouts, and the payment provider's   *)
(* webhooks.                                                               *)
(*                                                                         *)
(* A call is anything in flight: a job, a cron callback, an HTTP request.  *)
(* It runs from one await to the next without interruption, so each action *)
(* below ends where the code awaits.  A call that loaded a row works on    *)
(* its copy, and repo.save(copy) writes every column of the copy back:     *)
(* there is no version column, no row lock and no transaction around the   *)
(* read and the write.                                                     *)
(***************************************************************************)
EXTENDS SubscriptionRows, Sequences

CONSTANTS
    Subs,        \* subscription ids of the company
    Handlers,    \* calls that may be in flight at the same time
    PayIds,      \* payment ids of the provider
    Attempts,    \* attempts of a scheduled job (3 in the code)
    FirstPeriod, \* whether the company is in its first period
    RetryWait,   \* RETRY_THROTTLE_MS
    Requests,    \* the requests that clients send: a subset of RequestKinds
    Outcomes,    \* what the provider may report of a payment
    MaxTime,     \* bound: the clock stops here
    MaxCheckouts,\* bound: checkouts after which customers start no more
    MaxFailures, \* bound: checkouts the provider refuses or times out
    MaxCrashes,  \* bound: calls lost to a crash of their process
    MaxChanges,  \* bound: requests that update a row without loading it
    MaxSpent     \* bound: the last three together

\* payment.cancelled is treated as rejected; pending and unknown have no effect.
EventTypes == {"approved", "rejected", "refunded", "pending"}

RequestKinds == {"signup", "cancel", "change", "suspend", "retry", "checkout"}

Bounds == {"failures", "crashes", "changes"}

ASSUME BillingAssumption ==
    /\ {Attempts, RetryWait, MaxTime, MaxCheckouts, MaxFailures, MaxCrashes,
        MaxChanges, MaxSpent} \subseteq Nat
    /\ FirstPeriod \in BOOLEAN
    /\ Requests \subseteq RequestKinds
    /\ Outcomes \subseteq EventTypes
    /\ Null \notin Subs \cup PayIds

VARIABLES
    now,       \* the clock
    rows,      \* table subscriptions: Subs -> row, Null when absent
    jobs,      \* the queue
    calls,     \* Handlers -> the call in flight, or Idle
    checkouts, \* checkouts the provider made so far
    offered,   \* those whose link reached the customer
    payments,  \* the provider's side: PayIds -> [ref, status]
    events,    \* table payment_events: PayIds -> [sub, type], Null when absent
    invoices,  \* table invoices: PayIds -> statuses written for that payment
    spent      \* how much of each bound is used

provider == <<checkouts, offered, payments>>
ledger   == <<events, invoices>>
vars     == <<now, rows, jobs, calls, provider, ledger, spent>>

\* Where a call waits: its operation and the database or provider step next.
Steps == {"idle",
          "renewSave", "renewCheckout", "renewCharge", "renewFinish", "renewFail",
          "retryCheckout", "retryCharge", "retryFinish",
          "checkoutCharge",
          "warnSave", "suspendSave",
          "hookRecord", "hookApply", "hookInvoice"}

RenewSteps == {"renewSave", "renewCheckout", "renewCharge", "renewFinish", "renewFail"}

\* A job id is "renew-<sub>-<end>", or the bare subscription id (end = Null)
\* for the delayed job of createFreeSubscription; it runs from instant at on.
Job == [sub : Subs, end : Nat \cup {Null},
        state : {"waiting", "active", "failed"}, tries : Nat, at : Nat]

\* copy is the row the operation loaded, inner the one createCheckout loaded,
\* since the instant at which it loaded the first.
Call == [step : Steps, sub : Subs \cup {Null}, copy : Row \cup {Null},
         inner : Row \cup {Null}, since : Nat, jobEnd : Nat \cup {Null},
         pay : PayIds \cup {Null}, type : EventTypes \cup {Null}]

Idle == [step |-> "idle", sub |-> Null, copy |-> Null, inner |-> Null,
         since |-> 0, jobEnd |-> Null, pay |-> Null, type |-> Null]

Event == [sub : Subs \cup {Null}, type : EventTypes]

ASSUME NullIsNoEvent == Null \notin Event

\* Type correctness of the tables, the queue, the calls and the provider.
TypeOK ==
    /\ now \in Nat
    /\ rows \in [Subs -> Row \cup {Null}]
    /\ jobs \subseteq Job
    /\ calls \in [Handlers -> Call]
    /\ checkouts \in Nat
    /\ offered \subseteq Nat
    /\ payments \in [PayIds -> [ref : Nat, status : {"none"} \cup EventTypes]]
    /\ events \in [PayIds -> Event \cup {Null}]
    /\ invoices \in [PayIds -> Seq({"paid", "void", "refunded"})]
    /\ spent \in [Bounds -> Nat]

\* The job that createFreeSubscription delays until the end of the period.
SignupJob(s, t) ==
    [sub |-> s, end |-> Null, state |-> "waiting", tries |-> 0, at |-> t + Month]

\* The company has one subscription, at the start of its first period or, its
\* signup job having run, of a later one.
Init ==
    /\ now = 0
    /\ \E s \in Subs, plan \in SignupPlans :
         /\ rows = [x \in Subs |-> IF x = s THEN NewRow(plan, 0) ELSE Null]
         /\ jobs = IF FirstPeriod THEN {SignupJob(s, 0)} ELSE {}
    /\ calls = [h \in Handlers |-> Idle]
    /\ checkouts = 0 /\ offered = {}
    /\ payments = [p \in PayIds |-> [ref |-> 0, status |-> "none"]]
    /\ events = [p \in PayIds |-> Null]
    /\ invoices = [p \in PayIds |-> << >>]
    /\ spent = [b \in Bounds |-> 0]

-----------------------------------------------------------------------------
\* Helpers.

Existing == {s \in Subs : rows[s] # Null}

Begin(h, call) == calls' = [calls EXCEPT ![h] = call]

End(h) == calls' = [calls EXCEPT ![h] = Idle]

\* repo.save(copy): every column of the copy overwrites the stored row.
Save(s, copy) == rows' = [rows EXCEPT ![s] = copy]

Spend(bound, max) ==
    /\ spent[bound] < max
    /\ spent["failures"] + spent["crashes"] + spent["changes"] < MaxSpent
    /\ spent' = [spent EXCEPT ![bound] = @ + 1]

IsJobOf(h, job) == job.sub = calls[h].sub /\ job.end = calls[h].jobEnd

\* removeOnComplete: the id may be added again.
CompleteJob(h) == jobs' = {job \in jobs : ~IsJobOf(h, job)}

\* queue.add is ignored while a job with the same id is kept.
Addable(new) == {job \in new : \A old \in jobs : job.sub # old.sub \/ job.end # old.end}

\* One more attempt is spent; the last one leaves the job failed, and kept
\* (removeOnFail: false) unless it is the delayed job of the signup, which
\* has a single attempt and is removed.
FailJob(h) ==
    jobs' = {IF ~IsJobOf(h, job) THEN job
             ELSE [job EXCEPT !.tries = @ + 1,
                              !.state = IF job.tries + 1 < Attempts THEN "waiting" ELSE "failed"]
             : job \in {j \in jobs : ~(IsJobOf(h, j) /\ j.end = Null)}}

-----------------------------------------------------------------------------
\* Requests that update or insert rows without loading them first.

CreateFree(s, plan) ==
    /\ "signup" \in Requests
    /\ rows[s] = Null
    /\ rows' = [x \in Subs |->
                  IF x = s THEN NewRow(plan, now)
                  ELSE IF rows[x] # Null /\ rows[x].status = "active"
                       THEN [rows[x] EXCEPT !.status = "canceled"]
                       ELSE rows[x]]
    /\ jobs' = jobs \cup Addable({SignupJob(s, now)})
    /\ UNCHANGED <<now, calls, provider, ledger, spent>>

CancelSubscription(s) ==
    /\ "cancel" \in Requests
    /\ Spend("changes", MaxChanges)
    /\ Save(s, [rows[s] EXCEPT !.status = "canceled"])
    /\ UNCHANGED <<now, jobs, calls, provider, ledger>>

SuspendSubscription(s) ==
    /\ "suspend" \in Requests
    /\ Spend("changes", MaxChanges)
    /\ Save(s, Suspend(rows[s]))
    /\ UNCHANGED <<now, jobs, calls, provider, ledger>>

ChangeSubscription(s, plan) ==
    /\ "change" \in Requests
    /\ Spend("changes", MaxChanges)
    /\ Save(s, ChangePlan(rows[s], plan, now))
    /\ UNCHANGED <<now, jobs, calls, provider, ledger>>

-----------------------------------------------------------------------------
\* RenewalSchedulerService.scan: one job per candidate.

RenewalScan ==
    /\ jobs' = jobs \cup Addable(
                 {[sub |-> s, end |-> rows[s].end, state |-> "waiting",
                   tries |-> 0, at |-> 0] :
                  s \in {x \in Existing : RenewalCandidate(rows[x], now)}})
    /\ jobs' # jobs
    /\ UNCHANGED <<now, rows, calls, provider, ledger, spent>>

-----------------------------------------------------------------------------
\* SubscriptionRenewalProcessor.process.

RenewStart(h, job) ==
    /\ calls[h].step = "idle"
    /\ job.state = "waiting" /\ job.at <= now
    /\ LET row == rows[job.sub] IN
         IF RenewalDecision(row, now) = "noop"
         THEN jobs' = jobs \ {job} /\ UNCHANGED calls
         ELSE /\ jobs' = (jobs \ {job}) \cup {[job EXCEPT !.state = "active"]}
              /\ Begin(h, [Idle EXCEPT
                     !.step = IF RenewalDecision(row, now) = "charge"
                              THEN "renewCheckout" ELSE "renewSave",
                     !.sub = job.sub, !.copy = RenewalDraft(row, now),
                     !.since = now, !.jobEnd = job.end])
    /\ UNCHANGED <<now, rows, provider, ledger, spent>>

RenewSave(h) ==
    /\ calls[h].step = "renewSave"
    /\ Save(calls[h].sub, calls[h].copy)
    /\ CompleteJob(h) /\ End(h)
    /\ UNCHANGED <<now, provider, ledger, spent>>

RenewFinish(h) ==
    /\ calls[h].step = "renewFinish"
    /\ Save(calls[h].sub, [calls[h].copy EXCEPT !.attempt = calls[h].since])
    /\ offered' = offered \cup {calls[h].copy.link}
    /\ CompleteJob(h) /\ End(h)
    /\ UNCHANGED <<now, checkouts, payments, ledger, spent>>

\* The catch block: the attempt is recorded and BullMQ retries the job.
RenewFail(h) ==
    /\ calls[h].step = "renewFail"
    /\ Save(calls[h].sub, [calls[h].copy EXCEPT !.attempt = calls[h].since])
    /\ FailJob(h) /\ End(h)
    /\ UNCHANGED <<now, provider, ledger, spent>>

-----------------------------------------------------------------------------
\* BillingService.retry, for the retriable subscription with the latest end.

Retriable == {s \in Existing : WasInactive(rows[s])}

RetryStart(h, s) ==
    /\ "retry" \in Requests
    /\ calls[h].step = "idle" /\ checkouts < MaxCheckouts
    /\ s \in Retriable /\ \A x \in Retriable : rows[x].end <= rows[s].end
    /\ AttemptedBefore(rows[s], RetryWait, now)
    /\ rows[s].plan \in PaidPlans
    /\ Begin(h, [Idle EXCEPT !.step = "retryCheckout", !.sub = s,
                             !.copy = rows[s], !.since = now])
    /\ UNCHANGED <<now, rows, jobs, provider, ledger, spent>>

RetryFinish(h) ==
    /\ calls[h].step = "retryFinish"
    /\ Save(calls[h].sub, [calls[h].copy EXCEPT !.attempt = now])
    /\ offered' = offered \cup {calls[h].copy.link}
    /\ End(h)
    /\ UNCHANGED <<now, jobs, checkouts, payments, ledger, spent>>

-----------------------------------------------------------------------------
\* PaymentsService.createCheckout, called by the processor, by retry and by
\* POST /payments/checkout: load a copy, call the provider, save the copy.

NextStep == [renewCheckout |-> "renewCharge", renewCharge |-> "renewFinish",
             retryCheckout |-> "retryCharge", retryCharge |-> "retryFinish"]

CheckoutStart(h, s) ==
    /\ "checkout" \in Requests
    /\ calls[h].step = "idle" /\ checkouts < MaxCheckouts
    /\ Begin(h, [Idle EXCEPT !.step = "checkoutCharge", !.sub = s,
                             !.inner = rows[s], !.since = now])
    /\ UNCHANGED <<now, rows, jobs, provider, ledger, spent>>

LoadForCheckout(h) ==
    /\ calls[h].step \in {"renewCheckout", "retryCheckout"}
    /\ Begin(h, [calls[h] EXCEPT !.step = NextStep[calls[h].step],
                                 !.inner = rows[calls[h].sub]])
    /\ UNCHANGED <<now, rows, jobs, provider, ledger, spent>>

\* The caller gets the checkout's link only after createCheckout has saved.
CheckoutAnswered(h) ==
    /\ calls[h].step \in {"renewCharge", "retryCharge", "checkoutCharge"}
    /\ checkouts' = checkouts + 1
    /\ Save(calls[h].sub, [calls[h].inner EXCEPT !.ref = checkouts'])
    /\ IF calls[h].step = "checkoutCharge"
       THEN End(h) /\ offered' = offered \cup {checkouts'}
       ELSE /\ Begin(h, [calls[h] EXCEPT !.step = NextStep[calls[h].step],
                                         !.copy = [@ EXCEPT !.link = checkouts']])
            /\ UNCHANGED offered
    /\ UNCHANGED <<now, jobs, payments, ledger, spent>>

CheckoutRefused(h) ==
    /\ calls[h].step \in {"renewCharge", "retryCharge", "checkoutCharge"}
    /\ Spend("failures", MaxFailures)
    /\ IF calls[h].step = "renewCharge"
       THEN Begin(h, [calls[h] EXCEPT !.step = "renewFail"])
       ELSE End(h)
    /\ UNCHANGED <<now, rows, jobs, provider, ledger>>

-----------------------------------------------------------------------------
\* scanGraceEnding and scanSuspendOverdue: each candidate is loaded, its
\* plan's name awaited, and the copy saved.

WarnStart(h, s) ==
    /\ calls[h].step = "idle"
    /\ GraceEndingCandidate(rows[s], now)
    /\ Begin(h, [Idle EXCEPT !.step = "warnSave", !.sub = s, !.since = now,
                             !.copy = [rows[s] EXCEPT !.warned = TRUE]])
    /\ UNCHANGED <<now, rows, jobs, provider, ledger, spent>>

SuspendStart(h, s) ==
    /\ calls[h].step = "idle"
    /\ OverdueCandidate(rows[s], now)
    /\ Begin(h, [Idle EXCEPT !.step = "suspendSave", !.sub = s, !.since = now,
                             !.copy = Suspend(rows[s])])
    /\ UNCHANGED <<now, rows, jobs, provider, ledger, spent>>

ScanSave(h) ==
    /\ calls[h].step \in {"warnSave", "suspendSave"}
    /\ Save(calls[h].sub, calls[h].copy)
    /\ End(h)
    /\ UNCHANGED <<now, jobs, provider, ledger, spent>>

-----------------------------------------------------------------------------
\* The payment provider and its customers (external).

Pay(p, ref, status) ==
    /\ payments[p].status = "none" /\ status # "refunded"
    /\ payments' = [payments EXCEPT ![p] = [ref |-> ref, status |-> status]]
    /\ UNCHANGED <<now, rows, jobs, calls, checkouts, offered, ledger, spent>>

Settle(p, status) ==
    /\ \/ payments[p].status = "pending" /\ status \in {"approved", "rejected"}
       \/ payments[p].status = "approved" /\ status = "refunded"
    /\ payments' = [payments EXCEPT ![p].status = status]
    /\ UNCHANGED <<now, rows, jobs, calls, checkouts, offered, ledger, spent>>

-----------------------------------------------------------------------------
\* PaymentsService.processWebhook.  A notification of a payment whose event
\* is recorded is answered without effect.

BoundTo(ref) == {s \in Existing : rows[s].ref = ref}

HookRead(h, p) ==
    /\ calls[h].step = "idle"
    /\ payments[p].status # "none"
    /\ events[p] = Null
    /\ LET found == BoundTo(payments[p].ref)
           call  == [Idle EXCEPT !.step = "hookRecord", !.since = now,
                                 !.pay = p, !.type = payments[p].status]
       IN  IF found = {} THEN Begin(h, call)
           ELSE \E s \in found : Begin(h, [call EXCEPT !.sub = s, !.copy = rows[s]])
    /\ UNCHANGED <<now, rows, jobs, provider, ledger, spent>>

\* Mutant: no unique index.
HookRecordTwice(h) ==
    /\ calls[h].step = "hookRecord"
    /\ events' = [events EXCEPT ![calls[h].pay] = [sub |-> calls[h].sub, type |-> calls[h].type]]
    /\ IF calls[h].sub = Null \/ calls[h].type = "pending"
       THEN End(h)
       ELSE Begin(h, [calls[h] EXCEPT !.step = "hookApply"])
    /\ UNCHANGED <<now, rows, jobs, provider, invoices, spent>>

\* Mutant: an event without a subscription is not stored.
HookRecordNoOrphan(h) ==
    /\ calls[h].step = "hookRecord"
    /\ IF events[calls[h].pay] # Null \/ calls[h].sub = Null
       THEN End(h) /\ UNCHANGED events
       ELSE /\ events' = [events EXCEPT ![calls[h].pay] = [sub |-> calls[h].sub, type |-> calls[h].type]]
            /\ Begin(h, [calls[h] EXCEPT !.step = "hookApply"])
    /\ UNCHANGED <<now, rows, jobs, provider, invoices, spent>>

\* The unique index on (provider, external_id) refuses a second insert, and
\* the call ends with an error.
HookRecord(h) ==
    /\ calls[h].step = "hookRecord"
    /\ LET p == calls[h].pay IN
         IF events[p] # Null
         THEN End(h) /\ UNCHANGED events
         ELSE /\ events' = [events EXCEPT ![p] = [sub |-> calls[h].sub, type |-> calls[h].type]]
              /\ IF calls[h].sub = Null \/ calls[h].type = "pending"
                 THEN End(h)
                 ELSE Begin(h, [calls[h] EXCEPT !.step = "hookApply"])
    /\ UNCHANGED <<now, rows, jobs, provider, invoices, spent>>

HookApply(h) ==
    /\ calls[h].step = "hookApply"
    /\ Save(calls[h].sub, ApplyEvent(calls[h].copy, calls[h].type, now))
    /\ Begin(h, [calls[h] EXCEPT !.step = "hookInvoice"])
    /\ UNCHANGED <<now, jobs, provider, ledger, spent>>

HookInvoice(h) ==
    /\ calls[h].step = "hookInvoice"
    /\ invoices' = [invoices EXCEPT ![calls[h].pay] = Append(@, InvoiceStatus(calls[h].type))]
    /\ End(h)
    /\ UNCHANGED <<now, rows, jobs, provider, events, spent>>

-----------------------------------------------------------------------------
\* A crash loses the call.  BullMQ finds the job stalled and hands it out again.
Crash(h) ==
    /\ calls[h].step # "idle"
    /\ Spend("crashes", MaxCrashes)
    /\ jobs' = IF calls[h].step \in RenewSteps
               THEN {IF IsJobOf(h, job) THEN [job EXCEPT !.state = "waiting"] ELSE job
                     : job \in jobs}
               ELSE jobs
    /\ End(h)
    /\ UNCHANGED <<now, rows, provider, ledger>>

\* A call takes seconds (the provider's timeout is 8 s) and a unit of the
\* clock is hours, so at most one tick happens while a call is in flight.
Tick ==
    /\ now < MaxTime
    /\ \A h \in Handlers : calls[h].step = "idle" \/ calls[h].since = now
    /\ now' = now + 1
    /\ UNCHANGED <<rows, jobs, calls, provider, ledger, spent>>

\* What a call in flight does next.
Continue(h) ==
    \/ RenewSave(h) \/ RenewFinish(h) \/ RenewFail(h)
    \/ LoadForCheckout(h) \/ CheckoutAnswered(h) \/ RetryFinish(h)
    \/ ScanSave(h)
    \/ HookRecord(h) \/ HookApply(h) \/ HookInvoice(h)

Next ==
    \/ Tick
    \/ RenewalScan
    \/ \E s \in Subs, plan \in SignupPlans : CreateFree(s, plan)
    \/ \E s \in Existing : CancelSubscription(s) \/ SuspendSubscription(s)
    \/ \E s \in Existing, plan \in Plans : ChangeSubscription(s, plan)
    \/ \E p \in PayIds, ref \in offered, status \in Outcomes : Pay(p, ref, status)
    \/ \E p \in PayIds, status \in Outcomes : Settle(p, status)
    \/ \E h \in Handlers :
         \/ Continue(h)
         \/ CheckoutRefused(h)
         \/ Crash(h)
         \/ \E job \in jobs : RenewStart(h, job)
         \/ \E s \in Existing : RetryStart(h, s) \/ CheckoutStart(h, s)
                                \/ WarnStart(h, s) \/ SuspendStart(h, s)
         \/ \E p \in PayIds : HookRead(h, p)

Spec == Init /\ [][Next]_vars

\* The process keeps running what it started, the crons keep firing, the
\* worker takes the jobs that are due, the provider repeats a notification
\* until it is recorded, and time passes.  Nothing obliges a customer to pay.
Fairness ==
    /\ WF_vars(Tick)
    /\ WF_vars(RenewalScan)
    /\ \A h \in Handlers : WF_vars(Continue(h))
    /\ WF_vars(\E h \in Handlers : \E job \in jobs : RenewStart(h, job))
    /\ \A s \in Subs :
         WF_vars(\E h \in Handlers : s \in Existing /\ SuspendStart(h, s))
    /\ \A p \in PayIds : WF_vars(\E h \in Handlers : HookRead(h, p))

FairSpec == Spec /\ Fairness

-----------------------------------------------------------------------------
\* Properties.

\* PAY-002.  However often a notification is repeated, whatever the order of
\* concurrent calls and crashes, a payment leaves at most one invoice.
OneInvoicePerPayment == \A p \in PayIds : Len(invoices[p]) <= 1

\* A company is on a paid plan it did not sign up with only if the provider
\* approved a payment of that subscription: upgradeSubscription parks the
\* plan in pending_plan_id, and no out-of-date copy written back by another
\* call brings an unpaid plan in force.
PaidPlanWasPaid ==
    \A s \in Existing :
        rows[s].plan \in PaidPlans \ SignupPlans =>
            \E p \in PayIds : events[p] = [sub |-> s, type |-> "approved"]

\* REN-008.  The flag that silences the "your grace ends in 24 h" warning
\* never outlives the grace it warned about, so a later grace is warned too.
WarningBelongsToOpenGrace ==
    \A s \in Existing : rows[s].warned => rows[s].grace # Null

\* REN-005 and REN-009.  Unless an administrator did it, a subscription is
\* suspended only when a grace deadline it was given has passed.
SuspendedOnlyOverdue ==
    \A s \in Existing :
        rows[s].status = "suspended" => GraceExpired(rows[s], now)

\* Every payment the provider reports ends up in payment_events.
EveryPaymentRecorded ==
    \A p \in PayIds : (payments[p].status # "none") ~> (events[p] # Null)

\* A payment that stays approved ends up recorded as approved.
ApprovalRecorded ==
    \A p \in PayIds :
        (payments[p].status = "approved") ~>
            (events[p] # Null /\ events[p].type \in {"approved", "refunded"})

\* REN-004.  A paid plan does not stay active beyond the end of its period:
\* the processor opens a grace, or a payment starts a new period.
ExpiredPaidPlan(s) ==
    /\ s \in Existing
    /\ rows[s].status = "active" /\ rows[s].plan \in PaidPlans
    /\ PeriodEnded(rows[s], now)

ExpiryIsHandled ==
    \A s \in Subs :
        (ExpiredPaidPlan(s) /\ now + Throttle <= MaxTime) ~> ~ExpiredPaidPlan(s)

\* REN-009.  A grace that has run out is decided: paid, suspended or canceled.
OverduePayment(s) ==
    /\ s \in Existing
    /\ rows[s].status = "pending_payment" /\ GraceExpired(rows[s], now)

OverdueIsDecided == \A s \in Subs : OverduePayment(s) ~> ~OverduePayment(s)
=============================================================================
