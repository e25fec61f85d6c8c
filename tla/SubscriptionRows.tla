-------------------------- MODULE SubscriptionRows --------------------------
(***************************************************************************)
(* The row of table "subscriptions" and what the billing code decides and  *)
(* computes from one loaded copy of it: the scheduler's candidate queries, *)
(* the renewal processor's branches, the effect of a payment event and of  *)
(* a plan change.  No operator here reads or writes shared state: the      *)
(* handlers of SubscriptionBilling do, and they may apply these functions  *)
(* to a copy that is already out of date.                                  *)
(***************************************************************************)
EXTENDS Naturals

CONSTANTS
    Null,          \* SQL NULL
    Plans,         \* the rows of table plans
    PaidPlans,     \* those with price > 0
    SignupPlans,   \* the plans a company may be created with
    Month,         \* a billing period (30 days, or setMonth(+1))
    Grace,         \* GRACE_DAYS
    LookAhead,     \* LOOKAHEAD_MS
    Throttle,      \* THROTTLE_MS
    Warning        \* GRACE_ENDING_MS

ASSUME RowAssumption ==
    /\ PaidPlans \subseteq Plans
    /\ SignupPlans \subseteq Plans
    /\ {Month, Grace, LookAhead, Throttle, Warning} \subseteq Nat
    /\ Null \notin Nat
    /\ Null \notin Plans

Statuses == {"active", "pending_payment", "suspended", "canceled"}

\* end is current_period_end, grace is grace_period_until, warned tells
\* whether grace_warning_sent_at is set, attempt is last_renewal_attempt_at,
\* ref is external_reference and link is the checkout that
\* last_renewal_init_point leads to (checkouts are numbered as they are made).
Row == [status  : Statuses,
        plan    : Plans,
        pending : Plans \cup {Null},
        end     : Nat,
        grace   : Nat \cup {Null},
        warned  : BOOLEAN,
        attempt : Nat \cup {Null},
        ref     : Nat \cup {Null},
        link    : Nat \cup {Null}]

ASSUME NullIsNoRow == Null \notin Row

NewRow(plan, t) ==
    [status |-> "active", plan |-> plan, pending |-> Null, end |-> t + Month,
     grace |-> Null, warned |-> FALSE, attempt |-> Null, ref |-> Null,
     link |-> Null]

-----------------------------------------------------------------------------
\* Queries of RenewalSchedulerService.

PeriodEnded(row, t) == row.end <= t

GraceExpired(row, t) == row.grace # Null /\ row.grace <= t

AttemptedBefore(row, wait, t) == row.attempt # Null => row.attempt + wait <= t

RenewalCandidate(row, t) ==
    /\ row.status \in {"active", "pending_payment"}
    /\ row.end <= t + LookAhead
    /\ AttemptedBefore(row, Throttle, t)

GraceEndingCandidate(row, t) ==
    /\ row.status = "pending_payment"
    /\ row.grace # Null /\ row.grace \in t .. (t + Warning)
    /\ ~row.warned

\* Mutant: looks at the period instead of the grace.
OverdueByPeriod(row, t) ==
    /\ row.status \in {"pending_payment", "active"}
    /\ PeriodEnded(row, t)

OverdueCandidate(row, t) ==
    /\ row.status \in {"pending_payment", "active"}
    /\ GraceExpired(row, t)

\* Mutant: the status is not stored.
SuspendUnstored(row) == row

Suspend(row) == [row EXCEPT !.status = "suspended"]

-----------------------------------------------------------------------------
\* Branches of SubscriptionRenewalProcessor.process.

RenewalDecision(row, t) ==
    CASE row.status = "canceled" -> "noop"
      [] row.status \in {"active", "pending_payment"}
           /\ PeriodEnded(row, t) /\ GraceExpired(row, t) -> "suspend"
      [] OTHER -> IF row.plan \in PaidPlans THEN "charge" ELSE "extend"

\* Mutant: an expired period changes nothing.
OpenNoGrace(row, t) == row

OpenGrace(row, t) ==
    IF PeriodEnded(row, t) /\ row.grace = Null
    THEN [row EXCEPT !.grace = t + Grace, !.status = "pending_payment"]
    ELSE row

\* Free plan: one more month, whatever the status was.
Extend(row, t) ==
    [row EXCEPT !.end = @ + Month, !.status = "active", !.grace = Null,
                !.warned = FALSE, !.attempt = t]

\* What process() holds in memory when it reaches its awaits.
RenewalDraft(row, t) ==
    CASE RenewalDecision(row, t) = "suspend" -> Suspend(row)
      [] RenewalDecision(row, t) = "extend"  -> Extend(row, t)
      [] OTHER                               -> OpenGrace(row, t)

-----------------------------------------------------------------------------
\* PaymentsService.applyEventToSubscription.

WasInactive(row) == row.status \in {"pending_payment", "suspended"}

ReactivatedEnd(row, t) == (IF row.end > t THEN row.end ELSE t) + Month

\* Mutant: the warning flag survives the grace.
ApproveKeepingWarning(row, t) ==
    [row EXCEPT !.end = IF row.pending # Null /\ ~WasInactive(row) THEN t + Month
                        ELSE IF WasInactive(row) THEN ReactivatedEnd(row, t)
                        ELSE @,
                !.plan = IF row.pending # Null THEN row.pending ELSE @,
                !.pending = Null, !.status = "active", !.grace = Null,
                !.link = Null]

\* A pending plan restarts the period when the subscription was in force;
\* otherwise its 30 days start where the reactivated period starts.
Approve(row, t) ==
    [row EXCEPT !.end = IF row.pending # Null /\ ~WasInactive(row) THEN t + Month
                        ELSE IF WasInactive(row) THEN ReactivatedEnd(row, t)
                        ELSE @,
                !.plan = IF row.pending # Null THEN row.pending ELSE @,
                !.pending = Null, !.status = "active", !.grace = Null,
                !.warned = FALSE, !.link = Null]

ApplyEvent(row, type, t) ==
    CASE type = "approved" -> Approve(row, t)
      [] type = "rejected" -> [row EXCEPT !.status = "pending_payment"]
      [] type = "refunded" -> [row EXCEPT !.status = "canceled"]
      [] OTHER             -> row

\* Mutant: the event's name is stored as the invoice's status.
InvoiceStatusAsEvent(type) == type

InvoiceStatus(type) ==
    CASE type = "approved" -> "paid"
      [] type = "rejected" -> "void"
      [] OTHER             -> "refunded"

-----------------------------------------------------------------------------
\* upgradeSubscription / downgradeSubscription: UPDATE of some columns only.

\* Mutant: the new plan is in force before it is paid.
ChangePlanAtOnce(row, plan, t) ==
    [row EXCEPT !.plan = plan, !.status = "pending_payment"]

ChangePlan(row, plan, t) ==
    IF plan \in PaidPlans
    THEN [row EXCEPT !.status = "pending_payment", !.pending = plan]
    ELSE [row EXCEPT !.plan = plan, !.status = "active", !.pending = Null,
                     !.end = t + Month]
=============================================================================
