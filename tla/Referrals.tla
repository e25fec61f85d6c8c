----------------------------- MODULE Referrals ------------------------------
(***************************************************************************)
(* The referral programme: ReferralsService, called by AuthService when a  *)
(* company registers and by PaymentsService when it pays.                  *)
(*                                                                         *)
(* The webhook does not wait for the last three calls it makes: they run   *)
(* on as tasks, at the same time as one another and as any request.  A     *)
(* call loads and checks in one step and saves its copy in a later one.    *)
(* The state of a subscription is reduced to what referrals read of it:    *)
(* module SubscriptionBilling has the rest.                                *)
(***************************************************************************)
EXTENDS Integers, FiniteSets

CONSTANTS
    Null,
    Companies, Links, Payments, Handlers,
    MaxUses,   \* registrations that generateLink() allows a link
    MaxLost    \* bound: calls and tasks that crash between two steps

VARIABLES
    companies, \* Companies -> companies.referred_by_company_id, "new" before
    links,     \* Links -> row, Null before it is created
    referrals, \* Companies -> referral of that company, Null without one
    subs,      \* Companies -> its subscription, Null without one
    checkouts, \* Payments -> the company that is to pay, "reported" afterwards
    invoices,  \* companies with a paid invoice
    calls,     \* Handlers -> the call in flight, or Idle
    tasks,     \* calls that the webhook did not wait for
    lost

vars == <<companies, links, referrals, subs, checkouts, invoices, calls, tasks, lost>>

LinkRow == [company : Companies, used : Nat, active : BOOLEAN, fresh : BOOLEAN]

ReferralStatuses == {"pending", "referred_rewarded", "completed"}

Referral == [link : Links, referrer : Companies, status : ReferralStatuses]

\* discount: pending_referral_discount_pct is set; ref: external_reference.
Subscription == [status : {"active", "pending_payment", "canceled"},
                 discount : BOOLEAN, ref : Payments \cup {Null}]

\* link and sub are the copies that the call will save.
Call == [step : {"idle", "apply", "referral", "link", "referredBy", "checkout",
                 "save", "invoice", "spawn"},
         company : Companies \cup {Null},
         id : Links \cup Payments \cup {Null},
         link : LinkRow \cup {Null}, sub : Subscription \cup {Null}]

Idle == [step |-> "idle", company |-> Null, id |-> Null, link |-> Null, sub |-> Null]

Init ==
    /\ companies = [c \in Companies |-> "new"]
    /\ links = [l \in Links |-> Null]
    /\ referrals = [c \in Companies |-> Null]
    /\ subs = [c \in Companies |-> Null]
    /\ checkouts = [p \in Payments |-> Null]
    /\ invoices = {}
    /\ calls = [h \in Handlers |-> Idle]
    /\ tasks = {}
    /\ lost = 0

-----------------------------------------------------------------------------

Registered == {c \in Companies : companies[c] # "new"}

Subscribed == {c \in Companies : subs[c] # Null}

PendingReferral(c) == referrals[c] # Null /\ referrals[c].status = "pending"

Goto(h, step) == calls' = [calls EXCEPT ![h].step = step]

End(h) == calls' = [calls EXCEPT ![h] = Idle]

\* A link with uses left that has not expired.
Usable(l) ==
    /\ links[l] # Null /\ links[l].active /\ links[l].fresh
    /\ links[l].used < MaxUses

-----------------------------------------------------------------------------
\* Links and registration.

GenerateLink(l, c) ==
    /\ links[l] = Null
    /\ c \in Registered
    /\ links' = [links EXCEPT ![l] = [company |-> c, used |-> 0, active |-> TRUE,
                                      fresh |-> TRUE]]
    /\ UNCHANGED <<companies, referrals, subs, checkouts, invoices, calls, tasks, lost>>

\* linkTtlHours go by.
ExpireLink(l) ==
    /\ links[l] # Null /\ links[l].fresh
    /\ links' = [links EXCEPT ![l].fresh = FALSE]
    /\ UNCHANGED <<companies, referrals, subs, checkouts, invoices, calls, tasks, lost>>

\* deactivateLink() writes the columns of its copy.
DeactivateLink(h, l) ==
    /\ calls[h] = Idle
    /\ links[l] # Null
    /\ calls' = [calls EXCEPT ![h] = [Idle EXCEPT
                    !.step = "link", !.id = l, !.link = [links[l] EXCEPT !.active = FALSE]]]
    /\ UNCHANGED <<companies, links, referrals, subs, checkouts, invoices, tasks, lost>>

\* register() has committed the company, with or without a referral token.
Register(h, c, l) ==
    /\ calls[h] = Idle
    /\ c \notin Registered
    /\ companies' = [companies EXCEPT ![c] = Null]
    /\ calls' = IF l = Null THEN calls
                ELSE [calls EXCEPT ![h] = [Idle EXCEPT !.step = "apply",
                                                       !.company = c, !.id = l]]
    /\ UNCHANGED <<links, referrals, subs, checkouts, invoices, tasks, lost>>

\* applyReferralOnRegister() checks the link and the company.
ApplyReferral(h) ==
    LET c == calls[h] IN
    /\ c.step = "apply"
    /\ IF Usable(c.id) /\ referrals[c.company] = Null
       THEN calls' = [calls EXCEPT ![h].step = "referral", ![h].link = links[c.id]]
       ELSE End(h)
    /\ UNCHANGED <<companies, links, referrals, subs, checkouts, invoices, tasks, lost>>

SaveReferral(h) ==
    LET c == calls[h] IN
    /\ c.step = "referral"
    /\ referrals' = [referrals EXCEPT ![c.company] =
          [link |-> c.id, referrer |-> c.link.company, status |-> "pending"]]
    /\ calls' = [calls EXCEPT
          ![h].step = "link",
          ![h].link.used = @ + 1,
          ![h].link.active = @ /\ c.link.used + 1 < MaxUses]
    /\ UNCHANGED <<companies, links, subs, checkouts, invoices, tasks, lost>>

\* save() of the copy; expiry is a date, which no copy changes.
SaveLink(h) ==
    LET c == calls[h] IN
    /\ c.step = "link"
    /\ links' = [links EXCEPT ![c.id] = [c.link EXCEPT !.fresh = links[c.id].fresh]]
    /\ IF c.company = Null THEN End(h) ELSE Goto(h, "referredBy")
    /\ UNCHANGED <<companies, referrals, subs, checkouts, invoices, tasks, lost>>

SaveReferredBy(h) ==
    LET c == calls[h] IN
    /\ c.step = "referredBy"
    /\ companies' = [companies EXCEPT ![c.company] = c.link.company]
    /\ End(h)
    /\ UNCHANGED <<links, referrals, subs, checkouts, invoices, tasks, lost>>

-----------------------------------------------------------------------------
\* Subscriptions and payments.

\* The company takes a plan; one with a price waits for a payment.
Subscribe(c, status) ==
    /\ c \in Registered \ Subscribed
    /\ subs' = [subs EXCEPT ![c] = [status |-> status, discount |-> FALSE, ref |-> Null]]
    /\ UNCHANGED <<companies, links, referrals, checkouts, invoices, calls, tasks, lost>>

\* createCheckout(): the subscription is loaded before the provider answers and
\* its copy, with the new reference, is saved afterwards.
CreateCheckout(h, c, p) ==
    /\ calls[h] = Idle
    /\ c \in Subscribed /\ checkouts[p] = Null
    /\ checkouts' = [checkouts EXCEPT ![p] = c]
    /\ calls' = [calls EXCEPT ![h] = [Idle EXCEPT
          !.step = "checkout", !.company = c, !.sub = [subs[c] EXCEPT !.ref = p]]]
    /\ UNCHANGED <<companies, links, referrals, subs, invoices, tasks, lost>>

SaveCheckout(h) ==
    LET c == calls[h] IN
    /\ c.step = "checkout"
    /\ subs' = [subs EXCEPT ![c.company] = c.sub]
    /\ End(h)
    /\ UNCHANGED <<companies, links, referrals, checkouts, invoices, tasks, lost>>

\* The webhook of a payment, of which there is one event, finds the subscription
\* that has its reference: an older checkout has no effect.
PaymentEvent(h, p, status) ==
    /\ calls[h] = Idle
    /\ checkouts[p] \notin {Null, "reported"}
    /\ checkouts' = [checkouts EXCEPT ![p] = "reported"]
    /\ LET c == checkouts[p] IN
       calls' = IF subs[c].ref # p THEN calls
                ELSE [calls EXCEPT ![h] = [Idle EXCEPT
                        !.step = "save", !.company = c,
                        !.sub = [subs[c] EXCEPT !.status = status]]]
    /\ UNCHANGED <<companies, links, referrals, subs, invoices, tasks, lost>>

\* Only an approved payment has more to do.
SavePayment(h) ==
    LET c == calls[h] IN
    /\ c.step = "save"
    /\ subs' = [subs EXCEPT ![c.company] = c.sub]
    /\ IF c.sub.status = "active" THEN Goto(h, "invoice") ELSE End(h)
    /\ UNCHANGED <<companies, links, referrals, checkouts, invoices, tasks, lost>>

Task(step, c, copy) == [step |-> step, company |-> c, copy |-> copy]

\* The invoice is saved, and the webhook ends with up to three calls started.
SaveInvoice(h) ==
    LET c == calls[h] IN
    /\ c.step = "invoice"
    /\ invoices' = invoices \cup {c.company}
    /\ tasks' = tasks \cup {Task("approved", c.company, Null)} \cup
          (IF c.sub.discount
           THEN {Task("saveSub", c.company, [c.sub EXCEPT !.discount = FALSE]),
                 Task("reward", c.company, Null)}
           ELSE {})
    /\ End(h)
    /\ UNCHANGED <<companies, links, referrals, subs, checkouts, lost>>

-----------------------------------------------------------------------------
\* Tasks.

Becomes(t, next) == tasks' = (tasks \ {t}) \cup next

\* Mutant: the referral is saved without waiting for it.
RewardAtOnce(t) ==
    /\ t.step = "approved"
    /\ Becomes(t, IF PendingReferral(t.company)
                  THEN {Task("saveReferral", t.company,
                             [referrals[t.company] EXCEPT !.status = "referred_rewarded"]),
                        Task("findReferrer", referrals[t.company].referrer, Null)}
                  ELSE {})
    /\ UNCHANGED <<companies, links, referrals, subs, checkouts, invoices, calls, lost>>

\* onReferredPaymentApproved() loads the referral of the company that paid.
LoadReferral(t) ==
    /\ t.step = "approved"
    /\ Becomes(t, IF PendingReferral(t.company)
                  THEN {Task("saveReferral", t.company,
                             [referrals[t.company] EXCEPT !.status = "referred_rewarded"])}
                  ELSE {})
    /\ UNCHANGED <<companies, links, referrals, subs, checkouts, invoices, calls, lost>>

SaveRewarded(t) ==
    /\ t.step = "saveReferral"
    /\ referrals' = [referrals EXCEPT ![t.company] = t.copy]
    /\ Becomes(t, IF t.copy.status = "referred_rewarded"
                  THEN {Task("findReferrer", t.copy.referrer, Null)} ELSE {})
    /\ UNCHANGED <<companies, links, subs, checkouts, invoices, calls, lost>>

\* Without an active subscription the referrer gets nothing.
FindReferrer(t) ==
    /\ t.step = "findReferrer"
    /\ Becomes(t, IF t.company \in Subscribed /\ subs[t.company].status = "active"
                  THEN {Task("saveSub", t.company, [subs[t.company] EXCEPT !.discount = TRUE])}
                  ELSE {})
    /\ UNCHANGED <<companies, links, referrals, subs, checkouts, invoices, calls, lost>>

SaveSubscription(t) ==
    /\ t.step = "saveSub"
    /\ subs' = [subs EXCEPT ![t.company] = t.copy]
    /\ Becomes(t, {})
    /\ UNCHANGED <<companies, links, referrals, checkouts, invoices, calls, lost>>

\* onReferrerRewarded() closes one referral of the company that paid.
LoadRewarded(t) ==
    /\ t.step = "reward"
    /\ LET mine == {c \in Companies : /\ referrals[c] # Null
                                      /\ referrals[c].referrer = t.company
                                      /\ referrals[c].status = "referred_rewarded"}
       IN \/ mine = {} /\ Becomes(t, {})
          \/ \E c \in mine :
                Becomes(t, {Task("saveReferral", c,
                                 [referrals[c] EXCEPT !.status = "completed"])})
    /\ UNCHANGED <<companies, links, referrals, subs, checkouts, invoices, calls, lost>>

TaskStep(t) ==
    LoadReferral(t) \/ SaveRewarded(t) \/ FindReferrer(t) \/ SaveSubscription(t)
        \/ LoadRewarded(t)

\* The process dies, or a statement fails.
CrashCall(h) ==
    /\ calls[h] # Idle /\ lost < MaxLost
    /\ lost' = lost + 1
    /\ End(h)
    /\ UNCHANGED <<companies, links, referrals, subs, checkouts, invoices, tasks>>

CrashTask(t) ==
    /\ lost < MaxLost
    /\ lost' = lost + 1
    /\ Becomes(t, {})
    /\ UNCHANGED <<companies, links, referrals, subs, checkouts, invoices, calls>>

CallStep(h) ==
    \/ ApplyReferral(h) \/ SaveReferral(h) \/ SaveLink(h) \/ SaveReferredBy(h)
    \/ SaveCheckout(h) \/ SavePayment(h) \/ SaveInvoice(h) \/ CrashCall(h)

Next ==
    \/ \E l \in Links : ExpireLink(l) \/ \E c \in Companies : GenerateLink(l, c)
    \/ \E c \in Companies, status \in {"active", "pending_payment"} : Subscribe(c, status)
    \/ \E h \in Handlers :
          \/ CallStep(h)
          \/ \E l \in Links : DeactivateLink(h, l)
          \/ \E c \in Companies :
                \/ \E l \in Links \cup {Null} : Register(h, c, l)
                \/ \E p \in Payments : CreateCheckout(h, c, p)
          \/ \E p \in Payments, status \in {"active", "pending_payment", "canceled"} :
                PaymentEvent(h, p, status)
    \/ \E t \in tasks : TaskStep(t) \/ CrashTask(t)

Spec == Init /\ [][Next]_vars

-----------------------------------------------------------------------------

\* No discount without a customer: a company that has one to spend referred
\* another, whose payment was approved and whose referral says so, whatever
\* older copies of the subscription are saved and whichever step is lost.
DiscountIsEarned ==
    \A c \in Subscribed : subs[c].discount =>
        \E x \in invoices :
            referrals[x] # Null /\ referrals[x].referrer = c /\ ~PendingReferral(x)
=============================================================================
