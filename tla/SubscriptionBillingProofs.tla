---------------------- MODULE SubscriptionBillingProofs ----------------------
(***************************************************************************)
(* Theorems about SubscriptionBilling for every value of its constants:    *)
(* any number of subscriptions, of calls in flight and of payments, and    *)
(* any length of the billing periods.                                      *)
(***************************************************************************)
EXTENDS SubscriptionBilling, TLAPS

-----------------------------------------------------------------------------
\* The functions on rows return rows.

LEMMA ConstantTypes ==
    /\ Month \in Nat /\ Grace \in Nat /\ LookAhead \in Nat
    /\ Throttle \in Nat /\ Warning \in Nat
BY RowAssumption

LEMMA NewRowType ==
    ASSUME NEW plan \in Plans, NEW t \in Nat
    PROVE  NewRow(plan, t) \in Row
BY ConstantTypes DEF NewRow, Row, Statuses

LEMMA SuspendType ==
    ASSUME NEW row \in Row
    PROVE  Suspend(row) \in Row
BY DEF Suspend, Row, Statuses

LEMMA RenewalDraftType ==
    ASSUME NEW row \in Row, NEW t \in Nat
    PROVE  RenewalDraft(row, t) \in Row
<1>1. row.end + Month \in Nat /\ t + Grace \in Nat
  BY ConstantTypes DEF Row
<1>2. Extend(row, t) \in Row
  BY <1>1 DEF Extend, Row, Statuses
<1>3. OpenGrace(row, t) \in Row
  BY <1>1 DEF OpenGrace, Row, Statuses
<1> QED
  BY <1>2, <1>3, SuspendType DEF RenewalDraft

LEMMA ApproveType ==
    ASSUME NEW row \in Row, NEW t \in Nat
    PROVE  Approve(row, t) \in Row
<1>1. ReactivatedEnd(row, t) \in Nat /\ t + Month \in Nat
  BY ConstantTypes DEF ReactivatedEnd, Row
<1> QED
  BY <1>1 DEF Approve, Row, Statuses

LEMMA ApplyEventType ==
    ASSUME NEW row \in Row, NEW type \in EventTypes, NEW t \in Nat
    PROVE  ApplyEvent(row, type, t) \in Row
BY ApproveType DEF ApplyEvent, Row, Statuses, EventTypes

LEMMA ChangePlanType ==
    ASSUME NEW row \in Row, NEW plan \in Plans, NEW t \in Nat
    PROVE  ChangePlan(row, plan, t) \in Row
<1>1. t + Month \in Nat
  BY ConstantTypes
<1> QED
  BY <1>1 DEF ChangePlan, Row, Statuses

-----------------------------------------------------------------------------
(***************************************************************************)
(* Type correctness is not inductive alone: a call that is about to save a *)
(* copy must hold one, and the row it belongs to must exist.               *)
(***************************************************************************)
CopySteps == RenewSteps \cup {"retryCheckout", "retryCharge", "retryFinish",
                              "warnSave", "suspendSave", "hookApply"}

InnerSteps == {"renewCharge", "retryCharge", "checkoutCharge"}

HookSteps == {"hookRecord", "hookApply", "hookInvoice"}

CallOK(c, table) ==
    /\ c.step \in CopySteps => c.sub \in Subs /\ c.copy \in Row
    /\ c.step \in InnerSteps => c.sub \in Subs /\ c.inner \in Row
    /\ c.step \in HookSteps => c.pay \in PayIds /\ c.type \in EventTypes
    /\ c.step = "hookRecord" /\ c.sub # Null => c.copy \in Row
    /\ c.step \in {"renewFinish", "retryFinish"} => c.copy.link \in Nat
    /\ c.sub # Null => table[c.sub] \in Row

CallsOK == \A h \in Handlers : CallOK(calls[h], rows)

JobsOK == \A job \in jobs : rows[job.sub] \in Row

TypeInv == TypeOK /\ CallsOK /\ JobsOK

\* An absent row may appear; a row that exists stays.
RowsGrow == \A s \in Subs : rows[s] \in Row => rows'[s] \in Row

LEMMA IdleOK ==
    /\ Idle \in Call
    /\ \A table : CallOK(Idle, table)
BY DEF Idle, Call, CallOK, Steps, CopySteps, InnerSteps, HookSteps, RenewSteps

\* Replacing the record of one call keeps the calls well formed.
LEMMA CallStep ==
    ASSUME TypeInv, RowsGrow, NEW h \in Handlers, NEW c \in Call,
           CallOK(c, rows'), calls' = [calls EXCEPT ![h] = c]
    PROVE  calls' \in [Handlers -> Call] /\ CallsOK'
<1>1. calls' \in [Handlers -> Call]
  BY DEF TypeInv, TypeOK
<1>2. ASSUME NEW g \in Handlers PROVE CallOK(calls'[g], rows')
  <2>1. CASE g = h
    BY <2>1 DEF TypeInv, TypeOK
  <2>2. CASE g # h
    <3>1. calls'[g] = calls[g] /\ CallOK(calls[g], rows) /\ calls[g] \in Call
      BY <2>2 DEF TypeInv, TypeOK, CallsOK
    <3>2. calls[g].sub \in Subs \cup {Null}
      BY <3>1 DEF Call
    <3> QED
      BY <3>1, <3>2 DEF CallOK, RowsGrow
  <2> QED
    BY <2>1, <2>2
<1> QED
  BY <1>1, <1>2 DEF CallsOK

LEMMA CallEnd ==
    ASSUME TypeInv, RowsGrow, NEW h \in Handlers, End(h)
    PROVE  calls' \in [Handlers -> Call] /\ CallsOK'
BY IdleOK, CallStep DEF End

LEMMA CallsKept ==
    ASSUME TypeInv, RowsGrow, calls' = calls
    PROVE  calls' \in [Handlers -> Call] /\ CallsOK'
<1>1. ASSUME NEW g \in Handlers PROVE CallOK(calls'[g], rows')
  <2>1. calls'[g] = calls[g] /\ CallOK(calls[g], rows) /\ calls[g] \in Call
    BY DEF TypeInv, TypeOK, CallsOK
  <2>2. calls[g].sub \in Subs \cup {Null}
    BY <2>1 DEF Call
  <2> QED
    BY <2>1, <2>2 DEF CallOK, RowsGrow
<1> QED
  BY <1>1 DEF CallsOK, TypeInv, TypeOK

LEMMA SaveStep ==
    ASSUME TypeInv, NEW s \in Subs, NEW copy \in Row, Save(s, copy)
    PROVE  rows' \in [Subs -> Row \cup {Null}] /\ RowsGrow /\ rows'[s] \in Row
BY DEF Save, RowsGrow, TypeInv, TypeOK

LEMMA RowsKept == TypeInv /\ rows' = rows => RowsGrow /\ rows' \in [Subs -> Row \cup {Null}]
BY DEF RowsGrow, TypeInv, TypeOK

\* Jobs of the queue that stay in it keep their row.
LEMMA JobsStep ==
    ASSUME TypeInv, RowsGrow, jobs' \subseteq Job,
           \A job \in jobs' : (\E old \in jobs : old.sub = job.sub) \/ rows'[job.sub] \in Row
    PROVE  JobsOK'
<1>1. ASSUME NEW job \in jobs' PROVE rows'[job.sub] \in Row
  <2>1. job.sub \in Subs
    BY DEF Job
  <2> QED
    BY <2>1 DEF TypeInv, JobsOK, RowsGrow
<1> QED
  BY <1>1 DEF JobsOK

LEMMA JobsKept == TypeInv /\ RowsGrow /\ jobs' = jobs => jobs' \subseteq Job /\ JobsOK'
<1> SUFFICES ASSUME TypeInv, RowsGrow, jobs' = jobs PROVE jobs' \subseteq Job /\ JobsOK'
  OBVIOUS
<1>1. jobs' \subseteq Job
  BY DEF TypeInv, TypeOK
<1> QED
  BY <1>1, JobsStep

LEMMA CompleteJobType ==
    ASSUME TypeInv, RowsGrow, NEW h \in Handlers, CompleteJob(h)
    PROVE  jobs' \subseteq Job /\ JobsOK'
<1>1. jobs' \subseteq Job
  BY DEF TypeInv, TypeOK, CompleteJob
<1> QED
  BY <1>1, JobsStep DEF CompleteJob

LEMMA FailJobType ==
    ASSUME TypeInv, RowsGrow, NEW h \in Handlers, FailJob(h)
    PROVE  jobs' \subseteq Job /\ JobsOK'
<1> DEFINE failed(job) ==
      [job EXCEPT !.tries = @ + 1,
                  !.state = IF job.tries + 1 < Attempts THEN "waiting" ELSE "failed"]
<1>1. ASSUME NEW job \in Job PROVE failed(job) \in Job /\ failed(job).sub = job.sub
  <2>1. job.tries + 1 \in Nat
    BY DEF Job
  <2> QED
    BY <2>1 DEF Job
<1>2. jobs \subseteq Job
  BY DEF TypeInv, TypeOK
<1>3. \A job \in jobs' : \E old \in jobs : job = old \/ job = failed(old)
  BY DEF FailJob
<1> HIDE DEF failed
<1>4. jobs' \subseteq Job
  BY <1>1, <1>2, <1>3
<1> QED
  BY <1>1, <1>2, <1>3, <1>4, JobsStep

LEMMA SpendType ==
    ASSUME TypeInv, NEW b \in Bounds, NEW max, Spend(b, max)
    PROVE  spent' \in [Bounds -> Nat]
BY DEF TypeInv, TypeOK, Spend

LEMMA ExistingRow ==
    ASSUME TypeInv, NEW s \in Existing
    PROVE  s \in Subs /\ rows[s] \in Row
BY DEF TypeInv, TypeOK, Existing

LEMMA TypeInit == Init => TypeInv
<1> SUFFICES ASSUME Init PROVE TypeInv
  OBVIOUS
<1>1. PICK s \in Subs, plan \in SignupPlans :
        /\ rows = [x \in Subs |-> IF x = s THEN NewRow(plan, 0) ELSE Null]
        /\ jobs = IF FirstPeriod THEN {SignupJob(s, 0)} ELSE {}
  BY DEF Init
<1>2. NewRow(plan, 0) \in Row
  BY NewRowType, RowAssumption
<1>3. SignupJob(s, 0) \in Job /\ SignupJob(s, 0).sub = s
  BY ConstantTypes DEF SignupJob, Job
<1>4. TypeOK
  <2>1. rows \in [Subs -> Row \cup {Null}]
    BY <1>1, <1>2
  <2>2. jobs \subseteq Job
    BY <1>1, <1>3
  <2> QED
    BY <2>1, <2>2, IdleOK DEF Init, TypeOK, Bounds
<1>5. CallsOK
  BY IdleOK DEF Init, CallsOK
<1>6. JobsOK
  BY <1>1, <1>2, <1>3 DEF JobsOK
<1> QED
  BY <1>4, <1>5, <1>6 DEF TypeInv

\* Requests, the scan, the clock and the provider: no call changes.
LEMMA TypeOutside ==
    ASSUME TypeInv,
           \/ Tick
           \/ RenewalScan
           \/ \E s \in Subs, plan \in SignupPlans : CreateFree(s, plan)
           \/ \E s \in Existing : CancelSubscription(s) \/ SuspendSubscription(s)
           \/ \E s \in Existing, plan \in Plans : ChangeSubscription(s, plan)
           \/ \E p \in PayIds, ref \in offered, status \in Outcomes : Pay(p, ref, status)
           \/ \E p \in PayIds, status \in Outcomes : Settle(p, status)
    PROVE  TypeInv'
<1>1. CASE Tick
  <2>1. RowsGrow /\ rows' \in [Subs -> Row \cup {Null}]
    BY <1>1, RowsKept DEF Tick
  <2>2. calls' \in [Handlers -> Call] /\ CallsOK' /\ jobs' \subseteq Job /\ JobsOK'
    BY <1>1, <2>1, CallsKept, JobsKept DEF Tick
  <2> QED
    BY <1>1, <2>1, <2>2 DEF Tick, TypeInv, TypeOK, provider, ledger
<1>2. CASE RenewalScan
  <2> DEFINE new == {[sub |-> s, end |-> rows[s].end, state |-> "waiting",
                      tries |-> 0, at |-> 0] :
                       s \in {x \in Existing : RenewalCandidate(rows[x], now)}}
  <2>1. RowsGrow /\ rows' \in [Subs -> Row \cup {Null}]
    BY <1>2, RowsKept DEF RenewalScan
  <2>2. ASSUME NEW job \in new PROVE job \in Job /\ rows'[job.sub] \in Row
    <3>1. PICK s \in Existing : job = [sub |-> s, end |-> rows[s].end, state |-> "waiting",
                                       tries |-> 0, at |-> 0]
      OBVIOUS
    <3> QED
      BY <3>1, <2>1, ExistingRow DEF RowsGrow, Job, Row
  <2>3. \A job \in jobs' : job \in jobs \/ job \in new
    BY <1>2 DEF RenewalScan, Addable
  <2> HIDE DEF new
  <2>4. jobs' \subseteq Job
    BY <2>2, <2>3 DEF TypeInv, TypeOK
  <2>5. JobsOK'
    BY <2>1, <2>2, <2>3, <2>4, JobsStep
  <2>6. calls' \in [Handlers -> Call] /\ CallsOK'
    BY <1>2, <2>1, CallsKept DEF RenewalScan
  <2> QED
    BY <1>2, <2>1, <2>4, <2>5, <2>6 DEF RenewalScan, TypeInv, TypeOK, provider, ledger
<1>3. ASSUME NEW s \in Subs, NEW plan \in SignupPlans, CreateFree(s, plan) PROVE TypeInv'
  <2>1. NewRow(plan, now) \in Row
    BY NewRowType, RowAssumption DEF TypeInv, TypeOK
  <2>2. ASSUME NEW row \in Row PROVE [row EXCEPT !.status = "canceled"] \in Row
    BY DEF Row, Statuses
  <2>3. rows' \in [Subs -> Row \cup {Null}] /\ RowsGrow /\ rows'[s] \in Row
    BY <1>3, <2>1, <2>2 DEF CreateFree, RowsGrow, TypeInv, TypeOK
  <2>4. SignupJob(s, now) \in Job /\ SignupJob(s, now).sub = s
    BY ConstantTypes DEF SignupJob, Job, TypeInv, TypeOK
  <2>5. \A job \in jobs' : job \in jobs \/ job = SignupJob(s, now)
    BY <1>3 DEF CreateFree, Addable
  <2>6. jobs' \subseteq Job
    BY <2>4, <2>5 DEF TypeInv, TypeOK
  <2>7. JobsOK'
    BY <2>3, <2>4, <2>5, <2>6, JobsStep
  <2>8. calls' \in [Handlers -> Call] /\ CallsOK'
    BY <1>3, <2>3, CallsKept DEF CreateFree
  <2> QED
    BY <1>3, <2>3, <2>6, <2>7, <2>8 DEF CreateFree, TypeInv, TypeOK, provider, ledger
<1>4. ASSUME NEW s \in Existing,
             CancelSubscription(s) \/ SuspendSubscription(s)
               \/ \E plan \in Plans : ChangeSubscription(s, plan)
      PROVE  TypeInv'
  <2>1. s \in Subs /\ rows[s] \in Row
    BY ExistingRow
  <2>2. \E row \in Row : Save(s, row)
    <3>1. [rows[s] EXCEPT !.status = "canceled"] \in Row
      BY <2>1 DEF Row, Statuses
    <3>2. \A plan \in Plans : ChangePlan(rows[s], plan, now) \in Row
      BY <2>1, ChangePlanType DEF TypeInv, TypeOK
    <3> QED
      BY <1>4, <2>1, <3>1, <3>2, SuspendType
      DEF CancelSubscription, SuspendSubscription, ChangeSubscription
  <2>3. rows' \in [Subs -> Row \cup {Null}] /\ RowsGrow
    BY <2>1, <2>2, SaveStep
  <2>4. UNCHANGED <<now, jobs, calls, checkouts, offered, payments, events, invoices>>
    BY <1>4 DEF CancelSubscription, SuspendSubscription, ChangeSubscription, provider, ledger
  <2>5. spent' \in [Bounds -> Nat]
    BY <1>4, SpendType
    DEF CancelSubscription, SuspendSubscription, ChangeSubscription, Bounds
  <2>6. calls' \in [Handlers -> Call] /\ CallsOK' /\ jobs' \subseteq Job /\ JobsOK'
    BY <2>3, <2>4, CallsKept, JobsKept
  <2> QED
    BY <2>3, <2>4, <2>5, <2>6 DEF TypeInv, TypeOK
<1>5. ASSUME NEW p \in PayIds, NEW status \in Outcomes,
             Settle(p, status) \/ \E ref \in offered : Pay(p, ref, status)
      PROVE  TypeInv'
  <2>1. UNCHANGED <<now, rows, jobs, calls, checkouts, offered, events, invoices, spent>>
    BY <1>5 DEF Settle, Pay, ledger
  <2>2. RowsGrow /\ rows' \in [Subs -> Row \cup {Null}]
    BY <2>1, RowsKept
  <2>3. calls' \in [Handlers -> Call] /\ CallsOK' /\ jobs' \subseteq Job /\ JobsOK'
    BY <2>1, <2>2, CallsKept, JobsKept
  <2>4. status \in {"none"} \cup EventTypes
    BY BillingAssumption
  <2>5. payments' \in [PayIds -> [ref : Nat, status : {"none"} \cup EventTypes]]
    <3>1. CASE Settle(p, status)
      BY <3>1, <2>4 DEF Settle, TypeInv, TypeOK
    <3>2. ASSUME NEW ref \in offered, Pay(p, ref, status)
          PROVE  payments' \in [PayIds -> [ref : Nat, status : {"none"} \cup EventTypes]]
      <4>1. ref \in Nat
        BY DEF TypeInv, TypeOK
      <4>2. [ref |-> ref, status |-> status] \in [ref : Nat, status : {"none"} \cup EventTypes]
        BY <2>4, <4>1
      <4> QED
        BY <3>2, <4>2 DEF Pay, TypeInv, TypeOK
    <3> QED
      BY <1>5, <3>1, <3>2
  <2> QED
    BY <2>1, <2>2, <2>3, <2>5 DEF TypeInv, TypeOK
<1> QED
  BY <1>1, <1>2, <1>3, <1>4, <1>5

\* A call that starts.
LEMMA TypeStart ==
    ASSUME TypeInv, NEW h \in Handlers,
           \/ \E job \in jobs : RenewStart(h, job)
           \/ \E s \in Existing : RetryStart(h, s) \/ CheckoutStart(h, s)
                                  \/ WarnStart(h, s) \/ SuspendStart(h, s)
           \/ \E p \in PayIds : HookRead(h, p)
    PROVE  TypeInv'
<1>1. now \in Nat /\ UNCHANGED <<now, rows, checkouts, offered, payments, events, invoices, spent>>
  BY DEF RenewStart, RetryStart, CheckoutStart, WarnStart, SuspendStart, HookRead,
         provider, ledger, TypeInv, TypeOK
<1>2. RowsGrow /\ rows' \in [Subs -> Row \cup {Null}]
  BY <1>1, RowsKept
<1>3. jobs' \subseteq Job /\ JobsOK' /\ calls' \in [Handlers -> Call] /\ CallsOK'
  <2>1. ASSUME NEW job \in jobs, RenewStart(h, job)
        PROVE  jobs' \subseteq Job /\ JobsOK' /\ calls' \in [Handlers -> Call] /\ CallsOK'
    <3> DEFINE row == rows[job.sub]
               active == [job EXCEPT !.state = "active"]
               call == [Idle EXCEPT
                     !.step = IF RenewalDecision(row, now) = "charge"
                              THEN "renewCheckout" ELSE "renewSave",
                     !.sub = job.sub, !.copy = RenewalDraft(row, now),
                     !.since = now, !.jobEnd = job.end]
    <3>1. job \in Job /\ row \in Row
      BY DEF TypeInv, TypeOK, JobsOK
    <3>2. active \in Job /\ active.sub = job.sub
      BY <3>1 DEF Job
    <3>3. jobs' \subseteq jobs \cup {active}
      BY <2>1 DEF RenewStart
    <3> HIDE DEF active
    <3>4. jobs' \subseteq Job
      BY <3>2, <3>3 DEF TypeInv, TypeOK
    <3>5. JobsOK'
      BY <1>2, <3>2, <3>3, <3>4, JobsStep
    <3>6. calls' = calls \/ calls' = [calls EXCEPT ![h] = call]
      BY <2>1 DEF RenewStart, Begin
    <3>7. RenewalDraft(row, now) \in Row
      BY <1>1, <3>1, RenewalDraftType
    <3>8. call \in Call
      BY <1>1, <3>1, <3>7 DEF Call, Idle, Steps, Job
    <3>9. CallOK(call, rows')
      BY <1>1, <3>1, <3>7 DEF CallOK, Idle, Job, CopySteps, InnerSteps, HookSteps, RenewSteps
    <3> QED
      BY <1>2, <3>4, <3>5, <3>6, <3>8, <3>9, CallStep, CallsKept
  <2>2. ASSUME NEW s \in Existing,
               RetryStart(h, s) \/ CheckoutStart(h, s) \/ WarnStart(h, s) \/ SuspendStart(h, s)
        PROVE  jobs' \subseteq Job /\ JobsOK' /\ calls' \in [Handlers -> Call] /\ CallsOK'
    <3> DEFINE load(step, copy) == [Idle EXCEPT !.step = step, !.sub = s, !.copy = copy, !.since = now]
               inner == [Idle EXCEPT !.step = "checkoutCharge", !.sub = s,
                                     !.inner = rows[s], !.since = now]
    <3>1. s \in Subs /\ rows[s] \in Row
      BY ExistingRow
    <3>2. jobs' = jobs
      BY <2>2 DEF RetryStart, CheckoutStart, WarnStart, SuspendStart
    <3>3. [rows[s] EXCEPT !.warned = TRUE] \in Row /\ Suspend(rows[s]) \in Row
      BY <3>1, SuspendType DEF Row
    <3>4. \/ \E step \in {"retryCheckout", "warnSave", "suspendSave"}, copy \in Row :
               calls' = [calls EXCEPT ![h] = load(step, copy)]
          \/ calls' = [calls EXCEPT ![h] = inner]
      <4>1. CASE RetryStart(h, s)
        BY <4>1, <3>1 DEF RetryStart, Begin, Idle
      <4>2. CASE CheckoutStart(h, s)
        BY <4>2 DEF CheckoutStart, Begin
      <4>3. CASE WarnStart(h, s)
        BY <4>3, <3>3 DEF WarnStart, Begin, Idle
      <4>4. CASE SuspendStart(h, s)
        BY <4>4, <3>3 DEF SuspendStart, Begin, Idle
      <4> QED
        BY <2>2, <4>1, <4>2, <4>3, <4>4
    <3>5. ASSUME NEW step \in {"retryCheckout", "warnSave", "suspendSave"}, NEW copy \in Row
          PROVE  load(step, copy) \in Call /\ CallOK(load(step, copy), rows')
      BY <1>1, <3>1 DEF Idle, Call, Steps, CallOK, CopySteps, InnerSteps, HookSteps, RenewSteps
    <3>6. inner \in Call /\ CallOK(inner, rows')
      BY <1>1, <3>1 DEF Idle, Call, Steps, CallOK, CopySteps, InnerSteps, HookSteps, RenewSteps
    <3> HIDE DEF load, inner
    <3>7. calls' \in [Handlers -> Call] /\ CallsOK'
      BY <1>2, <3>4, <3>5, <3>6, CallStep
    <3> QED
      BY <1>2, <3>2, <3>7, JobsKept
  <2>3. ASSUME NEW p \in PayIds, HookRead(h, p)
        PROVE  jobs' \subseteq Job /\ JobsOK' /\ calls' \in [Handlers -> Call] /\ CallsOK'
    <3> DEFINE call == [Idle EXCEPT !.step = "hookRecord", !.since = now,
                                    !.pay = p, !.type = payments[p].status]
               bound(s) == [call EXCEPT !.sub = s, !.copy = rows[s]]
    <3>1. payments[p].status \in EventTypes
      BY <2>3 DEF HookRead, TypeInv, TypeOK
    <3>2. call \in Call /\ CallOK(call, rows')
      BY <1>1, <3>1 DEF Idle, Call, Steps, CallOK, CopySteps, InnerSteps, HookSteps, RenewSteps
    <3>3. ASSUME NEW s \in Existing PROVE bound(s) \in Call /\ CallOK(bound(s), rows')
      BY <1>1, <3>1, ExistingRow
      DEF Idle, Call, Steps, CallOK, CopySteps, InnerSteps, HookSteps, RenewSteps
    <3>4. \/ calls' = [calls EXCEPT ![h] = call]
          \/ \E s \in Existing : calls' = [calls EXCEPT ![h] = bound(s)]
      BY <2>3 DEF HookRead, Begin, BoundTo
    <3>5. jobs' = jobs
      BY <2>3 DEF HookRead
    <3> HIDE DEF call, bound
    <3>6. calls' \in [Handlers -> Call] /\ CallsOK'
      BY <1>2, <3>2, <3>3, <3>4, CallStep
    <3> QED
      BY <1>2, <3>5, <3>6, JobsKept
  <2> QED
    BY <2>1, <2>2, <2>3
<1> QED
  BY <1>1, <1>2, <1>3 DEF TypeInv, TypeOK

LEMMA CrashType ==
    ASSUME TypeInv, NEW h \in Handlers, Crash(h)
    PROVE  TypeInv'
<1>1. rows' = rows /\ End(h)
      /\ UNCHANGED <<now, checkouts, offered, payments, events, invoices>>
  BY DEF Crash, provider, ledger
<1>2. RowsGrow /\ rows' \in [Subs -> Row \cup {Null}]
  BY <1>1, RowsKept
<1>3. calls' \in [Handlers -> Call] /\ CallsOK'
  BY <1>1, <1>2, CallEnd
<1>4. spent' \in [Bounds -> Nat]
  BY SpendType DEF Crash, Bounds
<1>5. \A job \in jobs' : \E old \in jobs :
        job = old \/ job = [old EXCEPT !.state = "waiting"]
  BY DEF Crash
<1>6. \A old \in Job : [old EXCEPT !.state = "waiting"] \in Job
                       /\ [old EXCEPT !.state = "waiting"].sub = old.sub
  BY DEF Job
<1>7. jobs' \subseteq Job
  BY <1>5, <1>6 DEF TypeInv, TypeOK
<1>8. \A job \in jobs' : \E old \in jobs : old.sub = job.sub
  BY <1>5, <1>6 DEF TypeInv, TypeOK
<1>9. JobsOK'
  BY <1>2, <1>7, <1>8, JobsStep
<1> QED
  BY <1>1, <1>2, <1>3, <1>4, <1>7, <1>9 DEF TypeInv, TypeOK

\* A call in flight: what its step implies, and what it does.
LEMMA TypeContinue ==
    ASSUME TypeInv, NEW h \in Handlers, Continue(h) \/ CheckoutRefused(h)
    PROVE  TypeInv'
<1> DEFINE c == calls[h]
<1>1. c \in Call /\ CallOK(c, rows) /\ now \in Nat
  BY DEF TypeInv, TypeOK, CallsOK
<1>2. CASE RenewSave(h) \/ RenewFinish(h) \/ RenewFail(h)
  <2>1. c.step \in {"renewSave", "renewFinish", "renewFail"}
    BY <1>2 DEF RenewSave, RenewFinish, RenewFail
  <2>2. c.sub \in Subs /\ c.copy \in Row /\ c.since \in Nat
    BY <1>1, <2>1 DEF CallOK, CopySteps, RenewSteps, Call
  <2>3. [c.copy EXCEPT !.attempt = c.since] \in Row
    BY <2>2 DEF Row
  <2>4. \E row \in Row : Save(c.sub, row)
    BY <1>2, <2>2, <2>3 DEF RenewSave, RenewFinish, RenewFail
  <2>5. rows' \in [Subs -> Row \cup {Null}] /\ RowsGrow
    BY <2>2, <2>4, SaveStep
  <2>6. jobs' \subseteq Job /\ JobsOK'
    BY <1>2, <2>5, CompleteJobType, FailJobType DEF RenewSave, RenewFinish, RenewFail
  <2>7. calls' \in [Handlers -> Call] /\ CallsOK'
    BY <1>2, <2>5, CallEnd DEF RenewSave, RenewFinish, RenewFail
  <2>8. offered' \subseteq Nat
    <3>1. CASE RenewFinish(h)
      <4>1. c.copy.link \in Nat
        BY <1>1, <3>1 DEF RenewFinish, CallOK
      <4> QED
        BY <3>1, <4>1 DEF RenewFinish, TypeInv, TypeOK
    <3>2. CASE RenewSave(h) \/ RenewFail(h)
      BY <3>2 DEF RenewSave, RenewFail, provider, TypeInv, TypeOK
    <3> QED
      BY <1>2, <3>1, <3>2
  <2>9. UNCHANGED <<now, checkouts, payments, events, invoices, spent>>
    BY <1>2 DEF RenewSave, RenewFinish, RenewFail, provider, ledger
  <2> QED
    BY <2>5, <2>6, <2>7, <2>8, <2>9 DEF TypeInv, TypeOK
<1>3. CASE LoadForCheckout(h)
  <2> DEFINE d == [c EXCEPT !.step = NextStep[c.step], !.inner = rows[c.sub]]
  <2>1. c.step \in {"renewCheckout", "retryCheckout"}
    BY <1>3 DEF LoadForCheckout
  <2>2. c.sub \in Subs /\ c.copy \in Row /\ rows[c.sub] \in Row
    BY <1>1, <2>1, BillingAssumption DEF CallOK, CopySteps, RenewSteps
  <2>3. NextStep[c.step] \in {"renewCharge", "retryCharge"}
    BY <2>1 DEF NextStep
  <2>4. d \in Call
    BY <1>1, <2>2, <2>3 DEF Call, Steps
  <2>5. RowsGrow /\ rows' \in [Subs -> Row \cup {Null}]
    BY <1>3, RowsKept DEF LoadForCheckout
  <2>6. d.step \in {"renewCharge", "retryCharge"} /\ d.sub = c.sub /\ d.copy = c.copy
        /\ d.inner = rows[c.sub]
    BY <1>1, <2>3 DEF Call
  <2>7. CallOK(d, rows')
    BY <2>2, <2>5, <2>6 DEF CallOK, RowsGrow, CopySteps, RenewSteps, InnerSteps, HookSteps
  <2>8. calls' \in [Handlers -> Call] /\ CallsOK'
    BY <1>3, <2>4, <2>5, <2>7, CallStep DEF LoadForCheckout, Begin
  <2>9. jobs' \subseteq Job /\ JobsOK'
    BY <1>3, <2>5, JobsKept DEF LoadForCheckout
  <2> QED
    BY <1>3, <2>5, <2>8, <2>9 DEF LoadForCheckout, TypeInv, TypeOK, provider, ledger
<1>4. CASE CheckoutAnswered(h)
  <2> DEFINE d == [c EXCEPT !.step = NextStep[c.step], !.copy = [@ EXCEPT !.link = checkouts']]
  <2>1. c.step \in {"renewCharge", "retryCharge", "checkoutCharge"}
    BY <1>4 DEF CheckoutAnswered
  <2>2. c.sub \in Subs /\ c.inner \in Row /\ checkouts' \in Nat
    BY <1>1, <1>4, <2>1 DEF CheckoutAnswered, CallOK, InnerSteps, TypeInv, TypeOK
  <2>3. [c.inner EXCEPT !.ref = checkouts'] \in Row
    BY <2>2 DEF Row
  <2>4. rows' \in [Subs -> Row \cup {Null}] /\ RowsGrow /\ rows'[c.sub] \in Row
    BY <1>4, <2>2, <2>3, SaveStep DEF CheckoutAnswered
  <2>5. jobs' \subseteq Job /\ JobsOK'
    BY <1>4, <2>4, JobsKept DEF CheckoutAnswered
  <2>6. calls' \in [Handlers -> Call] /\ CallsOK'
    <3>1. CASE c.step = "checkoutCharge"
      BY <1>4, <2>4, <3>1, CallEnd DEF CheckoutAnswered
    <3>2. CASE c.step \in {"renewCharge", "retryCharge"}
      <4>1. c.copy \in Row
        BY <1>1, <3>2 DEF CallOK, CopySteps, RenewSteps
      <4>2. [c.copy EXCEPT !.link = checkouts'] \in Row
            /\ [c.copy EXCEPT !.link = checkouts'].link \in Nat
        BY <2>2, <4>1 DEF Row
      <4>3. NextStep[c.step] \in {"renewFinish", "retryFinish"}
        BY <3>2 DEF NextStep
      <4>4. d \in Call
        BY <1>1, <4>2, <4>3 DEF Call, Steps
      <4>5. d.step \in {"renewFinish", "retryFinish"} /\ d.sub = c.sub
            /\ d.copy = [c.copy EXCEPT !.link = checkouts']
        BY <1>1, <4>3 DEF Call
      <4>6. CallOK(d, rows')
        BY <2>2, <2>4, <4>2, <4>5 DEF CallOK, CopySteps, RenewSteps, InnerSteps, HookSteps
      <4>7. calls' = [calls EXCEPT ![h] = d]
        BY <1>4, <3>2 DEF CheckoutAnswered, Begin
      <4> QED
        BY <2>4, <4>4, <4>6, <4>7, CallStep
    <3> QED
      BY <2>1, <3>1, <3>2
  <2>7. offered' \subseteq Nat
    BY <1>4, <2>2 DEF CheckoutAnswered, TypeInv, TypeOK
  <2> QED
    BY <1>4, <2>2, <2>4, <2>5, <2>6, <2>7 DEF CheckoutAnswered, TypeInv, TypeOK, ledger
<1>5. CASE CheckoutRefused(h)
  <2> DEFINE d == [c EXCEPT !.step = "renewFail"]
  <2>1. RowsGrow /\ rows' \in [Subs -> Row \cup {Null}]
    BY <1>5, RowsKept DEF CheckoutRefused
  <2>4. calls' \in [Handlers -> Call] /\ CallsOK'
    <3>1. CASE c.step = "renewCharge"
      <4>1. c.copy \in Row /\ c.sub \in Subs /\ rows[c.sub] \in Row
        BY <1>1, <3>1, BillingAssumption DEF CallOK, CopySteps, RenewSteps
      <4>2. d \in Call /\ d.step = "renewFail" /\ d.copy = c.copy /\ d.sub = c.sub
        BY <1>1 DEF Call, Steps
      <4>3. CallOK(d, rows')
        BY <2>1, <4>1, <4>2 DEF CallOK, RowsGrow, CopySteps, RenewSteps, InnerSteps, HookSteps
      <4>4. calls' = [calls EXCEPT ![h] = d]
        BY <1>5, <3>1 DEF CheckoutRefused, Begin
      <4> QED
        BY <2>1, <4>2, <4>3, <4>4, CallStep
    <3>2. CASE c.step # "renewCharge"
      BY <1>5, <2>1, <3>2, CallEnd DEF CheckoutRefused
    <3> QED
      BY <3>1, <3>2
  <2>5. jobs' \subseteq Job /\ JobsOK'
    BY <1>5, <2>1, JobsKept DEF CheckoutRefused
  <2>6. spent' \in [Bounds -> Nat]
    BY <1>5, SpendType DEF CheckoutRefused, Bounds
  <2> QED
    BY <1>5, <2>1, <2>4, <2>5, <2>6 DEF CheckoutRefused, TypeInv, TypeOK, provider, ledger
<1>6. CASE RetryFinish(h) \/ ScanSave(h)
  <2>1. c.step \in {"retryFinish", "warnSave", "suspendSave"}
    BY <1>6 DEF RetryFinish, ScanSave
  <2>2. c.sub \in Subs /\ c.copy \in Row
    BY <1>1, <2>1 DEF CallOK, CopySteps
  <2>3. [c.copy EXCEPT !.attempt = now] \in Row
    BY <1>1, <2>2 DEF Row
  <2>4. \E row \in Row : Save(c.sub, row)
    BY <1>6, <2>2, <2>3 DEF RetryFinish, ScanSave
  <2>5. rows' \in [Subs -> Row \cup {Null}] /\ RowsGrow
    BY <2>2, <2>4, SaveStep
  <2>6. calls' \in [Handlers -> Call] /\ CallsOK'
    BY <1>6, <2>5, CallEnd DEF RetryFinish, ScanSave
  <2>7. jobs' \subseteq Job /\ JobsOK'
    BY <1>6, <2>5, JobsKept DEF RetryFinish, ScanSave
  <2>8. offered' \subseteq Nat
    <3>1. CASE RetryFinish(h)
      <4>1. c.copy.link \in Nat
        BY <1>1, <3>1 DEF RetryFinish, CallOK
      <4> QED
        BY <3>1, <4>1 DEF RetryFinish, TypeInv, TypeOK
    <3>2. CASE ScanSave(h)
      BY <3>2 DEF ScanSave, provider, TypeInv, TypeOK
    <3> QED
      BY <1>6, <3>1, <3>2
  <2>9. UNCHANGED <<now, checkouts, payments, events, invoices, spent>>
    BY <1>6 DEF RetryFinish, ScanSave, provider, ledger
  <2> QED
    BY <2>5, <2>6, <2>7, <2>8, <2>9 DEF TypeInv, TypeOK
<1>7. CASE HookRecord(h)
  <2> DEFINE d == [c EXCEPT !.step = "hookApply"]
  <2>1. RowsGrow /\ rows' \in [Subs -> Row \cup {Null}]
    BY <1>7, RowsKept DEF HookRecord
  <2>2. c.pay \in PayIds /\ c.type \in EventTypes /\ c.sub \in Subs \cup {Null}
    BY <1>1, <1>7 DEF HookRecord, CallOK, HookSteps, Call
  <2>3. events' \in [PayIds -> Event \cup {Null}]
    <3>1. [sub |-> c.sub, type |-> c.type] \in Event
      BY <2>2 DEF Event
    <3> QED
      BY <1>7, <2>2, <3>1 DEF HookRecord, TypeInv, TypeOK
  <2>4. calls' \in [Handlers -> Call] /\ CallsOK'
    <3>1. CASE End(h)
      BY <2>1, <3>1, CallEnd
    <3>2. CASE c.sub # Null /\ calls' = [calls EXCEPT ![h] = d]
      <4>1. d \in Call /\ d.step = "hookApply" /\ d.sub = c.sub /\ d.copy = c.copy
            /\ d.pay = c.pay /\ d.type = c.type
        BY <1>1 DEF Call, Steps
      <4>2. c.sub \in Subs /\ c.copy \in Row /\ rows[c.sub] \in Row
        BY <1>1, <1>7, <2>2, <3>2 DEF HookRecord, CallOK
      <4>3. CallOK(d, rows')
        BY <2>1, <2>2, <4>1, <4>2
        DEF CallOK, RowsGrow, CopySteps, RenewSteps, InnerSteps, HookSteps
      <4> QED
        BY <2>1, <3>2, <4>1, <4>3, CallStep
    <3> QED
      BY <1>7, <3>1, <3>2 DEF HookRecord, Begin
  <2>5. jobs' \subseteq Job /\ JobsOK'
    BY <1>7, <2>1, JobsKept DEF HookRecord
  <2> QED
    BY <1>7, <2>1, <2>3, <2>4, <2>5 DEF HookRecord, TypeInv, TypeOK, provider
<1>8. CASE HookApply(h)
  <2> DEFINE d == [c EXCEPT !.step = "hookInvoice"]
             row == ApplyEvent(c.copy, c.type, now)
  <2>1. c.sub \in Subs /\ c.copy \in Row /\ c.pay \in PayIds /\ c.type \in EventTypes
    BY <1>1, <1>8 DEF HookApply, CallOK, CopySteps, HookSteps
  <2>2. row \in Row
    BY <1>1, <2>1, ApplyEventType
  <2>3. rows' \in [Subs -> Row \cup {Null}] /\ RowsGrow /\ rows'[c.sub] \in Row
    BY <1>8, <2>1, <2>2, SaveStep DEF HookApply
  <2>4. d \in Call /\ d.step = "hookInvoice" /\ d.sub = c.sub /\ d.pay = c.pay /\ d.type = c.type
    BY <1>1 DEF Call, Steps
  <2>5. CallOK(d, rows')
    BY <2>1, <2>3, <2>4 DEF CallOK, CopySteps, RenewSteps, InnerSteps, HookSteps
  <2>6. calls' \in [Handlers -> Call] /\ CallsOK'
    BY <1>8, <2>3, <2>4, <2>5, CallStep DEF HookApply, Begin
  <2>7. jobs' \subseteq Job /\ JobsOK'
    BY <1>8, <2>3, JobsKept DEF HookApply
  <2> QED
    BY <1>8, <2>3, <2>6, <2>7 DEF HookApply, TypeInv, TypeOK, provider, ledger
<1>9. CASE HookInvoice(h)
  <2>1. RowsGrow /\ rows' \in [Subs -> Row \cup {Null}]
    BY <1>9, RowsKept DEF HookInvoice
  <2>2. c.pay \in PayIds
    BY <1>1, <1>9 DEF HookInvoice, CallOK, HookSteps
  <2>3. InvoiceStatus(c.type) \in {"paid", "void", "refunded"}
    BY DEF InvoiceStatus
  <2>4. invoices' \in [PayIds -> Seq({"paid", "void", "refunded"})]
    BY <1>9, <2>2, <2>3 DEF HookInvoice, TypeInv, TypeOK
  <2>5. calls' \in [Handlers -> Call] /\ CallsOK'
    BY <1>9, <2>1, CallEnd DEF HookInvoice
  <2>6. jobs' \subseteq Job /\ JobsOK'
    BY <1>9, <2>1, JobsKept DEF HookInvoice
  <2> QED
    BY <1>9, <2>1, <2>4, <2>5, <2>6 DEF HookInvoice, TypeInv, TypeOK, provider
<1> QED
  BY <1>2, <1>3, <1>4, <1>5, <1>6, <1>7, <1>8, <1>9 DEF Continue

LEMMA TypeStep == TypeInv /\ [Next]_vars => TypeInv'
<1> SUFFICES ASSUME TypeInv, [Next]_vars PROVE TypeInv'
  OBVIOUS
<1>1. CASE UNCHANGED vars
  <2>1. RowsGrow /\ rows' \in [Subs -> Row \cup {Null}]
    BY <1>1, RowsKept DEF vars
  <2>2. calls' \in [Handlers -> Call] /\ CallsOK' /\ jobs' \subseteq Job /\ JobsOK'
    BY <1>1, <2>1, CallsKept, JobsKept DEF vars
  <2> QED
    BY <1>1, <2>1, <2>2 DEF vars, provider, ledger, TypeInv, TypeOK
<1>2. CASE Next
  BY <1>2, TypeOutside, TypeStart, TypeContinue, CrashType DEF Next
<1> QED
  BY <1>1, <1>2

\* The tables, the queue and the calls in flight keep their types, and the
\* copy a call is about to save is a row of a subscription that exists.
THEOREM TypeCorrect == Spec => []TypeInv
BY TypeInit, TypeStep, PTL DEF Spec

\* The type invariant that the runs check.
THEOREM TypesHold == Spec => []TypeOK
<1>1. TypeInv => TypeOK
  BY DEF TypeInv
<1> QED
  BY <1>1, TypeCorrect, PTL

-----------------------------------------------------------------------------
\* A payment leaves at most one invoice, for any number of concurrent and repeated
\* notifications.  The argument: the unique index lets one call record the event of
\* a payment; only that call goes on to the invoice, and it ends there.

\* A call that recorded the event of its payment and has not finished.
Recorded(c) == c.step \in {"hookApply", "hookInvoice"}

RecordedOnce ==
    /\ \A h \in Handlers : Recorded(calls[h]) =>
         events[calls[h].pay] # Null /\ invoices[calls[h].pay] = << >>
    /\ \A g, h \in Handlers :
         Recorded(calls[g]) /\ Recorded(calls[h]) /\ calls[g].pay = calls[h].pay => g = h

InvoiceNeedsEvent == \A p \in PayIds : events[p] = Null => invoices[p] = << >>

LedgerInv == RecordedOnce /\ InvoiceNeedsEvent /\ OneInvoicePerPayment

LEMMA LedgerInit == Init => LedgerInv
<1> SUFFICES ASSUME Init PROVE LedgerInv
  OBVIOUS
<1>1. \A h \in Handlers : ~Recorded(calls[h])
  BY DEF Init, Idle, Recorded
<1> QED
  BY <1>1 DEF Init, LedgerInv, RecordedOnce, InvoiceNeedsEvent, OneInvoicePerPayment

\* No call of the next state has recorded an event that it had not before.
NoneRecords ==
    \A h \in Handlers : Recorded(calls'[h]) =>
        \/ calls'[h] = calls[h]
        \/ /\ calls'[h].step = "hookInvoice"
           /\ Recorded(calls[h]) /\ calls'[h].pay = calls[h].pay

LEMMA LedgerKept ==
    ASSUME LedgerInv, UNCHANGED ledger, NoneRecords
    PROVE  LedgerInv'
BY DEF LedgerInv, RecordedOnce, InvoiceNeedsEvent, OneInvoicePerPayment, ledger, NoneRecords

LEMMA CallRecordsNot ==
    ASSUME TypeInv, NEW h \in Handlers, NEW d,
           calls' = [calls EXCEPT ![h] = d],
           ~Recorded(d) \/ (/\ d.step = "hookInvoice" /\ Recorded(calls[h])
                            /\ d.pay = calls[h].pay)
    PROVE  NoneRecords
BY DEF NoneRecords, TypeInv, TypeOK

\* The same, for a step that replaces the record of one call.
LEMMA OneCallRecordsNot ==
    ASSUME NEW h \in Handlers, \A g \in Handlers \ {h} : calls'[g] = calls[g],
           ~Recorded(calls'[h])
    PROVE  NoneRecords
BY DEF NoneRecords

LEMMA IdleRecordsNot == ~Recorded(Idle)
BY DEF Recorded, Idle

LEMMA EndRecordsNot ==
    ASSUME TypeInv, NEW h \in Handlers, End(h)
    PROVE  NoneRecords
BY CallRecordsNot, IdleRecordsNot DEF End

\* A call that begins, is refused or is lost.
LEMMA StartRecordsNot ==
    ASSUME TypeInv, NEW h \in Handlers,
           \/ CheckoutRefused(h) \/ Crash(h)
           \/ \E job \in jobs : RenewStart(h, job)
           \/ \E s \in Existing : RetryStart(h, s) \/ CheckoutStart(h, s)
                                  \/ WarnStart(h, s) \/ SuspendStart(h, s)
           \/ \E p \in PayIds : HookRead(h, p)
    PROVE  NoneRecords /\ UNCHANGED ledger
<1>1. UNCHANGED ledger
  BY DEF CheckoutRefused, Crash, RenewStart, RetryStart, CheckoutStart, WarnStart,
         SuspendStart, HookRead
<1>2. NoneRecords
  <2>1. CASE CheckoutRefused(h) \/ Crash(h)
    <3>1. ~Recorded([calls[h] EXCEPT !.step = "renewFail"])
      BY DEF TypeInv, TypeOK, Call, Recorded
    <3> QED
      BY <2>1, <3>1, EndRecordsNot, CallRecordsNot DEF CheckoutRefused, Crash, Begin
  <2>2. ASSUME NEW job \in jobs, RenewStart(h, job) PROVE NoneRecords
    <3>1. CASE calls' = calls
      BY <3>1 DEF NoneRecords
    <3>2. CASE calls' # calls
      <4>1. calls'[h].step \in {"renewCheckout", "renewSave"}
            /\ \A g \in Handlers \ {h} : calls'[g] = calls[g]
        BY <2>2, <3>2 DEF RenewStart, Begin, Idle, TypeInv, TypeOK
      <4>2. ~Recorded(calls'[h])
        BY <4>1 DEF Recorded
      <4> QED
        BY <4>1, <4>2, OneCallRecordsNot
    <3> QED
      BY <3>1, <3>2
  <2>3. ASSUME NEW s \in Existing,
               RetryStart(h, s) \/ CheckoutStart(h, s) \/ WarnStart(h, s) \/ SuspendStart(h, s)
        PROVE  NoneRecords
    <3>1. \A g \in Handlers \ {h} : calls'[g] = calls[g]
      BY <2>3 DEF RetryStart, CheckoutStart, WarnStart, SuspendStart, Begin, TypeInv, TypeOK
    <3>2. RetryStart(h, s) => calls'[h].step = "retryCheckout"
      BY DEF RetryStart, Begin, Idle, TypeInv, TypeOK
    <3>3. CheckoutStart(h, s) => calls'[h].step = "checkoutCharge"
      BY DEF CheckoutStart, Begin, Idle, TypeInv, TypeOK
    <3>4. WarnStart(h, s) => calls'[h].step = "warnSave"
      BY DEF WarnStart, Begin, Idle, TypeInv, TypeOK
    <3>5. SuspendStart(h, s) => calls'[h].step = "suspendSave"
      BY DEF SuspendStart, Begin, Idle, TypeInv, TypeOK
    <3>6. ~Recorded(calls'[h])
      BY <2>3, <3>2, <3>3, <3>4, <3>5 DEF Recorded
    <3> QED
      BY <3>1, <3>6, OneCallRecordsNot
  <2>4. ASSUME NEW p \in PayIds, HookRead(h, p) PROVE NoneRecords
    <3> DEFINE call == [Idle EXCEPT !.step = "hookRecord", !.since = now,
                                    !.pay = p, !.type = payments[p].status]
    <3>1. \/ Begin(h, call)
          \/ \E s \in Subs : Begin(h, [call EXCEPT !.sub = s, !.copy = rows[s]])
      BY <2>4 DEF HookRead, BoundTo, Existing
    <3>2. call.step = "hookRecord"
          /\ \A s \in Subs : [call EXCEPT !.sub = s, !.copy = rows[s]].step = "hookRecord"
      BY DEF Idle
    <3> HIDE DEF call
    <3>3. calls'[h].step = "hookRecord" /\ \A g \in Handlers \ {h} : calls'[g] = calls[g]
      BY <3>1, <3>2 DEF Begin, TypeInv, TypeOK
    <3>4. ~Recorded(calls'[h])
      BY <3>3 DEF Recorded
    <3> QED
      BY <3>3, <3>4, OneCallRecordsNot
  <2> QED
    BY <2>1, <2>2, <2>3, <2>4
<1> QED
  BY <1>1, <1>2

\* A call that goes on, other than by recording its event.
LEMMA ContinueRecordsNot ==
    ASSUME TypeInv, NEW h \in Handlers, Continue(h), ~HookRecord(h)
    PROVE  NoneRecords
<1> DEFINE c == calls[h]
<1>1. c \in Call
  BY DEF TypeInv, TypeOK
<1>2. CASE RenewSave(h) \/ RenewFinish(h) \/ RenewFail(h) \/ RetryFinish(h) \/ ScanSave(h)
             \/ HookInvoice(h)
  BY <1>2, EndRecordsNot
  DEF RenewSave, RenewFinish, RenewFail, RetryFinish, ScanSave, HookInvoice
<1>3. CASE LoadForCheckout(h) \/ CheckoutAnswered(h)
  <2>1. CASE End(h)
    BY <2>1, EndRecordsNot
  <2>2. CASE ~End(h)
    <3>1. c.step \in {"renewCheckout", "retryCheckout", "renewCharge", "retryCharge"}
      BY <1>3, <2>2 DEF LoadForCheckout, CheckoutAnswered
    <3>2. NextStep[c.step] \notin {"hookApply", "hookInvoice"}
      BY <3>1 DEF NextStep
    <3>3. calls'[h].step = NextStep[c.step] /\ \A g \in Handlers \ {h} : calls'[g] = calls[g]
      BY <1>1, <1>3, <2>2 DEF LoadForCheckout, CheckoutAnswered, Begin, Call, TypeInv, TypeOK
    <3> QED
      BY <3>2, <3>3, OneCallRecordsNot DEF Recorded
  <2> QED
    BY <2>1, <2>2
<1>4. CASE HookApply(h)
  <2> DEFINE d == [c EXCEPT !.step = "hookInvoice"]
  <2>1. d.step = "hookInvoice" /\ d.pay = c.pay /\ Recorded(c)
    BY <1>1, <1>4 DEF HookApply, Recorded, Call
  <2>2. calls' = [calls EXCEPT ![h] = d]
    BY <1>4 DEF HookApply, Begin
  <2> HIDE DEF d
  <2> QED
    BY <2>1, <2>2, CallRecordsNot
<1> QED
  BY <1>2, <1>3, <1>4 DEF Continue

\* Requests, the scan, the clock and the provider.
LEMMA OutsideRecordsNot ==
    ASSUME \/ Tick \/ RenewalScan
           \/ \E s \in Subs, plan \in SignupPlans : CreateFree(s, plan)
           \/ \E s \in Existing : CancelSubscription(s) \/ SuspendSubscription(s)
           \/ \E s \in Existing, plan \in Plans : ChangeSubscription(s, plan)
           \/ \E p \in PayIds, ref \in offered, status \in Outcomes : Pay(p, ref, status)
           \/ \E p \in PayIds, status \in Outcomes : Settle(p, status)
    PROVE  NoneRecords /\ UNCHANGED ledger
BY DEF NoneRecords, Tick, RenewalScan, CreateFree, CancelSubscription,
   SuspendSubscription, ChangeSubscription, Pay, Settle

\* Only HookRecord records an event.
LEMMA OnlyHookRecordRecords ==
    ASSUME TypeInv, [Next]_vars, \A h \in Handlers : ~HookRecord(h)
    PROVE  NoneRecords
<1>1. CASE UNCHANGED vars
  BY <1>1 DEF vars, NoneRecords
<1> QED
  BY <1>1, StartRecordsNot, ContinueRecordsNot, OutsideRecordsNot DEF Next

LEMMA LedgerContinue ==
    ASSUME TypeInv, LedgerInv, NEW h \in Handlers, Continue(h)
    PROVE  LedgerInv'
<1> DEFINE c == calls[h]
           p == c.pay
<1>1. c \in Call /\ CallOK(c, rows)
  BY DEF TypeInv, TypeOK, CallsOK
<1>2. CASE \/ RenewSave(h) \/ RenewFinish(h) \/ RenewFail(h) \/ RetryFinish(h)
           \/ ScanSave(h) \/ LoadForCheckout(h) \/ CheckoutAnswered(h) \/ HookApply(h)
  <2>1. UNCHANGED ledger /\ ~HookRecord(h)
    BY <1>2 DEF RenewSave, RenewFinish, RenewFail, RetryFinish, ScanSave, LoadForCheckout,
       CheckoutAnswered, HookApply, HookRecord
  <2> QED
    BY <2>1, ContinueRecordsNot, LedgerKept
<1>3. CASE HookRecord(h)
  <2>1. p \in PayIds /\ c.step = "hookRecord"
    BY <1>1, <1>3 DEF HookRecord, CallOK, HookSteps
  <2>2. CASE events[p] # Null
    BY <1>3, <2>2, EndRecordsNot, LedgerKept DEF HookRecord, ledger
  <2>3. CASE events[p] = Null
    <3>1. PICK d : calls' = [calls EXCEPT ![h] = d]
                   /\ (~Recorded(d) \/ d.pay = p)
      <4>1. [c EXCEPT !.step = "hookApply"].pay = p
        BY <1>1 DEF Call
      <4> QED
        BY <1>3, <2>3, <4>1, IdleRecordsNot DEF HookRecord, Begin, End
    <3>2. PICK e \in Event : events' = [events EXCEPT ![p] = e]
      <4>1. [sub |-> c.sub, type |-> c.type] \in Event
        BY <1>1, <2>1 DEF Call, CallOK, HookSteps, Event
      <4> QED
        BY <1>3, <2>3, <4>1 DEF HookRecord
    <3>3. e # Null
      BY NullIsNoEvent
    <3>4. invoices' = invoices /\ invoices[p] = << >>
      BY <1>3, <2>1, <2>3 DEF HookRecord, LedgerInv, InvoiceNeedsEvent
    <3>5. \A g \in Handlers : g # h => calls'[g] = calls[g]
      BY <3>1 DEF TypeInv, TypeOK
    <3>6. calls'[h] = d
      BY <3>1 DEF TypeInv, TypeOK
    <3>7. \A q \in PayIds : events'[q] = IF q = p THEN e ELSE events[q]
      BY <3>2 DEF TypeInv, TypeOK
    <3>8. \A g \in Handlers : Recorded(calls[g]) => calls[g].pay \in PayIds /\ calls[g].pay # p
      BY <2>3 DEF LedgerInv, RecordedOnce, Recorded, TypeInv, CallsOK, CallOK, HookSteps
    <3>9. RecordedOnce'
      BY <2>1, <3>1, <3>3, <3>4, <3>5, <3>6, <3>7, <3>8 DEF LedgerInv, RecordedOnce
    <3>10. InvoiceNeedsEvent'
      BY <3>3, <3>4, <3>7 DEF LedgerInv, InvoiceNeedsEvent
    <3> QED
      BY <3>4, <3>9, <3>10 DEF LedgerInv, OneInvoicePerPayment
  <2> QED
    BY <2>2, <2>3
<1>4. CASE HookInvoice(h)
  <2>1. p \in PayIds /\ Recorded(c)
    BY <1>1, <1>4 DEF HookInvoice, CallOK, HookSteps, Recorded
  <2>2. events[p] # Null /\ invoices[p] = << >>
    BY <2>1 DEF LedgerInv, RecordedOnce
  <2>3. \A q \in PayIds : invoices'[q] = IF q = p THEN Append(<< >>, InvoiceStatus(c.type))
                                         ELSE invoices[q]
    BY <1>4, <2>1, <2>2 DEF HookInvoice, TypeInv, TypeOK
  <2>4. events' = events
    BY <1>4 DEF HookInvoice
  <2>5. \A g \in Handlers : Recorded(calls'[g]) =>
          g # h /\ calls'[g] = calls[g] /\ calls[g].pay # p
    BY <1>4, <2>1, IdleRecordsNot DEF HookInvoice, End, TypeInv, TypeOK, LedgerInv, RecordedOnce
  <2>6. \A g \in Handlers : Recorded(calls'[g]) => calls[g].pay \in PayIds
    BY <2>5 DEF Recorded, TypeInv, CallsOK, CallOK, HookSteps
  <2>7. RecordedOnce'
    BY <2>3, <2>4, <2>5, <2>6 DEF LedgerInv, RecordedOnce
  <2>8. InvoiceNeedsEvent'
    BY <2>2, <2>3, <2>4 DEF LedgerInv, InvoiceNeedsEvent
  <2>9. Len(Append(<< >>, InvoiceStatus(c.type))) <= 1
    OBVIOUS
  <2> QED
    BY <2>3, <2>7, <2>8, <2>9 DEF LedgerInv, OneInvoicePerPayment
<1> QED
  BY <1>2, <1>3, <1>4 DEF Continue

LEMMA LedgerStep == TypeInv /\ LedgerInv /\ [Next]_vars => LedgerInv'
<1> SUFFICES ASSUME TypeInv, LedgerInv, [Next]_vars PROVE LedgerInv'
  OBVIOUS
<1>1. CASE \E h \in Handlers : Continue(h)
  BY <1>1, LedgerContinue
<1>2. CASE ~\E h \in Handlers : Continue(h)
  <2>1. NoneRecords /\ UNCHANGED ledger
    <3>1. CASE UNCHANGED vars
      BY <3>1 DEF vars, NoneRecords
    <3>2. CASE Next
      BY <1>2, <3>2, StartRecordsNot, OutsideRecordsNot DEF Next
    <3> QED
      BY <3>1, <3>2
  <2> QED
    BY <2>1, LedgerKept
<1> QED
  BY <1>1, <1>2

\* PAY-002 for any number of payments and of calls in flight: a payment has at
\* most one invoice.
THEOREM InvoicedOnce == Spec => []OneInvoicePerPayment
<1>1. LedgerInv => OneInvoicePerPayment
  BY DEF LedgerInv
<1> QED
  BY <1>1, TypeCorrect, LedgerInit, LedgerStep, PTL DEF Spec

-----------------------------------------------------------------------------
\* What no out-of-date copy can break.  Calls keep copies of a row and write them
\* back whole, so an invariant of the stored rows must hold of every copy in
\* circulation.  Lemma DataFlow says where the copies of the next state come from: a
\* new row, or one of the changes the code makes, applied to a copy that circulates
\* now.  Each property of rows then follows from the row functions alone.

\* The copies of the row of s in circulation: the table's and the calls'.
Held(s) ==
    {r \in Row : \/ r = rows[s]
                 \/ \E h \in Handlers : /\ calls[h].sub = s
                                        /\ r = calls[h].copy \/ r = calls[h].inner}

\* The changes that the code makes to a copy of the row of s.
Changed(s, r, q) ==
    \/ q = r
    \/ q = [r EXCEPT !.status = "canceled"]
    \/ "suspend" \in Requests /\ q = Suspend(r)
    \/ OverdueCandidate(r, now) /\ q = Suspend(r)
    \/ q = RenewalDraft(r, now)
    \/ \E plan \in Plans : q = ChangePlan(r, plan, now)
    \/ \E t \in Nat : q = [r EXCEPT !.attempt = t]
    \/ \E n \in Nat : q = [r EXCEPT !.ref = n] \/ q = [r EXCEPT !.link = n]
    \/ GraceEndingCandidate(r, now) /\ q = [r EXCEPT !.warned = TRUE]
    \/ \E h \in Handlers : /\ calls[h].step = "hookApply" /\ calls[h].sub = s
                           /\ q = ApplyEvent(r, calls[h].type, now)

Sourced(s, q) ==
    \/ \E plan \in SignupPlans : q = NewRow(plan, now)
    \/ \E r \in Held(s) : Changed(s, r, q)

LEMMA HeldSourced ==
    ASSUME NEW s, NEW q \in Held(s)
    PROVE  Sourced(s, q)
BY DEF Sourced, Changed

LEMMA RowHeld ==
    ASSUME NEW s, rows[s] \in Row
    PROVE  rows[s] \in Held(s)
BY DEF Held

LEMMA CopyHeld ==
    ASSUME NEW h \in Handlers
    PROVE  /\ calls[h].copy \in Row => calls[h].copy \in Held(calls[h].sub)
           /\ calls[h].inner \in Row => calls[h].inner \in Held(calls[h].sub)
BY DEF Held

\* Where a copy of the next state is when a step changes at most one call.
LEMMA CallSources ==
    ASSUME TypeInv, NEW h \in Handlers, NEW d, calls' = [calls EXCEPT ![h] = d],
           NEW s \in Subs, NEW q \in Held(s)'
    PROVE  /\ q \in Row
           /\ q = rows'[s] \/ q \in Held(s) \/ (d.sub = s /\ (q = d.copy \/ q = d.inner))
<1>1. q \in Row
  BY DEF Held
<1>2. ASSUME q # rows'[s]
      PROVE  q \in Held(s) \/ (d.sub = s /\ (q = d.copy \/ q = d.inner))
  <2>1. PICK g \in Handlers : calls'[g].sub = s /\ (q = calls'[g].copy \/ q = calls'[g].inner)
    BY <1>2 DEF Held
  <2>2. CASE g = h
    BY <2>1, <2>2 DEF TypeInv, TypeOK
  <2>3. CASE g # h
    <3>1. calls'[g] = calls[g]
      BY <2>3 DEF TypeInv, TypeOK
    <3> QED
      BY <1>1, <2>1, <3>1 DEF Held
  <2> QED
    BY <2>2, <2>3
<1> QED
  BY <1>1, <1>2

LEMMA EndSources ==
    ASSUME TypeInv, NEW h \in Handlers, End(h), NEW s \in Subs, NEW q \in Held(s)'
    PROVE  q \in Row /\ (q = rows'[s] \/ q \in Held(s))
<1>1. Idle.sub # s
  BY BillingAssumption DEF Idle
<1>2. calls' = [calls EXCEPT ![h] = Idle]
  BY DEF End
<1> HIDE DEF Idle
<1> QED
  BY <1>1, <1>2, CallSources

LEMMA SameSources ==
    ASSUME TypeInv, calls' = calls, NEW s \in Subs, NEW q \in Held(s)'
    PROVE  q \in Row /\ (q = rows'[s] \/ q \in Held(s))
BY DEF Held

LEMMA SameRow ==
    ASSUME rows' = rows, NEW s \in Subs, rows'[s] \in Row
    PROVE  Sourced(s, rows'[s])
BY HeldSourced, RowHeld

LEMMA SavedRow ==
    ASSUME TypeInv, NEW x \in Subs, NEW copy, Save(x, copy), Sourced(x, copy),
           NEW s \in Subs, rows'[s] \in Row
    PROVE  Sourced(s, rows'[s])
<1>1. CASE s = x
  BY <1>1 DEF Save, TypeInv, TypeOK
<1>2. CASE s # x
  <2>1. rows'[s] = rows[s]
    BY <1>2 DEF Save, TypeInv, TypeOK
  <2> QED
    BY <2>1, HeldSourced, RowHeld
<1> QED
  BY <1>1, <1>2

-----------------------------------------------------------------------------
\* Requests, the scan, the clock and the provider.
LEMMA FlowOutside ==
    ASSUME TypeInv, NEW s \in Subs, NEW q \in Held(s)',
           \/ Tick \/ RenewalScan
           \/ \E x \in Subs, plan \in SignupPlans : CreateFree(x, plan)
           \/ \E x \in Existing : CancelSubscription(x) \/ SuspendSubscription(x)
           \/ \E x \in Existing, plan \in Plans : ChangeSubscription(x, plan)
           \/ \E p \in PayIds, ref \in offered, status \in Outcomes : Pay(p, ref, status)
           \/ \E p \in PayIds, status \in Outcomes : Settle(p, status)
    PROVE  Sourced(s, q)
<1>1. calls' = calls
  BY DEF Tick, RenewalScan, CreateFree, CancelSubscription, SuspendSubscription,
         ChangeSubscription, Pay, Settle
<1>2. q \in Row /\ (q = rows'[s] \/ q \in Held(s))
  BY <1>1, SameSources
<1>3. CASE rows' = rows
  BY <1>2, <1>3, SameRow, HeldSourced
<1>4. ASSUME NEW x \in Subs, NEW plan \in SignupPlans, CreateFree(x, plan) PROVE Sourced(s, q)
  <2>1. CASE s = x
    <3>1. rows'[s] = NewRow(plan, now)
      BY <1>4, <2>1 DEF CreateFree
    <3> QED
      BY <1>2, <3>1, HeldSourced DEF Sourced
  <2>2. CASE s # x
    <3>1. rows'[s] = rows[s]
          \/ (rows[s] # Null /\ rows'[s] = [rows[s] EXCEPT !.status = "canceled"])
      BY <1>4, <2>2 DEF CreateFree
    <3>2. rows[s] # Null => rows[s] \in Held(s)
      BY RowHeld DEF TypeInv, TypeOK
    <3> QED
      BY <1>2, <3>1, <3>2, HeldSourced, RowHeld DEF Sourced, Changed
  <2> QED
    BY <2>1, <2>2
<1>5. ASSUME NEW x \in Existing,
             CancelSubscription(x) \/ SuspendSubscription(x)
               \/ \E plan \in Plans : ChangeSubscription(x, plan)
      PROVE  Sourced(s, q)
  <2>1. x \in Subs /\ rows[x] \in Held(x)
    BY ExistingRow, RowHeld
  <2>2. CASE CancelSubscription(x)
    <3>1. Sourced(x, [rows[x] EXCEPT !.status = "canceled"])
      BY <2>1 DEF Sourced, Changed
    <3> QED
      BY <1>2, <2>1, <2>2, <3>1, SavedRow, HeldSourced DEF CancelSubscription
  <2>3. CASE SuspendSubscription(x)
    <3>1. Sourced(x, Suspend(rows[x]))
      BY <2>1, <2>3 DEF Sourced, Changed, SuspendSubscription
    <3> QED
      BY <1>2, <2>1, <2>3, <3>1, SavedRow, HeldSourced DEF SuspendSubscription
  <2>4. ASSUME NEW plan \in Plans, ChangeSubscription(x, plan) PROVE Sourced(s, q)
    <3>1. Sourced(x, ChangePlan(rows[x], plan, now))
      BY <2>1 DEF Sourced, Changed
    <3> QED
      BY <1>2, <2>1, <2>4, <3>1, SavedRow, HeldSourced DEF ChangeSubscription
  <2> QED
    BY <1>5, <2>2, <2>3, <2>4
<1> QED
  BY <1>3, <1>4, <1>5 DEF Tick, RenewalScan, Pay, Settle

\* A step that changes no row, and one call whose copies have a source.
LEMMA CallSourced ==
    ASSUME TypeInv, NEW h \in Handlers, NEW d, calls' = [calls EXCEPT ![h] = d],
           rows' = rows, NEW s \in Subs, NEW q \in Held(s)',
           d.sub = s => /\ d.copy \in Row => Sourced(s, d.copy)
                        /\ d.inner \in Row => Sourced(s, d.inner)
    PROVE  Sourced(s, q)
<1>1. /\ q \in Row
      /\ q = rows'[s] \/ q \in Held(s) \/ (d.sub = s /\ (q = d.copy \/ q = d.inner))
  BY CallSources
<1>2. CASE q = rows'[s]
  BY <1>1, <1>2, SameRow
<1> QED
  BY <1>1, <1>2, HeldSourced

\* Calls that begin.
LEMMA FlowStart ==
    ASSUME TypeInv, NEW s \in Subs, NEW q \in Held(s)', NEW h \in Handlers,
           \/ CheckoutRefused(h) \/ Crash(h)
           \/ \E job \in jobs : RenewStart(h, job)
           \/ \E x \in Existing : RetryStart(h, x) \/ CheckoutStart(h, x)
                                  \/ WarnStart(h, x) \/ SuspendStart(h, x)
           \/ \E p \in PayIds : HookRead(h, p)
    PROVE  Sourced(s, q)
<1>1. rows' = rows
  BY DEF CheckoutRefused, Crash, RenewStart, RetryStart, CheckoutStart, WarnStart,
         SuspendStart, HookRead
<1>2. CASE CheckoutRefused(h) \/ Crash(h)
  <2> DEFINE d == [calls[h] EXCEPT !.step = "renewFail"]
  <2>1. d.sub = calls[h].sub /\ d.copy = calls[h].copy /\ d.inner = calls[h].inner
    BY DEF TypeInv, TypeOK, Call
  <2>2. CASE End(h)
    BY <1>1, <2>2, EndSources, SameRow, HeldSourced
  <2>3. CASE calls' = [calls EXCEPT ![h] = d]
    <3> HIDE DEF d
    <3> QED
      BY <1>1, <2>1, <2>3, CallSourced, CopyHeld, HeldSourced
  <2> QED
    BY <1>2, <2>2, <2>3 DEF CheckoutRefused, Crash, Begin
<1>3. ASSUME NEW job \in jobs, RenewStart(h, job) PROVE Sourced(s, q)
  <2>1. CASE calls' = calls
    BY <1>1, <2>1, SameSources, SameRow, HeldSourced
  <2>2. CASE calls' # calls
    <3> DEFINE row == rows[job.sub]
               d == [Idle EXCEPT
                       !.step = IF RenewalDecision(row, now) = "charge"
                                THEN "renewCheckout" ELSE "renewSave",
                       !.sub = job.sub, !.copy = RenewalDraft(row, now),
                       !.since = now, !.jobEnd = job.end]
    <3>1. calls' = [calls EXCEPT ![h] = d]
      BY <1>3, <2>2 DEF RenewStart, Begin
    <3>2. d.sub = job.sub /\ d.copy = RenewalDraft(row, now) /\ d.inner = Null
      BY DEF Idle
    <3>3. row \in Held(job.sub)
      BY RowHeld DEF TypeInv, JobsOK
    <3>4. Sourced(job.sub, RenewalDraft(row, now))
      BY <3>3 DEF Sourced, Changed
    <3> HIDE DEF d, row
    <3> QED
      BY <1>1, <3>1, <3>2, <3>4, CallSourced, NullIsNoRow
  <2> QED
    BY <2>1, <2>2
<1>4. ASSUME NEW x \in Existing,
             RetryStart(h, x) \/ CheckoutStart(h, x) \/ WarnStart(h, x) \/ SuspendStart(h, x)
      PROVE  Sourced(s, q)
  <2>1. x \in Subs /\ rows[x] \in Held(x)
    BY ExistingRow, RowHeld
  <2>2. CASE RetryStart(h, x)
    <3> DEFINE d == [Idle EXCEPT !.step = "retryCheckout", !.sub = x,
                                 !.copy = rows[x], !.since = now]
    <3>1. calls' = [calls EXCEPT ![h] = d]
      BY <2>2 DEF RetryStart, Begin
    <3>2. d.sub = x /\ d.copy = rows[x] /\ d.inner = Null
      BY DEF Idle
    <3> HIDE DEF d
    <3> QED
      BY <1>1, <2>1, <3>1, <3>2, CallSourced, HeldSourced, NullIsNoRow
  <2>3. CASE CheckoutStart(h, x)
    <3> DEFINE d == [Idle EXCEPT !.step = "checkoutCharge", !.sub = x,
                                 !.inner = rows[x], !.since = now]
    <3>1. calls' = [calls EXCEPT ![h] = d]
      BY <2>3 DEF CheckoutStart, Begin
    <3>2. d.sub = x /\ d.copy = Null /\ d.inner = rows[x]
      BY DEF Idle
    <3> HIDE DEF d
    <3> QED
      BY <1>1, <2>1, <3>1, <3>2, CallSourced, HeldSourced, NullIsNoRow
  <2>4. CASE WarnStart(h, x)
    <3> DEFINE d == [Idle EXCEPT !.step = "warnSave", !.sub = x, !.since = now,
                                 !.copy = [rows[x] EXCEPT !.warned = TRUE]]
    <3>1. calls' = [calls EXCEPT ![h] = d]
      BY <2>4 DEF WarnStart, Begin
    <3>2. d.sub = x /\ d.copy = [rows[x] EXCEPT !.warned = TRUE] /\ d.inner = Null
      BY DEF Idle
    <3>3. Sourced(x, [rows[x] EXCEPT !.warned = TRUE])
      BY <2>1, <2>4 DEF WarnStart, Sourced, Changed
    <3> HIDE DEF d
    <3> QED
      BY <1>1, <3>1, <3>2, <3>3, CallSourced, NullIsNoRow
  <2>5. CASE SuspendStart(h, x)
    <3> DEFINE d == [Idle EXCEPT !.step = "suspendSave", !.sub = x, !.since = now,
                                 !.copy = Suspend(rows[x])]
    <3>1. calls' = [calls EXCEPT ![h] = d]
      BY <2>5 DEF SuspendStart, Begin
    <3>2. d.sub = x /\ d.copy = Suspend(rows[x]) /\ d.inner = Null
      BY DEF Idle
    <3>3. Sourced(x, Suspend(rows[x]))
      BY <2>1, <2>5 DEF SuspendStart, Sourced, Changed
    <3> HIDE DEF d
    <3> QED
      BY <1>1, <3>1, <3>2, <3>3, CallSourced, NullIsNoRow
  <2> QED
    BY <1>4, <2>2, <2>3, <2>4, <2>5
<1>5. ASSUME NEW p \in PayIds, HookRead(h, p) PROVE Sourced(s, q)
  <2> DEFINE call == [Idle EXCEPT !.step = "hookRecord", !.since = now,
                                  !.pay = p, !.type = payments[p].status]
  <2>1. call.sub = Null /\ call.inner = Null
        /\ \A x \in Subs :
             LET d == [call EXCEPT !.sub = x, !.copy = rows[x]]
             IN  d.sub = x /\ d.copy = rows[x] /\ d.inner = Null
    BY DEF Idle
  <2>2. CASE Begin(h, call)
    <3>1. calls' = [calls EXCEPT ![h] = call]
      BY <2>2 DEF Begin
    <3>2. call.sub # s
      BY <2>1, BillingAssumption
    <3> HIDE DEF call
    <3> QED
      BY <1>1, <3>1, <3>2, CallSourced
  <2>3. ASSUME NEW x \in Existing, Begin(h, [call EXCEPT !.sub = x, !.copy = rows[x]])
        PROVE  Sourced(s, q)
    <3> DEFINE d == [call EXCEPT !.sub = x, !.copy = rows[x]]
    <3>1. x \in Subs /\ rows[x] \in Held(x)
      BY ExistingRow, RowHeld
    <3>2. calls' = [calls EXCEPT ![h] = d]
      BY <2>3 DEF Begin
    <3>3. d.sub = x /\ d.copy = rows[x] /\ d.inner = Null
      BY <2>1, <3>1
    <3> HIDE DEF d, call
    <3> QED
      BY <1>1, <3>1, <3>2, <3>3, CallSourced, HeldSourced, NullIsNoRow
  <2> QED
    BY <1>5, <2>2, <2>3 DEF HookRead, BoundTo
<1> QED
  BY <1>2, <1>3, <1>4, <1>5

\* A step that saves one copy and ends its call.
LEMMA SaveAndEnd ==
    ASSUME TypeInv, NEW h \in Handlers, End(h), NEW x \in Subs, NEW copy, Save(x, copy),
           Sourced(x, copy), NEW s \in Subs, NEW q \in Held(s)'
    PROVE  Sourced(s, q)
BY EndSources, SavedRow, HeldSourced

\* Calls that go on.
LEMMA FlowContinue ==
    ASSUME TypeInv, NEW s \in Subs, NEW q \in Held(s)', NEW h \in Handlers, Continue(h)
    PROVE  Sourced(s, q)
<1> DEFINE c == calls[h]
<1>1. c \in Call /\ CallOK(c, rows) /\ now \in Nat /\ checkouts + 1 \in Nat
  BY DEF TypeInv, TypeOK, CallsOK
<1>2. c.step \in CopySteps => c.sub \in Subs /\ c.copy \in Held(c.sub)
  BY <1>1, CopyHeld DEF CallOK
<1>3. c.step \in InnerSteps => c.sub \in Subs /\ c.inner \in Held(c.sub)
  BY <1>1, CopyHeld DEF CallOK
<1>4. CASE RenewSave(h) \/ ScanSave(h)
  <2>1. c.step \in CopySteps /\ Save(c.sub, c.copy) /\ End(h)
    BY <1>4 DEF RenewSave, ScanSave, CopySteps, RenewSteps
  <2> QED
    BY <1>2, <2>1, SaveAndEnd, HeldSourced
<1>5. CASE RenewFinish(h) \/ RenewFail(h) \/ RetryFinish(h)
  <2>1. PICK t \in Nat : Save(c.sub, [c.copy EXCEPT !.attempt = t])
    BY <1>1, <1>5 DEF RenewFinish, RenewFail, RetryFinish, Call
  <2>2. c.step \in CopySteps /\ End(h)
    BY <1>5 DEF RenewFinish, RenewFail, RetryFinish, CopySteps, RenewSteps
  <2>3. Sourced(c.sub, [c.copy EXCEPT !.attempt = t])
    BY <1>2, <2>2 DEF Sourced, Changed
  <2> QED
    BY <1>2, <2>1, <2>2, <2>3, SaveAndEnd
<1>6. CASE LoadForCheckout(h)
  <2> DEFINE d == [c EXCEPT !.step = NextStep[c.step], !.inner = rows[c.sub]]
  <2>1. d.sub = c.sub /\ d.copy = c.copy /\ d.inner = rows[c.sub]
    BY <1>1 DEF Call
  <2>2. calls' = [calls EXCEPT ![h] = d] /\ rows' = rows
    BY <1>6 DEF LoadForCheckout, Begin
  <2> HIDE DEF d
  <2>3. c.copy \in Row => Sourced(c.sub, c.copy)
    BY CopyHeld, HeldSourced
  <2>4. rows[c.sub] \in Row => Sourced(c.sub, rows[c.sub])
    BY RowHeld, HeldSourced
  <2> QED
    BY <2>1, <2>2, <2>3, <2>4, CallSourced
<1>7. CASE CheckoutAnswered(h)
  <2> DEFINE saved == [c.inner EXCEPT !.ref = checkouts']
             copy == [c.copy EXCEPT !.link = checkouts']
  <2>1. c.step \in InnerSteps /\ checkouts' = checkouts + 1 /\ Save(c.sub, saved)
    BY <1>7 DEF CheckoutAnswered, InnerSteps
  <2>2. Sourced(c.sub, saved)
    BY <1>1, <1>3, <2>1 DEF Sourced, Changed
  <2>3. CASE End(h)
    <3> HIDE DEF saved
    <3> QED
      BY <1>3, <2>1, <2>2, <2>3, SaveAndEnd
  <2>4. CASE ~End(h)
    <3> DEFINE d == [c EXCEPT !.step = NextStep[c.step], !.copy = [@ EXCEPT !.link = checkouts']]
    <3>1. d.sub = c.sub /\ d.copy = copy /\ d.inner = c.inner
      BY <1>1 DEF Call
    <3>2. calls' = [calls EXCEPT ![h] = d] /\ c.step \in CopySteps
      BY <1>7, <2>4 DEF CheckoutAnswered, Begin, CopySteps, RenewSteps
    <3>3. Sourced(c.sub, copy)
      BY <1>1, <1>2, <2>1, <3>2 DEF Sourced, Changed
    <3>4. Sourced(c.sub, c.inner)
      BY <1>3, <2>1, HeldSourced
    <3> HIDE DEF d, saved, copy
    <3>5. q \in Row /\ (q = rows'[s] \/ q \in Held(s) \/ (c.sub = s /\ (q = copy \/ q = c.inner)))
      BY <3>1, <3>2, CallSources
    <3> QED
      BY <1>3, <2>1, <2>2, <3>3, <3>4, <3>5, SavedRow, HeldSourced
  <2> QED
    BY <2>3, <2>4
<1>8. CASE HookRecord(h)
  <2> DEFINE d == [c EXCEPT !.step = "hookApply"]
  <2>1. d.sub = c.sub /\ d.copy = c.copy /\ d.inner = c.inner
    BY <1>1 DEF Call
  <2>2. rows' = rows /\ (End(h) \/ calls' = [calls EXCEPT ![h] = d])
    BY <1>8 DEF HookRecord, Begin
  <2> HIDE DEF d
  <2> QED
    BY <2>1, <2>2, EndSources, SameRow, HeldSourced, CallSourced, CopyHeld
<1>9. CASE HookApply(h)
  <2> DEFINE d == [c EXCEPT !.step = "hookInvoice"]
             row == ApplyEvent(c.copy, c.type, now)
  <2>1. d.sub = c.sub /\ d.copy = c.copy /\ d.inner = c.inner
    BY <1>1 DEF Call
  <2>2. c.step = "hookApply" /\ Save(c.sub, row) /\ calls' = [calls EXCEPT ![h] = d]
    BY <1>9 DEF HookApply, Begin
  <2>3. c.sub \in Subs /\ Sourced(c.sub, row)
    BY <1>2, <2>2 DEF CopySteps, Sourced, Changed
  <2> HIDE DEF d, row
  <2>4. q \in Row /\ (q = rows'[s] \/ q \in Held(s) \/ (c.sub = s /\ (q = c.copy \/ q = c.inner)))
    BY <2>1, <2>2, CallSources
  <2> QED
    BY <2>2, <2>3, <2>4, SavedRow, HeldSourced, CopyHeld
<1>10. CASE HookInvoice(h)
  BY <1>10, EndSources, SameRow, HeldSourced DEF HookInvoice
<1> QED
  BY <1>4, <1>5, <1>6, <1>7, <1>8, <1>9, <1>10 DEF Continue

LEMMA DataFlow ==
    ASSUME TypeInv, [Next]_vars, NEW s \in Subs, NEW q \in Held(s)'
    PROVE  Sourced(s, q)
<1>1. CASE UNCHANGED vars
  BY <1>1, SameSources, SameRow, HeldSourced DEF vars
<1>2. CASE Next
  BY <1>2, FlowOutside, FlowStart, FlowContinue DEF Next
<1> QED
  BY <1>1, <1>2

-----------------------------------------------------------------------------
\* Init: the only copies are the new row of one subscription.
LEMMA HeldInit ==
    ASSUME Init, NEW s \in Subs, NEW q \in Held(s)
    PROVE  \E plan \in SignupPlans : q = NewRow(plan, 0)
<1>1. \A h \in Handlers : calls[h].sub # s
  BY BillingAssumption DEF Init, Idle
<1>2. q = rows[s] /\ q # Null
  BY <1>1, NullIsNoRow DEF Held
<1>3. PICK x \in Subs, plan \in SignupPlans :
        rows = [y \in Subs |-> IF y = x THEN NewRow(plan, 0) ELSE Null]
  BY DEF Init
<1> QED
  BY <1>2, <1>3

LEMMA StoredIsHeld ==
    ASSUME TypeInv, NEW s \in Existing
    PROVE  s \in Subs /\ rows[s] \in Held(s)
BY ExistingRow, RowHeld

\* The clock does not go back.
LEMMA ClockMoves == TypeInv /\ [Next]_vars => now \in Nat /\ now' \in Nat /\ now <= now'
<1> SUFFICES ASSUME TypeInv, [Next]_vars PROVE now \in Nat /\ now' \in Nat /\ now <= now'
  OBVIOUS
<1>1. now \in Nat
  BY DEF TypeInv, TypeOK
<1>2. now' = now \/ now' = now + 1
  <2>1. CASE Tick
    BY <2>1 DEF Tick
  <2>2. CASE ~Tick
    BY <2>2
    DEF Next, vars, RenewalScan, CreateFree, CancelSubscription, SuspendSubscription,
        ChangeSubscription, Pay, Settle, Continue, RenewSave, RenewFinish, RenewFail,
        LoadForCheckout, CheckoutAnswered, RetryFinish, ScanSave, HookRecord, HookApply,
        HookInvoice, CheckoutRefused, Crash, RenewStart, RetryStart, CheckoutStart,
        WarnStart, SuspendStart, HookRead
  <2> QED
    BY <2>1, <2>2
<1> QED
  BY <1>1, <1>2

-----------------------------------------------------------------------------
\* The warning flag.

WarnedInGrace(row) == row.warned => row.grace # Null

WarnInv == \A s \in Subs : \A r \in Held(s) : WarnedInGrace(r)

LEMMA WarnedChange ==
    ASSUME TypeInv, NEW s, NEW r \in Row, WarnedInGrace(r), NEW q, Changed(s, r, q)
    PROVE  WarnedInGrace(q)
<1>1. now \in Nat /\ now + Grace # Null
  BY ConstantTypes, RowAssumption DEF TypeInv, TypeOK
<1>2. WarnedInGrace(RenewalDraft(r, now))
  BY <1>1 DEF WarnedInGrace, RenewalDraft, Suspend, Extend, OpenGrace, Row
<1>3. \A plan \in Plans : WarnedInGrace(ChangePlan(r, plan, now))
  BY DEF WarnedInGrace, ChangePlan, Row
<1>4. \A type : WarnedInGrace(ApplyEvent(r, type, now))
  BY DEF WarnedInGrace, ApplyEvent, Approve, Row
<1>5. GraceEndingCandidate(r, now) => WarnedInGrace([r EXCEPT !.warned = TRUE])
  BY DEF WarnedInGrace, GraceEndingCandidate, Row
<1>6. /\ WarnedInGrace([r EXCEPT !.status = "canceled"]) /\ WarnedInGrace(Suspend(r))
      /\ \A n : /\ WarnedInGrace([r EXCEPT !.attempt = n])
                /\ WarnedInGrace([r EXCEPT !.ref = n]) /\ WarnedInGrace([r EXCEPT !.link = n])
  BY DEF WarnedInGrace, Suspend, Row
<1> QED
  BY <1>2, <1>3, <1>4, <1>5, <1>6 DEF Changed

LEMMA WarnStep == TypeInv /\ WarnInv /\ [Next]_vars => WarnInv'
<1> SUFFICES ASSUME TypeInv, WarnInv, [Next]_vars, NEW s \in Subs, NEW q \in Held(s)'
             PROVE  WarnedInGrace(q)
  BY DEF WarnInv
<1>1. \A plan \in SignupPlans : WarnedInGrace(NewRow(plan, now))
  BY DEF WarnedInGrace, NewRow
<1>2. \A r \in Held(s) : r \in Row /\ WarnedInGrace(r)
  BY DEF WarnInv, Held
<1> QED
  BY <1>1, <1>2, DataFlow, WarnedChange DEF Sourced

\* REN-008: the warning flag never outlives the grace, whatever the calls that
\* race and however old the copies they write back.
THEOREM WarningNeverOutlivesGrace == Spec => []WarningBelongsToOpenGrace
<1>1. Init => WarnInv
  BY HeldInit DEF WarnInv, WarnedInGrace, NewRow
<1>2. TypeInv /\ WarnInv => WarningBelongsToOpenGrace
  BY StoredIsHeld DEF WarnInv, WarnedInGrace, WarningBelongsToOpenGrace
<1> QED
  BY <1>1, <1>2, TypeCorrect, WarnStep, PTL DEF Spec

-----------------------------------------------------------------------------
\* Suspension.

SuspendedLate(row, t) == row.status = "suspended" => GraceExpired(row, t)

SuspInv == \A s \in Subs : \A r \in Held(s) : SuspendedLate(r, now)

LEMMA SuspendedChange ==
    ASSUME TypeInv, "suspend" \notin Requests,
           NEW s, NEW r \in Row, SuspendedLate(r, now), NEW q, Changed(s, r, q)
    PROVE  SuspendedLate(q, now)
<1>1. SuspendedLate(RenewalDraft(r, now), now)
  <2>1. RenewalDecision(r, now) = "suspend" => GraceExpired(r, now)
    BY DEF RenewalDecision
  <2>2. GraceExpired(r, now) => GraceExpired(Suspend(r), now)
    BY DEF GraceExpired, Suspend, Row
  <2>3. SuspendedLate(Extend(r, now), now)
    BY DEF SuspendedLate, Extend, Row
  <2>4. SuspendedLate(OpenGrace(r, now), now)
    BY DEF SuspendedLate, OpenGrace, GraceExpired, Row
  <2> QED
    BY <2>1, <2>2, <2>3, <2>4 DEF SuspendedLate, RenewalDraft
<1>2. \A plan \in Plans : SuspendedLate(ChangePlan(r, plan, now), now)
  BY DEF SuspendedLate, ChangePlan, Row
<1>3. \A type : SuspendedLate(ApplyEvent(r, type, now), now)
  BY DEF SuspendedLate, ApplyEvent, Approve, Row
<1>4. OverdueCandidate(r, now) => SuspendedLate(Suspend(r), now)
  BY DEF SuspendedLate, OverdueCandidate, GraceExpired, Suspend, Row
<1>5. /\ SuspendedLate([r EXCEPT !.status = "canceled"], now)
      /\ SuspendedLate([r EXCEPT !.warned = TRUE], now)
      /\ \A n : /\ SuspendedLate([r EXCEPT !.attempt = n], now)
                /\ SuspendedLate([r EXCEPT !.ref = n], now)
                /\ SuspendedLate([r EXCEPT !.link = n], now)
  BY DEF SuspendedLate, GraceExpired, Row
<1> QED
  BY <1>1, <1>2, <1>3, <1>4, <1>5 DEF Changed

LEMMA SuspendedStep ==
    "suspend" \notin Requests => (TypeInv /\ SuspInv /\ [Next]_vars => SuspInv')
<1> SUFFICES ASSUME "suspend" \notin Requests, TypeInv, SuspInv, [Next]_vars,
                    NEW s \in Subs, NEW q \in Held(s)'
             PROVE  SuspendedLate(q, now')
  BY DEF SuspInv
<1>1. \A plan \in SignupPlans : SuspendedLate(NewRow(plan, now), now)
  BY DEF SuspendedLate, NewRow
<1>2. \A r \in Held(s) : r \in Row /\ SuspendedLate(r, now)
  BY DEF SuspInv, Held
<1>3. SuspendedLate(q, now) /\ q \in Row
  BY <1>1, <1>2, DataFlow, SuspendedChange DEF Sourced, Held
<1> QED
  BY <1>3, ClockMoves DEF SuspendedLate, GraceExpired, Row

\* REN-005 and REN-009: where no administrator suspends, a subscription is
\* suspended only when a grace deadline it was given has passed.
THEOREM SuspensionIsOverdue ==
    "suspend" \notin Requests => (Spec => []SuspendedOnlyOverdue)
<1> SUFFICES ASSUME "suspend" \notin Requests PROVE Spec => []SuspendedOnlyOverdue
  OBVIOUS
<1>1. Init => SuspInv
  BY HeldInit DEF SuspInv, SuspendedLate, NewRow
<1>2. TypeInv /\ SuspInv => SuspendedOnlyOverdue
  BY StoredIsHeld DEF SuspInv, SuspendedLate, SuspendedOnlyOverdue
<1>3. TypeInv /\ SuspInv /\ [Next]_vars => SuspInv'
  BY SuspendedStep
<1> QED
  BY <1>1, <1>2, <1>3, TypeCorrect, PTL DEF Spec

-----------------------------------------------------------------------------
\* The plan in force.

PaidFor(s) == \E p \in PayIds : events[p] = [sub |-> s, type |-> "approved"]

PlanPaid(s, row) == row.plan \in PaidPlans \ SignupPlans => PaidFor(s)

AppliesRecorded ==
    \A h \in Handlers : calls[h].step = "hookApply" =>
        events[calls[h].pay] = [sub |-> calls[h].sub, type |-> calls[h].type]

PaidInv ==
    /\ \A s \in Subs : \A r \in Held(s) : PlanPaid(s, r)
    /\ AppliesRecorded

LEMMA PlanChange ==
    ASSUME TypeInv, AppliesRecorded, NEW s \in Subs, NEW r \in Row, PlanPaid(s, r),
           NEW q, Changed(s, r, q)
    PROVE  PlanPaid(s, q)
<1>1. RenewalDraft(r, now).plan = r.plan
  BY DEF RenewalDraft, Suspend, Extend, OpenGrace, Row
<1>2. \A plan \in Plans : ChangePlan(r, plan, now).plan = r.plan
                          \/ ChangePlan(r, plan, now).plan \notin PaidPlans
  BY DEF ChangePlan, Row
<1>3. \A type : type # "approved" => ApplyEvent(r, type, now).plan = r.plan
  BY DEF ApplyEvent, Row
<1>4. \A h \in Handlers : /\ calls[h].step = "hookApply" /\ calls[h].sub = s
                          /\ calls[h].type = "approved"
                          => PaidFor(s)
  BY DEF AppliesRecorded, PaidFor, TypeInv, CallsOK, CallOK, HookSteps
<1>5. /\ [r EXCEPT !.status = "canceled"].plan = r.plan /\ Suspend(r).plan = r.plan
      /\ [r EXCEPT !.warned = TRUE].plan = r.plan
      /\ \A n : /\ [r EXCEPT !.attempt = n].plan = r.plan
                /\ [r EXCEPT !.ref = n].plan = r.plan /\ [r EXCEPT !.link = n].plan = r.plan
  BY DEF Suspend, Row
<1> QED
  BY <1>1, <1>2, <1>3, <1>4, <1>5 DEF Changed, PlanPaid

\* A recorded event never changes.
LEMMA EventsKept ==
    ASSUME TypeInv, [Next]_vars, NEW p \in PayIds, events[p] # Null
    PROVE  events'[p] = events[p]
<1>1. CASE events' = events
  BY <1>1
<1>2. CASE \E h \in Handlers : HookRecord(h)
  BY <1>2 DEF HookRecord, TypeInv, TypeOK
<1> QED
  BY <1>1, <1>2
  DEF Next, vars, ledger, Tick, RenewalScan, CreateFree, CancelSubscription,
      SuspendSubscription, ChangeSubscription, Pay, Settle, Continue, RenewSave,
      RenewFinish, RenewFail, LoadForCheckout, CheckoutAnswered, RetryFinish, ScanSave,
      HookApply, HookInvoice, CheckoutRefused, Crash, RenewStart, RetryStart,
      CheckoutStart, WarnStart, SuspendStart, HookRead

LEMMA PaidStep == TypeInv /\ PaidInv /\ [Next]_vars => PaidInv'
<1> SUFFICES ASSUME TypeInv, PaidInv, [Next]_vars PROVE PaidInv'
  OBVIOUS
<1>1. ASSUME NEW s \in Subs, NEW q \in Held(s)' PROVE PlanPaid(s, q)'
  <2>1. \A plan \in SignupPlans : PlanPaid(s, NewRow(plan, now))
    BY DEF PlanPaid, NewRow
  <2>2. \A r \in Held(s) : r \in Row /\ PlanPaid(s, r)
    BY DEF PaidInv, Held
  <2>3. PlanPaid(s, q)
    BY <2>1, <2>2, DataFlow, PlanChange DEF Sourced, PaidInv
  <2>4. PaidFor(s) => PaidFor(s)'
    <3>1. \A type : [sub |-> s, type |-> type] \in Event => [sub |-> s, type |-> type] # Null
      BY NullIsNoEvent
    <3>2. [sub |-> s, type |-> "approved"] \in Event
      BY DEF Event, EventTypes
    <3> QED
      BY <3>1, <3>2, EventsKept DEF PaidFor
  <2> QED
    BY <2>3, <2>4 DEF PlanPaid
<1>2. ASSUME NEW h \in Handlers, calls'[h].step = "hookApply"
      PROVE  events'[calls'[h].pay] = [sub |-> calls'[h].sub, type |-> calls'[h].type]
  <2>1. CASE \E g \in Handlers : HookRecord(g)
    <3>1. PICK g \in Handlers : HookRecord(g)
      BY <2>1
    <3> DEFINE c == calls[g]
               d == [c EXCEPT !.step = "hookApply"]
    <3>2. CASE g = h
      <4>1. calls' = [calls EXCEPT ![h] = d] /\ events[c.pay] = Null
            /\ events' = [events EXCEPT ![c.pay] = [sub |-> c.sub, type |-> c.type]]
        BY <1>2, <3>1, <3>2 DEF HookRecord, End, Begin, Idle, TypeInv, TypeOK
      <4>2. d.pay = c.pay /\ d.sub = c.sub /\ d.type = c.type
        BY DEF TypeInv, TypeOK, Call
      <4>3. c.pay \in PayIds
        BY <3>1 DEF HookRecord, TypeInv, CallsOK, CallOK, HookSteps
      <4>4. calls'[h] = d
        BY <4>1 DEF TypeInv, TypeOK
      <4>5. events'[c.pay] = [sub |-> c.sub, type |-> c.type]
        BY <4>1, <4>3 DEF TypeInv, TypeOK
      <4> HIDE DEF d
      <4> QED
        BY <4>2, <4>4, <4>5
    <3>3. CASE g # h
      <4>1. calls'[h] = calls[h]
        BY <3>1, <3>3 DEF HookRecord, End, Begin, TypeInv, TypeOK
      <4>2. events[calls[h].pay] = [sub |-> calls[h].sub, type |-> calls[h].type]
        BY <1>2, <4>1 DEF PaidInv, AppliesRecorded
      <4>3. calls[h].pay \in PayIds /\ events[calls[h].pay] # Null
        <5>1. calls[h].pay \in PayIds /\ calls[h].type \in EventTypes /\ calls[h].sub \in Subs
          BY <1>2, <4>1 DEF TypeInv, CallsOK, CallOK, HookSteps, CopySteps
        <5>2. [sub |-> calls[h].sub, type |-> calls[h].type] \in Event
          BY <5>1 DEF Event
        <5> QED
          BY <4>2, <5>1, <5>2, NullIsNoEvent
      <4> QED
        BY <4>1, <4>2, <4>3, EventsKept
    <3> QED
      BY <3>2, <3>3
  <2>2. CASE ~\E g \in Handlers : HookRecord(g)
    <3>1. calls'[h] = calls[h]
      BY <1>2, <2>2, OnlyHookRecordRecords DEF NoneRecords, Recorded
    <3>2. events[calls[h].pay] = [sub |-> calls[h].sub, type |-> calls[h].type]
      BY <1>2, <3>1 DEF PaidInv, AppliesRecorded
    <3>3. calls[h].pay \in PayIds /\ events[calls[h].pay] # Null
      <4>1. calls[h].pay \in PayIds /\ calls[h].type \in EventTypes /\ calls[h].sub \in Subs
        BY <1>2, <3>1 DEF TypeInv, CallsOK, CallOK, HookSteps, CopySteps
      <4>2. [sub |-> calls[h].sub, type |-> calls[h].type] \in Event
        BY <4>1 DEF Event
      <4> QED
        BY <3>2, <4>1, <4>2, NullIsNoEvent
    <3> QED
      BY <3>1, <3>2, <3>3, EventsKept
  <2> QED
    BY <2>1, <2>2
<1> QED
  BY <1>1, <1>2 DEF PaidInv, AppliesRecorded

\* A company is on a paid plan it did not sign up with only after an approved
\* payment of that subscription, whatever copies the calls write back.
THEOREM PlanInForceWasPaid == Spec => []PaidPlanWasPaid
<1>1. ASSUME Init PROVE PaidInv
  <2>1. \A s \in Subs : \A r \in Held(s) : PlanPaid(s, r)
    BY <1>1, HeldInit DEF PlanPaid, NewRow
  <2>2. AppliesRecorded
    BY <1>1 DEF Init, Idle, AppliesRecorded
  <2> QED
    BY <2>1, <2>2 DEF PaidInv
<1>2. TypeInv /\ PaidInv => PaidPlanWasPaid
  BY StoredIsHeld DEF PaidInv, PlanPaid, PaidFor, PaidPlanWasPaid
<1> QED
  BY <1>1, <1>2, TypeCorrect, PaidStep, PTL DEF Spec
=============================================================================
