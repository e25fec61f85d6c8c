# Verification of api-logistics

api-logistics is a NestJS API for carriers and their customers, on Postgres (TypeORM), Redis and BullMQ. This
directory holds TLA+ models of it, TLC configurations that check them on small instances, and theorems that TLAPS
proves for every value of the constants. Three parts are modelled in depth: **billing**, **dispatch** (delivery runs
and shipments) and **recurring templates**. The services around them (the *office*: fleet, accounts, referrals,
verification, expenses, relations, permissions, chat, tracking, routing, places) have a module each. `PROJECT.json`
maps every definition to its source lines; `src/x` below stands for `src/src/x`.

## 1. Inventory

| component | state | operations | interacts with | what is hard | module |
|---|---|---|---|---|---|
| Billing (`modules/subscriptions`, `modules/payments`) | tables subscriptions, invoices, payment_events; queue `subscription-renewal` | signup, upgrade, downgrade, suspend; renewal scan and job; grace warning; overdue scan; checkout; retry; webhook | payment provider over HTTP, mail and notification listeners, referrals | handlers load a row, await the provider, save the whole row; webhooks repeat and change status; job ids deduplicate | SubscriptionRows, SubscriptionBilling |
| Delivery runs (`modules/delivery-runs`) | table delivery_runs, their stops in shipments | create, edit, assign, add, remove, reorder, start, the stop operations, complete, cancel | shipments, compliance, optimization, notifications | copies saved late; counters and a JSON sequence beside a foreign key; completion after the transaction | DispatchRows, Dispatch |
| Shipments (`modules/shipments`) | table shipments | create, edit, nine ways to change the status, assign, proof of delivery, delete | delivery runs, tracking, plan limits | only one of the nine uses the transition table | DispatchRows, Dispatch |
| Recurring templates (`modules/recurring-templates`) | table recurring_templates; queue `recurring-generator` | create, edit, pause, resume, remove; nightly scan; generation by job and by hand | delivery runs, plan limits | generation overlaps itself, edits and cancellations; retries; calendar | RecurringTemplates |
| Drivers and trucks | tables drivers, trucks; a partial unique index | create, edit, assign and release a driver, change status, remove, each within the plan's limits | dispatch, plan limits, users | check and save apart; one truck, one driver; deleted rows come back | Fleet, Assignment |
| Auth and users | table users, Supabase accounts, drivers.user_id | register, log in, invite, accept, verify, reset, change role, deactivate | companies, plans | two stores without a common transaction, whole copies | Accounts |
| Referrals | referral_links, referrals, discounts on subscriptions | make and use a link, reward both companies after the first payment | auth, billing | tasks that nobody awaits | Referrals |
| Verification, onboarding, compliance | verifications, companies.status | create, submit, review, expire; the administrator's write of the status; wizard; compliance | dispatch (start asks compliance) | the company is activated before the review is saved; edits save its old status | Verification, Decisions |
| Companies and relationships | company_relationships and its log | invite, respond, terminate | shipments, chat | both sides act | Relationships, Decisions |
| Expenses | table expenses | create, edit, approve, reject, reimburse, remove | notifications | several supervisors | Expenses, Decisions |
| Permissions and plans | plans and their permissions, a key of Redis per company | read through the cache, clear, expire; the catalogue and its changes | guards, billing | stale and empty lists | Access, Catalog, Endpoints |
| Chat | conversations, messages, rooms of sockets | create, members, hide, leave, send, read, delete, join | notifications | a conversation is saved whole, readers are appended | Chat |
| Notifications, proximity alerts, tracking | points, rooms, notifications, push tokens, shipments.proximity_alert_sent_at | report, broadcast, alert, push, watch | shipments, permissions | one alert per shipment while points overlap | Tracking |
| Optimization | order of a run, the day's counter in Redis | optimize by four strategies, fall back | delivery runs, providers | positions of a provider's answer; a long wait before the save | Routing |
| Geocoding, saved addresses, routes | Redis cache, tables | look up, CRUD | shipments | the key of the cache; unique labels | Places |
| Billing mail, files, mail, audit, reports, dashboard, public tracking, admin, other guards | rows, files | reads, formatting | all | pure I/O, reads, or stateless | none (section 8) |

What makes each part correct:

* **Billing.** A payment has one effect and one invoice; a paid plan comes in force by a payment; a warning and a
  suspension belong to a grace that the subscription was given; an expired period and an exhausted grace are
  decided; every payment is recorded.
* **Dispatch.** A running run has driver, truck and stops; a driver runs one run; a shipment is a stop of one open
  run; sequence, places, counters and foreign keys agree; statuses follow their diagram; the run completes with its
  last stop and not before; answers and cancellations are final.
* **Recurring templates.** One run per occurrence; nothing from a paused template or on a day it does not name; what
  was enqueued is generated.
* **Office.** A driver drives one truck; limits of the plan are kept up to overlapping calls; an account belongs to
  a profile and the owner keeps the company; a discount follows a payment; an approval activates and a decision is
  taken once, the right to operate follows them; a plan that is bought or upgraded grants what it names, in the end
  to everyone entitled; what was read stays read; one alert per shipment; an order visits its run's stops and each
  carries its place in it; a cached answer answers its question.

`PROJECT.json` lists the hazards behind these, each at its line.

## 2. How the code is read

Node runs a handler from one `await` to the next without interruption, several processes and workers run at once,
and the database is at READ COMMITTED. So:

* an action is what happens between two awaits that matter: a handler **loads and checks** in one action and
  **saves** in a later one; everything the handler changes in that save is in the same action;
* `repo.save(entity)` of a loaded entity reads the row again and updates every column that differs from the entity:
  the **whole loaded copy overwrites the row**, `deleted_at` included. There is no version column and no row lock.
  The re-read and the UPDATE of one `save` are one action;
* `UPDATE ... SET` and `softRemove` change only the columns they name;
* a transaction becomes visible at its commit: one that reads rows and then saves them is two actions (its reads,
  its commit); one that only updates with a WHERE is a single action;
* a call in flight is a record in `calls`, with the copy it holds. `Handlers` bounds how many there are. A crash or
  a refusal in the middle (`Crash`, `Fail`, `Lose`) drops the call and what it had not saved.

Companies do not share rows, so each model is of one company; tenant and role checks only refuse and are left out,
as are names, prices, addresses and other columns that no property reads.

## 3. Modules

| module | models |
|---|---|
| `SubscriptionRows` | the row of a subscription and the decisions over it: scan filters, branches of the renewal job, effects of a payment event, plan change |
| `SubscriptionBilling` | calls, queue, clock, provider, payment_events and invoices around those rows |
| `DispatchRows` | the rows of runs and shipments and what each operation checks and changes in them |
| `Dispatch` | the calls of both services on the two tables |
| `RecurringTemplates` | templates, occurrences, the queue and generation; runs reduced to their occurrence and whether they are cancelled |
| `Fleet` | drivers and trucks, with the counts and checks of both services and the unique index |
| `Assignment` | abstract: a driver has at most one truck; `Fleet` implements it |
| `Accounts`, `Referrals`, `Verification`, `Expenses`, `Relationships` | the services of those names |
| `Decisions` | abstract: a matter is opened, granted or refused once, closed or withdrawn; the last three implement it |
| `Catalog` | the seven plans of the seed: permissions, limits, tiers, prices, which change is allowed |
| `Endpoints` | the decorators of every controller: roles and permissions of each endpoint, and RolesGuard |
| `Access` | subscriptions, the cached permissions, PermissionGuard; extends the two before it |
| `Chat`, `Tracking`, `Routing`, `Places` | chat; points, alerts and pushes; optimization; geocoding, addresses and routes |
| `MCBilling`, `MCDispatch`, `MCRecurring`, `MCRouting` | model values, calendars and symmetry for TLC |
| `MCOffice`, `MCField` | one instance of each module per scene, see section 4 |
| `SubscriptionBillingProofs`, `RecurringProofs`, `DispatchProofs`, `FleetProofs`, `AccessProofs`, `RoutingProofs` | theorems about the module of that name |
| `ServicesProofs` | theorems about `Accounts`, `Referrals`, `Verification`, `Expenses`, `Relationships`, `Places`, `Chat` and `Tracking` |
| `OfficeProofs` | the properties of `MCOffice` from the theorems of the modules above |

Definitions marked *Mutant* are variants with a plausible bug, used to see that a property can fail; no
specification refers to them.

### Billing

`rows` is the table subscriptions; a row keeps plan, pending plan, status, end of period, grace, last attempt,
warning flag, checkout link and external reference. `RenewStart … RenewFail` are
`SubscriptionRenewalProcessor.process`, `RetryStart/RetryFinish` `BillingService.retry`; both call `createCheckout`,
which loads a second copy of the row (`inner`) and saves it before the caller saves its own (`LoadForCheckout`,
`CheckoutAnswered`). `HookRead/HookRecord/HookApply/HookInvoice` are `processWebhook`: lookup, insert into
payment_events under its unique index, save of the subscription, insert of the invoice. `Pay` and `Settle` are the
provider and its customers (external).

Simplifications: a month is `Month` ticks, for both `setMonth(+1)` and 30 days; a tick is hours and the provider
times out after 8 s, so a call in flight sees one tick at most (`since`). `createFreeSubscription` (UPDATE, INSERT,
enqueue) and the scan with its `queue.add`s are single actions (`Access` has the three statements apart); each
candidate of the warning and the overdue scans is a call of its own; the dedupe read, the fetch from the provider
and the lookup of the subscription are one action. BullMQ ignores an added id that it still keeps, tries a scheduled
job `Attempts` times and the signup's delayed job once, and hands a stalled job out again. Invoices are a history
per payment. Coupons and addons are left out; referral discounts are in `Referrals`, plan audiences in `Catalog`.

### Dispatch

`runs` keeps status, driver, truck, sequence, total and completed counters; `ships` status, run, place, whether it
has a crew, and whether it is deleted. Every endpoint of the two controllers that changes one of these is an action
that begins a call; the steps `probe` (DR-009's query), `advance`, `attach`, `detach`, `resequence`, `release`,
`recount`, `saveStop`, `close`, `save`, `delete` are what its call does afterwards. `stopDone` and `stopIncident`
commit stop and counter in one transaction and complete the run **after** it (`close`, then `save`). Left out:
reoptimization of the order, geocoding, the daily limit of shipments; the find and the UPDATE of `removeShipments`
are one step.

### Recurring templates

An occurrence is a template and a date. The scan enqueues tomorrow's occurrences under the id
`gen:<template>:<date>`; the queue keeps completed and failed jobs for 7 and 30 days, which is longer than a
behaviour, so an id is enqueued once. `TakeJob` and `Generate` load the template and decide whether to skip; `Check`
looks for a run inside the transaction; `Commit` inserts the run, refused by the partial unique index
`(recurring_template_id, scheduled_date) WHERE status <> 'cancelled'`, and saves the loaded template for its
`last_generated_at`; `Report` tells the queue, so that a crash between commit and report repeats the job. `EditRun`,
`CancelRun`, `SaveRun` are `DeliveryRunsService` on those runs, a move to another date included. The calendar is a
parameter (`Weekday`, `MonthDay`), so a day of the model need not follow the previous one by 24 hours. An update
gives every field but the end, which it may leave out. The plan's limit is a constant.

### Office

Every module has the shape of section 2: a request loads and checks, later steps save.

*Fleet.* `trucks` and `drivers` are the tables by slot, deleted rows included. `TruckWithinPlan` and
`DriverWithinPlan` count, the insert comes later. `AssignDriver` looks for another truck, `CreateTruck` does so too,
`UpdateTruck` does not; `ActiveDriverIndex` is the partial unique index of the migration.

*Accounts.* A person is an e-mail address. `Register` creates the account at Supabase, then commits company and
profile; what fails before the commit deletes the account (`RollBack`, `CleanUp`), and what fails after it does not,
because `rollbackTransaction()` throws on a transaction that has ended. Codes, passwords and expiries decide whether
a request goes on, so it may or may not.

*Referrals.* From the link to the two discounts: registration uses a link in four statements, a payment starts up to
three tasks that nobody awaits. A subscription keeps what discounts need.

*Verification.* A review activates the company and saves the verification; an administrator writes the company's
status in one UPDATE (`UpdateCompanyByAdmin`). `CanOperate` is ComplianceService, `Submit` and `Review` check the
status of the row they loaded. OnboardingService only reads, and is not modelled.

*Access.* `Effective` is what the company's newest active subscription grants, `cache` the list in Redis, `served`
the endpoints that answered. `Use` passes or refuses by the cached list, an empty one too; `Load` and `SetCache`
fill it. `Guarded` takes what endpoints need from `Endpoints`, for roles that have a company.

*Chat, Tracking.* A point is a place: at the destination of a shipment, or nowhere. `FindNear`, `MarkAlerted` and
`Alert` are the three awaits of `handleLocationUpdate`, `SaveShipment` any other call that saves a shipment it
loaded before. A WebSocket's rooms live in the process.

*Routing.* Coordinates are integers on a line, so distances are exact. `NearestNeighbour` is the loop of
HaversineOptimizer, `TwoOpt` the improvement with its passes. A service may send any array of numbers (`Answers`).
Google's index is refused when it has another length and throws when it names no stop, and both end in the fallback
(`Indexes`); a stop may be named twice. `FromMapbox` leaves out a position that no waypoint has, or only the origin.
`sound` marks the answers that are what the service promises. The guard reads the day's counter, `incr` reads it
again and then writes it; a cache that fails reads as zero or fails the request, and a plan without the limit counts
nothing.

*Places.* A text stands for its normal form. `Key` decides which questions share an answer.

## 4. Runs

A run passes unless it is marked *violation*. Deadlock is not checked: nobody is obliged to send a request, and
clocks stop at their bound.

| run | instance | question |
|---|---|---|
| BillingWebhooks | 2 subscriptions, 3 calls, 1 payment with all outcomes, 1 crash, 1 direct update, time 0 | types; `OneInvoicePerPayment` under concurrent, repeated and crashing notifications |
| BillingRenewal | 1 subscription, 2 calls, 3 plans, time 0..2, retry, and one plan change or one checkout that the provider refuses | `PaidPlanWasPaid`, `WarningBelongsToOpenGrace`, `SuspendedOnlyOverdue` whatever stale copy is saved |
| BillingPendingPayment *(violation)* | 1 payment, pending then approved | `ApprovalRecorded`: the approval is taken for a duplicate |
| DispatchProtocol | 2 runs, 2 shipments that may be deleted, 1 call at a time, 1 lost | types; `OneRunPerDriver`, `OneRunPerShipment`, `SequenceMirrorsStops`, `StatusFollowsDiagram`, `CompletedWithEveryStop` |
| DispatchPlaces *(violation)* | 2 runs, 3 shipments, 1 call at a time, none lost | `PlaceIsPosition`: removing a stop of a cancelled run renumbers the stops of another |
| DispatchLastStops *(violation)* | the last two stops closed at once | `ClosedRunCompletes`: neither transaction sees the other's stop |
| RecurringOccurrences | 1 template, 2 runs, 3 days, 2 calls, 1 lost | types; `OneRunPerOccurrence` |
| RecurringSchedule | 4 plans of all patterns, 3 days, 1 call at a time, 1 lost | `NothingWhilePaused`, `OnlyOnItsDays`, `DueIsGenerated` |
| RecurringPause *(violation)* | a pause during a generation | `GenerationKeepsPause`: the generation's save undoes the pause |
| Field | 3 scenes, below | every liveness property but `DueIsGenerated` |
| Office | 20 scenes, below | the properties of the services around runs and billing, the refinements of `Assignment` and `Decisions` |
| OptimizeStarted *(violation)* | 3 stops, 1 optimization, a start | `OnlyBeforeStart`: the optimized copy takes a started run back to planned |

**Scenes.** The services of Office and of Field share no table, or share columns that the properties do not relate,
so one behaviour plays one scene and leaves the variables of the others alone: the states are those of the scenes
added up, not multiplied. A property reads its scene only.

| Field scene | instance | properties |
|---|---|---|
| stops | `Dispatch`: 1 run, 2 shipments, 1 call at a time, every stop operation | `ClosedRunCompletes` |
| billing | `SubscriptionBilling`: 1 subscription, 2 calls, 1 refusal of 2 attempts | `ExpiryIsHandled`, `EveryPaymentRecorded`, `OverdueIsDecided` |
| access | `Access`: the chat's endpoints, 2 plans, 2 calls, 1 lost, 1 failing query | `EntitledIsServed` |

| Office scene | instance | properties |
|---|---|---|
| trucks, drivers | `Fleet`: 2 trucks, 3 drivers, 2 calls, limits of 1 | `RefinesAssignment`, `FleetNearPlan` |
| accounts | 2 people, 1 driver, 2 calls, 2 accounts | `ProfileHasAccount`, `OwnerInCharge` |
| rewards | referrer and referred, 1 link with 1 use, 1 payment, 2 calls, 1 lost | `DiscountIsEarned` |
| reviews | 2 verifications, 2 calls, 1 lost; nobody edits the company meanwhile (section 6) | `ApprovalActivates` |
| review, expenses, relations | 1 matter, 1 call at a time, 1 lost | `DecisionsTakenOnce`; `RightToOperate` in review, where the owner edits and the administrator writes the status |
| plans | all seven plans, 1 call at a time, 1 lost | `UpgradeKeepsAccess` |
| free | sign-ups that overlap, up to 4 subscriptions | `ActivePlansNearOne` |
| guards | every endpoint, an edited permission, a failing query, 2 calls | types |
| proposals | `Dispatch`: 1 run, 1 shipment, every request on shipments, 1 call at a time | `CancelledIsFinal`, `AnswerIsFinal` |
| crossing | `Dispatch`: 1 run, 1 shipment that may be deleted, 2 calls | `RunningRunIsManned` survives every stale copy |
| chat, room | 2 members; 2 messages with 2 calls, then members, leaving and deleting one at a time | `ReadStaysRead` |
| alerts, watch | 1 shipment; 3 points with stale saves, then bulk points, tokens and watchers | `AlertedOnce` |
| stops | 4 stops on 3 coordinates, missing or shared ones among them; 4 strategies; arrays of up to 3 numbers from 0 to 3, and of 3 to 5 that begin with the origin | `StopsFollowTheTour`, `TwoOptImproves` |
| places, records | every question of one text, then addresses and routes; 2 calls, 1 lost | `AnswersTheQuestion` |

`OfficeTypeOK` is the type invariant of every scene.

Why these bounds. The hazards are between two calls, of which the second saves what it loaded before the first: two
handlers show them, and a third adds a repeated webhook while two are in flight. Two rows are enough for the
properties that compare rows (runs, shipments, trucks, subscriptions); a third run lets an occurrence be generated,
cancelled and generated again, and a third driver and a limit of one let a plan be exceeded. Month, Grace,
LookAhead, Throttle and Warning are one tick so that every filter changes its answer within `MaxTime`; with `Grace =
1` a grace opens, is warned about and runs out by time 2. The calendar has a Friday 30, a Sunday 1 and a Monday 2:
both edges of the week and of the month. 2-opt does nothing below four stops, and the arrays of `Answers` are too
short, too long, out of range, with numbers twice, and right, for every number of stops up to four. One handler in
`plans` and in the serial scenes is no loss: their properties compare a step with the one before.

Bounds by name: `MaxTime`, `MaxCheckouts`, `MaxFailures`, `MaxCrashes`, `MaxChanges`, and `MaxSpent` for these three
together (billing), `MaxLost` (every other module; BullMQ's `maxStalledCount` is 1), `Days`, `MaxUids`, `MaxSubs`,
`MaxConversations`, `MaxMessages`, `MaxPoints`, `MaxAlerts`, `MaxResets`, `MaxCalls`, `MaxAnswers`, `MaxRows`.
`MaxDrivers`, `MaxTrucks`, `MaxUsers`, `MaxUses` and `DailyLimit` are the plan's or the program's own. `Requests`,
`Outcomes`, `NewStatuses`, `Plans` and `FirstPeriod` select what a run contains; shipments of DispatchProtocol are
created as drafts, so that a stop can be deleted. The delayed job of a signup exists in BillingWebhooks only, where
it never becomes due: its run in `process()` is the code of the other renewal jobs, and the theorems cover it.
Handlers and ids are symmetric in the safety runs; no run of a liveness property uses symmetry.

**Calls one after the other.** DispatchProtocol, RecurringSchedule, Field's stops and several scenes of Office have
one handler. Requests still interleave with lost calls and jobs, but no two calls overlap: with two, most of their
properties are false of the code (section 6). Those runs show that the protocol is right and only its concurrency is
not.

**Fairness.** *Billing*: the clock, the hourly and six-hourly scans, what a call does next, the worker, and the
provider's repeated notifications are weakly fair; payments and requests are not. *Dispatch*: only what a call does
next, and calls are not lost. *Recurring*: what a call does next is weakly fair, and the worker is strongly fair per
job, since its processes are not those that serve requests; requests may keep the modelled handler busy but not the
real worker. Nothing is assumed of scans: `DueIsGenerated` starts from the jobs that were enqueued. *Access*: what a
call does next, and the expiry of the key after five minutes, are weakly fair; the request of a user who keeps
asking is strongly fair, because others' calls take the modelled handlers but never all of the server. Plan changes
and invalidations are not fair, and one call may be lost.

**Findings.** BillingPendingPayment, DispatchPlaces, DispatchLastStops, RecurringPause and OptimizeStarted each
contradict a comment of the code, quoted in `PROJECT.json`. DispatchPlaces needs no second call: `removeShipments`
refuses only runs under way, and `persistSequence` writes `run_sequence` by shipment id, whichever run the shipment
belongs to by now.

## 5. Proofs

The theorems hold for any number of calls, rows, payments, templates, people, lost calls and crashes. They assume
the named ASSUMEs of the modules (types of constants, `Null` outside the value sets), which TLC evaluates in every
run, and nothing else but the hypotheses that they state. Most arguments are one of three.

**Whatever is saved late.** A stored row is a copy that some call held. A relation between columns of a row is
proved of every copy that any call holds as well as of every row, and is then stable under arbitrarily late saves.

**One call after the other.** `Serial` says that two handlers are the same handler. The copy that a call holds is
then what the table holds, changed as the request says. The theorems named `Serial…` are false of the code without
it (section 6).

**The index decides.** A unique index is checked on the table as it is at the save, so the reads before it do not
matter.

### Billing: `SubscriptionBillingProofs`

* `TypeCorrect`, `TypesHold`. `TypeInv` strengthens `TypeOK`: a call that will save holds a row of a subscription
  that exists, and every job belongs to one. Without it a save could store `Null`, or a row for an id that no signup
  created.
* `InvoicedOnce`. A payment has an invoice, or a call past `hookRecord`, only if its event is recorded, and at most
  one of the two. Only `HookRecord` records, and it refuses a second event. The unique index alone carries the
  argument; the dedupe read is not used.
* `WarningNeverOutlivesGrace`, `PlanInForceWasPaid`, `SuspensionIsOverdue`: relations kept by rows and copies
  (`DataFlow`). `SuspensionIsOverdue` assumes that no administrator suspends.

### Dispatch: `DispatchProofs`

* `TypesHold`, for calls that overlap. `TypeOK` bounds the counters, which needs more of each row and of each copy
  of a run (`RowFits`): it lists shipments that were created, `total_stops` is at least their number, and what is
  planned lacks something. Shipments are never taken away from the table, so a late save of an old sequence lists
  existing ones. The lemmas on sequences (what a removal, an append or a permutation lists) come first in the
  module.
* `RunningRunsAreManned`, for calls that overlap: any copy of a running run has driver, truck and stops, because
  `start()` checks the copy that it saves and every other operation keeps or refuses it.
* `SerialCallsKeepOneRunPerDriver`: the copy that `start()` will save has passed DR-009's query on the tables as
  they still are.
* `SerialInv` carries the other six. The tables are *aligned*: an open run lists exactly the shipments that point to
  it, deleted ones included. And each call is *fresh*: at every step its copy is the row, or what its request makes
  of it: `resequence` keeps the set of the sequence, `release` saves a cancelled run, and at `save` and `saveStop`
  the tables with the copies put in are aligned again. Every single write keeps the alignment, so a call that is
  lost at any step leaves it behind. `SerialCallsKeepOneRunPerShipment` (DR-001) follows because a shipment points
  to one run; `SerialCallsKeepSequences` (DR-007) because what is listed besides the stops was deleted;
  `SerialCallsFollowDiagram` because what is saved follows the row by an arrow; `SerialCallsCloseEveryStop` because
  the count that reaches `total_stops` is of every shipment that points to the run, where nobody completes a run by
  hand (`complete()` does not count); `SerialCallsAnswerOnce` and `SerialCallsKeepCancelled` compare each copy of a
  shipment with its row. The second excludes the four stop operations: they do not look at the shipment's status and
  take it out of cancelled.

### Recurring templates: `RecurringProofs`

* `OneRunForEver`: `Commit` and `SaveRun` are the only writers of runs and both respect the unique index.
* `TypesHold` needs that a job in work is `active` and belongs to one call (`JobsHeld`); otherwise two workers could
  both spend the last attempt.
* `SerialGenerationsKeepPauses`, `SerialGenerationsKeepDays`: the copy that a generation holds equals the stored
  template and has passed `evaluateSkip` (`Fresh`), for any calendar.

### Fleet: `FleetProofs`

* `FleetInvariant`: types, and a call that removes a row removes one that exists.
* `FleetImplementsAssignment`: every save of a truck meets `ActiveDriverIndex` on the table as it is, so the step is
  one of `Assignment`; a removal only frees a driver. The checks of `assignDriver` and `create` are not used.
* `FleetStaysNearPlan`. The limit bounds the rows that exist **plus the calls that are about to add one**: an insert
  that passed the count, or a copy whose row was deleted since. Each call adds at most one, and a request passes
  only while the rows are below the limit.

### Subscriptions: `AccessProofs`

* `AccessTypesHold`: rows, cached permissions and calls, with the newest active subscription that a request finds.
* `ClimbingKeepsAccess`. Of the changes that `upgradeSubscription`, a payment or a crash can bring about, those to a
  higher tier within the audience are three (`Climbs`), and the catalogue gives each target every permission and
  limit of its origin. It is the seed that is proved here as much as the code: an edition of `plans-v2.seed.ts` that
  drops a permission from a higher plan breaks the proof.
* `OverlapBoundsActivePlans`. `createFreeSubscription` cancels the active rows in one statement and inserts its own
  in the next. What never exceeds the number of calls is the active rows **plus the calls between the two**
  (`ActiveInv`): the first statement empties one side, the second moves a call to the other. Its hypothesis is that
  nobody changes plan meanwhile; a payment of an older row would activate it beside the new one (section 6).

### Optimization: `RoutingProofs`

* `ToursKeepToTheirStops`, `TwoOptEndsInALocalOptimum`: for any number of stops, any coordinates and any arrays that
  the services send. Both are about loops, which the model writes as folds. The library's theorems of induction
  cannot be used (they take an operator as parameter), so the module derives what it needs from the well-foundedness
  of the finite subsets: a set of numbers has a least element (`Least`), a **set** of numbers in the place of a
  predicate has induction (`Induction`), and a function over the subsets of a finite set can be defined from its
  value on the subset without one element (`SetRecursion`), which is how `FoldFunction` recurses. From them come
  `Rounds`, `LoopOverK`, `LoopOverI`, `Visits`, `Positions`: one for each loop, since the operator it folds cannot
  be a parameter either.
* Nearest neighbour: a visit moves one stop from what remains to the tour (`VisitMovesOneStop`), so after as many as
  there are stops none remains. A tour names places of the list of stops (`Places`); if no place twice, no stop
  twice (`NoStopTwice`), and if every place, every stop (`EachStopOnce`). Mapbox's positions come one after the
  other and an input has one position, so no place is named twice, whatever is sent (`MapboxAnswers`); Google's
  index names as many places as there are stops (`GoogleAnswers`). Only a sound array is known to name them all.
* `NumbersFollowTheTour`, for optimizations one after the other: what was numbered so far is where the saved
  sequence has it (`NumbersFollowSequence`). A sequence that names a stop twice gives it the later place. With two
  calls at once the numbers of both mix (section 6). Its hypothesis `NullIsNoCall` says that a call that numbers
  stops is not idle.
* 2-opt: a step keeps the stops, and shortens the tour where it changes it. A pass that changes nothing has tried
  every segment (`PassImproves`); a pass that changes something makes the tour shorter by at least one, so as many
  passes as the tour is long reach one that changes nothing (`TwoOptEnds`). This is also why the code's `while
  (improved)` ends.
* `RoutingTypesHold`. The day's counter is read and written by two statements (`CountsWithinBegun`): what it shows,
  plus the calls that are still to write it, is at most the calls begun.

### The services: `ServicesProofs`

The module instantiates eight services side by side, with the variables of `MCOffice`. What a theorem needs of the
constants is a named hypothesis (`AccountsConstants`, `TrackingConstants`, …): `Null` is no row, the owner has an
address, bounds are numbers.

* `ProfilesKeepTheirAccounts`, `OwnerStaysInCharge`. `AccountsInv`: every profile, and every copy of one that will
  be saved, names the account that Supabase holds; nobody has a profile before the owner; and at most one
  registration is between the creation of its account and its commit. The last is what makes the clean-up safe: it
  deletes the account of a registration that is not committed, and nobody else's.
* `RecipientIsAlertedOnce`. `AlertsPaid` counts the alerts sent **and** those that calls past `FindNear` still owe,
  for each mark: with n calls in flight at most n per save that took the mark away, and n more once it is set.
  `SerialRecipientIsAlertedOnce` is the case n = 1; the factor is what the code gives up by reading before marking.
* `ApprovalStaysActive`. An approval that is about to be saved has already activated the company. Its hypothesis
  `NoStaleCompany` is that the company is neither edited nor written by an administrator while a review runs: the
  edit saves back the old status (section 6).
* `RightIsGivenWithCause`, one request after the other: a review that is saved was not approved before
  (`Reviewing`), so it takes nobody's right away (`ReviewGivesTheRight`); an approval that is saved finds the
  company active, because the administrator's write is a request of its own and does not come between the two writes
  of a review.
* `SerialReviewsDecideOnce`, `SerialExpensesDecideOnce`, `SerialRelationsDecideOnce`: every save is a step of
  `Decisions` or a stutter, under a refinement mapping from statuses to stages. `Reviewing`, `Claiming` and
  `Relating` say which change each pending save makes to the row that is stored.
* `AnswersAreToTheQuestion`. `CacheOK`: what is stored under a key answers the question of that key, and a search in
  flight fills the key of its own question. An invariant on rows and calls, for any number of calls.
* `ReadMessagesStayRead`. Messages are only added and `readBy` only grows by union: the update is one statement on
  the row, never a saved copy.
* `DiscountsAreEarned`. A discount on a subscription, or on a copy of it in a checkout or in one of the tasks that
  nobody awaits, was earned: the company referred a customer whose payment has an invoice and whose referral left
  `pending`. It rests on what never goes back (`ReferralsGrow`) and on that one registration applies a company's
  referral.

### The office: `OfficeProofs`

`MCOffice` plays one scene per behaviour. For each scene, its first states and steps are those of the service, and
other scenes leave its variables alone (`ScenesPlay`, `SceneLasts`), so a behaviour of the office is one of the
service. The seventeen theorems of the module state the properties of the run as they are checked. `Handlers` and
`Null` are arbitrary within `OfficeAssumption`, the scenes' requests and bounds are those of the run.
`AnswersAreFinal` and `CancellationsAreFinal` are about every behaviour but those of the scene crossing, whose calls
overlap. `OfficeTypesHold` puts the types of all scenes together. The scenes places and records share one instance,
of the requests of both. Each instance stands just before the lemmas that use it: what is in scope slows the prover
down.

### What stays with TLC

* Liveness, which needs fairness and ENABLED: `DueIsGenerated`, `ClosedRunCompletes`, `ExpiryIsHandled`,
  `EveryPaymentRecorded`, `OverdueIsDecided`, `EntitledIsServed`. Every other property of a run that passes is
  stated by a theorem, for every value of the constants or under the hypothesis that the run's own constants meet.
* The five properties of the violation runs, which are false of the code.
* That the folds compute what a reader takes them to compute on given stops: the theorems say what their result
  keeps and where it ends, `OptimizeStarted` and Office evaluate them.

## 6. Departures of the code that no run claims

Met while modelling; each follows from the models by adding the named call or a second handler.

*Billing*
* `process()` (subscription-renewal.processor.ts:172) and `retry()` (billing.service.ts:179) save what they loaded
  before the checkout: a payment applied meanwhile loses the period it bought, and the new checkout's
  external_reference is replaced by the old one, so its payment is recorded without a subscription.
* A change to a free plan keeps grace_period_until (subscriptions.service.ts:131); the overdue scan then suspends
  inside the new period.
* A failed job is kept and its id refuses later additions, so with as many refusals as attempts an expired plan
  stays active.
* Two subscriptions of one company may be active: a checkout in flight saves back the row that
  `createFreeSubscription` cancelled.
* A crash after the event is stored and before the subscription is saved loses the payment's effect.

*Dispatch*
* Two starts at once give a driver two running runs (DR-009); two transactions attach one shipment to two runs.
* A rename loaded before a start takes the run back to READY; concurrent additions forget each other's stops in the
  sequence.
* The last stop delivered through `PATCH /shipments/:id/status` never completes its run, and a crash between the
  stop's commit and the completion is never repaired.
* The customer's edit, loaded before the carrier's answer, undoes the answer; the stop operations deliver a shipment
  that was cancelled in the run; `incident` followed by `arrive` or `start-transit` reopens a stop without
  recounting.
* A shipment deleted while it is a stop stays in the sequence and the total; `SequenceMirrorsStops` allows no other
  difference. A run cancelled with stops keeps them in its sequence and renumbers them later (DispatchPlaces).

*Recurring*
* The generation's save also brings back a template that was removed meanwhile, and older fields.
* `resume()` does not count max_templates; nor do two creations count each other.
* A custom template is generated by a job that was enqueued before its pattern changed (`evaluateSkip` lets custom
  pass whoever asks).
* The comment at recurring-templates.service.ts:337 says that the race is treated as skipped; the code throws a
  conflict, which costs the job an attempt.
* A scan missed at 23:00, or that dies half way, is not made up for.

*Office*
* The limits of drivers and trucks, the day's counter of optimizations (get, then set) and the uses of a link (a
  copy is saved) are exceeded or undercounted by calls that overlap. `maxStopsPerOptimization` is compared with
  `body.stops`, which the DTO does not have, so it never applies.
* Two approvals, or an approval and a rejection, of one expense, verification or relation may both succeed when they
  overlap.
* An edit of the company that was loaded before an approval takes its status back (companies.service.ts:123), and
  the review cannot be repeated. `PATCH admin/companies/:id` (admin.controller.ts:89) sets the status to anything,
  whatever the verifications say. Compliance looks at neither: a suspended company with a valid tier may operate.
* Mapbox's positions are not checked: one that is missing, that an earlier waypoint also has or that is out of range
  is skipped without a fallback (mapbox.optimizer.ts:171-175), and the shortened sequence is saved; the lost stop
  stays in the run with its old `run_sequence`. Google's index is checked for its length only
  (google-routes.optimizer.ts:219): a number given twice visits a stop twice in place of another. Two optimizations
  of one run at once leave a sequence of one and numbers of both.
* A change to a lower plan keeps the templates that the old one allowed; they can be removed, but neither listed nor
  paused, because those endpoints need `templates.basic`.
* `PATCH /subscriptions/:id/cancel` is behind a PlanGuard that reads `user.plan`, which no strategy sets; endpoints
  that need `permissions.*` or `plans.*` pass for the super administrator only, because no plan grants them.
* `assignPermissionToPlan` invalidates the key of the plan's id instead of those of its companies, and
  `removePermission` none: an edited plan shows after five minutes.
* The table plan_limits and the column plans.limits are kept equal by a second statement: calls that overlap, a
  crash in between, or `updatePlanLimitsJsonb` leave them different.
* A phone whose token was deactivated gets its row back inactive when it registers again, and the token of another
  user meets the unique index (notifications.service.ts:109).
* A point sent with a shipment id but no driver id is stored without a driver (the driver's context is only looked
  up for a point that names neither shipment nor truck), so it sets off no proximity alert.
* EtaService's comment says that without a recent position the first **pending** stop is the anchor; the code takes
  the first stop of the sequence that has coordinates, completed or not (eta.service.ts:110).

## 7. Plan

Done: billing, dispatch, recurring templates; the office, the field runs, `Assignment` and `Decisions` with their
refinements; proofs of every safety property that a run checks. Next, in this order:

1. a subscription as a four-state machine that only payments advance, implemented by `SubscriptionBilling` when
   calls come one after the other;
2. `plan_limits` and `plans.limits` as two rows that must agree, with the three operations that write them;
3. the fields of a shipment that its customer edits, and the notifications that the listeners of delivery runs send.

## 8. Not modelled

Reports, dashboard, public tracking, ETAs and other queries: reads, which change nothing (their endpoints are in
`Endpoints`). Mail, files, audit, WhatsApp and the formatting listeners: what they send or store is read by nobody
in the program. Guards that decide on one request alone, configuration, scripts and migrations (columns and indexes
that migrations create are in the models of the tables; the plans of the seed are in `Catalog`). Tenancy: one
company per model. Coupons, addons, sessions and token renewal, statistics of referrals, the onboarding wizard
(reads), tiers and documents of verifications, geocoding of shipments and their daily limit.
