------------------------- MODULE RecurringTemplates -------------------------
(***************************************************************************)
(* The templates of one carrier and the delivery runs generated from them: *)
(* RecurringTemplatesService on the tables "recurring_templates" and       *)
(* "delivery_runs", the cron that enqueues the occurrences of tomorrow and *)
(* the worker of the queue "recurring-generator".                          *)
(*                                                                         *)
(* An occurrence is a template and a date.  A generation loads the         *)
(* template, looks for a run of the occurrence inside a transaction, and   *)
(* commits run, shipments and its copy of the template together; only the  *)
(* partial unique index on (template, date) of the runs that are not       *)
(* cancelled separates two generations that overlap.                       *)
(***************************************************************************)
EXTENDS Naturals, FiniteSets

CONSTANTS
    Null,        \* SQL NULL
    Templates,   \* template ids
    Runs,        \* delivery run ids
    Days,        \* bound: the days of a behaviour, 0 .. Days
    Weekday,     \* the calendar: ISO day of the week of each day
    MonthDay,    \* the calendar: day of the month of each day
    Plans,       \* the schedules that clients give templates
    Limit,       \* max_templates of the carrier's plan
    Handlers,    \* calls that may be in flight at the same time
    Requests,    \* the requests that occur: a subset of RequestKinds
    MaxLost      \* bound: calls that fail or crash between two steps

Dates == 0 .. Days

Patterns == {"daily", "weekly", "monthly", "custom"}

Plan == [pattern : Patterns, days : SUBSET (1 .. 7), start : Dates,
         end : Dates \cup {Null}, exceptions : SUBSET Dates]

RequestKinds == {"create", "update", "pause", "resume", "remove", "generate",
                 "scan", "midnight", "saveRun", "cancelRun"}

ASSUME CalendarAssumption ==
    /\ Days \in Nat
    /\ Weekday \in [Dates -> 1 .. 7]
    /\ MonthDay \in [Dates -> 1 .. 31]

ASSUME RecurringAssumption ==
    /\ Plans \subseteq Plan
    /\ Limit \in Nat /\ MaxLost \in Nat
    /\ Requests \subseteq RequestKinds

ASSUME NullIsNothing ==
    Null \notin Templates \cup Runs \cup Dates

VARIABLES
    templates,  \* table recurring_templates: Templates -> row, Null when absent
    runs,       \* table delivery_runs: Runs -> row, Null when absent
    jobs,       \* the queue: occurrences -> job
    calls,      \* Handlers -> the call in flight, or Idle
    today,      \* the current day
    lost        \* calls that failed or crashed so far

vars == <<templates, runs, jobs, calls, today, lost>>

Occurrences == Templates \X Dates

Template == [active : BOOLEAN, gone : BOOLEAN, plan : Plan]

ASSUME NullIsNoTemplateRow == Null \notin Template

\* Of a generated run only its occurrence matters and whether it is cancelled.
Run == [of : Occurrences, cancelled : BOOLEAN]

ASSUME NullIsNoRunRow == Null \notin Run

Attempts == 3

Job == [state : {"absent", "waiting", "active", "completed", "failed"},
        tries : 0 .. Attempts]

Steps == {"idle", "enqueue", "check", "commit", "report", "save", "delete", "saveRun"}

\* of is the occurrence, template or date that the call is about, run the run;
\* row is the copy of a template or of a run; due, the templates that a scan
\* has yet to enqueue.
Call == [step : Steps, of : (Templates \cup {Null}) \X (Dates \cup {Null}),
         run : Runs \cup {Null}, row : Template \cup Run \cup {Null},
         job : BOOLEAN, due : SUBSET Templates]

Pending(step, of, run, row, job, due) ==
    [step |-> step, of |-> of, run |-> run, row |-> row, job |-> job, due |-> due]

Idle == Pending("idle", <<Null, Null>>, Null, Null, FALSE, {})

\* A call about a template.
Saving(t, row) == Pending("save", <<t, Null>>, Null, row, FALSE, {})

\* A generation, asked for by somebody or by a job.
Generating(step, o, row, job) == Pending(step, o, Null, row, job, {})

\* A scan for day d.
Scanning(d, due) == Pending("enqueue", <<Null, d>>, Null, Null, FALSE, due)

\* A call about a run.
SavingRun(r, row) == Pending("saveRun", <<Null, Null>>, r, row, FALSE, {})

\* Type correctness of the tables, the queue and the calls in flight.
TypeOK ==
    /\ templates \in [Templates -> Template \cup {Null}]
    /\ runs \in [Runs -> Run \cup {Null}]
    /\ jobs \in [Occurrences -> Job]
    /\ calls \in [Handlers -> Call]
    /\ today \in Dates
    /\ lost \in Nat

Init ==
    /\ templates = [t \in Templates |-> Null]
    /\ runs = [r \in Runs |-> Null]
    /\ jobs = [o \in Occurrences |-> [state |-> "absent", tries |-> 0]]
    /\ calls = [h \in Handlers |-> Idle]
    /\ today = 0
    /\ lost = 0

-----------------------------------------------------------------------------
\* Schedules.

InWindow(plan, d) == plan.start <= d /\ (plan.end = Null \/ d <= plan.end)

\* Mutant: the ISO day is off by one, Monday for Sunday.
FallsOnDayLate(plan, d) ==
    \/ plan.pattern = "daily"
    \/ plan.pattern = "weekly" /\ ((Weekday[d] + 5) % 7) + 1 \in plan.days
    \/ plan.pattern = "monthly" /\ MonthDay[d] = MonthDay[plan.start]

FallsOn(plan, d) ==
    \/ plan.pattern = "daily"
    \/ plan.pattern = "weekly" /\ Weekday[d] \in plan.days
    \/ plan.pattern = "monthly" /\ MonthDay[d] = MonthDay[plan.start]

AppliesTo(tpl, d) ==
    /\ tpl.active
    /\ InWindow(tpl.plan, d)
    /\ d \notin tpl.plan.exceptions
    /\ FallsOn(tpl.plan, d)

\* Mutant: trusts the scan.
SkippedOutOfWindow(tpl, d) == ~InWindow(tpl.plan, d)

\* evaluateSkip lets custom templates pass whoever asks.
Skipped(tpl, d) ==
    \/ ~tpl.active
    \/ ~InWindow(tpl.plan, d)
    \/ d \in tpl.plan.exceptions
    \/ tpl.plan.pattern # "custom" /\ ~AppliesTo(tpl, d)

\* listDueForDate.
Due(tpl, d) ==
    /\ tpl.active /\ ~tpl.gone
    /\ tpl.plan.pattern # "custom"
    /\ AppliesTo(tpl, d)

-----------------------------------------------------------------------------
\* Helpers.

Found == {t \in Templates : templates[t] # Null /\ ~templates[t].gone}

\* Runs that the unique index holds for an occurrence.
Current(o) == {r \in Runs : runs[r] # Null /\ runs[r].of = o /\ ~runs[r].cancelled}

Begin(h, call) == calls' = [calls EXCEPT ![h] = call]

End(h) == Begin(h, Idle)

Request(h, kind) == kind \in Requests /\ calls[h] = Idle

\* A request that loads a template and will save its copy.
Edit(h, kind, t, row) ==
    /\ Request(h, kind)
    /\ Begin(h, Saving(t, row))
    /\ UNCHANGED <<templates, runs, jobs, today, lost>>

\* A worker's attempt succeeds, or fails and is tried again.
Complete(o) == jobs' = [jobs EXCEPT ![o].state = "completed"]

\* Mutant: one attempt too many.
RetryOnceMore(o) ==
    jobs' = [jobs EXCEPT ![o] = [state |-> IF @.tries + 1 <= Attempts THEN "waiting" ELSE "failed",
                                 tries |-> @.tries + 1]]

\* Mutant: attempts: 1.
GiveUp(o) == jobs' = [jobs EXCEPT ![o] = [state |-> "failed", tries |-> @.tries + 1]]

Retry(o) ==
    jobs' = [jobs EXCEPT ![o] = [state |-> IF @.tries + 1 < Attempts THEN "waiting" ELSE "failed",
                                 tries |-> @.tries + 1]]

-----------------------------------------------------------------------------
\* Requests on templates.

\* What create() and update() accept.
Valid(plan) ==
    /\ plan.pattern = "weekly" => plan.days # {}
    /\ plan.end # Null => plan.start <= plan.end

\* checkTemplatePlanLimit counts, the row is inserted later.
CreateTemplate(h, t, plan) ==
    /\ Valid(plan)
    /\ templates[t] = Null /\ \A g \in Handlers : calls[g].of[1] # t
    /\ Cardinality({x \in Found : templates[x].active}) < Limit
    /\ Edit(h, "create", t, [active |-> TRUE, gone |-> FALSE, plan |-> plan])

\* An update gives every field but may leave the end out: an end once given is
\* never cleared.
UpdateTemplate(h, t, plan) ==
    LET end == IF plan.end = Null THEN templates[t].plan.end ELSE plan.end IN
    /\ Valid(plan)
    /\ Edit(h, "update", t, [templates[t] EXCEPT !.plan = [plan EXCEPT !.end = end]])

PauseTemplate(h, t) == Edit(h, "pause", t, [templates[t] EXCEPT !.active = FALSE])

ResumeTemplate(h, t) == Edit(h, "resume", t, [templates[t] EXCEPT !.active = TRUE])

RemoveTemplate(h, t) ==
    /\ Request(h, "remove")
    /\ Begin(h, Pending("delete", <<t, Null>>, Null, Null, FALSE, {}))
    /\ UNCHANGED <<templates, runs, jobs, today, lost>>

SaveTemplate(h) ==
    /\ calls[h].step = "save"
    /\ templates' = [templates EXCEPT ![calls[h].of[1]] = calls[h].row]
    /\ End(h)
    /\ UNCHANGED <<runs, jobs, today, lost>>

\* softRemove sets deleted_at and nothing else.
DeleteTemplate(h) ==
    /\ calls[h].step = "delete"
    /\ templates' = [templates EXCEPT ![calls[h].of[1]].gone = TRUE]
    /\ End(h)
    /\ UNCHANGED <<runs, jobs, today, lost>>

-----------------------------------------------------------------------------
\* The cron at 23:00 and the queue.

\* The answer of listDueForDate for tomorrow.
Scan(h) ==
    /\ Request(h, "scan")
    /\ today + 1 \in Dates
    /\ LET due == {t \in Found : Due(templates[t], today + 1)} IN
         /\ due # {}
         /\ Begin(h, Scanning(today + 1, due))
    /\ UNCHANGED <<templates, runs, jobs, today, lost>>

\* A job whose id the queue still keeps is not added again.
Enqueue(h, t) ==
    /\ calls[h].step = "enqueue" /\ t \in calls[h].due
    /\ LET d == calls[h].of[2]
           o == <<t, d>>
           rest == calls[h].due \ {t}
       IN /\ jobs' = IF jobs[o].state = "absent"
                     THEN [jobs EXCEPT ![o].state = "waiting"] ELSE jobs
          /\ IF rest = {} THEN End(h)
             ELSE Begin(h, Scanning(d, rest))
    /\ UNCHANGED <<templates, runs, today, lost>>

Midnight ==
    /\ "midnight" \in Requests
    /\ today < Days
    /\ today' = today + 1
    /\ UNCHANGED <<templates, runs, jobs, calls, lost>>

-----------------------------------------------------------------------------
\* generateForDate.

\* POST /:id/generate, when it is not skipped.
Generate(h, t, d) ==
    /\ Request(h, "generate")
    /\ ~Skipped(templates[t], d)
    /\ Begin(h, Generating("check", <<t, d>>, templates[t], FALSE))
    /\ UNCHANGED <<templates, runs, jobs, today, lost>>

\* The worker takes a job and loads its template, which may be gone by now.
TakeJob(h, t, d) ==
    /\ calls[h] = Idle /\ jobs[<<t, d>>].state = "waiting"
    /\ \/ /\ t \notin Found
          /\ Retry(<<t, d>>)
          /\ UNCHANGED calls
       \/ /\ t \in Found /\ Skipped(templates[t], d)
          /\ Complete(<<t, d>>)
          /\ UNCHANGED calls
       \/ /\ t \in Found /\ ~Skipped(templates[t], d)
          /\ jobs' = [jobs EXCEPT ![<<t, d>>].state = "active"]
          /\ Begin(h, Generating("check", <<t, d>>, templates[t], TRUE))
    /\ UNCHANGED <<templates, runs, today, lost>>

\* The answer of generateForDate; a worker has yet to tell the queue.
Answer(h) ==
    IF calls[h].job THEN Begin(h, Generating("report", calls[h].of, Null, TRUE)) ELSE End(h)

\* The transaction looks for the run of the occurrence.
Check(h) ==
    /\ calls[h].step = "check"
    /\ IF Current(calls[h].of) # {} THEN Answer(h)
       ELSE Begin(h, Generating("commit", calls[h].of, calls[h].row, calls[h].job))
    /\ UNCHANGED <<templates, runs, jobs, today, lost>>

\* Mutant: without the unique index.
CommitUnindexed(h) ==
    /\ calls[h].step = "commit"
    /\ \E r \in Runs :
         /\ runs[r] = Null
         /\ runs' = [runs EXCEPT ![r] = [of |-> calls[h].of, cancelled |-> FALSE]]
    /\ templates' = [templates EXCEPT ![calls[h].of[1]] = calls[h].row]
    /\ Answer(h)
    /\ UNCHANGED <<jobs, today, lost>>

\* Run, shipments and the copy of the template, for its last_generated_at, are
\* committed, or the index refuses the run: a conflict, and the job is tried
\* again.
Commit(h) ==
    /\ calls[h].step = "commit"
    /\ \/ /\ Current(calls[h].of) = {}
          /\ \E r \in Runs :
               /\ runs[r] = Null
               /\ runs' = [runs EXCEPT ![r] = [of |-> calls[h].of, cancelled |-> FALSE]]
          /\ templates' = [templates EXCEPT ![calls[h].of[1]] = calls[h].row]
          /\ Answer(h)
          /\ UNCHANGED jobs
       \/ /\ Current(calls[h].of) # {}
          /\ IF calls[h].job THEN Retry(calls[h].of) ELSE UNCHANGED jobs
          /\ End(h)
          /\ UNCHANGED <<templates, runs>>
    /\ UNCHANGED <<today, lost>>

\* The worker marks its job as completed.
Report(h) ==
    /\ calls[h].step = "report"
    /\ Complete(calls[h].of)
    /\ End(h)
    /\ UNCHANGED <<templates, runs, today, lost>>

-----------------------------------------------------------------------------
\* DeliveryRunsService on a generated run: cancel() saves it as cancelled,
\* update() may move it to another date, the other calls save the copy they
\* loaded; the index may refuse them all.

EditRun(h, r, d) ==
    /\ Request(h, "saveRun")
    /\ runs[r] # Null
    /\ Begin(h, SavingRun(r, [runs[r] EXCEPT !.of = <<@[1], d>>]))
    /\ UNCHANGED <<templates, runs, jobs, today, lost>>

CancelRun(h, r) ==
    /\ Request(h, "cancelRun")
    /\ runs[r] # Null
    /\ Begin(h, SavingRun(r, [runs[r] EXCEPT !.cancelled = TRUE]))
    /\ UNCHANGED <<templates, runs, jobs, today, lost>>

SaveRun(h) ==
    /\ calls[h].step = "saveRun"
    /\ LET r == calls[h].run
           row == calls[h].row
       IN runs' = IF ~row.cancelled /\ Current(row.of) \ {r} # {}
                  THEN runs ELSE [runs EXCEPT ![r] = row]
    /\ End(h)
    /\ UNCHANGED <<templates, jobs, today, lost>>

-----------------------------------------------------------------------------

\* A statement fails or the connection breaks: nothing is committed and the
\* worker's attempt counts.
Fail(h) ==
    /\ calls[h].step \notin {"idle", "report"} /\ lost < MaxLost
    /\ lost' = lost + 1
    /\ IF calls[h].job THEN Retry(calls[h].of) ELSE UNCHANGED jobs
    /\ End(h)
    /\ UNCHANGED <<templates, runs, today>>

\* The process crashes: the queue finds the job stalled and hands it out again.
Crash(h) ==
    /\ calls[h].step # "idle" /\ lost < MaxLost
    /\ lost' = lost + 1
    /\ IF calls[h].job THEN jobs' = [jobs EXCEPT ![calls[h].of].state = "waiting"]
       ELSE UNCHANGED jobs
    /\ End(h)
    /\ UNCHANGED <<templates, runs, today>>

Continue(h) ==
    \/ SaveTemplate(h) \/ DeleteTemplate(h) \/ SaveRun(h)
    \/ Check(h) \/ Commit(h) \/ Report(h)
    \/ \E t \in Templates : Enqueue(h, t)

Work(h) == \E t \in Templates, d \in Dates : TakeJob(h, t, d)

TemplateRequest(h, t) ==
    \/ \E plan \in Plans : UpdateTemplate(h, t, plan)
    \/ PauseTemplate(h, t) \/ ResumeTemplate(h, t) \/ RemoveTemplate(h, t)
    \/ \E d \in Dates : Generate(h, t, d)

Next ==
    \/ Midnight
    \/ \E h \in Handlers :
         \/ Continue(h) \/ Work(h) \/ Scan(h)
         \/ Fail(h) \/ Crash(h)
         \/ \E t \in Templates, plan \in Plans : CreateTemplate(h, t, plan)
         \/ \E t \in Found : TemplateRequest(h, t)
         \/ \E r \in Runs : CancelRun(h, r) \/ \E d \in Dates : EditRun(h, r, d)

Spec == Init /\ [][Next]_vars

\* A call that began goes on, and the workers take the jobs that wait, however
\* many requests arrive.
FairSpec ==
    /\ Spec
    /\ \A h \in Handlers : WF_vars(Continue(h))
    /\ \A t \in Templates, d \in Dates : SF_vars(\E h \in Handlers : TakeJob(h, t, d))

-----------------------------------------------------------------------------
\* Properties.

\* RT-002.  An occurrence has at most one run that is not cancelled, whatever
\* cron jobs, retries, manual generations and stale saves of cancelled runs
\* overlap.
OneRunPerOccurrence ==
    \A o \in Occurrences : \A r, x \in Current(o) : r = x

Created(r) == runs[r] = Null /\ runs'[r] # Null

\* RT-004 and RT-005.  No run is generated from a template that is paused or
\* removed, although its job was enqueued before.
NothingWhilePaused ==
    [][\A r \in Runs : Created(r) =>
          LET t == runs'[r].of[1] IN templates[t].active /\ ~templates[t].gone]_vars

\* A run is generated for a date that its template names: in its window, no
\* exception, and on its days, whatever was edited since the job was enqueued.
OnlyOnItsDays ==
    [][\A r \in Runs : Created(r) =>
          LET plan == templates[runs'[r].of[1]].plan
              d == runs'[r].of[2]
          IN /\ plan.start <= d /\ (plan.end = Null \/ d <= plan.end)
             /\ d \notin plan.exceptions
             /\ plan.pattern = "weekly" => Weekday[d] \in plan.days
             /\ plan.pattern = "monthly" => MonthDay[d] = MonthDay[plan.start]]_vars

\* RT-004.  A generation does not take a template out of its pause.
GenerationKeepsPause ==
    [][\A h \in Handlers : calls[h].step = "commit" /\ calls'[h] # calls[h] =>
          \A t \in Found : ~templates[t].active => ~templates'[t].active]_vars

\* What the cron enqueued is generated, unless its template stops naming the
\* date before: three attempts are enough for MaxLost failures.
Owed(o) == jobs[o].state \in {"waiting", "active"}

Wanted(o) == o[1] \in Found /\ ~Skipped(templates[o[1]], o[2])

DueIsGenerated ==
    \A o \in Occurrences : Owed(o) ~> (Current(o) # {} \/ ~Wanted(o))
=============================================================================
