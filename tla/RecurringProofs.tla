--------------------------- MODULE RecurringProofs ---------------------------
(***************************************************************************)
(* Theorems about RecurringTemplates for every value of its constants: any *)
(* calendar, any schedules, any number of templates and runs and, unless a *)
(* theorem says otherwise, any number of calls in flight.                  *)
(***************************************************************************)
EXTENDS RecurringTemplates, TLAPS

-----------------------------------------------------------------------------
\* At most one run per occurrence.

\* The table has a row, or Null, for every id.
RunsInv == runs = [r \in Runs |-> runs[r]] /\ OneRunPerOccurrence

\* A row may be stored when no other run holds its occurrence.
LEMMA StoredRun ==
    ASSUME RunsInv, NEW r \in Runs, NEW row,
           row.cancelled \/ Current(row.of) \ {r} = {},
           runs' = [runs EXCEPT ![r] = row]
    PROVE  RunsInv'
<1>1. runs' = [x \in Runs |-> IF x = r THEN row ELSE runs[x]]
  BY DEF RunsInv
<1>2. runs' = [x \in Runs |-> runs'[x]]
  BY <1>1
<1>3. ASSUME NEW o \in Occurrences, NEW x \in Current(o)', NEW y \in Current(o)'
      PROVE  x = y
  <2>1. \A z \in Current(o)' : z \in Runs /\ (z # r => z \in Current(o))
    BY <1>1 DEF Current
  <2>2. r \in Current(o)' => row.of = o /\ ~row.cancelled
    BY <1>1 DEF Current
  <2>3. r \in Current(o)' => \A z \in Current(o)' : z = r
    BY <2>1, <2>2
  <2>4. CASE x = r \/ y = r
    BY <2>3, <2>4, <1>3
  <2>5. CASE x # r /\ y # r
    BY <2>1, <2>5, <1>3 DEF RunsInv, OneRunPerOccurrence
  <2> QED
    BY <2>4, <2>5
<1> QED
  BY <1>2, <1>3 DEF RunsInv, OneRunPerOccurrence

\* An id outside the table stores nothing.
LEMMA StoredNowhere ==
    ASSUME RunsInv, NEW r, r \notin Runs, NEW row, runs' = [runs EXCEPT ![r] = row]
    PROVE  RunsInv'
<1>1. runs' = runs
  BY DEF RunsInv
<1> QED
  BY <1>1 DEF RunsInv, OneRunPerOccurrence, Current

\* The actions that write a run.
LEMMA RunWriters ==
    Next => runs' = runs \/ \E h \in Handlers : Commit(h) \/ SaveRun(h)
BY DEF Next, Continue, Work, TemplateRequest, Midnight, Scan, Fail, Crash, CreateTemplate,
       UpdateTemplate, PauseTemplate, ResumeTemplate, RemoveTemplate, Edit, Generate,
       EditRun, CancelRun, TakeJob, Enqueue, SaveTemplate, DeleteTemplate, Check, Report

LEMMA RunsNext == RunsInv /\ [Next]_vars => RunsInv'
<1> SUFFICES ASSUME RunsInv, [Next]_vars PROVE RunsInv'
  OBVIOUS
<1>1. CASE runs' = runs
  BY <1>1 DEF RunsInv, OneRunPerOccurrence, Current
<1>2. ASSUME NEW h \in Handlers, Commit(h), runs' # runs PROVE RunsInv'
  <2>1. PICK r \in Runs :
          runs' = [runs EXCEPT ![r] = [of |-> calls[h].of, cancelled |-> FALSE]]
    BY <1>2 DEF Commit
  <2>2. Current(calls[h].of) = {}
    BY <1>2 DEF Commit
  <2> QED
    BY <2>1, <2>2, StoredRun
<1>3. ASSUME NEW h \in Handlers, SaveRun(h), runs' # runs PROVE RunsInv'
  <2> DEFINE r == calls[h].run
             row == calls[h].row
  <2>1. /\ runs' = [runs EXCEPT ![r] = row]
        /\ row.cancelled \/ Current(row.of) \ {r} = {}
    BY <1>3 DEF SaveRun
  <2> HIDE DEF r, row
  <2> QED
    BY <2>1, StoredRun, StoredNowhere
<1> QED
  BY <1>1, <1>2, <1>3, RunWriters DEF vars

\* RT-002.  Whatever generations, retries, cancellations and stale saves
\* overlap or crash, an occurrence has at most one run that is not cancelled:
\* what the unique index promises is all that the argument needs.
THEOREM OneRunForEver == Spec => []OneRunPerOccurrence
<1>1. Init => RunsInv
  BY DEF Init, RunsInv, OneRunPerOccurrence, Current
<1>2. RunsInv => OneRunPerOccurrence
  BY DEF RunsInv
<1> QED
  BY <1>1, <1>2, RunsNext, PTL DEF Spec

-----------------------------------------------------------------------------
\* Types.

\* What a call holds in each of its steps.
CallOK(call, table) ==
    /\ call \in Call
    /\ call.step \in {"save", "delete"} => call.of[1] \in Templates
    /\ call.step = "delete" => table[call.of[1]] # Null
    /\ call.step \in {"save", "check", "commit"} => call.row \in Template
    /\ call.step \in {"check", "commit", "report"} => call.of \in Occurrences
    /\ call.step = "saveRun" => call.run \in Runs /\ call.row \in Run
    /\ call.step = "enqueue" => call.of[2] \in Dates
    /\ call.job => call.of \in Occurrences
    /\ call.step = "report" => call.job

\* A job that a worker runs is active and nobody else's; a job that is not
\* over has an attempt left.
JobsHeld ==
    /\ \A h \in Handlers : calls[h].job => jobs[calls[h].of].state = "active"
    /\ \A g, h \in Handlers :
         calls[g].job /\ calls[h].job /\ calls[g].of = calls[h].of => g = h
    /\ \A o \in Occurrences :
         jobs[o].state \in {"absent", "waiting", "active"} => jobs[o].tries < Attempts

TypeInv ==
    /\ TypeOK
    /\ \A h \in Handlers : CallOK(calls[h], templates)
    /\ JobsHeld

LEMMA IdleOK == Idle \in Call /\ (\A table : CallOK(Idle, table)) /\ ~Idle.job /\ Idle.step = "idle"
BY DEF Idle, Pending, Call, CallOK, Steps

LEMMA InitTypes == Init => TypeInv
<1> SUFFICES ASSUME Init PROVE TypeInv
  OBVIOUS
<1>1. TypeOK
  BY IdleOK, CalendarAssumption DEF Init, TypeOK, Job, Attempts, Dates
<1>2. \A h \in Handlers : calls[h] = Idle
  BY DEF Init
<1>3. JobsHeld
  BY <1>2, IdleOK DEF Init, JobsHeld, Attempts
<1> QED
  BY <1>1, <1>2, <1>3, IdleOK DEF TypeInv

\* One call takes its next step, the others keep what they hold.
LEMMA CallStep ==
    ASSUME TypeInv, NEW h \in Handlers, NEW call, Begin(h, call)
    PROVE  /\ calls' = [g \in Handlers |-> calls'[g]]
           /\ calls'[h] = call
           /\ \A g \in Handlers \ {h} : calls'[g] = calls[g]
BY DEF TypeInv, TypeOK, Begin

\* Templates may be edited but never leave the table.
LEMMA CallsKeepTypes ==
    ASSUME TypeInv, NEW h \in Handlers, NEW call, Begin(h, call), CallOK(call, templates'),
           \A t \in Templates : templates[t] # Null => templates'[t] # Null
    PROVE  /\ calls' \in [Handlers -> Call]
           /\ \A g \in Handlers : CallOK(calls[g], templates)'
<1>1. \A g \in Handlers \ {h} : calls'[g] = calls[g]
  BY CallStep
<1>2. calls'[h] = call
  BY CallStep
<1>3. \A g \in Handlers : CallOK(calls[g], templates)'
  <2> TAKE g \in Handlers
  <2>1. CASE g = h
    BY <2>1, <1>2 DEF CallOK
  <2>2. CASE g # h
    <3>1. CallOK(calls[g], templates) /\ calls'[g] = calls[g]
      BY <1>1, <2>2 DEF TypeInv
    <3> QED
      BY <3>1 DEF CallOK
  <2> QED
    BY <2>1, <2>2
<1>4. \A g \in Handlers : calls'[g] \in Call
  BY <1>3 DEF CallOK
<1> QED
  BY <1>3, <1>4, CallStep

\* A step that leaves the queue alone and takes over no job.
LEMMA QueueKept ==
    ASSUME TypeInv, NEW h \in Handlers, NEW call, Begin(h, call), jobs' = jobs,
           call.job => calls[h].job /\ call.of = calls[h].of
    PROVE  JobsHeld'
<1>1. calls'[h] = call /\ \A g \in Handlers \ {h} : calls'[g] = calls[g]
  BY CallStep
<1>2. \A g \in Handlers : calls'[g].job => calls[g].job /\ calls'[g].of = calls[g].of
  BY <1>1
<1> QED
  BY <1>2 DEF TypeInv, JobsHeld

\* If the call runs a job, it is that of occurrence o, and active.
RunsIt(call, o, job) == call.job => call.of = o /\ job.state = "active"

\* A step that changes one job, which no other call runs.
LEMMA QueueStep ==
    ASSUME TypeInv, NEW h \in Handlers, NEW call, Begin(h, call),
           NEW o \in Occurrences, NEW new \in Job, jobs' = [jobs EXCEPT ![o] = new],
           new.state \in {"absent", "waiting", "active"} => new.tries < Attempts,
           \A g \in Handlers \ {h} : ~(calls[g].job /\ calls[g].of = o),
           RunsIt(call, o, new)
    PROVE  jobs' \in [Occurrences -> Job] /\ JobsHeld'
<1>1. calls'[h] = call /\ \A g \in Handlers \ {h} : calls'[g] = calls[g]
  BY CallStep
<1>2. jobs \in [Occurrences -> Job]
  BY DEF TypeInv, TypeOK
<1>3. /\ jobs' \in [Occurrences -> Job]
      /\ jobs'[o] = new
      /\ \A x \in Occurrences \ {o} : jobs'[x] = jobs[x]
  BY <1>2
<1>4. \A g \in Handlers : calls[g].job => calls[g].of \in Occurrences
  BY DEF TypeInv, CallOK
<1>5. \A g \in Handlers : calls'[g].job => jobs'[calls'[g].of].state = "active"
  BY <1>1, <1>3, <1>4 DEF TypeInv, JobsHeld, RunsIt
<1>6. ASSUME NEW g \in Handlers, NEW x \in Handlers,
             calls'[g].job, calls'[x].job, calls'[x].of = calls'[g].of
      PROVE  g = x
  BY <1>1, <1>6 DEF TypeInv, JobsHeld, RunsIt
<1>7. \A x \in Occurrences :
        jobs'[x].state \in {"absent", "waiting", "active"} => jobs'[x].tries < Attempts
  BY <1>3 DEF TypeInv, JobsHeld
<1> QED
  BY <1>3, <1>5, <1>6, <1>7 DEF JobsHeld

\* The jobs that are not over, or not yet there, are run by nobody.
LEMMA RunByNobody ==
    ASSUME TypeInv, NEW o \in Occurrences, jobs[o].state # "active", NEW g \in Handlers
    PROVE  ~(calls[g].job /\ calls[g].of = o)
BY DEF TypeInv, JobsHeld

LEMMA JobWithState ==
    ASSUME NEW job \in Job, NEW v \in {"absent", "waiting", "active", "completed", "failed"}
    PROVE  LET new == [job EXCEPT !.state = v] IN
           new \in Job /\ new.state = v /\ new.tries = job.tries
BY DEF Job

\* What becomes of the job of a call.
LEMMA JobEnds ==
    ASSUME TypeInv, NEW h \in Handlers, calls[h].job, End(h),
           \/ Complete(calls[h].of) \/ Retry(calls[h].of)
           \/ jobs' = [jobs EXCEPT ![calls[h].of].state = "waiting"]
    PROVE  jobs' \in [Occurrences -> Job] /\ JobsHeld'
<1> DEFINE o == calls[h].of
           tries == jobs[o].tries
<1>1. o \in Occurrences /\ jobs[o] \in Job /\ jobs[o].state = "active" /\ tries < Attempts
  BY DEF TypeInv, TypeOK, CallOK, JobsHeld
<1>2. \A g \in Handlers \ {h} : ~(calls[g].job /\ calls[g].of = o)
  BY DEF TypeInv, JobsHeld
<1>3. PICK new \in Job :
        /\ jobs' = [jobs EXCEPT ![o] = new]
        /\ new.state \in {"absent", "waiting", "active"} => new.tries < Attempts
  <2>1. CASE Complete(o)
    <3> DEFINE new == [jobs[o] EXCEPT !.state = "completed"]
    <3>1. jobs' = [jobs EXCEPT ![o] = new]
      BY <2>1 DEF Complete
    <3>2. new \in Job /\ new.state = "completed"
      BY <1>1, JobWithState
    <3> QED
      BY <3>1, <3>2
  <2>2. CASE Retry(o)
    <3> DEFINE state == IF tries + 1 < Attempts THEN "waiting" ELSE "failed"
               new == [state |-> state, tries |-> tries + 1]
    <3>1. tries + 1 \in 0 .. Attempts
      BY <1>1 DEF Job, Attempts
    <3>2. state \in {"waiting", "failed"}
      OBVIOUS
    <3>3. state = "waiting" => tries + 1 < Attempts
      OBVIOUS
    <3>4. jobs' = [jobs EXCEPT ![o] = new]
      BY <2>2 DEF Retry
    <3> HIDE DEF state, tries
    <3>5. new \in Job
      BY <3>1, <3>2 DEF Job
    <3> QED
      BY <3>2, <3>3, <3>4, <3>5
  <2>3. CASE jobs' = [jobs EXCEPT ![o].state = "waiting"]
    <3> DEFINE new == [jobs[o] EXCEPT !.state = "waiting"]
    <3>1. jobs' = [jobs EXCEPT ![o] = new]
      BY <2>3
    <3>2. new \in Job /\ new.tries < Attempts
      BY <1>1, JobWithState
    <3> QED
      BY <3>1, <3>2
  <2> QED
    BY <2>1, <2>2, <2>3
<1>4. Begin(h, Idle)
  BY DEF End
<1> HIDE DEF o
<1>5. \A job \in Job : RunsIt(Idle, o, job)
  BY IdleOK DEF RunsIt
<1> QED
  BY <1>1, <1>2, <1>3, <1>4, <1>5, QueueStep

\* The calls that the actions begin.
LEMMA SavingOK ==
    ASSUME NEW t \in Templates, NEW row \in Template
    PROVE  CallOK(Saving(t, row), templates') /\ ~Saving(t, row).job
BY DEF CallOK, Saving, Pending, Call, Steps

LEMMA DeletingOK ==
    ASSUME NEW t \in Templates, templates'[t] # Null,
           NEW call, call = Pending("delete", <<t, Null>>, Null, Null, FALSE, {})
    PROVE  CallOK(call, templates') /\ ~call.job
BY DEF CallOK, Pending, Call, Steps

LEMMA GeneratingOK ==
    ASSUME NEW step \in {"check", "commit"}, NEW o \in Occurrences, NEW row \in Template,
           NEW job \in BOOLEAN, NEW call, call = Generating(step, o, row, job)
    PROVE  CallOK(call, templates') /\ call.job = job /\ call.of = o
BY DEF CallOK, Generating, Pending, Call, Steps, Occurrences

LEMMA ReportingOK ==
    ASSUME NEW o \in Occurrences, NEW call, call = Generating("report", o, Null, TRUE)
    PROVE  CallOK(call, templates') /\ call.job /\ call.of = o
BY DEF CallOK, Generating, Pending, Call, Steps, Occurrences

LEMMA ScanningOK ==
    ASSUME NEW d \in Dates, NEW due \in SUBSET Templates
    PROVE  CallOK(Scanning(d, due), templates') /\ ~Scanning(d, due).job
BY DEF CallOK, Scanning, Pending, Call, Steps

LEMMA SavingRunOK ==
    ASSUME NEW r \in Runs, NEW row \in Run
    PROVE  CallOK(SavingRun(r, row), templates') /\ ~SavingRun(r, row).job
BY DEF CallOK, SavingRun, Pending, Call, Steps

LEMMA EndingOK == CallOK(Idle, templates') /\ ~Idle.job
BY IdleOK DEF CallOK

\* A step of one call that leaves the queue alone.
LEMMA QuietStep ==
    ASSUME TypeInv, NEW h \in Handlers, NEW call, Begin(h, call), CallOK(call, templates'),
           call.job => calls[h].job /\ call.of = calls[h].of,
           jobs' = jobs, today' \in Dates, lost' \in Nat,
           templates' \in [Templates -> Template \cup {Null}],
           \A t \in Templates : templates[t] # Null => templates'[t] # Null,
           runs' \in [Runs -> Run \cup {Null}]
    PROVE  TypeInv'
<1>1. JobsHeld'
  BY QueueKept
<1>2. calls' \in [Handlers -> Call] /\ \A g \in Handlers : CallOK(calls[g], templates)'
  BY CallsKeepTypes
<1>3. jobs' \in [Occurrences -> Job]
  BY DEF TypeInv, TypeOK
<1> QED
  BY <1>1, <1>2, <1>3 DEF TypeInv, TypeOK

\* One that changes the queue and no table.
LEMMA BusyStep ==
    ASSUME TypeInv, NEW h \in Handlers, NEW call, Begin(h, call), CallOK(call, templates'),
           jobs' \in [Occurrences -> Job] /\ JobsHeld',
           UNCHANGED <<templates, runs, today>>, lost' \in Nat
    PROVE  TypeInv'
<1>1. calls' \in [Handlers -> Call] /\ \A g \in Handlers : CallOK(calls[g], templates)'
  BY CallsKeepTypes
<1> QED
  BY <1>1 DEF TypeInv, TypeOK

LEMMA Tables ==
    ASSUME TypeInv
    PROVE  /\ templates \in [Templates -> Template \cup {Null}]
           /\ runs \in [Runs -> Run \cup {Null}]
           /\ jobs \in [Occurrences -> Job]
           /\ today \in Dates /\ lost \in Nat
           /\ \A h \in Handlers : CallOK(calls[h], templates)
BY DEF TypeInv, TypeOK

LEMMA FoundTemplate ==
    ASSUME TypeInv, NEW t \in Found
    PROVE  t \in Templates /\ templates[t] \in Template
BY DEF Found, TypeInv, TypeOK

-----------------------------------------------------------------------------
\* Every action preserves the types.

LEMMA EditTypes ==
    ASSUME TypeInv, NEW h \in Handlers, NEW kind, NEW t \in Templates,
           NEW row \in Template, Edit(h, kind, t, row)
    PROVE  TypeInv'
BY SavingOK, QuietStep, Tables DEF Edit

LEMMA TemplateRequestTypes ==
    ASSUME TypeInv, NEW h \in Handlers, NEW t \in Found, TemplateRequest(h, t)
    PROVE  TypeInv'
<1> DEFINE row == templates[t]
<1>1. t \in Templates /\ row \in Template
  BY FoundTemplate
<1>2. ASSUME NEW plan \in Plans, UpdateTemplate(h, t, plan) PROVE TypeInv'
  <2> DEFINE end == IF plan.end = Null THEN row.plan.end ELSE plan.end
             new == [row EXCEPT !.plan = [plan EXCEPT !.end = end]]
  <2>1. plan \in Plan /\ row.plan \in Plan
    BY <1>1, RecurringAssumption DEF Template
  <2>2. [plan EXCEPT !.end = end] \in Plan
    BY <2>1 DEF Plan
  <2>3. new \in Template
    BY <1>1, <2>2 DEF Template
  <2>4. Edit(h, "update", t, new)
    BY <1>2 DEF UpdateTemplate
  <2> HIDE DEF new
  <2> QED
    BY <1>1, <2>3, <2>4, EditTypes
<1>3. \A b \in BOOLEAN : [row EXCEPT !.active = b] \in Template
  BY <1>1 DEF Template
<1>4. CASE PauseTemplate(h, t)
  BY <1>1, <1>3, <1>4, EditTypes DEF PauseTemplate
<1>5. CASE ResumeTemplate(h, t)
  BY <1>1, <1>3, <1>5, EditTypes DEF ResumeTemplate
<1>6. CASE RemoveTemplate(h, t)
  <2> DEFINE call == Pending("delete", <<t, Null>>, Null, Null, FALSE, {})
  <2>1. Begin(h, call) /\ UNCHANGED <<templates, runs, jobs, today, lost>>
    BY <1>6 DEF RemoveTemplate
  <2>2. CallOK(call, templates') /\ ~call.job
    BY <1>1, <2>1, DeletingOK, NullIsNoTemplateRow
  <2> HIDE DEF call
  <2> QED
    BY <2>1, <2>2, QuietStep, Tables
<1>7. ASSUME NEW d \in Dates, Generate(h, t, d) PROVE TypeInv'
  <2> DEFINE call == Generating("check", <<t, d>>, row, FALSE)
  <2>1. Begin(h, call) /\ UNCHANGED <<templates, runs, jobs, today, lost>>
    BY <1>7 DEF Generate
  <2> DEFINE o == <<t, d>>
  <2>2. o \in Occurrences
    BY <1>1 DEF Occurrences
  <2>3. call = Generating("check", o, row, FALSE)
    OBVIOUS
  <2> HIDE DEF call, o, row
  <2>4. CallOK(call, templates') /\ ~call.job
    BY <1>1, <2>2, <2>3, GeneratingOK
  <2> QED
    BY <2>1, <2>4, QuietStep, Tables
<1> QED
  BY <1>2, <1>4, <1>5, <1>6, <1>7 DEF TemplateRequest

LEMMA SaveTemplateTypes ==
    ASSUME TypeInv, NEW h \in Handlers, SaveTemplate(h)
    PROVE  TypeInv'
<1> DEFINE t == calls[h].of[1]
           row == calls[h].row
<1>1. t \in Templates /\ row \in Template
  BY Tables DEF SaveTemplate, CallOK
<1>2. templates' = [templates EXCEPT ![t] = row] /\ End(h) /\ UNCHANGED <<runs, jobs, today, lost>>
  BY DEF SaveTemplate
<1> HIDE DEF t, row
<1>3. /\ templates' \in [Templates -> Template \cup {Null}]
      /\ \A x \in Templates : templates[x] # Null => templates'[x] # Null
  BY <1>1, <1>2, Tables, NullIsNoTemplateRow
<1> QED
  BY <1>2, <1>3, EndingOK, QuietStep, Tables DEF End

LEMMA DeleteTemplateTypes ==
    ASSUME TypeInv, NEW h \in Handlers, DeleteTemplate(h)
    PROVE  TypeInv'
<1> DEFINE t == calls[h].of[1]
           row == [templates[t] EXCEPT !.gone = TRUE]
<1>1. t \in Templates /\ templates[t] \in Template
  BY Tables DEF DeleteTemplate, CallOK
<1>2. row \in Template
  BY <1>1 DEF Template
<1>3. templates' = [templates EXCEPT ![t] = row] /\ End(h) /\ UNCHANGED <<runs, jobs, today, lost>>
  BY DEF DeleteTemplate
<1> HIDE DEF t, row
<1>4. /\ templates' \in [Templates -> Template \cup {Null}]
      /\ \A x \in Templates : templates[x] # Null => templates'[x] # Null
  BY <1>1, <1>2, <1>3, Tables, NullIsNoTemplateRow
<1> QED
  BY <1>3, <1>4, EndingOK, QuietStep, Tables DEF End

LEMMA CreateTypes ==
    ASSUME TypeInv, NEW h \in Handlers, NEW t \in Templates, NEW plan \in Plans,
           CreateTemplate(h, t, plan)
    PROVE  TypeInv'
<1>1. [active |-> TRUE, gone |-> FALSE, plan |-> plan] \in Template
  BY RecurringAssumption DEF Template
<1> QED
  BY <1>1, EditTypes DEF CreateTemplate

LEMMA ScanTypes ==
    ASSUME TypeInv, NEW h \in Handlers, Scan(h)
    PROVE  TypeInv'
<1> DEFINE due == {t \in Found : Due(templates[t], today + 1)}
           call == Scanning(today + 1, due)
<1>1. /\ today + 1 \in Dates /\ Begin(h, call)
      /\ UNCHANGED <<templates, runs, jobs, today, lost>>
  BY DEF Scan
<1>2. due \in SUBSET Templates
  BY DEF Found
<1>3. CallOK(call, templates') /\ ~call.job
  BY <1>1, <1>2, ScanningOK
<1> HIDE DEF call
<1> QED
  BY <1>1, <1>3, QuietStep, Tables

LEMMA EnqueueTypes ==
    ASSUME TypeInv, NEW h \in Handlers, NEW t \in Templates, Enqueue(h, t)
    PROVE  TypeInv'
<1> DEFINE d == calls[h].of[2]
           o == <<t, d>>
           rest == calls[h].due \ {t}
           call == IF rest = {} THEN Idle ELSE Scanning(d, rest)
<1>1. d \in Dates /\ o \in Occurrences /\ rest \in SUBSET Templates
  BY Tables DEF Enqueue, CallOK, Call, Occurrences
<1>2. /\ Begin(h, call)
      /\ jobs' = IF jobs[o].state = "absent" THEN [jobs EXCEPT ![o].state = "waiting"] ELSE jobs
      /\ UNCHANGED <<templates, runs, today, lost>>
  BY DEF Enqueue, End
<1>3. CallOK(call, templates') /\ ~call.job
  BY <1>1, ScanningOK, EndingOK
<1> HIDE DEF call, o
<1>4. CASE jobs' = jobs
  BY <1>2, <1>3, <1>4, QuietStep, Tables
<1>5. CASE jobs[o].state = "absent"
  <2> DEFINE new == [jobs[o] EXCEPT !.state = "waiting"]
  <2>1. jobs' = [jobs EXCEPT ![o] = new]
    BY <1>2, <1>5
  <2>2. jobs[o] \in Job /\ jobs[o].tries < Attempts
    BY <1>1, <1>5 DEF TypeInv, TypeOK, JobsHeld
  <2>3. new \in Job /\ new.tries < Attempts
    BY <2>2, JobWithState
  <2>4. \A g \in Handlers \ {h} : ~(calls[g].job /\ calls[g].of = o)
    BY <1>1, <1>5, RunByNobody
  <2> HIDE DEF new
  <2>5. new.state \in {"absent", "waiting", "active"} => new.tries < Attempts
    BY <2>3
  <2>6. o \in Occurrences /\ Begin(h, call)
    BY <1>1, <1>2
  <2>7. RunsIt(call, o, new)
    BY <1>3 DEF RunsIt
  <2>8. jobs' \in [Occurrences -> Job] /\ JobsHeld'
    BY <2>1, <2>3, <2>4, <2>5, <2>6, <2>7, QueueStep
  <2> QED
    BY <1>2, <1>3, <2>8, BusyStep, Tables
<1> QED
  BY <1>2, <1>4, <1>5

LEMMA TakeJobTypes ==
    ASSUME TypeInv, NEW h \in Handlers, NEW t \in Templates, NEW d \in Dates, TakeJob(h, t, d)
    PROVE  TypeInv'
<1> DEFINE o == <<t, d>>
           tries == jobs[o].tries
<1>1. /\ o \in Occurrences /\ jobs[o] \in Job /\ calls[h] = Idle
      /\ jobs[o].state = "waiting" /\ tries < Attempts
  <2>1. o \in Occurrences
    BY DEF Occurrences
  <2> HIDE DEF o
  <2> QED
    BY <2>1 DEF TakeJob, TypeInv, TypeOK, JobsHeld, o
<1>2. \A g \in Handlers \ {h} : ~(calls[g].job /\ calls[g].of = o)
  BY <1>1, RunByNobody
<1>3. UNCHANGED <<templates, runs, today, lost>>
  BY DEF TakeJob
<1>4. ASSUME NEW call, Begin(h, call), CallOK(call, templates'), NEW new \in Job,
             jobs' = [jobs EXCEPT ![o] = new],
             new.state \in {"absent", "waiting", "active"} => new.tries < Attempts,
             RunsIt(call, o, new)
      PROVE  TypeInv'
  <2> HIDE DEF o
  <2>1. jobs' \in [Occurrences -> Job] /\ JobsHeld'
    <3>1. o \in Occurrences
      BY <1>1
    <3> QED
      BY <3>1, <1>2, <1>4, QueueStep
  <2> QED
    BY <1>3, <1>4, <2>1, BusyStep, Tables
<1>5. CASE UNCHANGED calls /\ Complete(o)
  <2> DEFINE new == [jobs[o] EXCEPT !.state = "completed"]
  <2>1. new \in Job /\ new.state = "completed"
    BY <1>1, JobWithState
  <2>2. jobs' = [jobs EXCEPT ![o] = new]
    BY <1>5 DEF Complete
  <2>3. Begin(h, Idle)
    BY <1>5, <1>1, Tables DEF Begin, TypeInv, TypeOK
  <2> HIDE DEF new, o
  <2> QED
    BY <2>1, <2>2, <2>3, <1>4, EndingOK DEF RunsIt
<1>6. CASE UNCHANGED calls /\ Retry(o)
  <2> DEFINE state == IF tries + 1 < Attempts THEN "waiting" ELSE "failed"
             new == [state |-> state, tries |-> tries + 1]
  <2>1. tries + 1 \in 0 .. Attempts
    BY <1>1 DEF Job, Attempts
  <2>2. state \in {"waiting", "failed"} /\ (state = "waiting" => tries + 1 < Attempts)
    OBVIOUS
  <2>3. jobs' = [jobs EXCEPT ![o] = new]
    BY <1>6 DEF Retry
  <2>4. Begin(h, Idle)
    BY <1>6, <1>1 DEF Begin, TypeInv, TypeOK
  <2> HIDE DEF state, tries, o
  <2>5. new \in Job
    BY <2>1, <2>2 DEF Job
  <2> QED
    BY <2>2, <2>3, <2>4, <2>5, <1>4, EndingOK DEF RunsIt
<1>7. CASE /\ t \in Found
           /\ jobs' = [jobs EXCEPT ![o].state = "active"]
           /\ Begin(h, Generating("check", o, templates[t], TRUE))
  <2> DEFINE new == [jobs[o] EXCEPT !.state = "active"]
             row == templates[t]
             call == Generating("check", o, row, TRUE)
  <2>1. new \in Job /\ new.state = "active" /\ new.tries < Attempts
    BY <1>1, JobWithState
  <2>2. jobs' = [jobs EXCEPT ![o] = new] /\ Begin(h, call)
    BY <1>7
  <2>3. row \in Template
    BY <1>7, FoundTemplate
  <2> HIDE DEF new, o, row
  <2>4. CallOK(call, templates') /\ call.job /\ call.of = o
    BY <1>1, <2>3, GeneratingOK
  <2> HIDE DEF call
  <2> QED
    BY <2>1, <2>2, <2>4, <1>4 DEF RunsIt
<1> QED
  BY <1>5, <1>6, <1>7 DEF TakeJob

\* generateForDate answers: the call ends, or goes on to report its job.
LEMMA AnswerTypes ==
    ASSUME TypeInv, NEW h \in Handlers, Answer(h), calls[h].of \in Occurrences,
           UNCHANGED <<jobs, today, lost>>,
           templates' \in [Templates -> Template \cup {Null}],
           \A t \in Templates : templates[t] # Null => templates'[t] # Null,
           runs' \in [Runs -> Run \cup {Null}]
    PROVE  TypeInv'
<1> DEFINE o == calls[h].of
           call == Generating("report", o, Null, TRUE)
<1>1. CallOK(call, templates') /\ call.job /\ call.of = o
  BY ReportingOK
<1>2. CASE calls[h].job /\ Begin(h, call)
  <2> HIDE DEF call
  <2> QED
    BY <1>1, <1>2, QuietStep, Tables
<1>3. CASE End(h)
  BY <1>3, EndingOK, QuietStep, Tables DEF End
<1> QED
  BY <1>2, <1>3 DEF Answer

LEMMA CheckTypes ==
    ASSUME TypeInv, NEW h \in Handlers, Check(h)
    PROVE  TypeInv'
<1> DEFINE o == calls[h].of
           row == calls[h].row
           job == calls[h].job
           call == Generating("commit", o, row, job)
<1>1. o \in Occurrences /\ row \in Template /\ job \in BOOLEAN
  BY Tables DEF Check, CallOK, Call
<1>2. UNCHANGED <<templates, runs, jobs, today, lost>>
  BY DEF Check
<1>3. CASE Answer(h)
  BY <1>1, <1>2, <1>3, AnswerTypes, Tables
<1>4. CASE Begin(h, call)
  <2>1. CallOK(call, templates') /\ call.job = job /\ call.of = o
    BY <1>1, GeneratingOK
  <2> HIDE DEF call
  <2> QED
    BY <1>2, <1>4, <2>1, QuietStep, Tables
<1> QED
  BY <1>3, <1>4 DEF Check

LEMMA CommitTypes ==
    ASSUME TypeInv, NEW h \in Handlers, Commit(h)
    PROVE  TypeInv'
<1> DEFINE o == calls[h].of
           t == calls[h].of[1]
           row == calls[h].row
<1>1. o \in Occurrences /\ t \in Templates /\ row \in Template
  BY Tables DEF Commit, CallOK, Occurrences
<1>2. ASSUME NEW r \in Runs,
             runs' = [runs EXCEPT ![r] = [of |-> o, cancelled |-> FALSE]],
             templates' = [templates EXCEPT ![t] = row],
             Answer(h), UNCHANGED <<jobs, today, lost>>
      PROVE  TypeInv'
  <2> HIDE DEF t, row
  <2>1. [of |-> o, cancelled |-> FALSE] \in Run
    BY <1>1 DEF Run
  <2>2. runs' \in [Runs -> Run \cup {Null}]
    BY <1>2, <2>1, Tables
  <2>3. /\ templates' \in [Templates -> Template \cup {Null}]
        /\ \A x \in Templates : templates[x] # Null => templates'[x] # Null
    BY <1>1, <1>2, Tables, NullIsNoTemplateRow
  <2> QED
    BY <1>1, <1>2, <2>2, <2>3, AnswerTypes
<1>3. ASSUME IF calls[h].job THEN Retry(calls[h].of) ELSE UNCHANGED jobs,
             End(h), UNCHANGED <<templates, runs, today, lost>>
      PROVE  TypeInv'
  <2>1. CASE calls[h].job
    <3>1. jobs' \in [Occurrences -> Job] /\ JobsHeld'
      BY <1>3, <2>1, JobEnds
    <3> QED
      BY <1>3, <3>1, EndingOK, BusyStep, Tables DEF End
  <2>2. CASE ~calls[h].job
    BY <1>3, <2>2, EndingOK, QuietStep, Tables DEF End
  <2> QED
    BY <2>1, <2>2
<1> QED
  BY <1>2, <1>3 DEF Commit

LEMMA ReportTypes ==
    ASSUME TypeInv, NEW h \in Handlers, Report(h)
    PROVE  TypeInv'
<1>1. /\ calls[h].job /\ Complete(calls[h].of) /\ End(h)
      /\ UNCHANGED <<templates, runs, today, lost>>
  BY Tables DEF Report, CallOK
<1>2. jobs' \in [Occurrences -> Job] /\ JobsHeld'
  BY <1>1, JobEnds
<1> QED
  BY <1>1, <1>2, EndingOK, BusyStep, Tables DEF End

LEMMA SavingRunTypes ==
    ASSUME TypeInv, NEW h \in Handlers, NEW r \in Runs, NEW row \in Run,
           Begin(h, SavingRun(r, row)), UNCHANGED <<templates, runs, jobs, today, lost>>
    PROVE  TypeInv'
BY SavingRunOK, QuietStep, Tables

LEMMA CancelRunTypes ==
    ASSUME TypeInv, NEW h \in Handlers, NEW r \in Runs, CancelRun(h, r)
    PROVE  TypeInv'
<1> DEFINE row == [runs[r] EXCEPT !.cancelled = TRUE]
<1>1. row \in Run
  BY Tables DEF CancelRun, Run
<1> QED
  BY <1>1, SavingRunTypes DEF CancelRun

LEMMA EditRunTypes ==
    ASSUME TypeInv, NEW h \in Handlers, NEW r \in Runs, NEW d \in Dates, EditRun(h, r, d)
    PROVE  TypeInv'
<1> DEFINE row == [runs[r] EXCEPT !.of = <<@[1], d>>]
<1>1. runs[r] \in Run
  BY Tables DEF EditRun
<1>2. row \in Run
  BY <1>1 DEF Run, Occurrences
<1> QED
  BY <1>2, SavingRunTypes DEF EditRun

LEMMA SaveRunTypes ==
    ASSUME TypeInv, NEW h \in Handlers, SaveRun(h)
    PROVE  TypeInv'
<1> DEFINE r == calls[h].run
           row == calls[h].row
<1>1. row \in Run
  BY Tables DEF SaveRun, CallOK
<1>2. /\ runs' = runs \/ runs' = [runs EXCEPT ![r] = row]
      /\ End(h) /\ UNCHANGED <<templates, jobs, today, lost>>
  BY DEF SaveRun
<1> HIDE DEF r, row
<1>3. runs' \in [Runs -> Run \cup {Null}]
  BY <1>1, <1>2, Tables
<1> QED
  BY <1>2, <1>3, EndingOK, QuietStep, Tables DEF End

LEMMA LostTypes ==
    ASSUME TypeInv, NEW h \in Handlers, Fail(h) \/ Crash(h)
    PROVE  TypeInv'
<1>1. End(h) /\ UNCHANGED <<templates, runs, today>> /\ lost' \in Nat
  BY Tables DEF Fail, Crash
<1>2. CASE calls[h].job
  <2>1. \/ Retry(calls[h].of)
        \/ jobs' = [jobs EXCEPT ![calls[h].of].state = "waiting"]
    BY <1>2 DEF Fail, Crash
  <2>2. jobs' \in [Occurrences -> Job] /\ JobsHeld'
    BY <1>1, <1>2, <2>1, JobEnds
  <2> QED
    BY <1>1, <2>2, EndingOK, BusyStep DEF End
<1>3. CASE ~calls[h].job
  <2>1. jobs' = jobs
    BY <1>3 DEF Fail, Crash
  <2> QED
    BY <1>1, <2>1, EndingOK, QuietStep, Tables DEF End
<1> QED
  BY <1>2, <1>3

LEMMA NextTypes == TypeInv /\ [Next]_vars => TypeInv'
<1> SUFFICES ASSUME TypeInv, [Next]_vars PROVE TypeInv'
  OBVIOUS
<1>1. CASE UNCHANGED vars
  BY <1>1 DEF vars, TypeInv, TypeOK, JobsHeld
<1>2. CASE Midnight
  <2>1. today' \in Dates /\ UNCHANGED <<templates, runs, jobs, calls, lost>>
    BY <1>2, Tables, CalendarAssumption DEF Midnight, Dates
  <2> QED
    BY <2>1 DEF TypeInv, TypeOK, JobsHeld
<1>3. ASSUME NEW h \in Handlers, Continue(h) PROVE TypeInv'
  BY <1>3, SaveTemplateTypes, DeleteTemplateTypes, SaveRunTypes, CheckTypes, CommitTypes,
     ReportTypes, EnqueueTypes DEF Continue
<1>4. ASSUME NEW h \in Handlers, Work(h) PROVE TypeInv'
  BY <1>4, TakeJobTypes DEF Work
<1> QED
  BY <1>1, <1>2, <1>3, <1>4, ScanTypes, LostTypes, CreateTypes, TemplateRequestTypes,
     EditRunTypes, CancelRunTypes DEF Next

\* Tables, queue and calls keep their types.  The induction needs that a job
\* is run by one call at most, which is what keeps its attempts in bounds: a
\* second worker would spend the last attempt of the first.
THEOREM TypesHold == Spec => []TypeOK
<1>1. TypeInv => TypeOK
  BY DEF TypeInv
<1> QED
  BY <1>1, InitTypes, NextTypes, PTL DEF Spec

-----------------------------------------------------------------------------
\* What a generation finds when calls come one after the other.

\* At most one call is in flight.
Serial == \A g, h \in Handlers : g = h

\* The copy that a generation holds is the template as it is now, and names
\* the date; the run that a call is about to save exists.
UpToDate(call, table, rows) ==
    /\ call.step \in {"check", "commit"} =>
          /\ call.row = table[call.of[1]]
          /\ ~call.row.gone
          /\ ~Skipped(call.row, call.of[2])
    /\ call.step = "saveRun" => rows[call.run] # Null

Fresh == TypeInv /\ \A h \in Handlers : UpToDate(calls[h], templates, runs)

LEMMA FreshBegins ==
    ASSUME Serial, Fresh, NEW h \in Handlers, NEW call, Begin(h, call),
           UpToDate(call, templates', runs'), TypeInv'
    PROVE  Fresh'
<1>1. calls'[h] = call
  BY CallStep DEF Fresh
<1>2. \A g \in Handlers : g = h
  BY DEF Serial
<1> QED
  BY <1>1, <1>2 DEF Fresh

LEMMA IdleUpToDate == UpToDate(Idle, templates', runs')
BY IdleOK DEF UpToDate

\* The calls that are no generation.
LEMMA OtherBegins ==
    ASSUME Serial, Fresh, NEW h \in Handlers, NEW call,
           call.step \notin {"check", "commit", "saveRun"}, Begin(h, call), TypeInv'
    PROVE  Fresh'
<1>1. UpToDate(call, templates', runs')
  BY DEF UpToDate
<1> QED
  BY <1>1, FreshBegins

LEMMA OtherSteps ==
    /\ \A t, row : Saving(t, row).step = "save"
    /\ \A d, due : Scanning(d, due).step = "enqueue"
    /\ \A r, row : SavingRun(r, row).step = "saveRun"
    /\ \A o : Generating("report", o, Null, TRUE).step = "report"
    /\ \A t : Pending("delete", <<t, Null>>, Null, Null, FALSE, {}).step = "delete"
BY DEF Saving, Scanning, SavingRun, Generating, Pending

LEMMA FreshGeneration ==
    ASSUME Serial, Fresh, NEW h \in Handlers, NEW t \in Found, NEW d, NEW job,
           ~Skipped(templates[t], d), templates' = templates, TypeInv',
           Begin(h, Generating("check", <<t, d>>, templates[t], job))
    PROVE  Fresh'
<1> DEFINE row == templates[t]
           call == Generating("check", <<t, d>>, row, job)
<1>1. /\ call.step = "check" /\ call.row = row
      /\ call.of[1] = t /\ call.of[2] = d
  BY DEF Generating, Pending
<1>2. ~row.gone
  BY DEF Found
<1> HIDE DEF call
<1>3. UpToDate(call, templates', runs')
  BY <1>1, <1>2 DEF UpToDate
<1> QED
  BY <1>3, FreshBegins DEF call

LEMMA FreshAnswer ==
    ASSUME Serial, Fresh, NEW h \in Handlers, Answer(h), TypeInv'
    PROVE  Fresh'
<1>1. CASE End(h)
  BY <1>1, IdleUpToDate, FreshBegins DEF End
<1>2. CASE Begin(h, Generating("report", calls[h].of, Null, TRUE))
  BY <1>2, OtherBegins, OtherSteps
<1> QED
  BY <1>1, <1>2 DEF Answer

LEMMA FreshNext == Serial /\ Fresh /\ [Next]_vars => Fresh'
<1> SUFFICES ASSUME Serial, Fresh, [Next]_vars PROVE Fresh'
  OBVIOUS
<1>1. TypeInv'
  BY NextTypes DEF Fresh
<1>2. CASE UNCHANGED <<templates, runs, calls>>
  BY <1>1, <1>2 DEF Fresh
<1>3. ASSUME NEW h \in Handlers, End(h) PROVE Fresh'
  BY <1>1, <1>3, IdleUpToDate, FreshBegins DEF End
<1>4. ASSUME NEW h \in Handlers, NEW t, NEW d, TakeJob(h, t, d) PROVE Fresh'
  BY <1>1, <1>2, <1>4, FreshGeneration DEF TakeJob
<1>5. ASSUME NEW h \in Handlers, Check(h) PROVE Fresh'
  <2> DEFINE call == Generating("commit", calls[h].of, calls[h].row, calls[h].job)
  <2>1. CASE Answer(h)
    BY <1>1, <2>1, FreshAnswer
  <2>2. CASE Begin(h, call)
    <3>1. call.step = "commit" /\ call.of = calls[h].of /\ call.row = calls[h].row
      BY DEF Generating, Pending
    <3>2. UpToDate(calls[h], templates, runs) /\ calls[h].step = "check" /\ templates' = templates
      BY <1>5 DEF Fresh, Check
    <3> HIDE DEF call
    <3>3. UpToDate(call, templates', runs')
      BY <3>1, <3>2 DEF UpToDate
    <3> QED
      BY <1>1, <2>2, <3>3, FreshBegins
  <2> QED
    BY <1>5, <2>1, <2>2 DEF Check
<1>6. ASSUME NEW h \in Handlers, Commit(h) PROVE Fresh'
  BY <1>1, <1>3, <1>6, FreshAnswer DEF Commit
<1>7. ASSUME NEW h \in Handlers, NEW t, Enqueue(h, t) PROVE Fresh'
  BY <1>1, <1>3, <1>7, OtherBegins, OtherSteps DEF Enqueue
<1>8. ASSUME NEW h \in Handlers, NEW kind, NEW t, NEW row, Edit(h, kind, t, row) PROVE Fresh'
  BY <1>1, <1>8, OtherBegins, OtherSteps DEF Edit
<1>9. ASSUME NEW h \in Handlers, NEW t \in Found, TemplateRequest(h, t) PROVE Fresh'
  <2>1. CASE RemoveTemplate(h, t)
    BY <1>1, <2>1, OtherBegins, OtherSteps DEF RemoveTemplate
  <2>2. ASSUME NEW d \in Dates, Generate(h, t, d) PROVE Fresh'
    BY <1>1, <2>2, FreshGeneration DEF Generate
  <2> QED
    BY <1>8, <1>9, <2>1, <2>2
       DEF TemplateRequest, UpdateTemplate, PauseTemplate, ResumeTemplate
<1>10. ASSUME NEW h \in Handlers, NEW r \in Runs,
              CancelRun(h, r) \/ \E d \in Dates : EditRun(h, r, d)
       PROVE  Fresh'
  <2>1. PICK row :
          /\ Begin(h, SavingRun(r, row))
          /\ runs[r] # Null /\ runs' = runs
    BY <1>10 DEF EditRun, CancelRun
  <2> DEFINE call == SavingRun(r, row)
  <2>2. call.step = "saveRun" /\ call.run = r
    BY DEF SavingRun, Pending
  <2> HIDE DEF call
  <2>3. UpToDate(call, templates', runs')
    BY <2>1, <2>2 DEF UpToDate
  <2> QED
    BY <1>1, <2>1, <2>3, FreshBegins DEF call
<1>11. ASSUME NEW h \in Handlers, Scan(h) PROVE Fresh'
  BY <1>1, <1>11, OtherBegins, OtherSteps DEF Scan
<1>12. ASSUME NEW h \in Handlers, Continue(h) PROVE Fresh'
  BY <1>3, <1>5, <1>6, <1>7, <1>12 DEF Continue, SaveTemplate, DeleteTemplate, SaveRun, Report
<1>13. ASSUME NEW h \in Handlers, NEW t \in Templates, NEW plan, CreateTemplate(h, t, plan)
      PROVE  Fresh'
  BY <1>8, <1>13 DEF CreateTemplate
<1> QED
  BY <1>2, <1>3, <1>4, <1>9, <1>10, <1>11, <1>12, <1>13
     DEF Next, vars, Midnight, Work, Fail, Crash

LEMMA FreshHolds == ASSUME Serial PROVE Spec => []Fresh
<1>1. Init => Fresh
  <2> SUFFICES ASSUME Init PROVE Fresh
    OBVIOUS
  <2>1. \A h \in Handlers : calls[h].step = "idle"
    BY IdleOK DEF Init
  <2> QED
    BY <2>1, InitTypes DEF Fresh, UpToDate
<1> QED
  BY <1>1, FreshNext, PTL DEF Spec

\* A run appears by the commit of a generation only, for its occurrence.
LEMMA Generated ==
    ASSUME Fresh, [Next]_vars, NEW r \in Runs, Created(r)
    PROVE  \E h \in Handlers :
             /\ calls[h].step = "commit" /\ runs'[r].of = calls[h].of
             /\ calls[h].of \in Occurrences /\ calls[h].row \in Template
<1>1. runs' # runs
  BY DEF Created
<1>2. runs = [x \in Runs |-> runs[x]]
  BY Tables DEF Fresh
<1>3. PICK h \in Handlers : Commit(h) \/ SaveRun(h)
  BY <1>1, RunWriters DEF vars
<1>4. CASE SaveRun(h)
  <2>1. PICK row : runs' = [runs EXCEPT ![calls[h].run] = row]
    BY <1>1, <1>4 DEF SaveRun
  <2>2. runs[calls[h].run] # Null
    BY <1>4 DEF SaveRun, Fresh, UpToDate
  <2> QED
    BY <1>2, <2>1, <2>2 DEF Created
<1>5. CASE Commit(h)
  <2>1. /\ calls[h].step = "commit" /\ calls[h].of \in Occurrences
        /\ calls[h].row \in Template
    BY <1>5, Tables DEF Commit, CallOK, Fresh
  <2>2. PICK x \in Runs : runs' = [runs EXCEPT ![x] = [of |-> calls[h].of, cancelled |-> FALSE]]
    BY <1>1, <1>5 DEF Commit
  <2>3. x = r
    BY <1>2, <2>2 DEF Created
  <2>4. runs'[r].of = calls[h].of
    BY <1>2, <2>2, <2>3
  <2> QED
    BY <2>1, <2>4
<1> QED
  BY <1>3, <1>4, <1>5

\* The template of a run that appears, and the date that it is for.
LEMMA GeneratedFrom ==
    ASSUME Fresh, [Next]_vars, NEW r \in Runs, Created(r)
    PROVE  LET tpl == templates[runs'[r].of[1]]
               d == runs'[r].of[2]
           IN tpl \in Template /\ ~tpl.gone /\ ~Skipped(tpl, d)
<1>1. PICK h \in Handlers :
        /\ calls[h].step = "commit" /\ runs'[r].of = calls[h].of
        /\ calls[h].of \in Occurrences /\ calls[h].row \in Template
  BY Generated
<1>2. UpToDate(calls[h], templates, runs)
  BY DEF Fresh
<1> QED
  BY <1>1, <1>2 DEF UpToDate

\* RT-004 and RT-005.  When calls come one after the other, whatever the queue
\* holds, no run is generated from a template that is paused or removed.
THEOREM SerialGenerationsKeepPauses == ASSUME Serial PROVE Spec => NothingWhilePaused
<1>1. Fresh /\ [Next]_vars =>
        [\A r \in Runs : Created(r) =>
           LET t == runs'[r].of[1] IN templates[t].active /\ ~templates[t].gone]_vars
  <2> SUFFICES ASSUME Fresh, [Next]_vars, NEW r \in Runs, Created(r)
      PROVE  LET t == runs'[r].of[1] IN templates[t].active /\ ~templates[t].gone
    OBVIOUS
  <2> QED
    BY GeneratedFrom DEF Skipped
<1> QED
  BY <1>1, FreshHolds, PTL DEF Spec, NothingWhilePaused

\* When calls come one after the other, a run is generated only for a date
\* that its template names as it is then, whatever calendar there is.
THEOREM SerialGenerationsKeepDays == ASSUME Serial PROVE Spec => OnlyOnItsDays
<1> DEFINE Named(r) ==
      LET plan == templates[runs'[r].of[1]].plan
          d == runs'[r].of[2]
      IN /\ plan.start <= d /\ (plan.end = Null \/ d <= plan.end)
         /\ d \notin plan.exceptions
         /\ plan.pattern = "weekly" => Weekday[d] \in plan.days
         /\ plan.pattern = "monthly" => MonthDay[d] = MonthDay[plan.start]
<1>1. Fresh /\ [Next]_vars => [\A r \in Runs : Created(r) => Named(r)]_vars
  <2> SUFFICES ASSUME Fresh, [Next]_vars, NEW r \in Runs, Created(r)
      PROVE  Named(r)
    OBVIOUS
  <2> QED
    BY GeneratedFrom DEF Skipped, AppliesTo, InWindow, FallsOn
<1> QED
  BY <1>1, FreshHolds, PTL DEF Spec, OnlyOnItsDays
=============================================================================
