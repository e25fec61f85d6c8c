\* One call at a time, of which one may fail or crash, on templates of every
\* pattern: what a job finds when its template was edited since it was enqueued.
SPECIFICATION FairSpec
CONSTANTS
    Null = Null
    h1 = h1  h2 = h2  r1 = r1  r2 = r2  r3 = r3  t1 = t1  t2 = t2
    Handlers = {h1}  Runs = {r1, r2, r3}  Templates = {t1}
    Days = 2  Weekday <- ThreeWeekdays  MonthDay <- ThreeMonthDays
    Plans <- AllPlans
    Limit = 1
    Requests = {"create", "update", "pause", "resume", "remove", "generate", "scan",
                "midnight"}
    MaxLost = 1
PROPERTIES
    NothingWhilePaused
    OnlyOnItsDays
    DueIsGenerated
\* Nobody is obliged to send a request, and the clock stops at Days.
CHECK_DEADLOCK FALSE
