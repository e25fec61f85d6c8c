\* Two calls at a time, of which one may fail or crash, on the occurrences of
\* one template: cron, worker, manual generation, cancellation and stale saves.
SPECIFICATION Spec
CONSTANTS
    Null = Null
    h1 = h1  h2 = h2  r1 = r1  r2 = r2  r3 = r3  t1 = t1  t2 = t2
    Handlers = {h1, h2}  Runs = {r1, r2}  Templates = {t1}
    Days = 2  Weekday <- ThreeWeekdays  MonthDay <- ThreeMonthDays
    Plans <- AutomaticPlans
    Limit = 1
    Requests = {"create", "update", "remove", "generate", "scan",
                "midnight", "saveRun", "cancelRun"}
    MaxLost = 1
SYMMETRY RecurringSymmetry
INVARIANTS
    TypeOK
    OneRunPerOccurrence
\* Nobody is obliged to send a request, and the clock stops at Days.
CHECK_DEADLOCK FALSE
