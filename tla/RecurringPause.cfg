\* A template is paused while one of its occurrences is generated.
SPECIFICATION Spec
CONSTANTS
    Null = Null
    h1 = h1  h2 = h2  r1 = r1  r2 = r2  r3 = r3  t1 = t1  t2 = t2
    Handlers = {h1, h2}  Runs = {r1}  Templates = {t1}
    Days = 2  Weekday <- ThreeWeekdays  MonthDay <- ThreeMonthDays
    Plans <- AutomaticPlans
    Limit = 1
    Requests = {"create", "pause", "generate"}
    MaxLost = 0
PROPERTIES
    GenerationKeepsPause
\* Nobody is obliged to send a request, and the clock stops at Days.
CHECK_DEADLOCK FALSE
