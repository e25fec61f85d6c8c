\* Renewal, grace, warning, suspension, retry, payment and one plan change or one
\* refused checkout, two calls at a time.
SPECIFICATION Spec
CONSTANTS
    Null = Null
    h1 = h1  h2 = h2  h3 = h3  p1 = p1  s1 = s1  s2 = s2
    free = free  pro = pro  max = max
    Plans = {free, pro, max}  PaidPlans = {pro, max}  SignupPlans = {free, pro}
    Subs = {s1}  Handlers = {h1, h2}  PayIds = {p1}
    FirstPeriod = FALSE
    Requests = {"retry", "change"}
    Outcomes = {"approved"}
    Month = 1  Grace = 1  LookAhead = 1  Throttle = 1  Warning = 1
    Attempts = 2  RetryWait = 0
    MaxTime = 2  MaxCheckouts = 1
    MaxFailures = 1  MaxCrashes = 0  MaxChanges = 1  MaxSpent = 1
SYMMETRY HandlerSymmetry
INVARIANTS
    PaidPlanWasPaid
    WarningBelongsToOpenGrace
    SuspendedOnlyOverdue
\* Customers may stop paying and the clock stops at MaxTime.
CHECK_DEADLOCK FALSE
