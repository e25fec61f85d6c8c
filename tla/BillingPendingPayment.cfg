\* One payment that is pending before it is approved.
SPECIFICATION FairSpec
CONSTANTS
    Null = Null
    h1 = h1  h2 = h2  h3 = h3  p1 = p1  s1 = s1  s2 = s2
    free = free  pro = pro  max = max
    Plans = {free, pro}  PaidPlans = {pro}  SignupPlans = {pro}
    Subs = {s1}  Handlers = {h1}  PayIds = {p1}
    FirstPeriod = FALSE
    Requests = {"checkout"}
    Outcomes = {"pending", "approved"}
    Month = 1  Grace = 1  LookAhead = 1  Throttle = 1  Warning = 1
    Attempts = 2  RetryWait = 0
    MaxTime = 0  MaxCheckouts = 1
    MaxFailures = 0  MaxCrashes = 0  MaxChanges = 0  MaxSpent = 0
PROPERTIES
    ApprovalRecorded
\* Customers may stop paying and the clock stops at MaxTime.
CHECK_DEADLOCK FALSE
