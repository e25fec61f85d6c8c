\* Concurrent, repeated and crashing notifications of one payment of a company
\* with two subscriptions, among every request that changes a row at once.
SPECIFICATION Spec
CONSTANTS
    Null = Null
    h1 = h1  h2 = h2  h3 = h3  p1 = p1  s1 = s1  s2 = s2
    free = free  pro = pro  max = max
    Plans = {free, pro}  PaidPlans = {pro}  SignupPlans = {free}
    Subs = {s1, s2}  Handlers = {h1, h2, h3}  PayIds = {p1}
    FirstPeriod = TRUE
    Requests = {"signup", "cancel", "suspend", "change", "checkout"}
    Outcomes = {"approved", "rejected", "refunded", "pending"}
    Month = 2  Grace = 1  LookAhead = 1  Throttle = 1  Warning = 1
    Attempts = 2  RetryWait = 0
    MaxTime = 0  MaxCheckouts = 1
    MaxFailures = 0  MaxCrashes = 1  MaxChanges = 1  MaxSpent = 2
SYMMETRY HandlerSymmetry
INVARIANTS
    TypeOK
    OneInvoicePerPayment
\* Customers may stop paying and the clock stops at MaxTime.
CHECK_DEADLOCK FALSE
