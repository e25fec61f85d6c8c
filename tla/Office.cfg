\* One scene for each service of the office, two calls at a time or one.
SPECIFICATION OfficeSpec
CONSTANTS
    Null = Null
    h1 = h1  h2 = h2  i1 = i1  i2 = i2  d3 = d3  t1 = t1  t2 = t2
    Handlers = {h1, h2}
    Drivers = {i1, i2, d3}  DriverStatuses = {"available", "on_trip"}
    Trucks = {t1, t2}  TruckStatuses = {"in_transit", "out_of_service"}
    MaxDrivers = 1  MaxTrucks = 1
SYMMETRY OfficeSymmetry
INVARIANTS
    OfficeTypeOK
    FleetNearPlan
    ProfileHasAccount
    OwnerInCharge
    DiscountIsEarned
    ApprovalActivates
    ActivePlansNearOne
    RunningRunIsManned
    AlertedOnce
    StopsFollowTheTour
    TwoOptImproves
    AnswersTheQuestion
PROPERTIES
    RefinesAssignment
    DecisionsTakenOnce
    RightToOperate
    UpgradeKeepsAccess
    CancelledIsFinal
    AnswerIsFinal
    ReadStaysRead
\* Nobody is obliged to send a request.
CHECK_DEADLOCK FALSE
