\* The last two stops are closed at the same time (DR-004).
SPECIFICATION FairSpec
CONSTANTS
    Null = Null
    h1 = h1  h2 = h2  r1 = r1  r2 = r2  s1 = s1  s2 = s2  s3 = s3  d1 = d1  d2 = d2  t1 = t1
    Handlers = {h1, h2}  Runs = {r1}  Shipments = {s1, s2}
    Drivers = {d1}  Trucks = {t1}
    Requests = {"create", "start", "done", "newShipment"}
    NewStatuses = {"confirmed"}
    MaxLost = 0
PROPERTIES
    ClosedRunCompletes
\* Nobody is obliged to send a request.
CHECK_DEADLOCK FALSE
