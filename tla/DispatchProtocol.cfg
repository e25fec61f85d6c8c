\* One call at a time, of which one may be lost, on two runs: long sequences of
\* legal requests.
SPECIFICATION Spec
CONSTANTS
    Null = Null
    h1 = h1  h2 = h2  r1 = r1  r2 = r2  s1 = s1  s2 = s2  s3 = s3  d1 = d1  d2 = d2  t1 = t1
    Handlers = {h1}  Runs = {r1, r2}  Shipments = {s1, s2}
    Drivers = {d1}  Trucks = {t1}
    Requests = {"create", "assign", "add", "remove", "reorder", "start",
                "cancel", "done", "newShipment", "delete"}
    NewStatuses = {"draft"}
    MaxLost = 1
SYMMETRY DispatchSymmetry
INVARIANTS
    TypeOK
    OneRunPerDriver
    OneRunPerShipment
    SequenceMirrorsStops
PROPERTIES
    StatusFollowsDiagram
    CompletedWithEveryStop
\* Nobody is obliged to send a request.
CHECK_DEADLOCK FALSE
