\* One call at a time: a stop of a cancelled run is removed while others of its old
\* sequence are stops of another run.
SPECIFICATION Spec
CONSTANTS
    Null = Null
    h1 = h1  h2 = h2  r1 = r1  r2 = r2  s1 = s1  s2 = s2  s3 = s3  d1 = d1  d2 = d2  t1 = t1
    Handlers = {h1}  Runs = {r1, r2}  Shipments = {s1, s2, s3}
    Drivers = {}  Trucks = {}
    Requests = {"create", "add", "remove", "cancel", "newShipment"}
    NewStatuses = {"confirmed"}
    MaxLost = 0
SYMMETRY DispatchSymmetry
INVARIANTS
    PlaceIsPosition
\* Nobody is obliged to send a request.
CHECK_DEADLOCK FALSE
