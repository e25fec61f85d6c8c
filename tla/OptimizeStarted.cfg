\* The strategy takes its time; the driver does not wait for it.
SPECIFICATION Spec
CONSTANTS
    Null = Null
    h1 = h1  s1 = s1  s2 = s2  s3 = s3
    Handlers = {h1}
    Stops = {s1, s2, s3}
    Coordinates <- Line
    Providers = {"haversine", "mapbox"}
    Answers <- Arrays
    Requests = {"start"}
    DailyLimit = 1  MaxCalls = 1  MaxLost = 0
PROPERTIES
    OnlyBeforeStart
\* Nobody is obliged to send a request.
CHECK_DEADLOCK FALSE
