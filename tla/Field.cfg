\* Three scenes: stops one call at a time, billing and access two.
SPECIFICATION Spec
CONSTANTS
    Null = Null
    h1 = h1  h2 = h2  r1 = r1  s1 = s1  s2 = s2  d1 = d1  t1 = t1
    p1 = p1  b1 = b1  free = free  pro = pro
PROPERTIES
    ClosedRunCompletes
    ExpiryIsHandled
    EveryPaymentRecorded
    OverdueIsDecided
    EntitledIsServed
\* Nobody is obliged to send a request, and the clock stops at MaxTime.
CHECK_DEADLOCK FALSE
