SPECIFICATION Spec
CONSTANTS
    p1 = p1  p2 = p2  d1 = d1  w1 = w1
    NoEvent = NoEvent
    Event = {e1, e2}
    HasOutbox = {e1}
    Pod = {p1, p2}
    Delivery = {d1, d2}
    Worker = {w1}
    Sweeper = {s2}
    RetryReq = {r1}
    SkipReq = {k1}
    PodOf <- MCPodOf
    LongOutage = FALSE
    MaxAged = 1
    MaxPublished = 1
    MaxRepublish = 1
    MaxRebalance = 1
    MaxFailures = 1
    MaxDbFaults = 1
    MaxCrash = 1
    MaxTogether = 2
CHECK_DEADLOCK FALSE
INVARIANTS AcknowledgedIsRecorded HandledOnce OneHandlerAtATime OnlyFaultsStrand
PROPERTY SuccessIsFinal
