SPECIFICATION Spec
CONSTANTS
    p1 = p1  p2 = p2  t1 = t1  t2 = t2  t3 = t3
    NoEvent = NoEvent
    Event = {e1}
    Poison = {}
    Pod = {p1, p2}
    Tick = {t1, t3}
    RetryReq = {}
    SkipReq = {}
    PodOf <- MCPodOf
    MaxAttempts = 2
    BatchSize = 2
    SendsMayFail = TRUE
    MaxFaults = 0
CHECK_DEADLOCK FALSE
INVARIANT PublishedWasSent
