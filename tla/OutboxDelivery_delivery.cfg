SPECIFICATION FairSpec
CONSTANTS
    p1 = p1  p2 = p2  t1 = t1  t2 = t2  t3 = t3
    NoEvent = NoEvent
    Event = {e1, e2}
    Poison = {e2}
    Pod = {p1, p2}
    Tick = {t1, t3}
    RetryReq = {r1}
    SkipReq = {k1}
    PodOf <- MCPodOf
    MaxAttempts = 2
    BatchSize = 1
    SendsMayFail = TRUE
    MaxFaults = 1
CHECK_DEADLOCK FALSE
INVARIANTS TypeOK LossNeedsBrokenSend
PROPERTIES SkipHolds PublishedIsFinal EveryRowLeavesTheQueue
