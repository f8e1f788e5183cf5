SPECIFICATION Spec
CONSTANTS
    p1 = p1  p2 = p2
    First = {t1}
    Tick = {t1, t2}
    Manual = {m1}
    Pod = {p1, p2}
    PodOf <- MCPodOf
    Stale = 1
    MaxTime = 3
    MaxFaults = 1
    MaxCrash = 1
CHECK_DEADLOCK FALSE
INVARIANTS OneRunnerUnlessOverrun CompletesOnce
PROPERTIES SucceededHolds KeepsItsPromise
