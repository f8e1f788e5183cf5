SPECIFICATION Spec
CONSTANTS
    s1 = s1  s2 = s2  s3 = s3
    Step = {s1, s2}
    Order <- MCOrder
    Parallel = {}
    Tiered = {s1}
    Request = {r1, r2}
    Gate = Gate
    MaxFaults = 1
CHECK_DEADLOCK FALSE
INVARIANT OnlyAfterFinalApproval
