SPECIFICATION Spec
CONSTANTS
    s1 = s1  s2 = s2  s3 = s3
    Step = {s1, s2, s3}
    Order <- MCOrder
    Parallel = {s3}
    Tiered = {s1, s3}
    Request = {r1, r2, r3}
    Gate = Gate
    MaxFaults = 1
SYMMETRY MCSymmetry
CHECK_DEADLOCK FALSE
INVARIANTS ApprovedInOrder AppliedAfterApproval NeverStuck ApprovedIsAnswered
PROPERTIES DecisionIsFinal KeepsItsPromise
