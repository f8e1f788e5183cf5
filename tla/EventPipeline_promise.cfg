SPECIFICATION FairSpec
CONSTANTS
    p1 = p1  p2 = p2
    NoEvent = NoEvent
    Event = {e1, e2}
    Poison = {e2}
    Pod = {p1, p2}
    Tick = {t1}
    Delivery = {d1}
    Worker = {w1}
    PublisherPod <- MCPublisherPod
    ConsumerPod <- MCConsumerPod
    MaxAttempts = 1
    MaxRepublish = 1
    MaxFailures = 1
    MaxCrash = 1
    MaxAborts = 1
CHECK_DEADLOCK FALSE
INVARIANT InboxFollowsOutbox
PROPERTIES KeepsItsPromise EveryMessageSettles
