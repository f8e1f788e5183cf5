SPECIFICATION FairSpec
CONSTANTS
    k1 = k1  k2 = k2  h1 = h1  h2 = h2  NoRow = NoRow
    Request = {r1, r2, r3}
    First = {r1, r2}
    Altered = {r2}
    Versioned = {r1}
    Key = {k1, k2}
    Hash = {h1, h2}
    KeyOf <- MCKeyOf
    HashOf <- MCHashOf
    PoolSize = 3
    MaxRejects = 1
    MaxFaults = 1
    MaxLost = 1
    MaxEvict = 1
CHECK_DEADLOCK FALSE
INVARIANTS NoLostUpdate OneMeaningPerKey OkIsCommitted AllOrNothing
PROPERTIES EveryRequestAnswered KeepsItsPromise
