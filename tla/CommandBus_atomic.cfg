SPECIFICATION Spec
CONSTANTS
    k1 = k1  k2 = k2  h1 = h1  h2 = h2  NoRow = NoRow
    Request = {r1, r2}
    First = {r1}
    Altered = {}
    Versioned = {}
    Key = {k1, k2}
    Hash = {h1, h2}
    KeyOf <- MCKeyOf
    HashOf <- MCHashOf
    PoolSize = 2
    MaxRejects = 0
    MaxFaults = 0
    MaxLost = 0
    MaxEvict = 0
CHECK_DEADLOCK FALSE
INVARIANT WritesAreAtomic
