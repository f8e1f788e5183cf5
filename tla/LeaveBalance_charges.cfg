SPECIFICATION Spec
CONSTANTS
    r1 = r1  r2 = r2
    s1 = s1  s2 = s2
    Request = {r1, r2}
    Session = {s1, s2}
    Hours <- MCHours
    Date <- MCDate
    Opening = 3
    Accrual = 1
    Zones = {"east"}
    AccrualDays = {1}
    MonthLength = 2
    NoRequest = none
    ByHand = TRUE
    MaxDay = 1
SYMMETRY Symmetry
CHECK_DEADLOCK FALSE
INVARIANTS BalanceAddsUp ChargesMatchGrants NoOverdraft NoDoubleBooking AccruesOnce
PROPERTY DecisionHolds
