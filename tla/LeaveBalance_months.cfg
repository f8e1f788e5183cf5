SPECIFICATION Spec
CONSTANTS
    r1 = r1  r2 = r2
    s1 = s1  s2 = s2
    Request = {r1}
    Session = {s1}
    Hours <- MCHours
    Date <- MCDate
    Opening = 3
    Accrual = 1
    Zones = {"east"}
    AccrualDays = {1}
    MonthLength = 2
    NoRequest = none
    ByHand = FALSE
    MaxDay = 3
CHECK_DEADLOCK FALSE
INVARIANT EveryMonthAccrues
