SPECIFICATION Spec
CONSTANTS
    c1 = c1  c2 = c2  k1 = k1
    a1 = a1  a2 = a2
    Change = {c1, c2}
    Reminder = {k1}
    Activation = {a1, a2}
    Reminding = {a1, a2}
    DueAt <- MCDueAt
    Window = 2
    LastTrouble = 0
    MaxTime = 2
    MaxEdits = 1
    Tenants <- MCTenants
    Nothing = nothing
CHECK_DEADLOCK FALSE
INVARIANTS DispatchedOnce LogTells RemindedOncePerWindow
PROPERTIES DueChangeSettles ReminderArrives
