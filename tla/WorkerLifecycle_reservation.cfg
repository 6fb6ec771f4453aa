SPECIFICATION Spec
CONSTANTS
    Accounts = {a1}
    Callers = {c1, c2}
    Capacity = 1
    MaxCalls = 2
    MaxStops = 0
    MaxFails = 0
INVARIANTS ReservationsEnd
CHECK_DEADLOCK FALSE
