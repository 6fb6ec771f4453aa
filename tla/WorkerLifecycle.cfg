SPECIFICATION FairSpec
CONSTANTS
    Accounts = {a1}
    Callers = {c1, c2}
    Capacity = 1
    MaxCalls = 3
    MaxStops = 1
    MaxFails = 1
INVARIANTS TypeOK OneWorkerPerAccount HandlesLive NoLostWakeUp
PROPERTIES NobodyWaitsForEver
CHECK_DEADLOCK FALSE
