SPECIFICATION Spec
CONSTANTS
    Messages = {m1}
    Kinds = {"read", "unread"}
    Limit = 2
    MaxRetries = 2
    MaxOps = 3
    MaxFails = 0
INVARIANTS CompactionKeepsIntent
