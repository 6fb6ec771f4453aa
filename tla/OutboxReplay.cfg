SPECIFICATION FairSpec
CONSTANTS
    Messages = {m1}
    Kinds = {"read", "unread", "send", "unknown"}
    Limit = 2
    MaxRetries = 2
    MaxOps = 3
    MaxFails = 2
INVARIANTS TypeOK EditsArrive
PROPERTIES EveryOpSettles MailIsKeptAndSent
