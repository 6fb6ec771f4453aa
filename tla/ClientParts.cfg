SPECIFICATION ClientSpec
CONSTANTS
    MaxWorkers = 1
    Readers = {r1}
    MaxActors = 2
    PushCap = 1
    Fetches = {"Archive", "raw"}
    MaxReads = 1
    MaxStops = 1
    MaxDrops = 2
    MaxFlight = 1
    MaxSaves = 3
    MaxSessions = 3
    MaxEdits = 2
    MaxFaults = 1
    Getters = {g1, g2}
    Parts = {p1}
    Inline = {p1}
    MaxMails = 2
    MaxGets = 2
    MaxSweeps = 1
    MaxBreaks = 1
    MailFolder = {"INBOX", "Archive"}
    Inbox = "INBOX"
    MaxCopies = 4
    MaxGestures = 2
    MaxRefusals = 2
    MaxLapses = 1
INVARIANTS ClientTypeOK OneActorPerAccount IdleWatchesInbox DraftsAreAsLeft CachedFileIsThePart MoveKeepsMail MovesArrive ListsShowServer
CHECK_DEADLOCK FALSE
PROPERTIES CallsReturnUnlessStuck PushIsFollowedBySync
