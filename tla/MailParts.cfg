SPECIFICATION PartsSpec
CONSTANTS
    i1 = i1
    i2 = i2
    m1 = m1
    m2 = m2
    Short = 1
    Long = 2
    ShortCool = 1
    LongCool = 2
    Waits = {1}
    MaxSends = 1
    MaxMishaps = 2
    Items = {i1, i2}
    EasUid = {1, 2}
    Hashes <- TwoHashes
    MaxTries = 2
    MaxPolicies = 1
    Scenarios <- OneConcernEach
    Mails = {m1, m2}
    Shapes <- SignedAndPlain
    CapRows = 1
    MaxTasks = 2
    MaxOpens = 2
    MaxPrefetch = 1
    MaxGlitches = 1
    Me = "me"
    Others = {"you"}
    Drafts <- Draft
    MaxAttempts = 2
    MaxChanges = 1
    MaxSlips = 1
    Ttl = 1
    Flight = 1
    LastPoint = 2
    MaxTime = 3
    MaxOpenings = 2
    MaxTroubles = 1
    Labels = {"INBOX", "Archive"}
    LastThread = 3
    PageSize = 2
    MaxLoads = 2
    MaxTurns = 3
CHECK_DEADLOCK FALSE
INVARIANTS PartsTypeOK EasCursorCoversRows CachedMeansStored RowsAreOfTheirMail VerdictFitsMail PaneFollowsSelection WireIsAsAsked FailureMeansUnsent RevokedIsNotValid ListIsFresh
PROPERTIES GateSpec EasMailArrives SendsPassTheGates GatesReopen
