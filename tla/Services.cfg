SPECIFICATION ServicesSpec
CONSTANTS
    p1 = p1
    p2 = p2
    x1 = x1
    x2 = x2
    t1 = t1
    t2 = t2
    b1 = b1
    b2 = b2
    w1 = w1
    i1 = i1
    i2 = i2
    i3 = i3
    Phones = {p1, p2}
    Logins = {x1, x2}
    SessionIds = {1, 2, 3}
    MaxTries = 2
    MaxChallenges = 2
    MaxSessions = 3
    Steps = {1, 2}
    MaxGeneration = 2
    Editors = {x1, x2}
    Terms = {t1, t2}
    MaxVersions = 2
    MaxEdits = 1
    MaxMoves = 2
    Banners = {b1, b2}
    Facts = {t1, t2}
    Target <- Reversed
    Source <- TwoReversals
    Rebuilds = {x1, x2}
    MaxReports = 3
    Senders = {x1, x2}
    Retriers = {w1}
    MaxRearmings = 1
    Tabs = {x1, x2}
    Streams = {i1, i2, i3}
    MaxConnections = 1
    MaxTransitions = 3
    MaxRotations = 3
    MaxTroubles = 1
    Entries = {t1, t2}
    MaxRevision = 3
    MaxIds = 2
    MaxCalls = 2
    Loops = {x1, x2}
    SteadyLoops = {}
    MaxAttempts = 2
    MaxDeliveries = 2
    Callers = {x1, x2}
    SteadyCallers = {}
    MinimumFailures = 2
    MaxSamples = 3
    Admins = {i1, i2, i3}
    Roles = {t1, t2}
    Super = root
    Others = {}
    Contents <- RoleContents
    Requests = {x1, x2}
    MaxVersion = 2
    None = None
CHECK_DEADLOCK FALSE
SYMMETRY Interchangeable
INVARIANTS RevokedStaysDead SessionsEarned BannersDistinct UploadsAccounted TabsServed ReportsCount SessionKept DecisionsHold SuperAdminStays SmsOnce
PROPERTIES ChangeIsProved PublishedAsReviewed WithinCeiling ClosedByCurrentProbe
