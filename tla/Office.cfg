SPECIFICATION OfficeSpec
CONSTANTS
    NumUmrs = 1
    NumAttempts = 3
    MaxAttempts = 2
    MaxSubKills = 1
    GapItems = {"g"}
    ModuleItems = {"m1", "m2"}
    Deps <- OfficeDeps
    MaxRetries = 1
    MaxCreated = 3
    MaxTickKills = 1
    NumResumable = 2
    SlotCap = 2
    MaxRejections = 2
    MaxUpsets = 1
    MaxRefusals = 4
    NumOcids = 2
    NumBatches = 2
    NumPhases = 3
    Members <- OfficeMembers
    Advancers = {a1, a2}
    EvalsPerTick = 1
    MaxReseeds = 1
    Sweeps = {s1, s2}
    MaxDispatches = 3
    MaxFixRetries = 1
    MaxPushes = 2
    Plans = {p1, p2, p3}
    MaxReports = 3
    MaxPrunes = 1
    Metrics = {cpu, ram}
    Dispatchers = {g1, g2}
    ShedTicks = 1
    StopTicks = 2
    NumRunners = 1
    MaxMishaps = 1
    TaskIds = {t1, t2}
    Callers = {c1, c2}
    MaxEntries = 2
    MaxUnlocked = 1
    MaxDeaths = 1
    Starts = {b1, b2}
    Titles = {"x", "y"}
    Closers = {k1}
    MaxStartKills = 1
    MaxSweeps = 2
INVARIANTS
    OfficeTypeOK
    AttemptsAccounted
    ItemsAccounted
    ResumesBounded
    OnePhaseAtATime
    ResetOnceThenEscalated
    OcidsProven
    VerdictsAreOwn
    StopsWhenDue
    TasksKept
    
PROPERTIES
    ClaimsStayProven
SYMMETRY OfficeSymmetry
CHECK_DEADLOCK FALSE
