SPECIFICATION ServicesSpec
CONSTANTS
    Idents = {i2}
    Units = {u1}
    Governors = {g1, g2}
    Sweepers = {}
    NoGovernor = noGovernor
    NoUnit = noUnit
    NoIdent = noIdent
    TargetUnit <- NamedOnly
    MaxRows = 2
    MaxRestarts = 0
    Gaps = {v1}
    Hands = {h1}
    Sentinel = tick
    MaxSubmitted = 3
    TickCap = 1
    MaxSlips = 1
    Savers = {d1, d2}
    Talks = {e1, e2}
    Places = {1}
    Names = {n1}
    Contents = {y1, y2}
    MaxTouches = 1
    Ensurers = {p1, p2}
    UmrIds = {r1, r2}
    AddedCols <- ServiceCols
    MaxKilled = 1
    NumPlanned = 2
    Requires <- ServiceRequires
    Writers = {w1, w2}
    MaxOrigin = 2
    MaxJobs = 1
    NumEntries = 2
    DependsOn <- ServiceRequires
    MaxTries = 3
    MaxMeddlings = 2
    Keep = 2
    Snappers = {sn1, sn2}
    Pruners = {pr1}
    MaxCopies = 3
    MaxUnwells = 1
    MaxHeads = 2
    RaceGap = 1
    MaxTime = 5
    Calls = {x1, x2}
    Piped = {x1}
    Texts <- ServiceTexts
    MaxPiped = 2
    MaxSeconds = 1
    MinKept = 1
    MaxKept = 2
    Files = {"a.py", "old/a.py", "new.py", "doc.md"}
    NewFiles = {"new.py"}
    Base <- ServiceBase
    Skipped = {"doc.md"}
    OverrideOf <- ServiceOverride
    Prompts <- ServicePrompts
    Pulls <- ServicePulls
    MaxFixes = 1
    MaxRounds = 3
    MaxEdits = 2
    Troubles = {"disk"}
    Blockable = {"t"}
    EscalateAt = 2
    RateLimit = 2
    MaxClock = 2
    MaxChanges = 2
    MaxHealthKills = 1
    MaxOthers = 1
    Watched = {t1, t2}
    Notes = {per, k1}
    Periodic = per
    LoopCount = 1
    MaxPoints = 1
    MaxPasses = 2
    Listers = {l1}
    MaxProbes = 2
    Umrs = {m1, m2}
    MechanismAt <- ServiceMechanism
    Canons <- ServiceCanons
    GitShows <- ServiceShows
    RetainFor = 0
    MaxDay = 1
    MaxAudits = 2
    MaxByHand = 1
    MaxTouched = 2
    Reporters = {f1, f2}
    Cats = {1, 2, 3, 25}
    Ocids = {"o"}
    Severity <- ServiceSeverity
    Worlds <- ServiceWorlds
    Missing = Missing
    TrendWindow = 3
    TolerancePct = 5
    CapTrigger = 1
    TopK = 1
    MaxSnaps = 2
    MaxNews = 1
    MaxReports = 3
    MaxReportKills = 1
    Paths = {"dir", "dir/file", "index"}
    Inside <- ServiceInside
    IndexFile = "index"
    Browser = {"dir"}
    Catalogs <- ServiceCatalogs
    Hashes = {y1, y2}
    Generators = {q1, q2}
    MaxKnown = 1
    MaxWirings = 2
    Reasons <- ServiceReasons
    Beginnings <- ServiceBeginnings
    MaxIssued = 2
    MaxEvents = 1
    MaxTriages = 2
INVARIANTS
    ServicesTypeOK
    
    StoresKept
    
    PromptKept
    
    
    
    ComplianceKept
    
PROPERTIES
    SpawnOncePerQueuing
    
CHECK_DEADLOCK FALSE
