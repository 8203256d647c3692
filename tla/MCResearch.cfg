SPECIFICATION ResearchSpec
CONSTANTS
    \* market
    Symbol = {s1, s2}
    Unrequested = s3
    TradingDay = {0, 2, 3}
    MarketDate = 3
    SessionCount = 2
    Close = {10, 11}
    Malformed = bad
    Token = {t1}
    TradeSlot = {13, 14}
    LastSlot = 14
    Refusal = {"PROVIDER_UNAVAILABLE"}
    RoleSets <- Roles
    HealthReports = {"ready", "unready", "optional", "twice"}
    \* events
    ReadingOrder <- Order
    MacroSource = {"fed", "bls"}
    Materiality <- Calendars
    WindowStart = 1
    WindowEnd = 4
    Cutoff = 1
    PlanExpiry = 4
    Outages = {"DEADLINE_EXCEEDED"}
    NoTime = NoTime
    LastInstant = 2
    EventTime = {0, 1}
    MaxRows <- Rows
    \* regime
    Spy = "spy"
    Qqq = "qqq"
    Iwm = "iwm"
    Hyg = "hyg"
    Lqd = "lqd"
    Sector = {"xlk", "xlf", "xlp", "xlc"}
    Cyclical = {"xlk", "xlf"}
    Defensive = {"xlp"}
    Shapes <- ShapesOf
    Weight <- Weights
    PositiveMinimum = 3
    NegativeMaximum = 1
    ValidMinimum = 2
    Votes = 2
    ValidVotes = 2
    Calm = 60
    Stressed = 80
    Permissive = 35
    NegDefensive = 35
    \* setups
    SetupClose = {40, 52, 60}
    Wick = 1
    ShortWindow = 1
    MiddleWindow = 3
    LongWindow = 4
    MiddleLag = 1
    LongLag = 1
    BreakoutLookback = 1
    AtrWindow = 3
    LowerBuffer = 1
    UpperBuffer = 2
    BreakoutLimit = 20
    PullbackLimit = 25
    SupportTolerance = 5
    RetracementTolerance = 20
    RewardToRisk = 2
    \* ranking
    MarketRegime = {"PERMISSIVE", "UNKNOWN"}
    Candidate = {1, 2, 3, 4}
    SymbolOf <- Symbols
    Points = {74, 84}
    WarningPenalty = 5
    ConcentrationPenalty = 10
    Threshold <- Thresholds
    PlanCap = 2
    HighlightCap = 1
INVARIANTS
    CollectionIsOfOneReading QualityIsCoherent NoHoleIsHidden
    NoEvidenceFromTheFuture DraftMeansCalendarsWereRead
    StopIsBelowTheMarket
    RankingForgetsTheLast OnePlanPerExposure
PROPERTIES
    BarsAreACompleteHistory
    OneSeriesIsNotARegime LosingDataRevealsNothing
SYMMETRY Interchangeable
CHECK_DEADLOCK FALSE
