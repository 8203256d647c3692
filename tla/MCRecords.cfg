SPECIFICATION RecordsSpec
CONSTANTS
    \* plan
    SessionDay = {0, 1, 2, 4}
    FirstDay = 1
    LastDay = 4
    Lifetime = 2
    ZoneLow = 4
    ZoneHigh = 6
    Stop = 2
    Target = {8}
    Price = {1, 5, 9}
    Capital = 1000
    RiskPct = 2
    PositionPct = 2
    Multiplier <- Multipliers
    Whole = 10
    Increment = 4
    MaxHeat = 3
    Heat = {2}
    PriceAge = 1
    StopAge = 5
    Unknown = Unknown
    \* brief
    Packet <- Frozen
    ExecutiveSections <- Executive
    DetailedSections <- Detailed
    Affected <- Limits
    Frame <- Frames
    ClaimForm <- Forms
    SizeField = {"position_size", "sizing"}
    Placement = {"plans", "exclusions", "nowhere"}
    NarrativeForm <- Narratives
    Warning <- Notices
    MaxParts = 3
    Nothing = Nothing
    SampleSize = 2
    PrioritySections = {"plans"}
    TypeOrder <- Types
    \* release
    Collector = {c1, c2}
    Source = {commit1}
    Attempt = {1, 2}
    Version = {v1, v2}
    Nobody = Nobody
    \* shadow
    ShadowDay = {1, 2}
    MinimumDays = 1
    ExecutiveLimit = 2
    DetailedLimit = 2
    DurationLimit = 2
    RunKind <- Runs
    ReviewKind <- Reviews
    Note <- Notes
    MaxRecords = 4
INVARIANTS
    SizedWithinPolicy PlanPrecedesItsSession
    ReportIsGrounded PublishedBriefIsReviewable SampleIsTheBest
    StaleEvidenceIsNeverRead
PROPERTIES
    ExpiryIsFinal ObservationIsStable
    LaterReviewsCannotRescue
CHECK_DEADLOCK FALSE
