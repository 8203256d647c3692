SPECIFICATION SetupSpec
CONSTANTS
    SetupClose = {40, 44, 48, 52, 60}
    Wick = 1
    ShortWindow = 1
    MiddleWindow = 3
    LongWindow = 4
    MiddleLag = 1
    LongLag = 1
    BreakoutLookback = 1
    AtrWindow = 3
    LowerBuffer = 1
    UpperBuffer = 2
    BreakoutLimit = 20
    PullbackLimit = 25
    SupportTolerance = 5
    RetracementTolerance = 20
    RewardToRisk = 2
INVARIANT AssessmentConcludes
CHECK_DEADLOCK FALSE
