\* Four sessions that end on the days around a New Year.
SPECIFICATION Spec
CONSTANTS
    s1 = s1
    s2 = s2
    s3 = s3
    s4 = s4
    Sessions = {s1, s2, s3, s4}
    Bodies <- MCBodies
    Horizon <- MCHorizon
    NewYears <- MCNewYears
    MonthStarts <- MCMonthStarts
    Monday = 366
    PerHour = 1
    PerDay = 2
    Start = 728
    End = 732
    Budget = 5
    SessionWindowN = 2
    SessionRatio = 3
    TrendRatio = 2
    TrendWindow = 2
    TrendMin = 1
    SpikeDays = 4
    ForecastDays = 3
    AlertDays = 2
    MaxChecks = 1
SYMMETRY Symmetry
INVARIANTS
    TypeOK
    QueriesAgree
    WeekBuckets
    BaselineIsMedian
    SteadyForecast
PROPERTIES
    NewerKeepsSpikes
    AlertsSpareSelf
CHECK_DEADLOCK FALSE
