\* A page with three overlapping loads, beside other pages and clients.
SPECIFICATION Spec
CONSTANTS
    Hourly = hourly
    Others = {summary}
    Ranges = {7, 30}
    MockDefault = FALSE
    Choice = TRUE
    None = None
    MaxCommits = 1
    MaxLoads = 3
    MaxFlips = 1
    MaxOpen = 2
INVARIANTS
    TypeOK
    CurrentAtRest
    BannerAtRest
PROPERTIES
    NoStepBack
CHECK_DEADLOCK FALSE
