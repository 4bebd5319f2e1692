\* Two overlapping hooks, two events, one crash or disk fault.
SPECIFICATION FairSpec
CONSTANTS
    h1 = h1
    h2 = h2
    s1 = s1
    s2 = s2
    Hooks = {h1, h2}
    Sessions = {s1, s2}
    MaxEvents = 2
    SessionOf <- MCSessionOf
    Cap = 1
    Attempts = 2
    Refused = {2}
    MaxFaults = 1
INVARIANTS
    TypeOK
    Accounted
    NoHalfWrittenRead
    ClaimsHaveOwners
PROPERTIES
    KeepsCustody
    RunTerminates
