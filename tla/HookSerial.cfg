\* One hook at a time, started again and again; event 1 is always refused.
SPECIFICATION BusySpec
CONSTANTS
    h1 = h1
    h2 = h2
    s1 = s1
    s2 = s2
    Hooks = {h1}
    Sessions = {s1, s2}
    MaxEvents = 4
    SessionOf <- MCSessionOf
    Cap = 2
    Attempts = 2
    Refused = {1}
    MaxFaults = 2
INVARIANTS
    BufferWithinCap
PROPERTIES
    EvictsOldestOfFull
    Drained
