\* One hook at a time, and still a replay returns a row to older totals.
SPECIFICATION Spec
CONSTANTS
    h1 = h1
    h2 = h2
    s1 = s1
    s2 = s2
    Hooks = {h1}
    Sessions = {s1, s2}
    MaxEvents = 2
    SessionOf <- MCSessionOf
    Cap = 2
    Attempts = 2
    Refused = {}
    MaxFaults = 0
PROPERTIES
    ReplayKeepsRow
