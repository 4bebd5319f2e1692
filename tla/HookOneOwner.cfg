\* Two hooks post one buffered file at once.
SPECIFICATION Spec
CONSTANTS
    h1 = h1
    h2 = h2
    s1 = s1
    s2 = s2
    Hooks = {h1, h2}
    Sessions = {s1, s2}
    MaxEvents = 1
    SessionOf <- MCSessionOf
    Cap = 1
    Attempts = 2
    Refused = {}
    MaxFaults = 0
INVARIANTS
    OneOwner
