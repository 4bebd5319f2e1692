\* A hook posts a session that the scanner found missing.
SPECIFICATION Spec
CONSTANTS
    r1 = r1
    r2 = r2
    r3 = r3
    p1 = p1
    p2 = p2
    p3 = p3
    p4 = p4
    s1 = s1
    s2 = s2
    Reqs = {r1, r2, r3}
    Bad = {r3}
    Paths = {p1, p2, p3, p4}
    Empty = {p3}
    Sessions = {s1, s2}
    IdOf <- MCIdOf
    MaxScans = 2
    MaxFaults = 0
PROPERTIES
    ScanOnlyMissing
CHECK_DEADLOCK FALSE
