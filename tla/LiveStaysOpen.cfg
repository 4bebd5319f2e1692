\* The server's own deadlines end a stream.
SPECIFICATION Spec
CONSTANTS
    Posts = {p1}
    Conns = {c1}
    Tabs = {t1}
    Cap = 1
INVARIANTS
    StaysOpen
