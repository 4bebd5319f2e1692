\* Two posts, one dashboard, its stream and the one before that.
SPECIFICATION FairSpec
CONSTANTS
    Posts = {p1, p2}
    Conns = {c1, c2}
    Tabs = {t1}
    Cap = 1
INVARIANTS
    TypeOK
    SendsToOpenChannels
    NothingForgotten
PROPERTIES
    IngestNeverBlocks
    HandlersEnd
