\* Three IPs, a token every second tick, pruning from the second bucket on.
SPECIFICATION Spec
CONSTANTS
    Keys = {k1, k2, k3}
    Rate = 1
    Burst = 3
    Cost = 2
    PruneAfter = 3
    PruneAt = 2
    Horizon = 6
INVARIANTS
    TypeOK
PROPERTIES
    NoFreeTokens
    MapIsBounded
    IsTokenBucket
