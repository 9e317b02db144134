CONSTANTS
    p1 = p1  p2 = p2  small = small  large = large
    None = None
    Principal = {p1, p2, p3}
    Moving = {p3}
    Request = {r1, r2}
    Tier = {small, large}
    FirstTier <- MCFirstTier
    Capacity <- MCCapacity
    Refill <- MCRefill
    Unit = 2
    TicksPerMs = 2
    MaxBuckets = 2
    MaxClock = 4
SPECIFICATION OrderedSpec
SYMMETRY Symmetry
INVARIANTS
    StoreBounded
PROPERTIES
    RefusalIsFair
    EvictionInvisible
    ImplementsTokenBucket
