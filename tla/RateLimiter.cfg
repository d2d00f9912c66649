\* More keys than buckets, with two requests waiting for the mutex.
CONSTANTS
    NoBucket = NoBucket
    Keys = {k1, k2, k3}
    Requests = {r1, r2}
    max = 2
    window = 2
    maxRateLimitBuckets = 2
    MaxTime = 3
SPECIFICATION Spec
SYMMETRY CallerSymmetry
INVARIANTS
    BucketsAreBounded
    PermitsMaxPerWindow
PROPERTIES
    LockoutLasts
\* The clock is bounded.
CHECK_DEADLOCK FALSE
