\* Subscribers leave at any moment, also while a callback publishes.
CONSTANTS
    Publishers = {p1, p2}
    Subscribers = {s1, s2}
    Capacity = 1
    MaxEvents = 4
SPECIFICATION ProgressSpec
SYMMETRY ProgressSymmetry
INVARIANTS LatestIsOffered PanicNeedsRace
CHECK_DEADLOCK FALSE
