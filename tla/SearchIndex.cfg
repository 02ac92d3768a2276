\* Two requests and the warm-cache thread for two keys, of whose snapshots only
\* one fits, or none: waiting, inheriting, validating, evicting.
CONSTANTS
    q1 = q1
    q2 = q2
    w1 = w1
    k1 = k1
    k2 = k2
    Querier = {q1, q2}
    Warmer = {w1}
    Key = {k1, k2}
    MaxEntries = 2
    MaxBytes = 3
    SnapshotBytes = {2, 4}
    Interval = 1
    RequestBudget = 1
SPECIFICATION Spec
SYMMETRY Symmetry
INVARIANTS
    SingleFlight
    NoLostWakeup
    SnapshotAccounting
PROPERTIES
    BuildErrorsStayPrivate
    EvictionIsLRU
    ImplementsSnapshotCache
