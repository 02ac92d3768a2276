\* Two threads make two requests each for one key, whose snapshot is refused,
\* accepted, validated, retired and rebuilt.
CONSTANTS
    q1 = q1
    q2 = q2
    k1 = k1
    Querier = {q1, q2}
    Warmer = {}
    Key = {k1}
    MaxEntries = 1
    MaxBytes = 1
    SnapshotBytes = {1, 2}
    Interval = 1
    RequestBudget = 2
SPECIFICATION FairSpec
INVARIANT TargetedRunIsBounded
PROPERTY EveryRequestEnds
