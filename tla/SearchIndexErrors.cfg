\* A request's timeout reaches another request.
CONSTANTS
    q1 = q1
    q2 = q2
    k1 = k1
    Querier = {q1, q2}
    Warmer = {}
    Key = {k1}
    MaxEntries = 1
    MaxBytes = 0
    SnapshotBytes = {1}
    Interval = 1
    RequestBudget = 1
SPECIFICATION Spec
PROPERTY PerRequestErrorsAreOwn
