\* Two threads make three queries for one tree with an ignore file, which is
\* over the limit of files when it has any.
CONSTANTS
    k1 = k1
    k2 = k2
    q1 = q1
    q2 = q2
    f1 = f1
    f2 = f2
    Query = {q1, q2}
    QueryBudget = 3
    Key = {k1}
    File = {f1}
    Shown <- MCShown
    NoIgnore = {}
    Rules <- MCRules
    MaxEntries = 2
    MaxFilesTotal = 0
    Interval = 1
    Slack = 1
    MaxTime = 1
    None = None
SPECIFICATION Spec
SYMMETRY Symmetry
INVARIANTS
    SettledIsExact
    WithinLimits
    UncheckedAnswersAreBounded
PROPERTY SettledAnswersAreCurrent
