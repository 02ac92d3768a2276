\* Two queries, three calls: the ignore file in one directory, a file in another,
\* one edit of any kind, in the same unit of time or the next.
CONSTANTS
    q1 = q1
    q2 = q2
    d1 = d1
    d2 = d2
    f1 = f1
    m = m
    n = n
    Query = {q1, q2}
    Dir = {d1, d2}
    File = {f1}
    Home <- MCHome
    Root = d1
    Text = {m, n}
    Matching = {m}
    Rules <- MCRules
    Slack = 1
    FullScanInterval = 1
    MaxTime = 1
    MaxEdits = 1
    MaxCalls = 3
    None = None
SPECIFICATION FreshSpec
SYMMETRY Symmetry
INVARIANTS
    CertifiedIsExact
    ReportedWasThere
    CalmIsExact
    WrongIsBounded
 

\* The calls and edits of a session are bounded: it ends.
CHECK_DEADLOCK FALSE
