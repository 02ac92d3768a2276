\* Two calls, one after the other or side by side, on two files that are edited
\* once, at any time.
CONSTANTS
    r1 = r1
    r2 = r2
    f1 = f1
    f2 = f2
    a = a
    b = b
    j = j
    Run = {r1, r2}
    File = {f1, f2}
    Text = {a, b}
    Junk = {j}
    Batch = 1
    Slack = 1
    Lag = 0
    MaxTime = 1
    MaxEdits = 1
    MaxCalls = 2
    None = None
SPECIFICATION Spec
SYMMETRY Symmetry
INVARIANTS
    StampsAreHonest
    IndexMatchesManifest
 

\* Nothing has to follow the last call.
CHECK_DEADLOCK FALSE
