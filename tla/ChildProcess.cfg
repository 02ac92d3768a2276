\* Both runners, with and without input; pipes of one chunk, outputs of up to
\* three chunks of which one or two are kept, and a child of every plan or none.
CONSTANTS
    Kinds = {"plain", "git"}
    Input = {2}
    PipeSize = 1
    Limit <- MCLimit
    MaxOutput = 3
    Plans <- MCPlans
SPECIFICATION FairSpec
CHECK_DEADLOCK FALSE
INVARIANTS
    CaptureIsExact
    NothingLeftBehind
    PlansAreServed
PROPERTY EveryCallEnds
