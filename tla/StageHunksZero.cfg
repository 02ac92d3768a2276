\* Context 0, and nobody else writes.
CONSTANTS
    a = a
    b = b
    Line <- MCLine
    File <- MCFile
    FileOf <- MCFileOf
    Text <- MCText
    Anchor <- MCAnchor
    HEAD <- MCHead
    Scopes <- MCScopes
    Context = 0
    Actions = {"prepare_commit", "stage_only", "unstage"}
    Budget = 0
    Garbled = Garbled
    None = None
SPECIFICATION Spec
CHECK_DEADLOCK FALSE
INVARIANT UndisturbedIsVerified
