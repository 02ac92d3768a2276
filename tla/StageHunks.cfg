\* Context 1, all actions and scopes, two writes of a line by other programs.
CONSTANTS
    a = a
    b = b
    Line <- MCLine
    File <- MCFile
    FileOf <- MCFileOf
    Text <- MCText
    Anchor <- MCAnchor
    HEAD <- MCHead
    Scopes <- MCScopes
    Context = 1
    Actions = {"prepare_commit", "stage_only", "unstage"}
    Budget = 2
    Garbled = Garbled
    None = None
SPECIFICATION Spec
CHECK_DEADLOCK FALSE
INVARIANTS
    AppliedIsExact
    ReadyIsClean
    ReadyIsExact
    
    UndisturbedIsVerified
