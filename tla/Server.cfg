\* Two calls (one refused), a batch with a shutdown request, a malformed message
\* and one that loses the framing.
CONSTANTS
    c1 = c1
    c2 = c2
    b1 = b1
    s1 = s1
    m1 = m1
    x1 = x1
    None = None
    Call = {c1, c2}
    Refused = {c2}
    Other = {}
    Batch = {b1}
    Exit = {b1}
    Mute = {}
    Malformed = {m1}
    Broken = {x1}
    Id <- MCId
    IdOf <- MCIdOf
SPECIFICATION FairSpec
INVARIANTS
    FramesWhole
    RegistryExact
    CancelledIsSilent
    GracefulDrain
PROPERTIES
    ShutdownStopsReading
    ImplementsSession
    
