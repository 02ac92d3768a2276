\* Two Reads and two Edits among two calls that are each a Write, a Delete, a
\* Copy or a Move, and a save by another program.
CONSTANTS
    r1 = r1
    r2 = r2
    e1 = e1
    e2 = e2
    x1 = x1
    x2 = x2
    o1 = o1
    Theirs = Theirs
    Ours = Ours
    Empty = Empty
    None = None
    Read = {r1, r2}
    Edit = {e1, e2}
    Other = {x1, x2}
    Outside = {o1}
    Text <- MCText
    TextOf <- MCTextOf
SYMMETRY Symmetry
SPECIFICATION Spec
INVARIANTS
    EditsWhatWasSeen
    SnapshotIsCurrent

\* A session may end with any call: nothing has to follow.
CHECK_DEADLOCK FALSE
