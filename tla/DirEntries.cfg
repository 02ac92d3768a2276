\* Three calls list one directory under two keys, with room for one listing.
CONSTANTS
    k1 = k1
    k2 = k2
    c1 = c1
    c2 = c2
    c3 = c3
    c4 = c4
    f1 = f1
    f2 = f2
    Call = {c1, c2, c3}
    Key = {k1, k2}
    File = {f1, f2}
    Shown <- MCShown
    MaxListings = 1
    MaxTime = 1
    None = None
SPECIFICATION DirSpec
SYMMETRY Symmetry
INVARIANTS
    DirTypeOK
    UnracedIsExact
