SPECIFICATION Spec
CONSTANTS
    e1 = e1
    e2 = e2
    e3 = e3
    s1 = s1
    s2 = s2
    Event <- MCEvent
    Sid <- MCSid
    SessionOf <- MCSessionOf
    Label = {l1}
    NoLabel = NoLabel
    NoEvent = NoEvent
    NoSid = NoSid
    Req = {r1, r2}
    DiskMayFail = TRUE
SYMMETRY Symmetry
INVARIANTS
    PointersResolve
    NothingDangles
PROPERTY ImplementsArchive
