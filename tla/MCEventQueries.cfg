SPECIFICATION QuerySpec
CONSTANTS
    e1 = e1
    e2 = e2
    s1 = s1
    Event <- MCEvent
    Sid <- MCSid
    SessionOf <- MCSessionOf
    Label = {}
    NoLabel = NoLabel
    NoEvent = NoEvent
    NoSid = NoSid
    Req = {r1, r2}
    Reader = {q1}
    DiskMayFail = TRUE
SYMMETRY Symmetry
INVARIANT ReadersAreNotMisled
