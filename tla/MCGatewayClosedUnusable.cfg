SPECIFICATION Spec
CONSTANTS
    Sid = {s1}
    Req = {r1, r2}
    NoSid = NoSid
    MaxRefresh = 0
    DiskMayFail = FALSE
SYMMETRY Symmetry
INVARIANT ClosedIsUnusable
