SPECIFICATION FairSpec
CONSTANTS
    Sid = {s1}
    Req = {r1, r2}
    NoSid = NoSid
    MaxRefresh = 1
    DiskMayFail = TRUE
INVARIANTS
    TypeOK
    SavedSessionsSurvive
    CleanlyClosedIsGone
    LaunchedNeedsKeyOnlyAfterLoss
PROPERTIES
    PlaceholderLeavesOnlyAfterLoss
    HandlersFinish
