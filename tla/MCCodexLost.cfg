SPECIFICATION Spec
CONSTANTS
    Req = {r1}
    Text = {t1, t2}
    NoText = NoText
    Crashes = TRUE
    DiskMayFail = FALSE
SYMMETRY Symmetry
INVARIANT OriginalIsRecoverable
