SPECIFICATION Spec
CONSTANTS
    Req = {r1, r2}
    Text = {t1, t2}
    NoText = NoText
    Crashes = TRUE
    DiskMayFail = TRUE
SYMMETRY Symmetry
INVARIANTS
    LostOnlyToBlindInstall
    InjectionNeverSaved
PROPERTY RestoreIsExact
