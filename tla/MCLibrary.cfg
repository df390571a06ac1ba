SPECIFICATION Spec
CONSTANTS
    v1 = v1
    v2 = v2
    case1 = case1
    case2 = case2
    hook1 = hook1
    hook2 = hook2
    SeedId = {case1, case2}
    CaseId = {c}
    Version = {v1, v2}
    NoVersion = NoVersion
    SeedsOf <- MCSeedsOf
    Hook = {hook1, hook2}
    DefaultsOf <- MCDefaultsOf
    Req = {r1, r2}
    NoId = NoId
SYMMETRY Symmetry
INVARIANTS
    SeedsInSync
    DeletedCasesStayGone
    ChoicesSurvive
