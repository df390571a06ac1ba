SPECIFICATION LogSpec
CONSTANTS
    Seconds = {0, 1}
    Digits = 2
    Base = 2
    Shape <- MCShape
    s0 = s0
    s1 = s1
    Summary = {s0, s1}
    NoSummary = s0
    MaxCompletions = 3
    MaxHooks = 1
INVARIANTS
    OnlyCutFractionsMisgrade
    HookConfirmsOne
    AnswersStayTrue
CHECK_DEADLOCK FALSE
