SPECIFICATION Spec
CONSTANTS
    Pages = {"runner"}
    Message = {1, 2, 3, 4, 5}
    KeyOf <- MCKeyOf
    System = {1}
    ToolResult = {3}
    MaxLeft = 0
    MaxRight = 0
    RunnerSession = {s1, s2, s3}
    Slot = {k1, k2}
    Case = {u1, u2}  Builtin = {}  Body = {x, y}  Garbage = bad
    NoBody = NoBody  NoCase = NoCase  NoData = NoData  FetchesFail = TRUE
    Session = {s1, s2}  NoSession = NoSession  Text = {c1, c2}
    Args = {a0}  Dir = {d1}  NoDir = NoDir  Cap = 1  Allowed = TRUE
    AuthOf <- MCAuthOf  Keyed = {s3}  Foreign = {}
    Item = {u1, u2}  Title = {t1}  NoTitle = NoTitle  NoHookName = NoHookName
    LastEvent = 3  Mixes <- MCMixes  Edit = {9}  ReplaySlot = {k1}
    Thread <- MCThread  Captured <- MCCaptured  Kind = {"text", "tool"}  Big = 1  NoKey = NoKey
    Agent = {m1, m2}  Main = m1  Seconds = {0, 1}  Digits = 1  Base = 3  Unused = Unused
    u1 = u1  u2 = u2  x = x  y = y
    s1 = s1  s2 = s2  s3 = s3  k1 = k1  k2 = k2
CHECK_DEADLOCK FALSE
INVARIANT ShownAuthIsUsed
