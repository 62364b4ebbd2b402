\* Every plan with a failing command, reboots, a dying panel and a power cut.
SPECIFICATION Spec
CONSTANTS
    s1 = s1
    s2 = s2
    Upstreams = {s1, s2}
    Ours = Ours
    NoFile = NoFile
    Budgets <- Everyday
SYMMETRY UpstreamSymmetry
\* The router rests when the bounds are used up.
CHECK_DEADLOCK FALSE
INVARIANTS
    NothingLeftBehind
    UserSettingKept
    PlanInForce
