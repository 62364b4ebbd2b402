\* Nothing fails: taking over a second time after a stop forgets noresolv.
SPECIFICATION Spec
CONSTANTS
    s1 = s1
    s2 = s2
    Upstreams = {s1, s2}
    Ours = Ours
    NoFile = NoFile
    Budgets <- TwoTakeovers
SYMMETRY UpstreamSymmetry
\* The router rests when the bounds are used up.
CHECK_DEADLOCK FALSE
INVARIANTS
    UserSettingKept
