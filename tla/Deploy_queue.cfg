\* Deploys, stops and rollbacks of the panel, without the late watch.
SPECIFICATION Spec
CONSTANTS
    Budgets <- Queue
    MaxWatches = 2
CHECK_DEADLOCK FALSE
INVARIANTS
    RouterAgrees
    StopIsFinal
    CancelledIsFollowed
    RestoredMeansDirect
    BootIsVerified
