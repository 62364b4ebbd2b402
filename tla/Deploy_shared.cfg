\* update.sh, the background task and the panel behind one lock, with a late
\* watch or with losses: what is left agrees, every job ends, DNS is given back.
SPECIFICATION FairSpec
CONSTANTS
    Budgets <- Shared
    MaxWatches = 2
CHECK_DEADLOCK FALSE
INVARIANTS
    UpgradeKeepsKernel
    RouterAgrees
PROPERTIES
    QueueDrains
    DeadCoreReleased
