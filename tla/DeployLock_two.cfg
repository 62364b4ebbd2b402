\* Two processes, stalls and a crash: safety, progress and the refinement.
SPECIFICATION FairSpec
CONSTANTS
    panel = panel
    cli = cli
    t1 = t1
    t2 = t2
    t3 = t3
    Procs = {panel, cli}
    Tokens = {t1, t2, t3}
    NoToken = NoToken
    NoLock = NoLock
    Stale = 3
    Beat = 1
    Wait = 2
    MaxCrashes = 1
    MaxStalls = 4
INVARIANTS
    TypeOK
    ExclusionUnlessOverrun
    NoOrphanRecord
PROPERTIES
    LiveHolderKept
    ImplementsExclusive
    NobodyLockedOut
