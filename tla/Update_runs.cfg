\* Runs of update.sh that overlap, fail, are cancelled, interrupted or killed.
SPECIFICATION FairSpec
CONSTANTS
    w1 = w1
    w2 = w2
    Workers = {w1, w2}
    Nobody = Nobody
    Dead = Dead
    None = None
    Releases = {0, 1, 2}
    Runtime <- Runtimes
    Budgets <- Everyday
\* Nothing is left to do when the budget is used up.
CHECK_DEADLOCK FALSE
INVARIANTS
    Intact
    CancelHonoured
    ExchangeRepairs
PROPERTIES
    ImplementsAtomicInstall
    BackAgain
