\* Two runs find the lock of one that was killed, and both take it over.
SPECIFICATION Spec
CONSTANTS
    w1 = w1
    w2 = w2
    Workers = {w1, w2}
    Nobody = Nobody
    Dead = Dead
    None = None
    Releases = {0, 1, 2}
    Runtime <- Runtimes
    Budgets <- TwoAfterAKill
\* Nothing is left to do when the budget is used up.
CHECK_DEADLOCK FALSE
INVARIANT
    LockExcludes
