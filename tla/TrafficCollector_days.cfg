\* Readings, flushes and prunes with every kind of restart, over several days.
SPECIFICATION FairSpec
CONSTANTS
    c1 = c1
    c2 = c2
    d1 = d1
    n1 = n1
    Conns = {c1, c2, d1}
    Node <- NodeOf
    Loop = Loop
    None = None
    HoursPerDay = 2
    Keeps = {1, 3}
    DefaultKeep = 3
    DetailKeep = 1
    Span = 2
    Wide = 9
    MaxPending = 5
    Budgets <- All
\* Nothing is left to do when the budget is used up.
CHECK_DEADLOCK FALSE
INVARIANTS
    AccountsAgree
    NothingTwice
    Exact
PROPERTIES
    KeptUp
