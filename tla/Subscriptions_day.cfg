\* Requests and scheduled refreshes that overlap, with restarts of the panel.
SPECIFICATION FairSpec
CONSTANTS
    a = a
    b = b
    c = c
    x = x
    y = y
    Ids = {a, b, c}
    FirstList <- TwoSubs
    Srcs = {x, y}
    Plans <- Few
    NoPlan = NoPlan
    Never = Never
    Nothing = Nothing
    Order = Order
    Budgets <- All
INVARIANTS
    NodesFollowList
    SavedStays
    NewsReachesKernel
PROPERTIES
    DeletedStaysDeleted
    Settles
