\* What a group meets: reordered backups, a new primary, a lane dropped, nodes that
\* fail and recover, a lost message, a kernel that dies, a restart of the panel,
\* somebody who selects by hand or asks for a refresh.
SPECIFICATION FairSpec
CONSTANTS
    A = A
    B = B
    C = C
    ra = ra
    rb = rb
    rc = rc
    Lanes = {A, B, C}
    Outbounds = {ra, rb, rc}
    NoRef = NoRef
    Reject = Reject
    NoLane = NoLane
    Nothing = Nothing
    Threshold = 2
    Hold = 1
    Groups <- All
INVARIANTS
    ManagerAgrees
PROPERTIES
    NeverDownhill
    RejectedWhenAllFailed
    Recovers
    OrderIsFollowed
