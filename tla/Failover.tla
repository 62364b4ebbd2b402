----------------------------- MODULE Failover -----------------------------
(***************************************************************************)
(* panel/server/system/failover-manager.mjs: the loop in the panel that     *)
(* chooses, for one failover group, which of its lanes (primary, backups)   *)
(* the kernel's selector uses.  The kernel restarts with every deploy, the  *)
(* panel restarts too; every HTTP call to the kernel is a step of its own.  *)
(*                                                                         *)
(* A lane is one outbound here: the nodes of a lane and the kernel's own    *)
(* choice among them are the outcome of its probe (up, down, or unknown).   *)
(* Time is counted in rounds: a round takes one unit of recoveryHoldMs or   *)
(* none.  When the next round is due is left open.                          *)
(***************************************************************************)
EXTENDS Integers, Sequences

CONSTANTS
    Lanes,           \* stable lane ids
    Outbounds,       \* the outbounds lanes may have
    NoRef,           \* the outbound of a lane without valid nodes
    Reject,          \* the group's last member
    NoLane, Nothing, \* no lane; no record, no pending reordering, no order
    Threshold,       \* failureThreshold
    Hold,            \* recoveryHoldMs
    Groups           \* how a group is set up, and how often what may befall it

\* ref: the outbound of each lane, two may have the same.  orders: sequences of lanes
\* a profile may deploy, first: those deployed when the behaviour begins.
Counted == {"deploys", "flips", "faults", "restarts", "selects"}

Setups == [ref : [Lanes -> Outbounds \cup {NoRef}], restorePrimary : BOOLEAN,
           orders : SUBSET (Seq(Lanes) \ {<<>>}), first : SUBSET Seq(Lanes),
           left : [Counted -> Nat]]

ASSUME FailoverAssumption ==
    /\ {NoLane, Reject} \cap Lanes = {} /\ NoLane # Reject
    /\ Reject \notin Outbounds \cup {NoRef}
    /\ Threshold \in Nat \ {0} /\ Hold \in Nat
    /\ Groups \subseteq Setups
    /\ \A g \in Groups : Nothing \notin g.orders /\ g.first \subseteq g.orders

VARIABLES
    works,    \* the outbounds that really work
    meta,     \* config.meta.json: its version and the order of the lanes
    kernel,   \* the running kernel: its order, its selection, reachable or not
    disk,     \* jbox/failover-state
    version,  \* the version the manager has loaded; 0: none
    known,    \* the manager has a state for the group
    order, health, fail, upFor, current, reorder,   \* that state
    round,    \* the round under way
    group,    \* its setup; what may still befall it
    sure,     \* history: nobody else has selected since the manager read it
    asked     \* history: a new order was loaded, and no node has changed since

state == <<order, health, fail, upFor, current, reorder>>
vars == <<works, meta, kernel, disk, version, known, order, health, fail, upFor,
          current, reorder, round, group, sure, asked>>

-----------------------------------------------------------------------------
Ref == group.ref
Orders == group.orders
RestorePrimary == group.restorePrimary

Outcomes == {"up", "down", "unknown"}
Refs == {Ref[l] : l \in Lanes} \ {NoRef}
LanesOf(o) == {o[i] : i \in 1..Len(o)}
Members(o) == {Ref[l] : l \in LanesOf(o)} \ {NoRef}
Empty(l) == Ref[l] = NoRef
RefOf(target) == IF target = Reject THEN Reject ELSE Ref[target]

Reorders == [reason : {"priority-changed", "order-unknown"}, evaluated : BOOLEAN]
Records == [lane : Lanes \cup {NoLane}, order : Orders \cup {Nothing},
            reorder : Reorders \cup {Nothing}]
Metas == [version : Nat, order : Orders]
Kernels == [order : Orders, now : Refs \cup {Reject}, up : BOOLEAN]
Rounds == [pc : {"idle", "look", "probe", "assess", "decide", "put", "readback"},
           version : Nat, seen : [Lanes -> Outcomes], parent : Refs \cup {Reject},
           target : Lanes \cup {NoLane, Reject}, move : BOOLEAN]
Idle == [pc |-> "idle", version |-> 0, seen |-> [l \in Lanes |-> "unknown"],
         parent |-> Reject, target |-> NoLane, move |-> FALSE]

May(what) == group.left[what] > 0
Use(what) == group' = [group EXCEPT !.left[what] = @ - 1]

TypeOK ==
    /\ works \subseteq Refs
    /\ meta \in Metas /\ kernel \in Kernels
    /\ disk \in Records \cup {Nothing}
    /\ version \in Nat /\ known \in BOOLEAN
    /\ order \in Orders
    /\ health \in [Lanes -> Outcomes]
    /\ fail \in [Lanes -> 0..Threshold]
    /\ upFor \in [Lanes -> -1..Hold]
    /\ current \in Lanes \cup {NoLane}
    /\ reorder \in Reorders \cup {Nothing}
    /\ round \in Rounds
    /\ group \in Setups
    /\ sure \in BOOLEAN /\ asked \in BOOLEAN

\* The selector's default is its first member.
Default(o) ==
    LET full == {i \in 1..Len(o) : ~Empty(o[i])} IN
    IF full = {} THEN Reject
    ELSE Ref[o[CHOOSE i \in full : \A j \in full : i <= j]]

FreshHealth == [l \in Lanes |-> IF Empty(l) THEN "down" ELSE "unknown"]

\* No record, the panel's own, or one of an earlier version that knew no orders.
Found(o) ==
    {Nothing} \cup {r \in Records : r.lane \in LanesOf(o) /\ ~Empty(r.lane)
                                   /\ r.order \in {o, Nothing} /\ r.reorder = Nothing}

\* A deployed group; the panel starts.
Init ==
    /\ group \in Groups
    /\ works = Refs
    /\ \E o \in group.first :
        /\ meta = [version |-> 1, order |-> o]
        /\ kernel = [order |-> o, now |-> Default(o), up |-> TRUE]
        /\ order = o
        /\ disk \in Found(o)
    /\ version = 0 /\ known = FALSE
    /\ health = FreshHealth
    /\ fail = [l \in Lanes |-> 0] /\ upFor = [l \in Lanes |-> -1]
    /\ current = NoLane /\ reorder = Nothing
    /\ round = Idle
    /\ sure = FALSE /\ asked = FALSE

-----------------------------------------------------------------------------
(* loadMap: the group as deployed, with what is remembered of it.          *)

Saved(field) == IF disk = Nothing THEN Nothing ELSE disk[field]

\* Mutant: the pending reordering is not taken over from the record.
CarriedInMemory == IF known THEN reorder ELSE Nothing

Carried == IF known /\ reorder # Nothing THEN reorder ELSE Saved("reorder")

Before == IF known THEN order ELSE Saved("order")
OrderChanged(o) == Before \notin {Nothing, o}

HintLane(o) ==
    IF known /\ current \in LanesOf(o) THEN current
    ELSE IF disk # Nothing /\ disk.lane \in LanesOf(o) THEN disk.lane
    ELSE NoLane

Reordered(o) ==
    IF OrderChanged(o) THEN [reason |-> "priority-changed", evaluated |-> FALSE]
    ELSE IF Before = Nothing /\ disk # Nothing /\ Carried = Nothing
    THEN [reason |-> "order-unknown", evaluated |-> FALSE]
    ELSE Carried

LoadMap ==
    LET o == meta.order IN
    /\ version' = meta.version /\ known' = TRUE
    /\ order' = o
    /\ health' = FreshHealth
    /\ fail' = [l \in Lanes |-> 0] /\ upFor' = [l \in Lanes |-> -1]
    /\ current' = HintLane(o)
    /\ reorder' = Reordered(o)
    /\ disk' = [lane |-> current', order |-> o, reorder |-> reorder']
    /\ sure' = FALSE
    /\ asked' = (asked \/ OrderChanged(o))

Persist == disk' = [lane |-> current', order |-> order, reorder |-> reorder']

-----------------------------------------------------------------------------
(* runTick and runRound.                                                   *)

\* The kernel has every outbound of the map.
Matches == Members(order) \subseteq Members(kernel.order)

\* The state in memory is gone.
Forget ==
    /\ version' = 0 /\ known' = FALSE
    /\ health' = FreshHealth
    /\ fail' = [l \in Lanes |-> 0] /\ upFor' = [l \in Lanes |-> -1]
    /\ current' = NoLane /\ reorder' = Nothing
    /\ sure' = FALSE
    /\ UNCHANGED order

\* syncMap.  When the metadata cannot be read the map is dropped.
Tick ==
    /\ round.pc = "idle"
    /\ \/ /\ IF version # meta.version THEN LoadMap
             ELSE UNCHANGED <<disk, version, known, state, sure, asked>>
          /\ round' = [Idle EXCEPT !.pc = "look"]
          /\ UNCHANGED group
       \/ /\ May("faults") /\ Use("faults")
          /\ Forget
          /\ UNCHANGED <<disk, round, asked>>
    /\ UNCHANGED <<works, meta, kernel>>

\* A round begins unless the kernel is away or runs another configuration.
Look ==
    /\ round.pc = "look"
    /\ round' = IF kernel.up /\ Matches
                THEN [round EXCEPT !.pc = "probe", !.version = version] ELSE Idle
    /\ UNCHANGED <<works, meta, kernel, disk, version, known, state, group, sure, asked>>

\* stale: only refresh and the end of the panel change what is compared.
Stale == version # round.version

Skip == round' = Idle

\* probeNode: a node that works passes, one that does not fails; a call that
\* goes wrong says nothing, and one may time out on a node that works.
Outcome(l) ==
    IF Empty(l) THEN "down"
    ELSE IF ~kernel.up \/ Ref[l] \notin Members(kernel.order) THEN "unknown"
    ELSE IF Ref[l] \in works THEN "up" ELSE "down"

Probe ==
    /\ round.pc = "probe"
    /\ \E seen \in [Lanes -> Outcomes] :
        /\ round' = [round EXCEPT !.pc = "assess", !.seen = seen]
        /\ LET odd == {l \in Lanes : seen[l] # Outcome(l)} IN
            \/ odd = {} /\ UNCHANGED <<group, asked>>
            \/ /\ May("faults") /\ Use("faults")
               /\ \E l \in Lanes : odd = {l} /\ ~Empty(l) /\ seen[l] # "up"
               /\ asked' = (asked /\ \A l \in odd : seen[l] = "unknown")
    /\ UNCHANGED <<works, meta, kernel, disk, version, known, state, sure>>

\* The kernel is still there: the outcomes become the health of the lanes.
Assess ==
    /\ round.pc = "assess"
    /\ IF Stale \/ ~kernel.up
       THEN Skip /\ UNCHANGED health
       ELSE /\ health' = [l \in Lanes |-> IF l \in LanesOf(order) THEN round.seen[l]
                                          ELSE health[l]]
            /\ round' = [round EXCEPT !.pc = "decide"]
    /\ UNCHANGED <<works, meta, kernel, disk, version, known, order, fail, upFor,
                   current, reorder, group, sure, asked>>

-----------------------------------------------------------------------------
(* The decision.                                                           *)

Up(l) == health[l] = "up"
IndexOf(l) == CHOOSE i \in 1..Len(order) : order[i] = l
Above(l) == {order[i] : i \in 1..(IndexOf(l) - 1)}

\* Mutant: the last lane that passes.
LastUp(except) ==
    LET ups == {i \in 1..Len(order) : Up(order[i]) /\ order[i] # except} IN
    IF ups = {} THEN NoLane ELSE order[CHOOSE i \in ups : \A j \in ups : i >= j]

FirstUp(except) ==
    LET ups == {i \in 1..Len(order) : Up(order[i]) /\ order[i] # except} IN
    IF ups = {} THEN NoLane ELSE order[CHOOSE i \in ups : \A j \in ups : i <= j]

Preferred == FirstUp(NoLane)
UnknownAbove(l) == \E m \in Above(l) : health[m] = "unknown"

\* Mutant: not known is as good as failed.
NoneUnknown == FALSE

AnyUnknown == \E l \in LanesOf(order) : health[l] = "unknown"

\* laneForNow: the lane on record if its outbound is selected, or the first
\* lane with that outbound.
LaneForNow(now) ==
    LET with == {i \in 1..Len(order) : Ref[order[i]] = now} IN
    IF now = Reject THEN NoLane
    ELSE IF current # NoLane /\ Ref[current] = now THEN current
    ELSE IF with = {} THEN NoLane
    ELSE order[CHOOSE i \in with : \A j \in with : i <= j]

Evaluated(r) == [r EXCEPT !.evaluated = TRUE]

\* settleIfDone.
Settled(r, lane) ==
    IF r = Nothing \/ lane = NoLane THEN r
    ELSE IF Preferred # lane \/ UnknownAbove(lane) THEN r
    ELSE IF r.reason # "priority-changed" \/ \A l \in Above(lane) : Empty(l) THEN Nothing
    ELSE Evaluated(r)

\* What a pending reordering asks for.
ReorderTarget(cur, up) ==
    /\ cur # NoLane /\ reorder # Nothing
    /\ Preferred \notin {NoLane, cur} /\ ~UnknownAbove(Preferred)
    /\ \/ ~reorder.evaluated /\ reorder.reason = "priority-changed"
       \/ /\ Preferred # order[1]
          /\ ~reorder.evaluated \/ up[Preferred] >= Hold

\* What becomes of it when it asks for nothing.
Reconsidered(cur) ==
    IF cur = NoLane \/ reorder = Nothing \/ Preferred = NoLane THEN reorder
    ELSE IF UnknownAbove(Preferred) THEN reorder
    ELSE IF Preferred = cur THEN Settled(reorder, cur)
    ELSE IF Preferred = order[1] /\ ~RestorePrimary THEN Nothing
    ELSE Evaluated(reorder)

\* Mutant: a rejected group is left alone.
OrdinaryStaysRejected(cur, up, now) ==
    IF cur = NoLane /\ now = Reject THEN NoLane
    ELSE IF cur # NoLane /\ Up(cur) THEN
         IF RestorePrimary /\ cur # order[1] /\ Up(order[1]) /\ up[order[1]] >= Hold
         THEN order[1] ELSE NoLane
    ELSE FirstUp(cur)

Ordinary(cur, up, now) ==
    LET other == FirstUp(cur) IN
    IF cur # NoLane /\ Up(cur) THEN
         IF RestorePrimary /\ cur # order[1] /\ Up(order[1]) /\ up[order[1]] >= Hold
         THEN order[1] ELSE NoLane
    ELSE IF cur # NoLane /\ (health[cur] # "down" \/ fail'[cur] < Threshold) THEN NoLane
    ELSE IF other # NoLane THEN other
    ELSE IF ~AnyUnknown /\ now # Reject THEN Reject
    ELSE NoLane

UpTo(bound, n) == IF n < bound THEN n ELSE bound

Streaks(passed) ==
    /\ upFor' = [l \in Lanes |->
                    IF l \notin LanesOf(order) THEN upFor[l]
                    ELSE IF ~Up(l) THEN -1
                    ELSE IF upFor[l] = -1 THEN 0 ELSE UpTo(Hold, upFor[l] + passed)]
    /\ fail' = [l \in Lanes |->
                    IF l \notin LanesOf(order) \/ health[l] = "unknown" THEN fail[l]
                    ELSE IF Up(l) THEN 0 ELSE UpTo(Threshold, fail[l] + 1)]

Decide(passed) ==
    /\ round.pc = "decide"
    /\ IF Stale \/ ~kernel.up
       THEN Skip /\ UNCHANGED <<disk, fail, upFor, current, reorder, sure>>
       ELSE LET now == kernel.now
                cur == LaneForNow(now) IN
            /\ Streaks(passed)
            /\ sure' = TRUE
            /\ LET move == ReorderTarget(cur, upFor')
                   target == IF move THEN Preferred ELSE Ordinary(cur, upFor', now)
                   after == IF move THEN reorder ELSE Reconsidered(cur)
               IN IF target # NoLane /\ RefOf(target) # now
                  THEN /\ round' = [round EXCEPT !.pc = "put", !.parent = now,
                                                 !.target = target, !.move = move]
                       /\ current' = cur /\ reorder' = after
                       /\ UNCHANGED disk
                  ELSE /\ current' = IF target \in Lanes THEN target ELSE cur
                       /\ reorder' = Settled(IF move THEN Evaluated(after) ELSE after,
                                             current')
                       /\ Persist /\ Skip
    /\ UNCHANGED <<works, meta, kernel, version, known, order, health, group, asked>>

\* The switch failed, as far as the manager can tell: what is recorded stays.
GiveUp ==
    /\ reorder' = Settled(reorder, current)
    /\ sure' = FALSE
    /\ UNCHANGED current
    /\ Persist /\ Skip

\* PUT /proxies/<group>.  An answer may be lost after it was obeyed.
Put ==
    LET ref == RefOf(round.target)
        possible == kernel.up /\ ref \in Members(kernel.order) \cup {Reject} IN
    /\ round.pc = "put"
    /\ \/ /\ possible
          /\ kernel' = [kernel EXCEPT !.now = ref]
          /\ \/ /\ round' = [round EXCEPT !.pc = "readback"]
                /\ UNCHANGED <<disk, current, reorder, sure, group>>
             \/ May("faults") /\ Use("faults") /\ GiveUp
       \/ /\ \/ ~possible /\ UNCHANGED group
             \/ possible /\ May("faults") /\ Use("faults")
          /\ GiveUp
          /\ UNCHANGED kernel
    /\ UNCHANGED <<works, meta, version, known, order, health, fail, upFor, asked>>

\* Mutant: the switch is not recorded.
ReadBackForgets ==
    /\ round.pc = "readback"
    /\ UNCHANGED <<current, reorder>>
    /\ Persist /\ Skip
    /\ UNCHANGED <<works, meta, kernel, version, known, order, health, fail, upFor,
                   sure, group, asked>>

ReadBack ==
    /\ round.pc = "readback"
    /\ \/ /\ kernel.up /\ kernel.now = RefOf(round.target)
          /\ IF Stale THEN Skip /\ sure' = FALSE /\ UNCHANGED <<disk, current, reorder>>
             ELSE /\ current' = IF round.target = Reject THEN NoLane ELSE round.target
                  /\ reorder' = Settled(IF round.move /\ reorder # Nothing
                                        THEN Evaluated(reorder) ELSE reorder, current')
                  /\ Persist /\ Skip
                  /\ UNCHANGED sure
          /\ UNCHANGED group
       \/ /\ ~(kernel.up /\ kernel.now = RefOf(round.target))
          /\ GiveUp /\ UNCHANGED group
       \/ May("faults") /\ Use("faults") /\ GiveUp
    /\ UNCHANGED <<works, meta, kernel, version, known, order, health, fail, upFor, asked>>

\* POST /failover/refresh.
Refresh ==
    /\ May("selects") /\ Use("selects")
    /\ version' = 0
    /\ UNCHANGED <<works, meta, kernel, disk, known, state, round, sure, asked>>

-----------------------------------------------------------------------------
(* What goes on around the manager.                                        *)

\* A deploy writes the metadata; the kernel restarts with it a little later.
\* The cache file brings the selection back if the outbound is still there.
Deploy(o) ==
    /\ May("deploys") /\ Use("deploys")
    /\ meta' = [version |-> meta.version + 1, order |-> o]
    /\ UNCHANGED <<works, kernel, disk, version, known, state, round, sure, asked>>

KernelStarts ==
    /\ ~kernel.up \/ kernel.order # meta.order
    /\ kernel' = [order |-> meta.order, up |-> TRUE,
                  now |-> IF kernel.now \in Members(meta.order) \cup {Reject} THEN kernel.now
                          ELSE Default(meta.order)]
    /\ sure' = (sure /\ kernel'.now = kernel.now)
    /\ UNCHANGED <<works, meta, disk, version, known, state, round, group, asked>>

KernelDies ==
    /\ kernel.up /\ May("faults") /\ Use("faults")
    /\ kernel' = [kernel EXCEPT !.up = FALSE]
    /\ UNCHANGED <<works, meta, disk, version, known, state, round, sure, asked>>

\* A node, or the way to it, fails or recovers.
Flip(ref) ==
    /\ May("flips") /\ Use("flips")
    /\ works' = IF ref \in works THEN works \ {ref} ELSE works \cup {ref}
    /\ asked' = FALSE
    /\ UNCHANGED <<meta, kernel, disk, version, known, state, round, sure>>

\* Somebody selects by hand.
Select(ref) ==
    /\ May("selects") /\ Use("selects")
    /\ kernel.up /\ ref \in Members(kernel.order) \cup {Reject} /\ ref # kernel.now
    /\ kernel' = [kernel EXCEPT !.now = ref]
    /\ sure' = FALSE /\ asked' = FALSE
    /\ UNCHANGED <<works, meta, disk, version, known, state, round>>

\* The panel's process is replaced.
Restart ==
    /\ May("restarts") /\ Use("restarts")
    /\ Forget
    /\ round' = Idle
    /\ UNCHANGED <<works, meta, kernel, disk, asked>>

-----------------------------------------------------------------------------
Round ==
    \/ Tick \/ Look \/ Probe \/ Assess
    \/ \E passed \in {0, 1} : Decide(passed)
    \/ Put \/ ReadBack

Next ==
    \/ Round
    \/ Refresh
    \/ \E o \in Orders : Deploy(o)
    \/ KernelStarts \/ KernelDies
    \/ \E r \in Refs : Flip(r)
    \/ \E r \in Refs \cup {Reject} : Select(r)
    \/ Restart

Spec == Init /\ [][Next]_vars

\* The timer ticks every five seconds and every call has a timeout; a round
\* does not always take no time; procd and the deploy start the kernel.
Fairness ==
    /\ WF_vars(Round) /\ WF_vars(KernelStarts)
    /\ SF_vars(Decide(1))

FairSpec == Spec /\ Fairness

-----------------------------------------------------------------------------
(* Properties.                                                             *)

Switches == round.pc = "put" /\ round' # round /\ kernel'.now # kernel.now

\* A lane that passed in this round is left only for one the user ranks
\* higher: a faster backup is no reason, nor is one round without an answer.
NeverDownhill ==
    [][Switches /\ current # NoLane /\ Up(current) =>
           round.target \in Above(current)]_vars

\* Traffic is rejected only when every lane was seen to fail; what could not
\* be found out is no failure.
RejectedWhenAllFailed ==
    [][Switches /\ kernel'.now = Reject => \A l \in LanesOf(order) : health[l] = "down"]_vars

\* Between rounds the lane on record is the one the kernel uses, unless
\* somebody else has selected since or a switch went wrong.
KnowsWhereItIs ==
    round.pc = "idle" /\ sure =>
        IF current = NoLane THEN kernel.now \notin Members(order)
        ELSE kernel.now = Ref[current]

\* The state of the manager is one its code can be in, and agrees with the kernel.
ManagerAgrees == TypeOK /\ KnowsWhereItIs

\* Once the nodes stop changing, traffic ends up on a lane that works, if
\* there is one.
Recovers ==
    <>[](works \cap Members(meta.order) # {} => kernel.now \in works)

FirstWorking ==
    LET o == meta.order
        at == {i \in 1..Len(o) : Ref[o[i]] \in works} IN
    IF at = {} THEN Reject ELSE Ref[o[CHOOSE i \in at : \A j \in at : i <= j]]

\* A new order is followed in the end, whatever restarts in between (the
\* pending reordering is kept with the state until it is settled).
OrderIsFollowed == <>[](asked /\ RestorePrimary => kernel.now = FirstWorking)
=============================================================================
