-------------------------- MODULE FailoverProofs --------------------------
(***************************************************************************)
(* The manager of a failover group, for every set of lanes and outbounds,  *)
(* every setup of the group and every number of deploys, failures, lost    *)
(* calls, restarts and selections by hand.                                 *)
(***************************************************************************)
EXTENDS Failover, FiniteSetTheorems, WellFoundedInduction, TLAPS

-----------------------------------------------------------------------------
(* The inductive invariant.                                                *)

Agrees == IF current = NoLane THEN kernel.now \notin Members(order)
          ELSE kernel.now = Ref[current]

\* The lane on record is a lane of the order in force.
OnRecord == current \in LanesOf(order) \cup {NoLane}

\* What the manager is sure of stays true until it has moved the selector and
\* not yet read it back.
StillAgrees == sure /\ round.pc # "readback" => Agrees

\* A decided switch: to a lane of the order or to the last member.
TargetKnown ==
    round.pc \in {"put", "readback"} => round.target \in LanesOf(order) \cup {Reject}

\* Until it is sent, the decision stays justified by the health it was taken on.
Upwards ==
    round.pc = "put" /\ current # NoLane /\ Up(current) => round.target \in Above(current)

AllDown == \A l \in LanesOf(order) : health[l] = "down"
LastResort == round.pc = "put" /\ round.target = Reject => AllDown

IInv ==
    /\ TypeOK
    /\ OnRecord
    /\ StillAgrees
    /\ TargetKnown
    /\ Upwards
    /\ LastResort

-----------------------------------------------------------------------------
(* Minima: the model takes the first index with a property.                *)

First(S) == CHOOSE i \in S : \A j \in S : i <= j

\* A set of indices that is not empty has a first one.  The intervals up to its
\* members are ordered by inclusion, and that order is well-founded.
LEMMA FirstIsLeast ==
    ASSUME NEW n \in Nat, NEW S \in SUBSET (1..n), S # {}
    PROVE  First(S) \in S /\ \A j \in S : First(S) <= j
  <1> DEFINE F == FiniteSubsetsOf(1..n)
             I == {1..i : i \in S}
  <1>1. IsFiniteSet(1..n)
    BY FS_Interval
  <1>2. I \subseteq F
    BY <1>1, FS_FiniteSubsetsOfFinite, SMT
  <1>3. I # {}
    OBVIOUS
  <1>4. IsWellFoundedOn(StrictSubsetOrdering(1..n), F)
    BY FS_StrictSubsetOrderingWellFounded
  <1>5. \E x \in I : \A y \in I : ~(<<y, x>> \in StrictSubsetOrdering(1..n))
    BY <1>2, <1>3, <1>4, WFMin
  <1>6. PICK i \in S : \A j \in S : ~(<<1..j, 1..i>> \in StrictSubsetOrdering(1..n))
    BY <1>5
  <1>7. ASSUME NEW j \in S, j < i PROVE FALSE
    <2>1. 1..j \subseteq 1..n /\ 1..i \subseteq 1..n /\ 1..j \subseteq 1..i
      BY <1>7
    <2>2. 1..j # 1..i
      BY <1>7
    <2> QED
      BY <1>6, <2>1, <2>2 DEF StrictSubsetOrdering
  <1>8. \E k \in S : \A j \in S : k <= j
    BY <1>7
  <1> QED
    BY <1>8 DEF First

-----------------------------------------------------------------------------
(* The setup of a group.                                                   *)

\* What an order deployed with a group is made of.
LEMMA OrderFacts ==
    ASSUME group \in Setups, NEW o \in Orders
    PROVE  /\ o \in Seq(Lanes) /\ Len(o) \in Nat /\ Len(o) >= 1
           /\ LanesOf(o) \subseteq Lanes /\ o[1] \in LanesOf(o)
           /\ Members(o) \subseteq Refs
           /\ Reject \notin Refs /\ Reject \notin Members(o)
           /\ \A l \in Lanes : Ref[l] # Reject
  <1>1. group.orders \subseteq Seq(Lanes) \ {<<>>} /\ group.ref \in [Lanes -> Outbounds \cup {NoRef}]
    BY DEF Setups
  <1>2. o \in Seq(Lanes) /\ o # <<>>
    BY <1>1 DEF Orders
  <1>3. Len(o) \in Nat /\ Len(o) >= 1
    BY <1>2
  <1>4. LanesOf(o) \subseteq Lanes /\ o[1] \in LanesOf(o)
    BY <1>2, <1>3 DEF LanesOf
  <1>5. \A l \in Lanes : Ref[l] # Reject
    BY <1>1, FailoverAssumption DEF Ref
  <1>6. Members(o) \subseteq Refs /\ Reject \notin Refs
    BY <1>4, <1>5 DEF Members, Refs
  <1> QED
    BY <1>2, <1>3, <1>4, <1>5, <1>6

\* The selector's default is a lane's outbound or the last member.
LEMMA DefaultType ==
    ASSUME group \in Setups, NEW o \in Orders
    PROVE  Default(o) \in Refs \cup {Reject}
  <1> DEFINE full == {i \in 1..Len(o) : ~Empty(o[i])}
  <1>1. Default(o) = IF full = {} THEN Reject ELSE Ref[o[First(full)]]
    BY DEF Default, First
  <1>2. ASSUME full # {} PROVE Ref[o[First(full)]] \in Refs
    <2>1. First(full) \in full
      BY <1>2, FirstIsLeast, OrderFacts
    <2>2. o[First(full)] \in Lanes /\ ~Empty(o[First(full)])
      BY <2>1, OrderFacts
    <2> QED
      BY <2>2 DEF Refs, Empty
  <1> QED
    BY <1>1, <1>2

\* What a group is made of does not change, only what may still befall it.
SameSetup == group'.ref = group.ref /\ group'.orders = group.orders

LEMMA Using ==
    ASSUME group \in Setups, NEW what \in Counted, May(what), Use(what)
    PROVE  group' \in Setups /\ SameSetup
  <1>1. group.left[what] - 1 \in Nat
    BY DEF Setups, May
  <1>2. [group.left EXCEPT ![what] = @ - 1] \in [Counted -> Nat]
    BY <1>1 DEF Setups
  <1>3. group' = [group EXCEPT !.left = [group.left EXCEPT ![what] = @ - 1]]
    BY DEF Use, Setups
  <1> QED
    BY <1>2, <1>3 DEF Setups, SameSetup

\* So the sets that depend on it stay.
LEMMA SameTypes ==
    ASSUME SameSetup
    PROVE  /\ Ref' = Ref /\ Orders' = Orders /\ Refs' = Refs
           /\ Records' = Records /\ Metas' = Metas /\ Kernels' = Kernels
           /\ Rounds' = Rounds /\ FreshHealth' = FreshHealth /\ Idle' = Idle
  <1>1. Ref' = Ref /\ Orders' = Orders
    BY DEF SameSetup, Ref, Orders
  <1>2. Refs' = Refs
    BY <1>1 DEF Refs
  <1> QED
    BY <1>1, <1>2 DEF Records, Metas, Kernels, Rounds, FreshHealth, Empty, Idle

\* What the manager believes of the selector depends on these only.
LEMMA SameAgrees ==
    ASSUME SameSetup, UNCHANGED <<order, current>>, kernel'.now = kernel.now
    PROVE  Agrees' = Agrees
  <1>1. Members(order)' = Members(order)
    BY DEF SameSetup, Members, LanesOf, Ref
  <1> QED
    BY <1>1 DEF Agrees, SameSetup, Ref

\* A step that leaves the round, the health and the record alone.
LEMMA Aside ==
    ASSUME IInv, TypeOK', SameSetup, UNCHANGED <<order, health, current, round>>,
           sure' => sure /\ kernel'.now = kernel.now
    PROVE  IInv'
  <1>1. StillAgrees'
    BY SameAgrees DEF IInv, StillAgrees
  <1>2. OnRecord' /\ TargetKnown'
    BY DEF IInv, OnRecord, TargetKnown, LanesOf
  <1>3. Upwards'
    BY DEF IInv, Upwards, Up, Above, IndexOf
  <1>4. LastResort'
    BY DEF IInv, LastResort, AllDown, LanesOf
  <1> QED
    BY <1>1, <1>2, <1>3, <1>4 DEF IInv

\* A step into a part of the round in which no switch is under way.
LEMMA Undecided ==
    ASSUME TypeOK', OnRecord', StillAgrees', round'.pc \notin {"put", "readback"}
    PROVE  IInv'
  BY DEF IInv, TargetKnown, Upwards, LastResort

-----------------------------------------------------------------------------
(* The beginning, and what goes on around the manager.                     *)

LEMMA FreshTypes ==
    /\ FreshHealth \in [Lanes -> Outcomes]
    /\ [l \in Lanes |-> 0] \in [Lanes -> 0..Threshold]
    /\ [l \in Lanes |-> -1] \in [Lanes -> -1..Hold]
    /\ Idle \in Rounds
  BY FailoverAssumption DEF FreshHealth, Outcomes, Idle, Rounds

LEMMA InitIInv == Init => IInv
  <1> SUFFICES ASSUME Init PROVE IInv
    OBVIOUS
  <1>1. group \in Setups /\ group.first \subseteq Orders
    BY FailoverAssumption DEF Init, Orders
  <1>2. PICK o \in group.first :
            /\ meta = [version |-> 1, order |-> o]
            /\ kernel = [order |-> o, now |-> Default(o), up |-> TRUE]
            /\ order = o
            /\ disk \in Found(o)
    BY DEF Init
  <1>3. o \in Orders /\ LanesOf(o) \subseteq Lanes
    BY <1>1, OrderFacts
  <1>4. meta \in Metas /\ kernel \in Kernels
    BY <1>1, <1>2, <1>3, DefaultType DEF Metas, Kernels
  <1>5. disk \in Records \cup {Nothing}
    BY <1>2 DEF Found
  <1>6. TypeOK
    BY <1>1, <1>2, <1>3, <1>4, <1>5, FreshTypes DEF Init, TypeOK
  <1> QED
    BY <1>6 DEF Init, IInv, OnRecord, StillAgrees, TargetKnown, Upwards, LastResort, Idle

LEMMA RefreshStep == IInv /\ Refresh => IInv'
  <1> SUFFICES ASSUME IInv, Refresh PROVE IInv'
    OBVIOUS
  <1>1. group' \in Setups /\ SameSetup
    BY Using DEF Refresh, Counted, IInv, TypeOK
  <1>2. TypeOK'
    BY <1>1, SameTypes DEF Refresh, state, IInv, TypeOK
  <1> QED
    BY <1>1, <1>2, Aside DEF Refresh, state

LEMMA DeployStep == ASSUME IInv, NEW o \in Orders, Deploy(o) PROVE IInv'
  <1>1. group' \in Setups /\ SameSetup
    BY Using DEF Deploy, Counted, IInv, TypeOK
  <1>2. meta' \in Metas
    BY DEF Deploy, Metas, IInv, TypeOK
  <1>3. TypeOK'
    BY <1>1, <1>2, SameTypes DEF Deploy, state, IInv, TypeOK
  <1> QED
    BY <1>1, <1>3, Aside DEF Deploy, state

LEMMA KernelStartsStep == IInv /\ KernelStarts => IInv'
  <1> SUFFICES ASSUME IInv, KernelStarts PROVE IInv'
    OBVIOUS
  <1>1. SameSetup /\ group \in Setups
    BY DEF KernelStarts, SameSetup, IInv, TypeOK
  <1>2. meta.order \in Orders
    BY DEF IInv, TypeOK, Metas
  <1>3. kernel' \in Kernels
    BY <1>1, <1>2, OrderFacts, DefaultType DEF KernelStarts, Kernels
  <1>4. TypeOK'
    BY <1>1, <1>3, SameTypes DEF KernelStarts, state, IInv, TypeOK
  <1> QED
    BY <1>1, <1>4, Aside DEF KernelStarts, state

LEMMA KernelDiesStep == IInv /\ KernelDies => IInv'
  <1> SUFFICES ASSUME IInv, KernelDies PROVE IInv'
    OBVIOUS
  <1>1. group' \in Setups /\ SameSetup
    BY Using DEF KernelDies, Counted, IInv, TypeOK
  <1>2. kernel' \in Kernels /\ kernel'.now = kernel.now
    BY DEF KernelDies, Kernels, IInv, TypeOK
  <1>3. TypeOK'
    BY <1>1, <1>2, SameTypes DEF KernelDies, state, IInv, TypeOK
  <1> QED
    BY <1>1, <1>2, <1>3, Aside DEF KernelDies, state

LEMMA FlipStep == ASSUME IInv, NEW ref \in Refs, Flip(ref) PROVE IInv'
  <1>1. group' \in Setups /\ SameSetup
    BY Using DEF Flip, Counted, IInv, TypeOK
  <1>2. works' \subseteq Refs
    BY DEF Flip, IInv, TypeOK
  <1>3. TypeOK'
    BY <1>1, <1>2, SameTypes DEF Flip, state, IInv, TypeOK
  <1> QED
    BY <1>1, <1>3, Aside DEF Flip, state

LEMMA SelectStep == ASSUME IInv, NEW ref \in Refs \cup {Reject}, Select(ref) PROVE IInv'
  <1>1. group' \in Setups /\ SameSetup
    BY Using DEF Select, Counted, IInv, TypeOK
  <1>2. kernel' \in Kernels
    BY DEF Select, Kernels, IInv, TypeOK
  <1>3. TypeOK'
    BY <1>1, <1>2, SameTypes DEF Select, state, IInv, TypeOK
  <1> QED
    BY <1>1, <1>3, Aside DEF Select, state

-----------------------------------------------------------------------------
(* The map and the probes.                                                 *)

\* What is remembered of the group, in memory or on the disk.
LEMMA Remembered ==
    ASSUME TypeOK, OnRecord, NEW o \in Orders
    PROVE  /\ HintLane(o) \in LanesOf(o) \cup {NoLane}
           /\ Reordered(o) \in Reorders \cup {Nothing}
  <1>1. HintLane(o) \in LanesOf(o) \cup {NoLane}
    BY DEF HintLane
  <1>2. disk # Nothing => disk["reorder"] \in Reorders \cup {Nothing}
    BY DEF TypeOK, Records
  <1>3. Saved("reorder") \in Reorders \cup {Nothing}
    BY <1>2 DEF Saved
  <1>4. Carried \in Reorders \cup {Nothing}
    BY <1>3 DEF Carried, TypeOK
  <1>5. /\ [reason |-> "priority-changed", evaluated |-> FALSE] \in Reorders
        /\ [reason |-> "order-unknown", evaluated |-> FALSE] \in Reorders
    BY DEF Reorders
  <1> QED
    BY <1>1, <1>4, <1>5 DEF Reordered

LEMMA LoadMapStep ==
    ASSUME IInv, LoadMap, UNCHANGED <<works, meta, kernel, group>>, round' \in Rounds
    PROVE  TypeOK' /\ OnRecord' /\ StillAgrees'
  <1>1. group \in Setups /\ SameSetup
    BY DEF IInv, TypeOK, SameSetup
  <1>2. meta.order \in Orders /\ meta.version \in Nat
    BY DEF IInv, TypeOK, Metas
  <1>3. LanesOf(meta.order) \subseteq Lanes
    BY <1>1, <1>2, OrderFacts
  <1>4. current' \in LanesOf(meta.order) \cup {NoLane} /\ reorder' \in Reorders \cup {Nothing}
    BY <1>2, Remembered DEF LoadMap, IInv
  <1>5. disk' \in Records
    BY <1>2, <1>3, <1>4 DEF LoadMap, Records
  <1>6. sure' \in BOOLEAN /\ asked' \in BOOLEAN
    BY DEF LoadMap, OrderChanged, IInv, TypeOK
  <1>7. TypeOK'
    BY <1>1, <1>2, <1>3, <1>4, <1>5, <1>6, SameTypes, FreshTypes DEF LoadMap, IInv, TypeOK
  <1>8. OnRecord'
    BY <1>4 DEF LoadMap, OnRecord, LanesOf
  <1> QED
    BY <1>7, <1>8 DEF LoadMap, StillAgrees

LEMMA ForgetStep ==
    ASSUME IInv, Forget, UNCHANGED <<works, meta, kernel, disk, asked>>,
           SameSetup, group' \in Setups, round' \in Rounds
    PROVE  TypeOK' /\ OnRecord' /\ StillAgrees'
  <1>1. TypeOK'
    BY SameTypes, FreshTypes DEF Forget, IInv, TypeOK
  <1> QED
    BY <1>1 DEF Forget, OnRecord, StillAgrees

LEMMA TickStep == IInv /\ Tick => IInv'
  <1> SUFFICES ASSUME IInv, Tick PROVE IInv'
    OBVIOUS
  <1>1. CASE /\ IF version # meta.version THEN LoadMap
                ELSE UNCHANGED <<disk, version, known, state, sure, asked>>
             /\ round' = [Idle EXCEPT !.pc = "look"]
             /\ UNCHANGED group
    <2>1. SameSetup /\ UNCHANGED <<works, meta, kernel>>
      BY <1>1 DEF Tick, SameSetup
    <2>2. round' \in Rounds /\ round'.pc = "look"
      BY <1>1, FreshTypes DEF Idle, Rounds
    <2>3. CASE version # meta.version
      BY <1>1, <2>1, <2>2, <2>3, LoadMapStep, Undecided
    <2>4. CASE version = meta.version
      <3>1. UNCHANGED <<disk, version, known, order, health, fail, upFor, current,
                        reorder, sure, asked>>
        BY <1>1, <2>4 DEF state
      <3>2. TypeOK'
        BY <1>1, <2>1, <2>2, <3>1, SameTypes DEF IInv, TypeOK
      <3>3. OnRecord' /\ StillAgrees'
        BY <2>1, <2>2, <3>1, SameAgrees DEF Tick, IInv, OnRecord, StillAgrees, LanesOf
      <3> QED
        BY <2>2, <3>2, <3>3, Undecided
    <2> QED
      BY <2>3, <2>4
  <1>2. CASE /\ May("faults") /\ Use("faults")
             /\ Forget
             /\ UNCHANGED <<disk, round, asked>>
    <2>1. group' \in Setups /\ SameSetup
      BY <1>2, Using DEF Counted, IInv, TypeOK
    <2>2. round' \in Rounds /\ round'.pc = "idle"
      BY <1>2, <2>1, SameTypes DEF Tick, IInv, TypeOK
    <2> QED
      BY <1>2, <2>1, <2>2, ForgetStep, Undecided, SameTypes DEF Tick, IInv, TypeOK
  <1> QED
    BY <1>1, <1>2 DEF Tick

LEMMA RestartStep == IInv /\ Restart => IInv'
  <1> SUFFICES ASSUME IInv, Restart PROVE IInv'
    OBVIOUS
  <1>1. group' \in Setups /\ SameSetup
    BY Using DEF Restart, Counted, IInv, TypeOK
  <1>2. round' \in Rounds /\ round'.pc = "idle"
    BY FreshTypes DEF Restart, Idle
  <1> QED
    BY <1>1, <1>2, ForgetStep, Undecided DEF Restart

\* A part of the round that only looks.
LEMMA Looking ==
    ASSUME IInv, SameSetup, group' \in Setups, round' \in Rounds, asked' \in BOOLEAN,
           round.pc # "readback", round'.pc \notin {"put", "readback"},
           health' \in [Lanes -> Outcomes],
           UNCHANGED <<works, meta, kernel, disk, version, known, order, fail, upFor,
                       current, reorder, sure>>
    PROVE  IInv'
  <1>1. TypeOK'
    BY SameTypes DEF IInv, TypeOK
  <1>2. OnRecord' /\ StillAgrees'
    BY SameAgrees DEF IInv, OnRecord, StillAgrees, LanesOf
  <1> QED
    BY <1>1, <1>2, Undecided

LEMMA LookStep == IInv /\ Look => IInv'
  <1> SUFFICES ASSUME IInv, Look PROVE IInv'
    OBVIOUS
  <1>1. SameSetup /\ group' \in Setups /\ asked' \in BOOLEAN /\ health' \in [Lanes -> Outcomes]
    BY DEF Look, state, SameSetup, IInv, TypeOK
  <1>2. round' \in Rounds /\ round'.pc \in {"probe", "idle"}
    BY FreshTypes DEF Look, Idle, Rounds, IInv, TypeOK
  <1> QED
    BY <1>1, <1>2, Looking DEF Look, state

LEMMA ProbeStep == IInv /\ Probe => IInv'
  <1> SUFFICES ASSUME IInv, Probe PROVE IInv'
    OBVIOUS
  <1>1. PICK seen \in [Lanes -> Outcomes] :
            /\ round' = [round EXCEPT !.pc = "assess", !.seen = seen]
            /\ \/ UNCHANGED <<group, asked>>
               \/ /\ May("faults") /\ Use("faults")
                  /\ asked' \in BOOLEAN
    BY DEF Probe, IInv, TypeOK
  <1>2. SameSetup /\ group' \in Setups /\ asked' \in BOOLEAN
    BY <1>1, Using DEF SameSetup, Counted, IInv, TypeOK
  <1>3. round' \in Rounds /\ round'.pc = "assess"
    BY <1>1 DEF Rounds, IInv, TypeOK
  <1>4. health' \in [Lanes -> Outcomes]
    BY DEF Probe, state, IInv, TypeOK
  <1> QED
    BY <1>2, <1>3, <1>4, Looking DEF Probe, state

LEMMA AssessStep == IInv /\ Assess => IInv'
  <1> SUFFICES ASSUME IInv, Assess PROVE IInv'
    OBVIOUS
  <1>1. SameSetup /\ group' \in Setups /\ asked' \in BOOLEAN
    BY DEF Assess, SameSetup, IInv, TypeOK
  <1>2. round' \in Rounds /\ round'.pc \in {"idle", "decide"}
    BY FreshTypes DEF Assess, Skip, Idle, Rounds, IInv, TypeOK
  <1>3. health' \in [Lanes -> Outcomes]
    <2>1. round.seen \in [Lanes -> Outcomes] /\ health \in [Lanes -> Outcomes]
      BY DEF Rounds, IInv, TypeOK
    <2> QED
      BY <2>1 DEF Assess
  <1> QED
    BY <1>1, <1>2, <1>3, Looking DEF Assess

-----------------------------------------------------------------------------
(* The operators of the decision.                                          *)

\* Where a lane of the order stands.
LEMMA Indexed ==
    ASSUME TypeOK, NEW l \in LanesOf(order)
    PROVE  IndexOf(l) \in 1..Len(order) /\ order[IndexOf(l)] = l
  <1>1. \E i \in 1..Len(order) : order[i] = l
    BY DEF LanesOf
  <1> QED
    BY <1>1 DEF IndexOf

\* The first lane that passes, one excepted: no other one passes before it.
LEMMA FirstUpFacts ==
    ASSUME TypeOK, NEW except
    PROVE  /\ FirstUp(except) = NoLane =>
                  \A l \in LanesOf(order) : Up(l) => l = except
           /\ FirstUp(except) # NoLane =>
                  /\ FirstUp(except) \in LanesOf(order) /\ Up(FirstUp(except))
                  /\ FirstUp(except) # except
                  /\ \A l \in LanesOf(order) : Up(l) /\ l # except =>
                         \E i \in 1..IndexOf(l) : order[i] = FirstUp(except)
  <1> DEFINE ups == {i \in 1..Len(order) : Up(order[i]) /\ order[i] # except}
  <1>1. FirstUp(except) = IF ups = {} THEN NoLane ELSE order[First(ups)]
    BY DEF FirstUp, First
  <1>2. Len(order) \in Nat /\ \A i \in 1..Len(order) : order[i] \in LanesOf(order) /\ order[i] \in Lanes
    BY OrderFacts DEF TypeOK, LanesOf
  <1>3. NoLane \notin Lanes
    BY FailoverAssumption
  <1>4. CASE ups = {}
    <2>1. FirstUp(except) = NoLane
      BY <1>1, <1>4
    <2>2. \A l \in LanesOf(order) : Up(l) => l = except
      BY <1>4 DEF LanesOf
    <2> QED
      BY <2>1, <2>2
  <1>5. CASE ups # {}
    <2>1. First(ups) \in ups /\ \A j \in ups : First(ups) <= j
      BY <1>2, <1>5, FirstIsLeast
    <2>2. FirstUp(except) = order[First(ups)]
      BY <1>1, <1>5
    <2>3. ASSUME NEW l \in LanesOf(order), Up(l), l # except
          PROVE  \E i \in 1..IndexOf(l) : order[i] = FirstUp(except)
      <3>1. IndexOf(l) \in ups
        BY <2>3, Indexed
      <3>2. First(ups) \in 1..IndexOf(l)
        BY <2>1, <3>1
      <3> QED
        BY <2>2, <3>2
    <2>4. FirstUp(except) # NoLane
      BY <1>2, <1>3, <2>1, <2>2
    <2> QED
      BY <1>2, <2>1, <2>2, <2>3, <2>4
  <1> QED
    BY <1>4, <1>5

\* A lane that passes before another one that does is above it.
LEMMA Higher ==
    ASSUME TypeOK, NEW l \in LanesOf(order), NEW t, t # l,
           \E i \in 1..IndexOf(l) : order[i] = t
    PROVE  t \in Above(l)
  <1>1. PICK i \in 1..IndexOf(l) : order[i] = t
    OBVIOUS
  <1>2. IndexOf(l) \in Nat /\ order[IndexOf(l)] = l
    BY Indexed, OrderFacts DEF TypeOK
  <1>3. i \in 1..(IndexOf(l) - 1)
    BY <1>1, <1>2
  <1> QED
    BY <1>1, <1>3 DEF Above

\* The lane the selector is on, or none.
LEMMA LaneForNowFacts ==
    ASSUME TypeOK, OnRecord, NEW now \in Refs \cup {Reject}
    PROVE  /\ LaneForNow(now) \in LanesOf(order) \cup {NoLane}
           /\ LaneForNow(now) = NoLane => now \notin Members(order)
           /\ LaneForNow(now) # NoLane => Ref[LaneForNow(now)] = now
  <1> DEFINE with == {i \in 1..Len(order) : Ref[order[i]] = now}
  <1>1. LaneForNow(now) = IF now = Reject THEN NoLane
                          ELSE IF current # NoLane /\ Ref[current] = now THEN current
                          ELSE IF with = {} THEN NoLane
                          ELSE order[First(with)]
    BY DEF LaneForNow, First
  <1>2. /\ Len(order) \in Nat /\ Reject \notin Members(order)
        /\ \A i \in 1..Len(order) : order[i] \in LanesOf(order) /\ order[i] # NoLane
    BY OrderFacts, FailoverAssumption DEF TypeOK, LanesOf
  <1>3. with = {} => now \notin Members(order)
    BY DEF Members, LanesOf
  <1>4. with # {} => First(with) \in with
    BY <1>2, FirstIsLeast
  <1> QED
    BY <1>1, <1>2, <1>3, <1>4 DEF OnRecord

\* A pending reordering asks for the first lane that passes.
LEMMA ReorderFacts ==
    ASSUME TypeOK, NEW cur \in LanesOf(order) \cup {NoLane}, NEW up, ReorderTarget(cur, up)
    PROVE  /\ Preferred \in LanesOf(order) /\ reorder \in Reorders
           /\ cur # NoLane /\ Up(cur) => Preferred \in Above(cur)
  <1>1. cur # NoLane /\ reorder # Nothing /\ Preferred # NoLane /\ Preferred # cur
    BY DEF ReorderTarget
  <1>2. Preferred \in LanesOf(order)
    BY <1>1, FirstUpFacts DEF Preferred
  <1>3. ASSUME Up(cur) PROVE Preferred \in Above(cur)
    <2>1. \E i \in 1..IndexOf(cur) : order[i] = Preferred
      BY <1>1, <1>3, FirstUpFacts DEF Preferred
    <2> QED
      BY <1>1, <2>1, Higher
  <1> QED
    BY <1>1, <1>2, <1>3 DEF TypeOK

\* Without one: up to the primary, to another lane that passes when this one has
\* failed often enough, or to the last member when all have failed.
LEMMA OrdinaryFacts ==
    ASSUME TypeOK, NEW cur \in LanesOf(order) \cup {NoLane}, NEW up, NEW now
    PROVE  /\ Ordinary(cur, up, now) \in LanesOf(order) \cup {NoLane, Reject}
           /\ Ordinary(cur, up, now) = Reject => AllDown /\ now # Reject
           /\ cur # NoLane /\ Up(cur) => Ordinary(cur, up, now) \in Above(cur) \cup {NoLane}
  <1>1. /\ LanesOf(order) \subseteq Lanes /\ order[1] \in LanesOf(order)
        /\ \A l \in LanesOf(order) : health[l] \in Outcomes
    BY OrderFacts DEF TypeOK
  <1>2. NoLane \notin Lanes /\ Reject \notin Lanes /\ NoLane # Reject
    BY FailoverAssumption
  <1>3. CASE cur # NoLane /\ Up(cur)
    <2>1. ASSUME order[1] # cur PROVE order[1] \in Above(cur)
      <3>1. 1 \in 1..IndexOf(cur)
        BY <1>3, Indexed
      <3> QED
        BY <1>3, <2>1, <3>1, Higher
    <2>2. Ordinary(cur, up, now) =
            IF RestorePrimary /\ cur # order[1] /\ Up(order[1]) /\ up[order[1]] >= Hold
            THEN order[1] ELSE NoLane
      BY <1>3, Zenon DEF Ordinary
    <2>3. CASE cur # order[1] /\ Ordinary(cur, up, now) = order[1]
      BY <1>1, <1>2, <2>1, <2>3
    <2>4. CASE Ordinary(cur, up, now) = NoLane
      BY <1>2, <2>4
    <2> QED
      BY <2>2, <2>3, <2>4, Zenon
  <1>4. CASE ~(cur # NoLane /\ Up(cur))
    <2>1. FirstUp(cur) # NoLane => FirstUp(cur) \in LanesOf(order)
      BY FirstUpFacts
    <2>2. Ordinary(cur, up, now) \in {NoLane, FirstUp(cur), Reject}
      BY <1>4 DEF Ordinary
    <2>3. ASSUME Ordinary(cur, up, now) = Reject PROVE AllDown /\ now # Reject
      <3>1. FirstUp(cur) = NoLane /\ ~AnyUnknown /\ now # Reject
        BY <1>1, <1>2, <1>4, <2>1, <2>3 DEF Ordinary
      <3>2. \A l \in LanesOf(order) : ~Up(l)
        BY <1>1, <1>2, <1>4, <3>1, FirstUpFacts
      <3> QED
        BY <1>1, <3>1, <3>2 DEF AllDown, AnyUnknown, Up, Outcomes
    <2> QED
      BY <1>4, <2>1, <2>2, <2>3
  <1> QED
    BY <1>3, <1>4

LEMMA EvaluatedType == \A r \in Reorders : Evaluated(r) \in Reorders
  BY DEF Evaluated, Reorders

LEMMA SettledType ==
    ASSUME NEW r \in Reorders \cup {Nothing}, NEW lane
    PROVE  Settled(r, lane) \in Reorders \cup {Nothing}
  BY EvaluatedType DEF Settled

LEMMA ReconsideredType ==
    ASSUME TypeOK, NEW cur
    PROVE  Reconsidered(cur) \in Reorders \cup {Nothing}
  <1>1. reorder \in Reorders \cup {Nothing}
    BY DEF TypeOK
  <1> QED
    BY <1>1, EvaluatedType, SettledType DEF Reconsidered

LEMMA StreaksType ==
    ASSUME TypeOK, NEW passed \in {0, 1}, Streaks(passed)
    PROVE  fail' \in [Lanes -> 0..Threshold] /\ upFor' \in [Lanes -> -1..Hold]
  <1>1. Threshold \in Nat /\ Threshold >= 1 /\ Hold \in Nat
    BY FailoverAssumption
  <1>2. \A l \in Lanes : fail[l] \in 0..Threshold /\ upFor[l] \in -1..Hold
    BY DEF TypeOK
  <1>3. ASSUME NEW l \in Lanes PROVE UpTo(Threshold, fail[l] + 1) \in 0..Threshold
    <2>1. fail[l] + 1 \in Nat
      BY <1>1, <1>2
    <2> QED
      BY <1>1, <2>1 DEF UpTo
  <1>4. \A l \in Lanes : upFor[l] # -1 => UpTo(Hold, upFor[l] + passed) \in -1..Hold
    BY <1>1, <1>2 DEF UpTo
  <1>5. -1 \in -1..Hold /\ 0 \in -1..Hold /\ 0 \in 0..Threshold
    BY <1>1
  <1>6. fail' \in [Lanes -> 0..Threshold]
    BY <1>2, <1>3, <1>5 DEF Streaks
  <1>7. upFor' \in [Lanes -> -1..Hold]
    BY <1>2, <1>4, <1>5 DEF Streaks
  <1> QED
    BY <1>6, <1>7

\* What is put on the disk.
LEMMA PersistType ==
    ASSUME TypeOK, OnRecord', order' = order, SameSetup,
           reorder' \in Reorders \cup {Nothing}, Persist
    PROVE  disk' \in Records
  <1>1. LanesOf(order)' \subseteq Lanes
    BY OrderFacts DEF TypeOK, LanesOf
  <1> QED
    BY <1>1 DEF OnRecord, Persist, Records, TypeOK

-----------------------------------------------------------------------------
(* The decision, the switch and what is read back.                         *)

\* A step that ends the round.
LEMMA Ending ==
    ASSUME IInv, SameSetup, group' \in Setups, order' = order, health' = health,
           kernel' \in Kernels, Skip, sure' \in BOOLEAN, StillAgrees',
           current' \in LanesOf(order) \cup {NoLane},
           reorder' \in Reorders \cup {Nothing}, disk' = disk \/ Persist,
           fail' \in [Lanes -> 0..Threshold], upFor' \in [Lanes -> -1..Hold],
           UNCHANGED <<works, meta, version, known, asked>>
    PROVE  IInv'
  <1>1. OnRecord'
    BY DEF OnRecord, LanesOf
  <1>2. LanesOf(order) \subseteq Lanes
    BY OrderFacts DEF IInv, TypeOK
  <1>3. disk' \in Records \cup {Nothing}
    BY <1>1, PersistType DEF IInv, TypeOK
  <1>4. round' \in Rounds /\ round'.pc = "idle"
    BY FreshTypes DEF Skip, Idle
  <1>5. TypeOK'
    BY <1>2, <1>3, <1>4, SameTypes DEF IInv, TypeOK
  <1> QED
    BY <1>1, <1>4, <1>5, Undecided

LEMMA DecideStep ==
    ASSUME IInv, NEW passed \in {0, 1}, Decide(passed)
    PROVE  IInv'
  <1>1. SameSetup /\ group' \in Setups /\ kernel' \in Kernels
    BY DEF Decide, SameSetup, IInv, TypeOK
  <1>2. CASE Stale \/ ~kernel.up
    <2>1. Skip /\ UNCHANGED <<disk, fail, upFor, current, reorder, sure>>
      BY <1>2 DEF Decide
    <2>2. StillAgrees'
      BY <1>1, <2>1, SameAgrees DEF Decide, StillAgrees, IInv
    <2> QED
      BY <1>1, <2>1, <2>2, Ending DEF Decide, OnRecord, IInv, TypeOK
  <1>3. CASE ~(Stale \/ ~kernel.up)
    <2> DEFINE now == kernel.now
               cur == LaneForNow(now)
               move == ReorderTarget(cur, upFor')
               target == IF move THEN Preferred ELSE Ordinary(cur, upFor', now)
               after == IF move THEN reorder ELSE Reconsidered(cur)
    <2>1. Streaks(passed) /\ sure' = TRUE
      BY <1>3 DEF Decide
    <2>2. \/ /\ target # NoLane /\ RefOf(target) # now
             /\ round' = [round EXCEPT !.pc = "put", !.parent = now,
                                       !.target = target, !.move = move]
             /\ current' = cur /\ reorder' = after
             /\ UNCHANGED disk
          \/ /\ ~(target # NoLane /\ RefOf(target) # now)
             /\ current' = IF target \in Lanes THEN target ELSE cur
             /\ reorder' = Settled(IF move THEN Evaluated(after) ELSE after, current')
             /\ Persist /\ Skip
      BY <1>3 DEF Decide
    <2>3. UNCHANGED <<works, meta, kernel, version, known, order, health, group, asked>>
      BY DEF Decide
    <2>4. /\ now \in Refs \cup {Reject} /\ TypeOK /\ OnRecord
          /\ LanesOf(order) \subseteq Lanes /\ Reject \notin Members(order)
          /\ group \in Setups /\ order \in Orders
      BY OrderFacts DEF IInv, TypeOK, Kernels
    <2>5. /\ cur \in LanesOf(order) \cup {NoLane}
          /\ cur = NoLane => now \notin Members(order)
          /\ cur # NoLane => Ref[cur] = now
      BY <2>4, LaneForNowFacts
    <2>6. move => /\ Preferred \in LanesOf(order) /\ reorder \in Reorders
                  /\ cur # NoLane /\ Up(cur) => Preferred \in Above(cur)
      BY <2>4, <2>5, ReorderFacts
    <2>7. /\ target \in LanesOf(order) \cup {NoLane, Reject}
          /\ target = Reject => AllDown
          /\ cur # NoLane /\ Up(cur) => target \in Above(cur) \cup {NoLane}
      <3>1. CASE move
        BY <2>4, <2>6, <3>1, FailoverAssumption
      <3>2. CASE ~move
        BY <2>4, <2>5, <3>2, OrdinaryFacts
      <3> QED
        BY <3>1, <3>2
    <2>8. after \in Reorders \cup {Nothing} /\ (move => after \in Reorders)
      BY <2>4, <2>6, ReconsideredType
    <2>9. fail' \in [Lanes -> 0..Threshold] /\ upFor' \in [Lanes -> -1..Hold]
      BY <2>1, <2>4, StreaksType
    <2> HIDE DEF now, cur, move, target, after
    <2>10. CASE /\ target # NoLane /\ RefOf(target) # now
                /\ round' = [round EXCEPT !.pc = "put", !.parent = now,
                                          !.target = target, !.move = move]
                /\ current' = cur /\ reorder' = after
                /\ UNCHANGED disk
      <3>1. move \in BOOLEAN
        BY DEF move, ReorderTarget
      <3>2. /\ round' \in Rounds /\ round'.pc = "put" /\ round'.target = target
        BY <2>4, <2>7, <2>10, <3>1 DEF Rounds, TypeOK
      <3>3. TypeOK'
        BY <1>1, <2>1, <2>3, <2>4, <2>5, <2>8, <2>9, <2>10, <3>2, SameTypes DEF TypeOK
      <3>4. OnRecord' /\ TargetKnown'
        BY <2>3, <2>5, <2>7, <2>10, <3>2 DEF OnRecord, TargetKnown, LanesOf
      <3>5. Members(order)' = Members(order) /\ Ref' = Ref /\ kernel'.now = now
        BY <2>3 DEF Members, LanesOf, Ref, now
      <3>6. StillAgrees'
        BY <2>5, <2>10, <3>5 DEF StillAgrees, Agrees
      <3>7. Upwards'
        BY <2>3, <2>7, <2>10, <3>2 DEF Upwards, Up, Above, IndexOf
      <3>8. LastResort'
        BY <2>3, <2>7, <3>2 DEF LastResort, AllDown, LanesOf
      <3> QED
        BY <3>3, <3>4, <3>6, <3>7, <3>8 DEF IInv
    <2>11. CASE /\ ~(target # NoLane /\ RefOf(target) # now)
                /\ current' = IF target \in Lanes THEN target ELSE cur
                /\ reorder' = Settled(IF move THEN Evaluated(after) ELSE after, current')
                /\ Persist /\ Skip
      <3>1. current' \in LanesOf(order) \cup {NoLane}
        BY <2>5, <2>7, <2>11, FailoverAssumption
      <3>2. reorder' \in Reorders \cup {Nothing}
        BY <2>8, <2>11, EvaluatedType, SettledType
      <3>3. target \in Lanes => Ref[target] = now
        BY <2>11, FailoverAssumption DEF RefOf
      <3>4. IF current' = NoLane THEN now \notin Members(order) ELSE Ref[current'] = now
        BY <2>5, <2>11, <3>3, FailoverAssumption
      <3>5. Members(order)' = Members(order) /\ Ref' = Ref /\ kernel'.now = now
        BY <2>3 DEF Members, LanesOf, Ref, now
      <3>6. StillAgrees'
        BY <3>4, <3>5 DEF StillAgrees, Agrees
      <3> QED
        BY <1>1, <2>1, <2>3, <2>9, <2>11, <3>1, <3>2, <3>6, Ending
    <2> QED
      BY <2>2, <2>10, <2>11
  <1> QED
    BY <1>2, <1>3

\* What failed is not recorded.
LEMMA GiveUpStep ==
    ASSUME IInv, GiveUp, SameSetup, group' \in Setups, kernel' \in Kernels,
           UNCHANGED <<works, meta, version, known, order, health, fail, upFor, asked>>
    PROVE  IInv'
  <1>1. Persist /\ Skip /\ sure' = FALSE /\ current' = current
    BY DEF GiveUp
  <1>2. reorder' \in Reorders \cup {Nothing}
    BY SettledType DEF GiveUp, IInv, TypeOK
  <1>3. StillAgrees'
    BY <1>1 DEF StillAgrees
  <1>4. current' \in LanesOf(order) \cup {NoLane}
    BY <1>1 DEF OnRecord, IInv
  <1>5. fail' \in [Lanes -> 0..Threshold] /\ upFor' \in [Lanes -> -1..Hold]
    BY DEF IInv, TypeOK
  <1> QED
    BY <1>1, <1>2, <1>3, <1>4, <1>5, Ending

LEMMA PutStep == IInv /\ Put => IInv'
  <1> SUFFICES ASSUME IInv, Put PROVE IInv'
    OBVIOUS
  <1> DEFINE ref == RefOf(round.target)
             possible == kernel.up /\ ref \in Members(kernel.order) \cup {Reject}
  <1>1. UNCHANGED <<works, meta, version, known, order, health, fail, upFor, asked>>
    BY DEF Put
  <1>2. May("faults") /\ Use("faults") => group' \in Setups /\ SameSetup
    BY Using DEF Counted, IInv, TypeOK
  <1>3. UNCHANGED group => group' \in Setups /\ SameSetup
    BY DEF SameSetup, IInv, TypeOK
  <1>4. ASSUME possible, kernel' = [kernel EXCEPT !.now = ref]
        PROVE  kernel' \in Kernels
    <2>1. kernel \in Kernels /\ kernel.order \in Orders
      BY DEF Kernels, IInv, TypeOK
    <2>2. ref \in Refs \cup {Reject}
      BY <1>4, <2>1, OrderFacts DEF IInv, TypeOK
    <2> QED
      BY <1>4, <2>1, <2>2 DEF Kernels
  <1>5. CASE GiveUp
    <2>1. group' \in Setups /\ SameSetup
      BY <1>2, <1>3 DEF Put
    <2>2. kernel' \in Kernels
      BY <1>4 DEF Put, IInv, TypeOK
    <2> QED
      BY <1>1, <1>5, <2>1, <2>2, GiveUpStep
  <1>6. CASE /\ possible
             /\ kernel' = [kernel EXCEPT !.now = ref]
             /\ round' = [round EXCEPT !.pc = "readback"]
             /\ UNCHANGED <<disk, current, reorder, sure, group>>
    <2>1. round' \in Rounds /\ round'.pc = "readback" /\ round'.target = round.target
      BY <1>6 DEF Rounds, IInv, TypeOK
    <2>2. TypeOK'
      BY <1>1, <1>3, <1>4, <1>6, <2>1, SameTypes DEF IInv, TypeOK
    <2>3. OnRecord' /\ TargetKnown'
      BY <1>1, <1>6, <2>1 DEF Put, IInv, OnRecord, TargetKnown, LanesOf
    <2> QED
      BY <2>1, <2>2, <2>3 DEF IInv, StillAgrees, Upwards, LastResort
  <1> QED
    BY <1>5, <1>6 DEF Put

LEMMA ReadBackStep == IInv /\ ReadBack => IInv'
  <1> SUFFICES ASSUME IInv, ReadBack PROVE IInv'
    OBVIOUS
  <1>1. UNCHANGED <<works, meta, kernel, version, known, order, health, fail, upFor, asked>>
    BY DEF ReadBack
  <1>2. group' \in Setups /\ SameSetup /\ kernel' \in Kernels
    BY Using DEF ReadBack, SameSetup, Counted, IInv, TypeOK
  <1>3. fail' \in [Lanes -> 0..Threshold] /\ upFor' \in [Lanes -> -1..Hold]
    BY <1>1 DEF IInv, TypeOK
  <1>4. CASE GiveUp
    BY <1>1, <1>2, <1>4, GiveUpStep
  <1>5. CASE Skip /\ sure' = FALSE /\ UNCHANGED <<disk, current, reorder>>
    <2>1. StillAgrees'
      BY <1>5 DEF StillAgrees
    <2> QED
      BY <1>1, <1>2, <1>3, <1>5, <2>1, Ending DEF IInv, OnRecord, TypeOK
  <1>6. CASE /\ kernel.now = RefOf(round.target)
             /\ current' = IF round.target = Reject THEN NoLane ELSE round.target
             /\ reorder' = Settled(IF round.move /\ reorder # Nothing
                                   THEN Evaluated(reorder) ELSE reorder, current')
             /\ Persist /\ Skip
             /\ UNCHANGED sure
    <2>1. /\ round.target \in LanesOf(order) \cup {Reject}
          /\ LanesOf(order) \subseteq Lanes /\ Reject \notin Members(order)
      BY OrderFacts DEF ReadBack, TargetKnown, IInv, TypeOK
    <2>2. current' \in LanesOf(order) \cup {NoLane}
      BY <1>6, <2>1
    <2>3. reorder' \in Reorders \cup {Nothing}
      BY <1>6, EvaluatedType, SettledType DEF IInv, TypeOK
    <2>4. IF current' = NoLane THEN kernel.now \notin Members(order)
          ELSE kernel.now = Ref[current']
      BY <1>6, <2>1, FailoverAssumption DEF RefOf
    <2>5. Members(order)' = Members(order) /\ Ref' = Ref
      BY <1>1, <1>2 DEF Members, LanesOf, Ref, SameSetup
    <2>6. StillAgrees' /\ sure' \in BOOLEAN
      BY <1>1, <1>6, <2>4, <2>5 DEF StillAgrees, Agrees, IInv, TypeOK
    <2> QED
      BY <1>1, <1>2, <1>3, <1>6, <2>2, <2>3, <2>6, Ending
  <1> QED
    BY <1>4, <1>5, <1>6 DEF ReadBack

LEMMA StutterStep == IInv /\ UNCHANGED vars => IInv'
  <1> SUFFICES ASSUME IInv, UNCHANGED vars PROVE IInv'
    OBVIOUS
  <1>1. SameSetup
    BY DEF vars, SameSetup
  <1>2. TypeOK'
    BY <1>1, SameTypes DEF vars, IInv, TypeOK
  <1> QED
    BY <1>1, <1>2, Aside DEF vars

LEMMA Step == IInv /\ [Next]_vars => IInv'
  <1> SUFFICES ASSUME IInv, [Next]_vars PROVE IInv'
    OBVIOUS
  <1>1. CASE UNCHANGED vars
    BY <1>1, StutterStep
  <1>2. CASE Round
    BY <1>2, TickStep, LookStep, ProbeStep, AssessStep, DecideStep, PutStep, ReadBackStep
       DEF Round
  <1>3. CASE Refresh
    BY <1>3, RefreshStep
  <1>4. CASE \E o \in Orders : Deploy(o)
    BY <1>4, DeployStep
  <1>5. CASE KernelStarts \/ KernelDies
    BY <1>5, KernelStartsStep, KernelDiesStep
  <1>6. CASE \E r \in Refs : Flip(r)
    BY <1>6, FlipStep
  <1>7. CASE \E r \in Refs \cup {Reject} : Select(r)
    BY <1>7, SelectStep
  <1>8. CASE Restart
    BY <1>8, RestartStep
  <1> QED
    BY <1>1, <1>2, <1>3, <1>4, <1>5, <1>6, <1>7, <1>8 DEF Next

\* Every reachable state satisfies the inductive invariant.
THEOREM Invariance == Spec => []IInv
  <1> QED
    BY InitIInv, Step, PTL DEF Spec

-----------------------------------------------------------------------------
(* The properties of the runs.                                             *)

\* runRound, switchTo, syncMap: between rounds the lane on record is
\* the one the kernel uses, unless somebody else has selected or a switch went
\* wrong since the manager last read it.
THEOREM RecordIsTrue == Spec => []ManagerAgrees
  <1>1. IInv => ManagerAgrees
    BY DEF IInv, StillAgrees, Agrees, ManagerAgrees, KnowsWhereItIs
  <1> QED
    BY <1>1, Invariance, PTL

\* A switch is the PUT of a round that is obeyed.
LEMMA OnlyPut ==
    ASSUME IInv, [Next]_vars, Switches
    PROVE  Put /\ kernel'.now = RefOf(round.target)
  <1>1. round.pc = "put" /\ round' # round /\ kernel' # kernel
    BY DEF Switches
  <1>2. Put
    <2>1. ~(Tick \/ Look \/ Probe \/ Assess \/ ReadBack)
      BY <1>1 DEF Tick, Look, Probe, Assess, ReadBack
    <2>2. ~\E passed \in {0, 1} : Decide(passed)
      BY <1>1 DEF Decide
    <2>3. ~(Refresh \/ KernelStarts \/ KernelDies \/ Restart)
      BY <1>1 DEF Refresh, KernelStarts, KernelDies, Restart
    <2>4. ~\E o \in Orders : Deploy(o)
      BY <1>1 DEF Deploy
    <2>5. ~\E r \in Refs : Flip(r)
      BY <1>1 DEF Flip
    <2>6. ~\E r \in Refs \cup {Reject} : Select(r)
      BY <1>1 DEF Select
    <2>7. ~UNCHANGED vars
      BY <1>1 DEF vars
    <2> QED
      BY <2>1, <2>2, <2>3, <2>4, <2>5, <2>6, <2>7 DEF Next, Round
  <1>3. kernel' = [kernel EXCEPT !.now = RefOf(round.target)]
    BY <1>1, <1>2 DEF Put
  <1> QED
    BY <1>2, <1>3 DEF Kernels, IInv, TypeOK

\* runRound, laneForNow, settleReorder, switchTo: a lane that passed in this
\* round is left only for one the user ranks higher.
THEOREM OnlyUphill == Spec => NeverDownhill
  <1>1. IInv /\ [Next]_vars =>
           [Switches /\ current # NoLane /\ Up(current) => round.target \in Above(current)]_vars
    BY DEF IInv, Upwards, Switches
  <1> QED
    BY <1>1, Invariance, PTL DEF Spec, NeverDownhill

\* runRound, laneForNow: the last member, which rejects, is selected only when every
\* lane was seen to fail.
THEOREM RejectIsLast == Spec => RejectedWhenAllFailed
  <1>1. IInv /\ [Next]_vars =>
           [Switches /\ kernel'.now = Reject => \A l \in LanesOf(order) : health[l] = "down"]_vars
    <2> SUFFICES ASSUME IInv, [Next]_vars, Switches, kernel'.now = Reject PROVE AllDown
      BY DEF AllDown
    <2>1. RefOf(round.target) = Reject /\ round.pc = "put"
      BY OnlyPut DEF Switches
    <2>2. round.target \in Lanes \cup {Reject}
      BY <2>1, OrderFacts DEF IInv, TypeOK, TargetKnown
    <2>3. round.target = Reject
      BY <2>1, <2>2, OrderFacts DEF RefOf, IInv, TypeOK
    <2> QED
      BY <2>1, <2>3 DEF IInv, LastResort
  <1> QED
    BY <1>1, Invariance, PTL DEF Spec, RejectedWhenAllFailed

=============================================================================
