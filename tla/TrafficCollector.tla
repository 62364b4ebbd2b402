-------------------------- MODULE TrafficCollector --------------------------
(***************************************************************************)
(* system/traffic-collector.mjs: the panel reads the connection table of    *)
(* the kernel, books what was added since the last reading under the day    *)
(* and under the hour, writes the bookings to the database once a minute,   *)
(* and deletes what is older than the user wants to keep.                   *)
(*                                                                         *)
(* One direction and one dimension stand for all: upload and download, and  *)
(* node, host, client and their pairs, are booked alike.  Connections are   *)
(* not counted.  Months to keep are days, all equally long.  A reading that *)
(* fails changes nothing but the time of the next one and is left out.      *)
(* shutdownServer, which would write on the way out, is called by tests     *)
(* only: no signal reaches it, and a panel that ends just ends.             *)
(***************************************************************************)
EXTENDS Naturals, FiniteSets, FiniteSetsExt

CONSTANTS
    Conns,         \* connections; the kernel never uses an id twice
    Node,          \* Node[c]: the last outbound of a connection
    Loop,          \* the outbound back into the router's own dnsmasq
    None,
    HoursPerDay,
    Keeps, DefaultKeep, \* what the user may set as days to keep; what it is at first
    DetailKeep,    \* days whose rows by hour are kept
    Span, Wide,    \* days a prune looks at behind that, and the first one of a process
    MaxPending,    \* rows that are put back when the database refuses them
    Budgets        \* bytes, deaths of the kernel and the panel, writes that fail,
                   \* hours, edits of the days to keep

Counted == {"bytes", "restarts", "deaths", "faults", "hours", "edits"}

ASSUME TrafficAssumption ==
    /\ Keeps \subseteq Nat \ {0} /\ DefaultKeep \in Keeps /\ HoursPerDay \in Nat \ {0}
    /\ {DetailKeep, Span, Wide, MaxPending} \subseteq Nat
    /\ Budgets \subseteq [Counted -> Nat]
    /\ IsFiniteSet(Conns) /\ None \notin Nat
    /\ \A c \in Conns : Node[c] \notin {"total", "hour"}

VARIABLES
    kernel,   \* on, life, uploadTotal, and each connection's state and bytes
    panel,    \* the collector's variables
    store,    \* traffic_daily: rows with their bytes
    clock,    \* hours
    keep,     \* traffic.keepMonths
    left,
    \* History.
    due,      \* for each day, what the kernels added between readings, less what a
              \* death of the panel or the limit took from pending
    floor,    \* no day from here on has been out of the user's term
    unseen,   \* a kernel began anew and had passed the old reading by the next one
    neglected \* a prune failed

vars == <<kernel, panel, store, clock, keep, left, due, floor, unseen, neglected>>

-----------------------------------------------------------------------------
Day(t) == t \div HoursPerDay
Hour(t) == t % HoursPerDay
Back(day, n) == IF day > n THEN day - n ELSE 0
Larger(a, b) == IF a > b THEN a ELSE b

\* Rows are by day, by day and hour (the curve), by day and node, and by day@hour
\* and node (the detail).
Total(d) == [day |-> d, hour |-> None, what |-> "total"]
Curve(d, h) == [day |-> d, hour |-> h, what |-> "hour"]
OfNode(d, n) == [day |-> d, hour |-> None, what |-> n]
Detail(d, h, n) == [day |-> d, hour |-> h, what |-> n]
IsDetail(row) == row.hour # None /\ row.what # "hour"

In(book, row) == IF row \in DOMAIN book THEN book[row] ELSE 0
Plus(a, b) == [row \in DOMAIN a \cup DOMAIN b |-> In(a, row) + In(b, row)]
Empty == [row \in {} |-> 0]
Without(book, rows) == [row \in DOMAIN book \ rows |-> book[row]]

Fresh == [pc |-> "off", snap |-> None, primed |-> FALSE, life |-> 0, last |-> 0, seen |-> Empty,
          pending |-> Empty, prunedOn |-> None, prunedKeep |-> None, wide |-> TRUE, ticked |-> FALSE]

Nodes == {Node[c] : c \in Conns}
May(what) == left[what] > 0
Use(what) == left' = [left EXCEPT ![what] = @ - 1]

TypeOK ==
    /\ kernel.on \in BOOLEAN /\ kernel.life \in Nat /\ kernel.total \in Nat
    /\ kernel.conn \in [Conns -> {"new", "open", "gone"}] /\ kernel.bytes \in [Conns -> Nat]
    /\ panel.pc \in {"off", "idle", "got"} /\ panel.last \in Nat
    /\ \A book \in {store, panel.pending, panel.seen} : \A k \in DOMAIN book : book[k] \in Nat
    /\ DOMAIN panel.seen \subseteq Conns
    /\ \A row \in DOMAIN store \cup DOMAIN panel.pending :
          row.day \in Nat /\ row.what \in {"total", "hour"} \cup (Nodes \ {Loop})
    /\ clock \in Nat /\ keep \in Keeps /\ left \in [Counted -> Nat]
    /\ \A d \in DOMAIN due : due[d] \in Nat

Init ==
    /\ kernel = [on |-> FALSE, life |-> 0, total |-> 0, conn |-> [c \in Conns |-> "new"],
                 bytes |-> [c \in Conns |-> 0]]
    /\ panel = Fresh
    /\ store = Empty
    /\ clock = 0 /\ keep = DefaultKeep
    /\ left \in Budgets
    /\ due = Empty /\ floor = 0 /\ unseen = FALSE /\ neglected = FALSE

-----------------------------------------------------------------------------
(* The kernel and the world.                                               *)

KernelStarts ==
    /\ ~kernel.on
    /\ kernel' = [kernel EXCEPT !.on = TRUE, !.life = @ + 1, !.total = 0]
    /\ UNCHANGED <<panel, store, clock, keep, left, due, floor, unseen, neglected>>

KernelDies ==
    /\ kernel.on /\ May("restarts") /\ Use("restarts")
    /\ kernel' = [kernel EXCEPT !.on = FALSE,
                     !.conn = [c \in Conns |-> IF @[c] = "open" THEN "gone" ELSE @[c]]]
    /\ UNCHANGED <<panel, store, clock, keep, due, floor, unseen, neglected>>

\* A byte goes through a connection, which may be its first.
Pass(c) ==
    /\ kernel.on /\ kernel.conn[c] # "gone" /\ May("bytes") /\ Use("bytes")
    /\ kernel' = [kernel EXCEPT !.conn[c] = "open", !.bytes[c] = @ + 1, !.total = @ + 1]
    /\ UNCHANGED <<panel, store, clock, keep, due, floor, unseen, neglected>>

Close(c) ==
    /\ kernel.conn[c] = "open"
    /\ kernel' = [kernel EXCEPT !.conn[c] = "gone"]
    /\ UNCHANGED <<panel, store, clock, keep, left, due, floor, unseen, neglected>>

\* The flush timer comes around many times an hour.
HourPasses ==
    /\ May("hours") /\ Use("hours")
    /\ panel.pc = "off" \/ panel.ticked
    /\ clock' = clock + 1
    /\ panel' = [panel EXCEPT !.ticked = FALSE]
    /\ floor' = Larger(floor, Back(Day(clock'), keep))
    /\ UNCHANGED <<kernel, store, keep, due, unseen, neglected>>

EditKeep ==
    /\ May("edits") /\ Use("edits")
    /\ keep' \in Keeps \ {keep}
    /\ floor' = Larger(floor, Back(Day(clock), keep'))
    /\ UNCHANGED <<kernel, panel, store, clock, due, unseen, neglected>>

-----------------------------------------------------------------------------
(* poll and applySnapshot.                                                 *)

\* Mutant: the connection to a kernel that is gone is kept for the next one.
PollOneKernel ==
    /\ panel.pc = "idle" /\ kernel.on /\ (panel.primed => panel.life = kernel.life)
    /\ panel' = [panel EXCEPT !.pc = "got",
            !.snap = [life |-> kernel.life, total |-> kernel.total,
                      conn |-> [c \in {c \in Conns : kernel.conn[c] = "open"} |-> kernel.bytes[c]]]]
    /\ UNCHANGED <<kernel, store, clock, keep, left, due, floor, unseen, neglected>>

\* The kernel answers; the body is parsed in a later turn.
Poll ==
    /\ panel.pc = "idle" /\ kernel.on
    /\ panel' = [panel EXCEPT !.pc = "got",
            !.snap = [life |-> kernel.life, total |-> kernel.total,
                      conn |-> [c \in {c \in Conns : kernel.conn[c] = "open"} |-> kernel.bytes[c]]]]
    /\ UNCHANGED <<kernel, store, clock, keep, left, due, floor, unseen, neglected>>

\* A counter that is below its last reading has begun at 0 again.
Added(old, new) == IF new >= old THEN new - old ELSE new

\* What each connection added; a connection first seen added all it has.
Growth == [c \in DOMAIN panel.snap.conn |-> Added(In(panel.seen, c), panel.snap.conn[c])]
SumOf(f, S) == MapThenSumSet(LAMBDA c : f[c], S)
LoopGrowth == SumOf(Growth, {c \in DOMAIN Growth : Node[c] = Loop})

\* The total less the share of the loop, but never negative.
TotalGrowth == Back(Added(panel.last, panel.snap.total), LoopGrowth)
NodeGrowth(n) == SumOf(Growth, {c \in DOMAIN Growth : Node[c] = n})

Rows(book) == {row \in DOMAIN book : book[row] # 0}

\* Mutant: the hour is of the moment, the day of the last flush.
BookedLate ==
    LET d == IF panel.prunedOn = None THEN Day(clock) ELSE panel.prunedOn
        h == Hour(clock)
        real == Nodes \ {Loop}
        all == [row \in {Total(d), Curve(Day(clock), h)} \cup {OfNode(d, n) : n \in real}
                            \cup {Detail(Day(clock), h, n) : n \in real} |->
                   IF row.what \in real THEN NodeGrowth(row.what) ELSE TotalGrowth]
    IN  [row \in Rows(all) |-> all[row]]

\* One growth, booked four times.
Booked ==
    LET d == Day(clock)
        h == Hour(clock)
        real == Nodes \ {Loop}
        all == [row \in {Total(d), Curve(d, h)} \cup {OfNode(d, n) : n \in real}
                            \cup {Detail(d, h, n) : n \in real} |->
                   IF row.what \in real THEN NodeGrowth(row.what) ELSE TotalGrowth]
    IN  [row \in Rows(all) |-> all[row]]

\* History: what the total has really added since the last reading.
Truth ==
    Back(panel.snap.total - (IF panel.snap.life = panel.life THEN panel.last ELSE 0), LoopGrowth)

\* Mutant: the first reading of a process is booked in full.
ApplyUnprimed ==
    /\ panel.pc = "got"
    /\ panel' = [panel EXCEPT !.pc = "idle", !.snap = None, !.primed = TRUE,
                     !.life = panel.snap.life, !.last = panel.snap.total,
                     !.seen = panel.snap.conn, !.pending = Plus(@, Booked)]
    /\ due' = Plus(due, [d \in {Day(clock)} |-> Truth])
    /\ unseen' = (unseen \/ (panel.snap.life # panel.life /\ panel.snap.total >= panel.last))
    /\ UNCHANGED <<kernel, store, clock, keep, left, floor, neglected>>

\* The first reading is only the base line; later ones are booked.
Apply ==
    /\ panel.pc = "got"
    /\ panel' = [panel EXCEPT !.pc = "idle", !.snap = None, !.primed = TRUE,
                     !.life = panel.snap.life, !.last = panel.snap.total,
                     !.seen = panel.snap.conn,
                     !.pending = IF panel.primed THEN Plus(@, Booked) ELSE @]
    /\ due' = IF panel.primed THEN Plus(due, [d \in {Day(clock)} |-> Truth]) ELSE due
    /\ unseen' = (unseen \/ (panel.primed /\ panel.snap.life # panel.life
                                          /\ panel.snap.total >= panel.last))
    /\ UNCHANGED <<kernel, store, clock, keep, left, floor, neglected>>

-----------------------------------------------------------------------------
(* flush, prune, and the life of the process.                              *)

\* Mutant: what could not be written is forgotten.
PutBackNothing == Empty

\* Rows the database refuses are put back, unless they are too many.
PutBack == IF Cardinality(DOMAIN panel.pending) <= MaxPending THEN panel.pending ELSE Empty

\* History: the totals of these rows are gone for good.
Lose(rows) == [d \in DOMAIN due |-> due[d] - In(rows, Total(d))]

\* Older than the user wants to keep.
OutOfTerm(book) == {row \in DOMAIN book : row.day < Back(Day(clock), keep)}

\* Detail of the days just behind its term, the first time of many more.
OldDetail(book) ==
    {row \in DOMAIN book :
        /\ IsDetail(row) /\ row.day + DetailKeep <= Day(clock)
        /\ row.day + DetailKeep + (IF panel.wide THEN Wide ELSE Span) > Day(clock)}

\* prune: noted as done before it is, and what fails is only logged.
Prune(book, p, done) ==
    /\ panel' = [p EXCEPT !.prunedOn = Day(clock), !.prunedKeep = keep, !.wide = FALSE]
    /\ IF done THEN store' = Without(book, OutOfTerm(book) \cup OldDetail(book))
       ELSE store' \in {book, Without(book, OutOfTerm(book))}
    /\ neglected' = (neglected \/ ~done)

\* The timer: flush in one transaction, then prune if the day or the term is new.
Tick ==
    /\ panel.pc # "off"
    /\ UNCHANGED <<kernel, clock, keep, floor, unseen>>
    /\ \E written, done \in BOOLEAN :
          LET faults == Cardinality({i \in {1} : ~written}) + Cardinality({i \in {1} : ~done})
              book == IF written THEN Plus(store, panel.pending) ELSE store
              p == [panel EXCEPT !.ticked = TRUE, !.pending = IF written THEN Empty ELSE PutBack]
              dueNow == panel.prunedOn # Day(clock) \/ panel.prunedKeep # keep
          IN  /\ faults <= left.faults /\ left' = [left EXCEPT !.faults = @ - faults]
              /\ ~written => panel.pending # Empty
              /\ ~done => dueNow
              /\ due' = IF written \/ Cardinality(DOMAIN panel.pending) <= MaxPending THEN due
                        ELSE Lose(panel.pending)
              /\ IF dueNow THEN Prune(book, p, done)
                 ELSE panel' = p /\ store' = book /\ UNCHANGED neglected

PanelStarts ==
    /\ panel.pc = "off"
    /\ \E done \in BOOLEAN :
          /\ IF done THEN UNCHANGED left ELSE May("faults") /\ Use("faults")
          /\ Prune(store, [Fresh EXCEPT !.pc = "idle"], done)
    /\ UNCHANGED <<kernel, clock, keep, due, floor, unseen>>

\* A crash, an update or a reboot: nothing is written on the way out.
PanelDies ==
    /\ panel.pc # "off" /\ May("deaths") /\ Use("deaths")
    /\ panel' = Fresh
    /\ due' = Lose(panel.pending)
    /\ UNCHANGED <<kernel, store, clock, keep, floor, unseen, neglected>>

Next ==
    \/ KernelStarts \/ KernelDies \/ \E c \in Conns : Pass(c) \/ Close(c)
    \/ HourPasses \/ EditKeep
    \/ Poll \/ Apply \/ Tick \/ PanelStarts \/ PanelDies

\* The poll reschedules itself whatever came of it, the flush has an interval of
\* its own, and procd starts a panel that ended, which is when nothing is polled.
Fairness == WF_vars(Poll \/ Apply \/ PanelStarts) /\ WF_vars(Tick)

Spec == Init /\ [][Next]_vars
FairSpec == Spec /\ Fairness

-----------------------------------------------------------------------------
(* Properties.                                                             *)

Held(row) == In(store, row) + In(panel.pending, row)
Days == 0 .. Day(clock)
Hours == 0 .. HoursPerDay - 1
InTerm == {d \in Days : d >= floor}
SumBytes(S) == SumOf(kernel.bytes, S)

\* No byte is counted twice, in the total or for a node, whatever is restarted:
\* not what an earlier process has counted, not what an earlier kernel passed.
NothingTwice ==
    /\ SumOf([d \in Days |-> Held(Total(d))], Days) <= SumBytes(Conns)
    /\ \A n \in Nodes \ {Loop} :
          SumOf([d \in Days |-> Held(OfNode(d, n))], Days) <= SumBytes({c \in Conns : Node[c] = n})

\* Every day the user wants to keep holds exactly what was read on it, restarts of
\* the kernel included: only a death of the panel, or too many rows refused by the
\* database, take something away, and no prune does.
Exact == unseen \/ \A d \in InTerm : Held(Total(d)) = In(due, d)

\* What the nodes add up to is never more than the total: the difference is the
\* connections nobody saw (traffic-collector.mjs:14-15).
PartsWithinTotal ==
    unseen \/ \A d \in InTerm :
        SumOf([n \in Nodes |-> Held(OfNode(d, n))], Nodes \ {Loop}) <= Held(Total(d))

\* The curve of a day adds up to its total, and so does the detail of a node as long
\* as it is kept, in the database alone too: one never has what the other lacks.
HoursAgree ==
    \A d \in InTerm : \A book \in {store, panel.pending} :
        /\ SumOf([h \in Hours |-> In(book, Curve(d, h))], Hours) = In(book, Total(d))
        /\ d + DetailKeep > Day(clock) => \A n \in Nodes \ {Loop} :
              SumOf([h \in Hours |-> In(book, Detail(d, h, n))], Hours) = In(book, OfNode(d, n))

\* Detail by hour is kept a few days only, also when the panel was off in between or
\* the rows of a day were written late.
DetailTerm ==
    panel.pc # "off" /\ panel.prunedOn = Day(clock) /\ ~neglected =>
        \A row \in DOMAIN store : IsDetail(row) => row.day + DetailKeep + Span > Day(clock) + 1

\* The accounts agree with each other: the parts with the total, the hours with the day.
AccountsAgree == TypeOK /\ PartsWithinTotal /\ HoursAgree

\* In the end what the kernel has counted is in the database.
Settles ==
    <>[](panel.pc # "off" /\ panel.pending = Empty
            /\ (kernel.on => panel.primed /\ panel.last = kernel.total))

\* The database is kept up: what has outlived its term goes, what was counted comes.
KeptUp == []DetailTerm /\ Settles
=============================================================================
