------------------------- MODULE MCTrafficCollector -------------------------
(* Small instances of TrafficCollector for TLC. *)
EXTENDS TrafficCollector

CONSTANTS c1, c2, d1, n1

\* Two connections through a node and one back into dnsmasq.
NodeOf == [c \in Conns |-> IF c = d1 THEN Loop ELSE n1]

Quiet == [bytes |-> 0, restarts |-> 0, deaths |-> 0, faults |-> 0, hours |-> 0, edits |-> 0]

\* A kernel that dies, a panel that dies, a database that refuses; midnight.
Restarted == [Quiet EXCEPT !.bytes = 3, !.restarts = 1]
Replaced == [Quiet EXCEPT !.bytes = 2, !.deaths = 1, !.restarts = 1]
FlashFull == [Quiet EXCEPT !.bytes = 2, !.faults = 1, !.hours = 1]

\* Many days: the panel is off for some of them, or the term is changed.
Weeks == [Quiet EXCEPT !.bytes = 1, !.deaths = 1, !.hours = 6]
Edited == [Quiet EXCEPT !.bytes = 1, !.hours = 4, !.edits = 1]
All == {Restarted, Replaced, FlashFull, Weeks, Edited}
=============================================================================
