-------------------------- MODULE MCSubscriptions --------------------------
(* Small instances of Subscriptions for TLC. *)
EXTENDS Subscriptions

CONSTANTS a, b, c, x, y

Daily == [half |-> 0, days |-> 2]
Weekly == [half |-> 0, days |-> 2]
Few == {Daily}
TwoSubs == <<[id |-> a, src |-> x, plan |-> Daily, on |-> TRUE],
             [id |-> b, src |-> y, plan |-> Daily, on |-> TRUE]>>

Quiet == [creates |-> 0, requests |-> 0, changes |-> 0, failures |-> 0, deaths |-> 0, stops |-> 0]
Requested == [Quiet EXCEPT !.requests = 2, !.changes = 1]
Added == [Quiet EXCEPT !.creates = 1, !.requests = 1]
AddedTorn == [Quiet EXCEPT !.creates = 1, !.deaths = 1]
Crashed == [Quiet EXCEPT !.requests = 1, !.changes = 1, !.deaths = 1]
Refused == [Quiet EXCEPT !.changes = 1, !.failures = 1, !.stops = 1, !.requests = 1]
All == {Requested, Added, AddedTorn, Crashed, Refused}
=============================================================================
