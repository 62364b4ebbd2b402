---------------------------- MODULE MCFailover ----------------------------
(* Small instances of Failover for TLC. *)
EXTENDS Failover, TLC

CONSTANTS A, B, C, ra, rb, rc

Quiet == [deploys |-> 1, flips |-> 1, faults |-> 0, restarts |-> 0, selects |-> 0]

\* Three lanes, each with an outbound of its own; the backups change places.
\* Which of the two orders comes first makes no difference but the names.
Own(left) ==
    [ref |-> (A :> ra) @@ (B :> rb) @@ (C :> rc), restorePrimary |-> TRUE, left |-> left,
     orders |-> {<<A, B, C>>, <<A, C, B>>}, first |-> {<<A, B, C>>}]

\* Two lanes on the same node; one is dropped and the primary is another.
Shared(left) ==
    [ref |-> (A :> ra) @@ (B :> rb) @@ (C :> ra), restorePrimary |-> FALSE, left |-> left,
     orders |-> {<<A, B, C>>, <<B, A>>}, first |-> {<<A, B, C>>, <<B, A>>}]

All == {Own([Quiet EXCEPT !.flips = 2, !.faults = 1]),
        Own([Quiet EXCEPT !.flips = 2, !.restarts = 1]),
        Own([Quiet EXCEPT !.faults = 1, !.restarts = 1]),
        Shared([Quiet EXCEPT !.faults = 1]),
        Shared([Quiet EXCEPT !.selects = 1])}
=============================================================================
