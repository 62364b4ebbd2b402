---------------------------- MODULE MCRuleLists ----------------------------
(* Small instances of RuleLists for TLC. *)
EXTENDS RuleLists

CONSTANTS d, e, i, own, shipped

Served == {{d, i}, {e}, {i}, {}}
Mixed == {{d, i}, {i}}
Serves == {[l \in Lists |-> IF l = own THEN {d, i} ELSE {i}]}
Ships == [l \in {shipped} |-> {i}]

Quiet == [c \in Counted |-> 0]
Edited == [Quiet EXCEPT !.edits = 2, !.outages = 1]
Changed == [Quiet EXCEPT !.changes = 1, !.outages = 2]
Failing == [Quiet EXCEPT !.failures = 2, !.outages = 1]
Dying == [Quiet EXCEPT !.deaths = 1, !.outages = 1]
DyingNew == [Quiet EXCEPT !.deaths = 1, !.changes = 1]
Late == [Quiet EXCEPT !.edits = 1, !.changes = 1, !.refusals = 1]
All == {Edited, Changed, Failing, Dying, DyingNew, Late}
=============================================================================
