--------------------------- MODULE MCDnsTakeover ---------------------------
(* Small instances of DnsTakeover for TLC. *)
EXTENDS DnsTakeover, TLC

CONSTANTS s1, s2

UpstreamSymmetry == Permutations(Upstreams)

None == [plans |-> Metas, noresolv |-> {"unset"}, ops |-> 3, edits |-> 0, faults |-> 0,
         crashes |-> 0, reboots |-> 0, cuts |-> 0]

\* A command fails; the router reboots; the panel dies anywhere and the power goes.
Faults == [None EXCEPT !.ops = 4, !.edits = 1, !.faults = 1]
Reboots == [None EXCEPT !.plans = PlanNames, !.edits = 1, !.reboots = 2]
Crashes == [None EXCEPT !.plans = {"none", "domains"}, !.noresolv = Noresolv, !.crashes = 1, !.cuts = 1]
Everyday == {Faults, Reboots, Crashes}

\* Two deploys, nothing fails.
TwoTakeovers == {[None EXCEPT !.plans = {"all"}, !.noresolv = {"0", "1"}, !.ops = 2]}
=============================================================================
