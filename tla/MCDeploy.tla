------------------------------ MODULE MCDeploy ------------------------------
(* Small instances of Deploy for TLC. *)
EXTENDS Deploy

None == [lateWatch |-> FALSE, modes |-> DnsModes, deploys |-> 1, stops |-> 0, background |-> 0,
         upgrades |-> 0, faults |-> 0, flags |-> 0, deaths |-> 0, losses |-> 0]

\* Deploys, stops and rollbacks of the panel; and more of them that fail.
Stopped == [None EXCEPT !.deploys = 2, !.stops = 2, !.faults = 1, !.deaths = 1]
Failing == [None EXCEPT !.deploys = 2, !.stops = 1, !.faults = 2, !.flags = 1, !.deaths = 1]
Queue == {Stopped, Failing}

\* update.sh beside a deploy and its late watch; and panel, background task and
\* command line behind one lock while the kernel, the panel or the power dies.
Upgrade == [None EXCEPT !.lateWatch = TRUE, !.upgrades = 1, !.faults = 1, !.flags = 1,
                         !.deaths = 2]
Others == [None EXCEPT !.modes = {"dnsmasq"}, !.background = 1, !.upgrades = 1, !.faults = 1,
                       !.deaths = 1, !.losses = 1]
Shared == {Upgrade, Others}

\* A stop while the late watch of an earlier deploy looks at the kernel.
StopAndWatch == {[None EXCEPT !.lateWatch = TRUE, !.modes = {"hijack"}, !.stops = 1, !.deaths = 1]}
=============================================================================
