------------------------------ MODULE MCUpdate ------------------------------
(* Small instances of Update for TLC. *)
EXTENDS Update

CONSTANTS w1, w2

\* Release 1 keeps the runtime of 0, release 2 brings one of its own.
Runtimes == [r \in Releases |-> IF r = 2 THEN 2 ELSE 0]

Quiet == [detached |-> 1, byhand |-> 0, cancels |-> 0, faults |-> 0, signals |-> 0,
          kills |-> 0, cuts |-> 0, races |-> 0]

\* Two runs at once and a cancel request; one asked for beside a cancelled one; a run
\* whose commands fail, in the rollback too; one that is interrupted; one that is killed
\* and run again; one beside which the power goes.
Together == [Quiet EXCEPT !.byhand = 1, !.cancels = 1]
Again == [Quiet EXCEPT !.detached = 2, !.cancels = 1]
Failing == [Quiet EXCEPT !.byhand = 1, !.cancels = 1, !.faults = 2]
Signals == [Quiet EXCEPT !.signals = 1, !.faults = 1, !.cancels = 1]
Killed == [Quiet EXCEPT !.detached = 2, !.kills = 1]
PowerGoes == [Quiet EXCEPT !.byhand = 1, !.cuts = 1]
Everyday == {Together, Again, Failing, Signals, Killed, PowerGoes}

\* Two runs that find the lock of one that was killed.
TwoAfterAKill == {[Quiet EXCEPT !.detached = 3, !.kills = 1]}
=============================================================================
