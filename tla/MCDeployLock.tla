---------------------------- MODULE MCDeployLock ----------------------------
(* Small instances of DeployLock for TLC. *)
EXTENDS DeployLock

CONSTANTS panel, cli, t1, t2, t3
=============================================================================
