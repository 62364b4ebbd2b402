---------------------------- MODULE DnsTakeover ----------------------------
(***************************************************************************)
(* Who owns the router's dnsmasq: panel/server/system/dns-takeover.mjs, the *)
(* calls deploy.mjs makes to it, and the two shell functions of             *)
(* openwrt/initd/jbox that do the same job without the panel                *)
(* (jbox_apply_takeover at a start, jbox_cleanup at a stop).                *)
(*                                                                         *)
(* The setting is the upstream list and noresolv of dhcp.@dnsmasq[0], kept  *)
(* by uci: staged changes, the committed file, and what the dnsmasq process *)
(* last read.  The panel keeps two records beside it: a backup of the       *)
(* user's own setting, and a state file with the plan in force.             *)
(*                                                                         *)
(* A list is a set here; the per-domain forward file is there or not; the   *)
(* rebind exceptions of the rewrite rules are left out.  A step is one      *)
(* command or one file, the init script's functions are one step each.      *)
(***************************************************************************)
EXTENDS Naturals

CONSTANTS
    Upstreams,     \* DNS servers a user may configure
    Ours,          \* 127.0.0.1#7853, the kernel's DNS inbound
    NoFile,        \* a file that does not exist; nothing staged
    Budgets        \* what may happen in a behaviour: the plans profiles ask for, the
                   \* noresolv a user may have, and how many deploys, edits, failing
                   \* commands, deaths of the panel, clean reboots and power cuts

Metas == {"none", "domains", "all", "hijack"}
PlanNames == {"none", "domains", "all"}
Noresolv == {"unset", "0", "1"}
Settings == [servers : SUBSET (Upstreams \cup {Ours}), noresolv : Noresolv]
StateFiles == [plan : PlanNames, noresolv : BOOLEAN]
Allowances == [plans : SUBSET Metas, noresolv : SUBSET Noresolv, ops : Nat, edits : Nat,
               faults : Nat, crashes : Nat, reboots : Nat, cuts : Nat]

ASSUME NamesAssumption == Ours \notin Upstreams /\ NoFile \notin Settings \cup StateFiles
ASSUME BudgetsAssumption == Budgets \subseteq Allowances

VARIABLES
    flash,    \* /etc/config/dhcp
    staged,   \* the uncommitted state of the section, or NoFile
    running,  \* what dnsmasq last read: the setting and the forward file
    backup,   \* dnsmasq-backup.txt
    state,    \* dnsmasq-takeover.txt
    source, installed,  \* the forward file in data/ and in the conf-dir
    meta,     \* config.meta.json: the mode, and the plan in dnsmasq mode
    on,       \* the kernel is deployed and starts at boot
    pc, ret,  \* where the operation is, and what follows a restore
    base,     \* readBaseline's result
    left,     \* what may still happen
    user,     \* history: what the user has configured
    edited,   \* history: since the panel last read it
    whole,    \* history: the last deploy and start ran to their end
    hindered, \* history: the last attempt to give dnsmasq back had a command that
              \* failed, or an operation was cut short since
    unread    \* history: the conf-dir was written and dnsmasq not restarted since, the
              \* panel having died or the commit been refused in between

files == <<backup, state, source, installed>>
history == <<user, edited, whole, hindered, unread>>
vars == <<flash, staged, running, backup, state, source, installed, meta, on,
          pc, ret, base, left, user, edited, whole, hindered, unread>>

-----------------------------------------------------------------------------
TakenOver == [servers |-> {Ours}, noresolv |-> "1"]
Unset == [servers |-> {}, noresolv |-> "unset"]

May(what) == left[what] > 0
Use(what) == left' = [left EXCEPT ![what] = @ - 1]

TypeOK ==
    /\ flash \in Settings
    /\ staged \in Settings \cup {NoFile}
    /\ running \in [uci : Settings, forward : BOOLEAN]
    /\ backup \in Settings \cup {NoFile}
    /\ state \in StateFiles \cup {NoFile}
    /\ source \in BOOLEAN /\ installed \in BOOLEAN
    /\ meta \in Metas /\ on \in BOOLEAN
    /\ pc \in {"idle", "read", "backup", "files", "stage", "add", "commit", "restart", "consume",
               "state", "start", "rollback", "restore", "rstage", "radd", "rcommit", "rrestart",
               "rconsume", "boot"}
    /\ ret \in {"idle", "start"}
    /\ base \in Settings
    /\ left \in Allowances
    /\ user \in Settings /\ {edited, whole, hindered, unread} \subseteq BOOLEAN

Init ==
    /\ left \in Budgets
    /\ user \in [servers : SUBSET Upstreams, noresolv : left.noresolv]
    /\ flash = user /\ staged = NoFile
    /\ running = [uci |-> user, forward |-> FALSE]
    /\ backup = NoFile /\ state = NoFile /\ source = FALSE /\ installed = FALSE
    /\ meta = "hijack" /\ on = FALSE
    /\ pc = "idle" /\ ret = "idle" /\ base = user
    /\ edited = FALSE /\ whole = TRUE /\ hindered = FALSE /\ unread = FALSE

\* What `uci get` answers: staged changes on top of the file.
Current == IF staged # NoFile THEN staged ELSE flash

\* isOurs: entries of the takeover are not the user's.
Users(setting) == [setting EXCEPT !.servers = @ \ {Ours}]

\* dnsmasq is restarted; it reads what uci answers, and the conf-dir.
Reload(uci, forward) ==
    running' = [uci |-> uci, forward |-> forward] /\ unread' = FALSE
Untouched == UNCHANGED <<running, unread>>

-----------------------------------------------------------------------------
(* readBaseline: what the user has configured, from the record and the file. *)

OldTakeover ==
    state = NoFile /\ Ours \in Current.servers
        /\ (backup = NoFile \/ Current.servers = {Ours})

BackupNoresolv ==
    IF Ours \in backup.servers /\ backup.servers = {Ours} /\ backup.noresolv = "1"
    THEN "unset" ELSE backup.noresolv

\* Mutant: the list as it is, whatever the plan in force.
BaselineCurrent == Users(Current)

Baseline ==
    IF (state # NoFile /\ state.plan = "all") \/ OldTakeover
    THEN [servers |-> (Current.servers \cup (IF backup = NoFile THEN {} ELSE backup.servers))
                      \ {Ours},
          noresolv |-> IF backup = NoFile THEN "unset" ELSE BackupNoresolv]
    ELSE Users(Current)

-----------------------------------------------------------------------------
(* applyDnsTakeover.                                                       *)

Target == IF meta = "all" THEN TakenOver ELSE base

\* must: the command failed.  applyDnsTakeover leaves what it had staged, and
\* deployConfig's catch rolls back.
Throws(pcs) == May("faults") /\ Use("faults") /\ pc' = pcs

Read ==
    /\ pc = "read"
    /\ base' = Baseline
    /\ pc' = "backup"
    /\ UNCHANGED <<flash, staged, running, files, meta, on, ret, left, history>>

WriteBackup ==
    /\ pc = "backup"
    /\ backup' = base
    /\ edited' = FALSE
    /\ pc' = "files"
    /\ UNCHANGED <<flash, staged, running, state, source, installed, meta, on, ret,
                   base, left, user, whole, hindered, unread>>

\* The forward file; then as little of uci as has to change.
Files ==
    /\ pc = "files"
    /\ source' = (meta = "domains") /\ installed' = (meta = "domains")
    /\ pc' = IF Current # Target THEN "stage"
             ELSE IF installed' # installed THEN "restart" ELSE "consume"
    /\ UNCHANGED <<flash, staged, running, backup, state, meta, on, ret, base, left, history>>

\* writeUci: delete, then add one by one.
Stage ==
    /\ pc = "stage"
    /\ staged' = [Current EXCEPT !.servers = {}]
    /\ pc' = "add"
    /\ UNCHANGED <<flash, running, files, meta, on, ret, base, left, history>>

Add ==
    /\ pc = "add"
    /\ \/ staged' = Target /\ pc' = "commit" /\ UNCHANGED left
       \/ Throws("rollback") /\ UNCHANGED staged
    /\ UNCHANGED <<flash, running, files, meta, on, ret, base, history>>

Commit ==
    /\ pc = "commit"
    /\ \/ /\ flash' = staged /\ staged' = NoFile
          /\ pc' = "restart" /\ UNCHANGED left
       \/ Throws("rollback") /\ UNCHANGED <<flash, staged>>
    /\ UNCHANGED <<running, files, meta, on, ret, base, history>>

RestartDnsmasq ==
    /\ pc = "restart"
    /\ \/ Reload(Current, installed) /\ pc' = "consume" /\ UNCHANGED left
       \/ Throws("rollback") /\ Untouched
    /\ UNCHANGED <<flash, staged, files, meta, on, ret, base, user, edited, whole, hindered>>

\* Plan none is a restore: its backup has done its duty.
Consume ==
    /\ pc = "consume"
    /\ backup' = IF meta = "none" THEN NoFile ELSE backup
    /\ pc' = "state"
    /\ UNCHANGED <<flash, staged, running, state, source, installed, meta, on, ret,
                   base, left, history>>

WriteState ==
    /\ pc = "state"
    /\ state' = [plan |-> meta, noresolv |-> Target.noresolv = "1" /\ meta # "none"]
    /\ pc' = "start"
    /\ UNCHANGED <<flash, staged, running, backup, source, installed, meta, on, ret,
                   base, left, history>>

\* The firewall step, or anything else between the takeover and the restart.
LaterStepFails ==
    /\ pc = "start" /\ Throws("rollback")
    /\ UNCHANGED <<flash, staged, running, files, meta, on, ret, base, history>>

-----------------------------------------------------------------------------
(* The init script.                                                        *)

\* Mutant: deletes what it believes it wrote, as earlier versions did.
CleanedOwnEntries == [servers |-> Current.servers \ {Ours}, noresolv |-> "unset"]

\* jbox_cleanup rebuilds the section from the backup; without one it was
\* never taken over.
Cleaned == IF backup = NoFile THEN flash ELSE backup

\* An edit the backup does not know is undone with the takeover.
Undone(setting) ==
    /\ user' = IF edited THEN Users(setting) ELSE user
    /\ edited' = FALSE

\* `uci changes` after the rebuild; on an empty section there are none.
Changes == staged # NoFile \/ flash # Unset \/ Cleaned # Unset

ReloadIf(changed, uci) == IF changed THEN Reload(uci, FALSE) ELSE Untouched

\* Mutant: the conf-dir is tidied and the section forgotten.
CleanupForgets ==
    /\ installed' = FALSE
    /\ ReloadIf(installed, Current)
    /\ hindered' = FALSE
    /\ UNCHANGED <<flash, staged, backup, left, user, edited>>

Cleanup ==
    /\ installed' = FALSE
    /\ IF backup = NoFile
       THEN /\ ReloadIf(installed, Current)
            /\ hindered' = FALSE
            /\ UNCHANGED <<flash, staged, backup, left, user, edited>>
       ELSE \/ /\ flash' = Cleaned /\ staged' = NoFile
               /\ ReloadIf(installed \/ Changes, Cleaned)
               /\ backup' = NoFile
               /\ Undone(Cleaned)
               /\ hindered' = FALSE
               /\ UNCHANGED left
            \/ /\ Changes /\ May("faults") /\ Use("faults")
               /\ staged' = NoFile /\ unread' = (unread \/ installed)
               /\ hindered' = TRUE
               /\ UNCHANGED <<flash, running, backup, user, edited>>

\* jbox_apply_takeover.  It does not look at what its commit returns.
Take(new) ==
    \/ /\ flash' = new /\ staged' = NoFile
       /\ Reload(flash', installed')
       /\ UNCHANGED left
    \/ /\ May("faults") /\ Use("faults")
       /\ staged' = new
       /\ Reload(new, installed')
       /\ UNCHANGED flash

TakeoverDomains ==
    /\ UNCHANGED backup
    /\ IF state.noresolv # (Current.noresolv = "1")
       THEN Take([Current EXCEPT !.noresolv = IF state.noresolv THEN "1" ELSE "unset"])
       ELSE /\ IF installed' # installed THEN Reload(Current, installed') ELSE Untouched
            /\ UNCHANGED <<flash, staged, left>>

TakeoverAll ==
    IF Current = TakenOver /\ installed' = installed
    THEN UNCHANGED <<flash, staged, backup, left>> /\ Untouched
    ELSE /\ backup' = IF backup = NoFile THEN Current ELSE backup
         /\ Take(TakenOver)

\* Mutant: the state file is not looked at.
ApplyTakeoverAlways ==
    IF meta = "hijack" THEN UNCHANGED <<flash, staged, backup, installed, left>> /\ Untouched
    ELSE installed' = source /\ TakeoverAll

ApplyTakeover ==
    IF \/ meta = "hijack"
       \/ state # NoFile /\ state.plan = "none"
       \/ state = NoFile /\ meta = "none"
    THEN UNCHANGED <<flash, staged, backup, installed, left>> /\ Untouched
    ELSE /\ installed' = source
         /\ IF state # NoFile /\ state.plan = "domains" THEN TakeoverDomains ELSE TakeoverAll

\* The kernel is started after the takeover.
Start ==
    /\ pc \in {"start", "boot"}
    /\ ApplyTakeover
    /\ on' = TRUE
    /\ pc' = "idle"
    /\ whole' = ((pc = "start" \/ whole) /\ staged' = NoFile)
    /\ UNCHANGED <<state, source, meta, ret, base, user, edited, hindered>>

-----------------------------------------------------------------------------
(* restoreDnsTakeover.  A failure reverts what is staged; the backup stays. *)

Revert ==
    /\ staged' = NoFile /\ hindered' = TRUE
    /\ Throws(IF ret = "start" THEN "rollback" ELSE "idle")
    /\ UNCHANGED <<user, edited, whole>>

Restore ==
    /\ pc = "restore"
    /\ state' = NoFile /\ source' = FALSE /\ installed' = FALSE
    /\ pc' = "rstage"
    /\ UNCHANGED <<flash, staged, running, backup, meta, on, ret, base, left, history>>

RestoreStage ==
    /\ pc = "rstage"
    /\ IF backup = NoFile
       THEN staged' = Users(Current) /\ pc' = "rcommit"
       ELSE staged' = Unset /\ pc' = "radd"
    /\ UNCHANGED <<flash, running, files, meta, on, ret, base, left, history>>

RestoreAdd ==
    /\ pc = "radd"
    /\ \/ staged' = Users(backup) /\ pc' = "rcommit" /\ UNCHANGED <<left, history>>
       \/ Revert /\ UNCHANGED unread
    /\ UNCHANGED <<flash, running, files, meta, on, ret, base>>

RestoreCommit ==
    /\ pc = "rcommit"
    /\ \/ /\ flash' = staged /\ staged' = NoFile
          /\ pc' = "rrestart" /\ UNCHANGED <<left, history>>
       \/ Revert /\ UNCHANGED <<flash, unread>>
    /\ UNCHANGED <<running, files, meta, on, ret, base>>

RestoreRestart ==
    /\ pc = "rrestart"
    /\ \/ /\ Reload(flash, installed)
          /\ pc' = "rconsume" /\ UNCHANGED <<staged, left, user, edited, whole, hindered>>
       \/ Revert /\ Untouched
    /\ UNCHANGED <<flash, files, meta, on, ret, base>>

RestoreConsume ==
    /\ pc = "rconsume"
    /\ backup' = NoFile
    /\ IF backup = NoFile THEN UNCHANGED <<user, edited>> ELSE Undone(backup)
    /\ hindered' = FALSE
    /\ pc' = ret /\ ret' = "idle"
    /\ UNCHANGED <<flash, staged, running, state, source, installed, meta, on, base,
                   left, whole, unread>>

-----------------------------------------------------------------------------
(* Operations of the panel, one at a time behind the deploy lock.          *)

\* deployConfig, from the metadata on: a mode that does not use dnsmasq gives
\* it back first.
Deploy(mode) ==
    /\ pc = "idle" /\ May("ops") /\ Use("ops")
    /\ meta' = mode
    /\ IF mode # "hijack" THEN pc' = "read" /\ ret' = "idle"
       ELSE IF backup # NoFile THEN pc' = "restore" /\ ret' = "start"
       ELSE pc' = "start" /\ ret' = "idle"
    /\ whole' = FALSE
    /\ UNCHANGED <<flash, staged, running, files, on, base, user, edited, hindered, unread>>

Stop ==
    /\ pc = "idle" /\ on
    /\ Cleanup
    /\ on' = FALSE
    /\ UNCHANGED <<state, source, meta, pc, ret, base, whole>>

\* rollbackToDirect: the user's, or that of a deploy that failed.
RollbackToDirect ==
    /\ \/ pc = "idle" /\ on
       \/ pc = "rollback"
    /\ Cleanup
    /\ on' = FALSE
    /\ pc' = "restore" /\ ret' = "idle"
    /\ UNCHANGED <<state, source, meta, base, whole>>

-----------------------------------------------------------------------------
(* The panel dies; the router reboots.                                     *)

Crash ==
    /\ pc \notin {"idle", "boot"} /\ May("crashes") /\ Use("crashes")
    /\ pc' = "idle" /\ ret' = "idle"
    /\ unread' = (unread \/ pc = "restart") /\ hindered' = TRUE
    /\ UNCHANGED <<flash, staged, running, files, meta, on, base, user, edited, whole>>

\* Staged changes and the conf-dir are in /tmp.
Boot(uci) ==
    /\ flash' = uci /\ staged' = NoFile /\ installed' = FALSE
    /\ Reload(uci, FALSE)
    /\ pc' = (IF on THEN "boot" ELSE "idle") /\ ret' = "idle"
    /\ UNCHANGED <<state, source, meta, on, base, whole>>

PowerCut ==
    /\ May("cuts") /\ Use("cuts")
    /\ Boot(flash)
    /\ hindered' = (hindered \/ pc # "idle")
    /\ UNCHANGED <<backup, user, edited>>

\* A clean one runs stop, and its cleanup, first.
Reboot ==
    /\ pc = "idle" /\ on /\ May("reboots") /\ Use("reboots")
    /\ Boot(Cleaned)
    /\ backup' = NoFile /\ hindered' = FALSE
    /\ IF backup = NoFile THEN UNCHANGED <<user, edited>> ELSE Undone(Cleaned)

\* The user adds or removes an upstream in LuCI.  Under a full takeover he
\* does not see his own and can only add.
EditedServers(s) ==
    IF s \in Current.servers THEN Current.servers \ {s} ELSE Current.servers \cup {s}

Edit(s) ==
    /\ pc = "idle" /\ May("edits") /\ Use("edits")
    /\ Ours \in Current.servers => s \notin Current.servers
    /\ flash' = [Current EXCEPT !.servers = EditedServers(s)] /\ staged' = NoFile
    /\ Reload(flash', installed)
    /\ user' = [user EXCEPT !.servers = IF Ours \in Current.servers THEN @ \cup {s}
                                        ELSE EditedServers(s)]
    /\ edited' = TRUE
    /\ UNCHANGED <<files, meta, on, pc, ret, base, whole, hindered>>

-----------------------------------------------------------------------------
Next ==
    \/ \E mode \in left.plans : Deploy(mode)
    \/ Stop \/ RollbackToDirect
    \/ Read \/ WriteBackup \/ Files \/ Stage \/ Add \/ Commit \/ RestartDnsmasq
    \/ Consume \/ WriteState \/ LaterStepFails \/ Start
    \/ Restore \/ RestoreStage \/ RestoreAdd \/ RestoreCommit \/ RestoreRestart \/ RestoreConsume
    \/ Crash \/ PowerCut \/ Reboot
    \/ \E s \in Upstreams : Edit(s)

Spec == Init /\ [][Next]_vars

-----------------------------------------------------------------------------
(* Properties.                                                             *)

\* The user's own DNS setting is never lost: at every moment it is either in
\* the committed file or in the backup both ways back are made from
\* (readBaseline, and the order backup, commit, restart, remove).
UserSettingKept == edited \/ flash = user \/ (backup # NoFile /\ Users(backup) = user)

\* With no operation under way and no backup left, dnsmasq is the user's
\* again, in the file and in the process.
GivenBack ==
    pc = "idle" /\ backup = NoFile => flash = user /\ running.uci = user

\* A deployed plan is the plan dnsmasq runs, also after a reboot: everything
\* to the kernel, the listed domains, or nothing (jbox_apply_takeover copies
\* the state file).  The exception is a conf-dir that was changed without the
\* restart of dnsmasq: the next deploy finds everything written already.
PlanInForce ==
    pc = "idle" /\ on /\ whole /\ ~edited /\ ~unread =>
        running = CASE meta = "all" -> [uci |-> TakenOver, forward |-> FALSE]
                    [] meta = "domains" -> [uci |-> user, forward |-> TRUE]
                    [] OTHER -> [uci |-> user, forward |-> FALSE]

\* With the kernel stopped there is no backup, unless the way back met a failing command
\* or an operation was cut short: then it waits for the next stop or deploy.
BackupUsed == pc = "idle" /\ ~on /\ backup # NoFile => hindered

\* And without a backup no domain is forwarded to the stopped kernel, neither by the
\* conf-dir nor by what dnsmasq has read, except what it read before its restart was
\* left out (jbox_cleanup takes the forward file away first and counts on the restore
\* to restart dnsmasq).
StoppedForwardsNothing ==
    pc = "idle" /\ ~on /\ backup = NoFile => ~installed /\ (running.forward => unread)

\* A stop, a rollback or a failed deploy gives dnsmasq back whole: the user's setting in
\* the file and in the process, no forward file, no backup left over.
NothingLeftBehind == TypeOK /\ GivenBack /\ BackupUsed /\ StoppedForwardsNothing
=============================================================================
