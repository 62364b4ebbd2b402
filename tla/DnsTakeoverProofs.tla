------------------------- MODULE DnsTakeoverProofs -------------------------
(***************************************************************************)
(* Proofs about DnsTakeover, for any upstreams and any number of deploys,   *)
(* stops and rollbacks.  What else may happen decides what holds, so there  *)
(* are three kinds of behaviours, told apart by the budget they begin with: *)
(*   Calm    every plan, edits and reboots, no command fails, nobody dies;  *)
(*   Bumpy   every plan and reboots, any command fails any number of times; *)
(*   Modest  plans that leave the upstream list alone, edits, reboots,      *)
(*           deaths of the panel and power cuts, no command fails.          *)
(* In the first two the user has no noresolv of his own: DnsTakeover_       *)
(* noresolv shows how it is lost.                                           *)
(***************************************************************************)
EXTENDS DnsTakeover, TLAPS

Applies == {"backup", "files", "stage", "add", "commit", "restart", "consume", "state"}
Restores == {"restore", "rstage", "radd", "rcommit", "rrestart", "rconsume"}
Rests == {"idle", "read", "start", "boot"}

\* Settings without a takeover and without a noresolv.
Own == [servers : SUBSET Upstreams, noresolv : {"unset"}]

\* The deploy under way has written its forward file; what it leaves.
Written == source = (meta = "domains") /\ installed = source

\* What is committed has been staged, and a plan with hijack takes nothing over.
Writes ==
    /\ pc \in {"commit", "rcommit"} => staged # NoFile
    /\ pc \in Applies \cup {"read"} => meta # "hijack"
    /\ pc = "radd" => backup # NoFile

TypeInv == TypeOK /\ Writes

-----------------------------------------------------------------------------
(* The inductive invariant of calm behaviours.                             *)

Calm(b) == b.noresolv \subseteq {"unset"} /\ b.faults = 0 /\ b.crashes = 0 /\ b.cuts = 0

\* Nothing stays half written.
CalmPaths ==
    /\ pc # "rollback"
    /\ staged # NoFile => pc \in {"add", "commit", "radd", "rcommit"}
    /\ pc = "commit" => staged = Target
    /\ pc = "rcommit" => staged = IF backup = NoFile THEN user ELSE backup
    /\ ret = "start" => meta = "hijack" /\ pc \in Restores
    /\ pc \in Restores /\ ret = "idle" => ~on

\* What is in the file and in the backup, together, is the user's.
CalmRecords ==
    /\ user \in Own /\ backup \in Own \cup {NoFile}
    /\ backup = NoFile => flash = user
    /\ backup # NoFile => edited \/ backup = user
    /\ backup # NoFile /\ pc \in {"start", "boot"} => backup = user
    /\ meta = "hijack" /\ pc \in Rests => backup = NoFile
    /\ IF Ours \in flash.servers
       THEN backup # NoFile /\ flash.noresolv = "1"
                /\ user.servers = backup.servers \cup (flash.servers \ {Ours})
       ELSE flash = IF pc \in {"rrestart", "rconsume"} /\ backup # NoFile THEN backup ELSE user

\* What a takeover under way knows and has done.
CalmApply ==
    /\ pc \in Applies => base = user
    /\ pc \in Applies \ {"backup"} => ~edited
    /\ pc \in Applies \ {"backup", "state"} => backup = user
    /\ pc = "state" /\ meta # "none" => backup = user
    /\ pc \in {"restart", "consume", "state"} => flash = Target
    /\ pc \in {"rrestart", "rconsume"} => Ours \notin flash.servers

\* The state file says which plan is in force.
CalmState ==
    /\ state # NoFile /\ state.noresolv => state.plan = "all"
    /\ pc \in Rests /\ backup # NoFile =>
          (Ours \in flash.servers <=> state # NoFile /\ state.plan = "all")
    /\ pc \in {"start", "boot"} \/ (pc = "idle" /\ on) =>
          meta = "hijack" \/ (state # NoFile /\ state.plan = meta)

\* The process has what the file has, and the conf-dir what the plan wants.
CalmProcess ==
    /\ running.uci = flash \/ pc \in {"restart", "rrestart"}
    /\ \/ running.forward = installed
       \/ pc \in {"stage", "add", "commit", "restart", "rstage", "radd", "rcommit", "rrestart"}
    /\ pc \in (Applies \ {"backup", "files"}) \cup {"start"} \/ (pc = "idle" /\ on) =>
          meta = "hijack" \/ Written
    /\ pc = "boot" => ~installed /\ (meta = "hijack" \/ source = (meta = "domains"))
    /\ pc = "idle" /\ ~on => ~installed
    /\ pc \in Restores \ {"restore"} => ~installed
    /\ pc = "idle" /\ on /\ ~edited /\ meta = "all" => flash = TakenOver
    /\ BackupUsed

CalmInv ==
    /\ TypeInv /\ Calm(left) /\ CalmPaths /\ CalmRecords /\ CalmApply /\ CalmState /\ CalmProcess

\* Without hijack, or without reboots, no forward file is left where nobody takes it away.
Clear(b) == "hijack" \notin b.plans \/ b.reboots = 0
CalmClear ==
    \/ "hijack" \notin left.plans /\ (meta = "hijack" => ~on /\ pc = "idle")
    \/ /\ left.reboots = 0 /\ pc # "boot"
       /\ installed /\ (pc = "start" \/ (pc = "idle" /\ on)) => backup # NoFile

-----------------------------------------------------------------------------
(* The inductive invariant of behaviours in which commands fail.           *)

Bumpy(b) == b.noresolv \subseteq {"unset"} /\ b.edits = 0 /\ b.crashes = 0 /\ b.cuts = 0

\* File and backup never lose the user's setting between them.
BumpyRecords ==
    /\ user \in Own /\ ~edited
    /\ backup \in {NoFile, user} /\ flash \in {user, TakenOver}
    /\ flash = TakenOver => backup = user

\* What a failed command may leave staged.
BumpyStaged ==
    /\ pc \notin {"add", "commit", "radd", "rcommit", "rollback"} => staged \in {NoFile, TakenOver}
    /\ pc \in {"rrestart", "rconsume"} => flash = user /\ staged = NoFile
    /\ staged = TakenOver => backup = user
    /\ pc \in {"add", "rollback", "radd"} /\ staged # NoFile => backup = user
    /\ pc = "commit" => staged = Target
    /\ pc = "rcommit" => staged = user

BumpyApply ==
    /\ pc \in Applies => base = user
    /\ pc \in Applies \ {"backup", "state"} => backup = user
    /\ pc \in {"restart", "consume", "state"} => Current = Target

\* A plan other than all is written down only once the section is free of it.
BumpyState ==
    /\ state # NoFile /\ state.noresolv => state.plan = "all"
    /\ pc \in Rests /\ state # NoFile /\ state.plan # "all" => Current = user
    /\ pc \in Restores \ {"restore"} => state = NoFile

BumpyInv ==
    TypeInv /\ Bumpy(left) /\ BumpyRecords /\ BumpyStaged /\ BumpyApply /\ BumpyState

-----------------------------------------------------------------------------
(* The inductive invariant of behaviours with modest plans.                *)

Modest(b) == b.plans \subseteq {"none", "domains"} /\ b.faults = 0

ModestPaths ==
    /\ pc \notin {"stage", "add", "commit", "rollback", "radd"} /\ ret = "idle"
    /\ pc \in Restores => backup = NoFile /\ ~on /\ ~installed
    /\ pc \in Applies \cup {"read", "start", "boot"} \/ on => meta \in {"none", "domains"}
    /\ pc = "boot" => on /\ ~installed
    /\ pc \in Applies \cup {"read", "start"} => ~whole

\* The section stays as it is, and every copy of it.
ModestRecords ==
    /\ user.servers \subseteq Upstreams
    /\ flash = user /\ staged \in {NoFile, user} /\ running.uci = user
    /\ backup # NoFile => backup.servers \subseteq Upstreams /\ backup.noresolv = user.noresolv
    /\ backup # NoFile => edited \/ backup = user
    /\ pc \in Applies => base = user
    /\ pc \in Applies \ {"backup", "state"} => backup = user

ModestState ==
    /\ state # NoFile => /\ state.plan \in {"none", "domains"}
                         /\ state.plan = "domains" => (state.noresolv <=> user.noresolv = "1")
    /\ pc = "start" \/ on => state # NoFile

\* The forward file is where the plan wants it, and dnsmasq has read it.
ModestForward ==
    /\ running.forward = installed \/ pc = "restart" \/ unread
    /\ ~on /\ installed => backup # NoFile
    /\ pc \in {"restart", "consume", "state", "start"} => Written
    /\ pc = "start" => state.plan = meta
    /\ on /\ whole => state.plan = meta /\ source = (meta = "domains")
    /\ pc = "idle" /\ on /\ whole => installed = source
    /\ BackupUsed

ModestInv ==
    TypeInv /\ Modest(left) /\ ModestPaths /\ ModestRecords /\ ModestState /\ ModestForward

-----------------------------------------------------------------------------
(* What may still happen only becomes less.                                *)

Less ==
    /\ left' \in Allowances
    /\ left'.plans = left.plans /\ left'.noresolv = left.noresolv
    /\ left'.edits <= left.edits /\ left'.faults <= left.faults
    /\ left'.crashes <= left.crashes /\ left'.reboots <= left.reboots
    /\ left'.cuts <= left.cuts

LEMMA SameLeft == ASSUME left \in Allowances, UNCHANGED left PROVE Less
  BY DEF Less, Allowances

LEMMA UseLeft ==
    ASSUME left \in Allowances,
           NEW w \in {"ops", "edits", "faults", "crashes", "reboots", "cuts"}, May(w), Use(w)
    PROVE  Less
  BY DEF Less, Allowances, May, Use

LEMMA LessLeft == ASSUME left \in Allowances, Next PROVE Less
  <1>1. CASE UNCHANGED left
    BY <1>1, SameLeft
  <1>2. CASE \E w \in {"ops", "edits", "faults", "crashes", "reboots", "cuts"} : May(w) /\ Use(w)
    BY <1>2, UseLeft
  <1> QED
    BY <1>1, <1>2 DEF Next, Deploy, Stop, RollbackToDirect, Read, WriteBackup, Files, Stage, Add,
       Commit, RestartDnsmasq, Consume, WriteState, LaterStepFails, Start, Restore, RestoreStage,
       RestoreAdd, RestoreCommit, RestoreRestart, RestoreConsume, Crash, PowerCut, Reboot, Edit,
       Throws, Cleanup, ApplyTakeover, TakeoverDomains, TakeoverAll, Take, Revert

-----------------------------------------------------------------------------
(* Settings.                                                               *)

LEMMA TakenOverType ==
    TakenOver \in Settings /\ TakenOver.servers = {Ours} /\ TakenOver.noresolv = "1"
  BY DEF TakenOver, Settings, Noresolv

LEMMA UnsetType == Unset \in Settings /\ Unset.servers = {} /\ Unset.noresolv = "unset"
  BY DEF Unset, Settings, Noresolv

LEMMA SettingType ==
    ASSUME NEW s \in Settings
    PROVE  /\ s # NoFile /\ s.servers \subseteq Upstreams \cup {Ours} /\ s.noresolv \in Noresolv
           /\ s = [servers |-> s.servers, noresolv |-> s.noresolv]
  BY NamesAssumption DEF Settings

LEMMA UsersType ==
    ASSUME NEW s \in Settings
    PROVE  /\ Users(s) \in Settings /\ Users(s).servers = s.servers \ {Ours}
           /\ Users(s).noresolv = s.noresolv
  BY DEF Users, Settings

\* A setting that is not taken over is the user's as it is.
LEMMA UsersOwn ==
    ASSUME NEW s \in Settings, Ours \notin s.servers PROVE Users(s) = s
  BY DEF Users, Settings

LEMMA OwnSetting ==
    ASSUME NEW s \in Own
    PROVE  s \in Settings /\ Ours \notin s.servers /\ s.noresolv = "unset" /\ Users(s) = s
  <1>1. s \in Settings /\ Ours \notin s.servers /\ s.noresolv = "unset"
    BY NamesAssumption DEF Own, Settings, Noresolv
  <1> QED
    BY <1>1, UsersOwn

LEMMA CurrentType == ASSUME TypeOK PROVE Current \in Settings
  BY DEF TypeOK, Current

LEMMA CleanedType == ASSUME TypeOK PROVE Cleaned \in Settings
  BY DEF TypeOK, Cleaned

LEMMA BaselineType == ASSUME TypeOK PROVE Baseline \in Settings
  <1>1. Current \in Settings /\ Users(Current) \in Settings
    BY CurrentType, UsersType
  <1>2. backup # NoFile => BackupNoresolv \in Noresolv /\ backup.servers \subseteq Upstreams \cup {Ours}
    BY SettingType DEF TypeOK, BackupNoresolv, Noresolv
  <1>3. (Current.servers \cup (IF backup = NoFile THEN {} ELSE backup.servers)) \ {Ours}
            \subseteq Upstreams \cup {Ours}
    BY <1>1, <1>2, SettingType
  <1>4. (IF backup = NoFile THEN "unset" ELSE BackupNoresolv) \in Noresolv
    BY <1>2 DEF Noresolv
  <1> QED
    BY <1>1, <1>3, <1>4 DEF Baseline, Settings

-----------------------------------------------------------------------------
(* Types.                                                                  *)

LEMMA TypeInit == Init => TypeInv
  <1> SUFFICES ASSUME Init PROVE TypeInv
    OBVIOUS
  <1>1. left \in Allowances
    BY BudgetsAssumption DEF Init
  <1>2. left.noresolv \subseteq Noresolv
    BY <1>1 DEF Allowances
  <1>3. user \in Settings
    BY <1>2 DEF Init, Settings
  <1> QED
    BY <1>1, <1>3 DEF Init, TypeInv, TypeOK, Writes, Metas, Applies

\* What dnsmasq has read, and whether it has read it.
Processed == running' \in [uci : Settings, forward : BOOLEAN] /\ unread' \in BOOLEAN

LEMMA ReloadType ==
    ASSUME NEW s \in Settings, NEW f \in BOOLEAN, Reload(s, f) PROVE Processed
  BY DEF Reload, Processed

LEMMA UntouchedType == ASSUME TypeOK, Untouched PROVE Processed
  BY DEF Untouched, TypeOK, Processed

\* The steps of applyDnsTakeover.
LEMMA TypeApply ==
    ASSUME TypeInv, Less,
           Read \/ WriteBackup \/ Files \/ Stage \/ Add \/ Commit \/ RestartDnsmasq \/ Consume
           \/ WriteState \/ LaterStepFails
    PROVE  TypeInv'
  <1> USE DEF TypeInv, Writes, Throws, files, history, Applies
  <1>1. /\ Current \in Settings /\ Baseline \in Settings /\ Target \in Settings
        /\ [Current EXCEPT !.servers = {}] \in Settings
    BY CurrentType, BaselineType, TakenOverType DEF Target, TypeOK, Settings
  <1>2. left' \in Allowances
    BY DEF Less
  <1>3. CASE Read
    BY <1>1, <1>2, <1>3 DEF Read, TypeOK
  <1>4. CASE WriteBackup
    BY <1>2, <1>4 DEF WriteBackup, TypeOK
  <1>5. CASE Files
    BY <1>2, <1>5 DEF Files, TypeOK
  <1>6. CASE Stage
    BY <1>1, <1>2, <1>6 DEF Stage, TypeOK
  <1>7. CASE Add
    BY <1>1, <1>2, <1>7, SettingType DEF Add, TypeOK
  <1>8. CASE Commit
    BY <1>2, <1>8 DEF Commit, TypeOK
  <1>9. CASE RestartDnsmasq
    <2>1. Processed
      BY <1>1, <1>9, ReloadType, UntouchedType DEF RestartDnsmasq, TypeOK
    <2> QED
      BY <1>2, <1>9, <2>1 DEF RestartDnsmasq, Processed, TypeOK
  <1>10. CASE Consume
    BY <1>2, <1>10 DEF Consume, TypeOK
  <1>11. CASE WriteState
    <2>1. pc = "state" => [plan |-> meta, noresolv |-> Target.noresolv = "1" /\ meta # "none"] \in StateFiles
      BY DEF TypeOK, StateFiles, Metas, PlanNames
    <2> QED
      BY <1>2, <1>11, <2>1 DEF WriteState, TypeOK
  <1>12. CASE LaterStepFails
    BY <1>2, <1>12 DEF LaterStepFails, TypeOK
  <1> QED
    BY <1>3, <1>4, <1>5, <1>6, <1>7, <1>8, <1>9, <1>10, <1>11, <1>12

\* The steps of restoreDnsTakeover.
LEMMA TypeRestore ==
    ASSUME TypeInv, Less,
           Restore \/ RestoreStage \/ RestoreAdd \/ RestoreCommit \/ RestoreRestart \/ RestoreConsume
    PROVE  TypeInv'
  <1> USE DEF TypeInv, Writes, Throws, Revert, files, history, Applies
  <1>1. /\ Users(Current) \in Settings /\ Unset \in Settings
        /\ backup # NoFile => Users(backup) \in Settings
    BY CurrentType, UsersType, UnsetType DEF TypeOK
  <1>2. left' \in Allowances
    BY DEF Less
  <1>3. CASE Restore
    BY <1>2, <1>3 DEF Restore, TypeOK
  <1>4. CASE RestoreStage
    BY <1>1, <1>2, <1>4, SettingType DEF RestoreStage, TypeOK
  <1>5. CASE RestoreAdd
    <2>1. backup # NoFile
      BY <1>5 DEF RestoreAdd
    <2> QED
      BY <1>1, <1>2, <1>5, <2>1, SettingType DEF RestoreAdd, TypeOK
  <1>6. CASE RestoreCommit
    BY <1>2, <1>6 DEF RestoreCommit, TypeOK
  <1>7. CASE RestoreRestart
    <2>1. Processed
      BY <1>7, ReloadType, UntouchedType DEF RestoreRestart, TypeOK
    <2> QED
      BY <1>2, <1>7, <2>1 DEF RestoreRestart, Processed, TypeOK
  <1>8. CASE RestoreConsume
    BY <1>1, <1>2, <1>8 DEF RestoreConsume, Undone, TypeOK
  <1> QED
    BY <1>3, <1>4, <1>5, <1>6, <1>7, <1>8

\* The two functions of the init script.
LEMMA CleanupType ==
    ASSUME TypeOK, Cleanup
    PROVE  /\ flash' \in Settings /\ staged' \in Settings \cup {NoFile}
           /\ running' \in [uci : Settings, forward : BOOLEAN]
           /\ backup' \in Settings \cup {NoFile}
           /\ installed' = FALSE /\ user' \in Settings
           /\ edited' \in BOOLEAN /\ hindered' \in BOOLEAN /\ unread' \in BOOLEAN
  <1>1. Current \in Settings /\ Cleaned \in Settings /\ Users(Cleaned) \in Settings
    BY CurrentType, CleanedType, UsersType
  <1>2. ASSUME NEW s \in Settings, NEW c, ReloadIf(c, s) PROVE Processed
    BY <1>2, ReloadType, UntouchedType DEF ReloadIf
  <1>3. CASE backup = NoFile
    <2>1. Processed
      BY <1>1, <1>2, <1>3 DEF Cleanup
    <2> QED
      BY <1>3, <2>1 DEF Cleanup, Processed, TypeOK
  <1>4. CASE backup # NoFile /\ flash' = Cleaned /\ ReloadIf(installed \/ Changes, Cleaned)
             /\ staged' = NoFile /\ backup' = NoFile /\ Undone(Cleaned) /\ hindered' = FALSE
             /\ installed' = FALSE
    <2>1. Processed
      BY <1>1, <1>2, <1>4
    <2> QED
      BY <1>1, <1>4, <2>1 DEF Undone, Processed, TypeOK
  <1>5. CASE backup # NoFile /\ UNCHANGED <<flash, running, backup, user, edited>>
             /\ staged' = NoFile /\ unread' = (unread \/ installed) /\ hindered' = TRUE
             /\ installed' = FALSE
    BY <1>5 DEF TypeOK
  <1> QED
    BY <1>3, <1>4, <1>5 DEF Cleanup

LEMMA TakeType ==
    ASSUME TypeOK, NEW s \in Settings, installed' \in BOOLEAN, Take(s)
    PROVE  flash' \in Settings /\ staged' \in Settings \cup {NoFile} /\ Processed
  BY ReloadType DEF Take, TypeOK

LEMMA ApplyTakeoverType ==
    ASSUME TypeOK, ApplyTakeover
    PROVE  /\ flash' \in Settings /\ staged' \in Settings \cup {NoFile} /\ Processed
           /\ backup' \in Settings \cup {NoFile} /\ installed' \in BOOLEAN
  <1>1. Current \in Settings
    BY CurrentType
  <1>2. installed' \in BOOLEAN
    BY DEF ApplyTakeover, TypeOK
  <1>3. CASE TakeoverDomains
    <2>1. \A n \in {"1", "unset"} : [Current EXCEPT !.noresolv = n] \in Settings
      BY <1>1 DEF Settings, Noresolv
    <2>2. CASE Take([Current EXCEPT !.noresolv = IF state.noresolv THEN "1" ELSE "unset"])
      BY <1>2, <1>3, <2>1, <2>2, TakeType DEF TakeoverDomains, TypeOK
    <2>3. CASE UNCHANGED <<flash, staged>> /\ (Reload(Current, installed') \/ Untouched)
      BY <1>1, <1>2, <1>3, <2>3, ReloadType, UntouchedType DEF TakeoverDomains, TypeOK
    <2> QED
      BY <1>3, <2>2, <2>3 DEF TakeoverDomains
  <1>4. CASE TakeoverAll
    <2>1. CASE Take(TakenOver)
      BY <1>1, <1>2, <1>4, <2>1, TakeType, TakenOverType DEF TakeoverAll, TypeOK
    <2>2. CASE UNCHANGED <<flash, staged, backup>> /\ Untouched
      BY <1>2, <2>2, UntouchedType DEF TypeOK
    <2> QED
      BY <1>4, <2>1, <2>2 DEF TakeoverAll
  <1>5. CASE UNCHANGED <<flash, staged, backup>> /\ Untouched
    BY <1>2, <1>5, UntouchedType DEF TypeOK
  <1> QED
    BY <1>2, <1>3, <1>4, <1>5 DEF ApplyTakeover

\* Operations and what befalls them.
LEMMA TypeWorld ==
    ASSUME TypeInv, Less,
           \/ \E mode \in left.plans : Deploy(mode)
           \/ Stop \/ RollbackToDirect \/ Start
           \/ Crash \/ PowerCut \/ Reboot
           \/ \E s \in Upstreams : Edit(s)
    PROVE  TypeInv'
  <1> USE DEF TypeInv, Writes, files, Applies
  <1>1. left' \in Allowances
    BY DEF Less
  <1>2. Current \in Settings /\ Cleaned \in Settings /\ Users(Cleaned) \in Settings
    BY CurrentType, CleanedType, UsersType
  <1>3. CASE \E mode \in left.plans : Deploy(mode)
    BY <1>1, <1>3 DEF Deploy, TypeOK, Allowances
  <1>4. CASE Stop
    BY <1>1, <1>4, CleanupType DEF Stop, Processed, TypeOK
  <1>5. CASE RollbackToDirect
    BY <1>1, <1>5, CleanupType DEF RollbackToDirect, TypeOK
  <1>6. CASE Start
    BY <1>1, <1>6, ApplyTakeoverType DEF Start, Processed, TypeOK
  <1>7. CASE Crash
    BY <1>1, <1>7 DEF Crash, TypeOK
  <1>8. CASE PowerCut
    <2>1. Processed
      BY <1>8, ReloadType DEF PowerCut, Boot, TypeOK
    <2> QED
      BY <1>1, <1>8, <2>1 DEF PowerCut, Boot, Processed, TypeOK
  <1>9. CASE Reboot
    <2>1. Processed
      BY <1>2, <1>9, ReloadType DEF Reboot, Boot, TypeOK
    <2> QED
      BY <1>1, <1>2, <1>9, <2>1 DEF Reboot, Boot, Undone, Processed, TypeOK
  <1>10. CASE \E s \in Upstreams : Edit(s)
    <2>1. PICK s \in Upstreams : Edit(s)
      BY <1>10
    <2>2. EditedServers(s) \subseteq Upstreams \cup {Ours}
      BY <1>2, SettingType DEF EditedServers
    <2>3. flash' \in Settings /\ user' \in Settings
      BY <1>2, <2>1, <2>2 DEF Edit, TypeOK, Settings
    <2> QED
      <3>1. Processed
        BY <2>1, <2>3, ReloadType DEF Edit, TypeOK
      <3> QED
        BY <1>1, <2>1, <2>3, <3>1 DEF Edit, Processed, TypeOK
  <1> QED
    BY <1>3, <1>4, <1>5, <1>6, <1>7, <1>8, <1>9, <1>10

LEMMA TypeNext == ASSUME TypeInv, [Next]_vars PROVE TypeInv'
  <1>1. CASE UNCHANGED vars
    BY <1>1 DEF vars, TypeInv, TypeOK, Writes
  <1>2. CASE Next
    <2>1. Less
      BY <1>2, LessLeft DEF TypeInv, TypeOK
    <2> QED
      BY <1>2, <2>1, TypeApply, TypeRestore, TypeWorld DEF Next
  <1> QED
    BY <1>1, <1>2

\* Every variable keeps its type.
THEOREM TypeCorrect == Spec => []TypeOK
  <1>1. TypeInv => TypeOK
    BY DEF TypeInv
  <1> QED
    BY <1>1, TypeInit, TypeNext, PTL DEF Spec

-----------------------------------------------------------------------------
(* Modest plans: the section is never touched, whoever dies.               *)

LEMMA TypeWritten == ASSUME TypeInv, WriteState PROVE state' # NoFile
  <1>1. state' \in StateFiles
    BY DEF WriteState, TypeInv, TypeOK, Writes, Applies, StateFiles, PlanNames, Metas
  <1> QED
    BY <1>1, NamesAssumption

LEMMA ModestLeft == ASSUME left \in Allowances, Modest(left), Less PROVE Modest(left)'
  BY DEF Modest, Less, Allowances

LEMMA ModestFacts ==
    ASSUME ModestInv
    PROVE  /\ source \in BOOLEAN /\ installed \in BOOLEAN /\ on \in BOOLEAN /\ edited \in BOOLEAN
           /\ {whole, hindered, unread} \subseteq BOOLEAN /\ running.forward \in BOOLEAN
           /\ state # NoFile => state.noresolv \in BOOLEAN
           /\ pc \in Applies \cup Restores \cup Rests
           /\ user \in Settings /\ user # NoFile /\ Ours \notin user.servers /\ Users(user) = user
           /\ Current = user /\ ~May("faults")
           /\ backup # NoFile => backup \in Settings /\ Users(backup) = backup
           /\ pc = "read" => Baseline = user
           /\ pc \in Applies => Target = user
  <1>1. user \in Settings /\ Ours \notin user.servers /\ Users(user) = user
    BY NamesAssumption, UsersOwn DEF ModestInv, ModestRecords, TypeInv, TypeOK
  <1>2. Current = user
    BY DEF Current, ModestInv, ModestRecords
  <1>3. ~May("faults")
    BY DEF May, ModestInv, Modest
  <1>4. backup # NoFile => backup \in Settings /\ Users(backup) = backup
    BY NamesAssumption, UsersOwn DEF ModestInv, ModestRecords, TypeInv, TypeOK
  <1>5. Baseline = user
    BY <1>1, <1>2 DEF Baseline, OldTakeover, ModestInv, ModestState
  <1>6. pc \in Applies => Target = user
    BY DEF Target, ModestInv, ModestPaths, ModestRecords
  <1>7. /\ source \in BOOLEAN /\ installed \in BOOLEAN /\ on \in BOOLEAN /\ edited \in BOOLEAN
        /\ {whole, hindered, unread} \subseteq BOOLEAN /\ running.forward \in BOOLEAN
        /\ state # NoFile => state.noresolv \in BOOLEAN
    BY DEF ModestInv, TypeInv, TypeOK, StateFiles
  <1>8. pc \in Applies \cup Restores \cup Rests
    BY DEF ModestInv, TypeInv, TypeOK, ModestPaths, Applies, Restores, Rests
  <1>9. user # NoFile
    BY <1>1, NamesAssumption
  <1> QED
    BY <1>1, <1>2, <1>3, <1>4, <1>5, <1>6, <1>7, <1>8, <1>9

ModestParts == ModestPaths /\ ModestRecords /\ ModestState /\ ModestForward

LEMMA ModestApply ==
    ASSUME ModestInv,
           \/ Read \/ WriteBackup \/ Files \/ Stage \/ Add \/ Commit \/ RestartDnsmasq \/ Consume
           \/ WriteState \/ LaterStepFails
    PROVE  ModestParts'
  <1> USE ModestFacts DEF ModestInv, ModestParts, BackupUsed, files, history, Applies, Restores
  <1>1. CASE Read
    BY <1>1 DEF Read, ModestPaths, ModestRecords, ModestState, ModestForward
  <1>2. CASE WriteBackup
    <2>1. ModestPaths'
      BY <1>2 DEF WriteBackup, ModestPaths, ModestRecords, ModestState, ModestForward
    <2>2. ModestRecords'
      BY <1>2 DEF WriteBackup, ModestPaths, ModestRecords, ModestState, ModestForward
    <2>3. ModestState'
      BY <1>2 DEF WriteBackup, ModestPaths, ModestRecords, ModestState, ModestForward
    <2>4. ModestForward'
      BY <1>2 DEF WriteBackup, ModestPaths, ModestRecords, ModestState, ModestForward
    <2> QED
      BY <2>1, <2>2, <2>3, <2>4
  <1>3. CASE Files
    <2>1. ModestPaths'
      BY <1>3 DEF Files, Written, TypeInv, TypeOK, ModestPaths, ModestRecords, ModestState, ModestForward
    <2>2. ModestRecords'
      BY <1>3 DEF Files, Written, TypeInv, TypeOK, ModestPaths, ModestRecords, ModestState, ModestForward
    <2>3. ModestState'
      BY <1>3 DEF Files, Written, TypeInv, TypeOK, ModestPaths, ModestRecords, ModestState, ModestForward
    <2>4. ModestForward'
      BY <1>3 DEF Files, Written, TypeInv, TypeOK, ModestPaths, ModestRecords, ModestState, ModestForward
    <2> QED
      BY <2>1, <2>2, <2>3, <2>4
  <1>4. CASE RestartDnsmasq
    BY <1>4 DEF RestartDnsmasq, Reload, Untouched, Throws, ModestPaths, ModestRecords, ModestState,
                ModestForward, Written
  <1>5. CASE Consume
    BY <1>5 DEF Consume, ModestPaths, ModestRecords, ModestState, ModestForward, Written
  <1>6. CASE WriteState
    <2>1. state'.plan = meta /\ (meta = "domains" => (state'.noresolv <=> user.noresolv = "1"))
      BY <1>6 DEF WriteState
    <2>2. state' # NoFile
      BY <1>6, TypeWritten DEF WriteState
    <2> QED
      BY <1>6, <2>1, <2>2 DEF WriteState, ModestPaths, ModestRecords, ModestState, ModestForward, Written
  <1> QED
    BY <1>1, <1>2, <1>3, <1>4, <1>5, <1>6
       DEF Stage, Add, Commit, LaterStepFails, Throws, ModestPaths

LEMMA ModestRestore ==
    ASSUME ModestInv,
           Restore \/ RestoreStage \/ RestoreAdd \/ RestoreCommit \/ RestoreRestart \/ RestoreConsume
    PROVE  ModestParts'
  <1> USE ModestFacts DEF ModestInv, ModestParts, BackupUsed, files, history, Applies, Restores, Rests, ModestPaths,
        ModestRecords, ModestState, ModestForward
  <1>1. CASE Restore
    <2>1. ModestPaths'
      BY <1>1 DEF Restore
    <2>2. ModestRecords'
      BY <1>1 DEF Restore
    <2>3. ModestState'
      BY <1>1 DEF Restore
    <2>4. ModestForward'
      BY <1>1 DEF Restore
    <2> QED
      BY <2>1, <2>2, <2>3, <2>4
  <1>2. CASE RestoreStage
    BY <1>2 DEF RestoreStage
  <1>3. CASE RestoreCommit
    BY <1>3 DEF RestoreCommit, Revert, Throws, TypeInv, Writes
  <1>4. CASE RestoreRestart
    BY <1>4 DEF RestoreRestart, Revert, Throws, Reload, Untouched
  <1>5. CASE RestoreConsume
    BY <1>5 DEF RestoreConsume
  <1> QED
    BY <1>1, <1>2, <1>3, <1>4, <1>5 DEF RestoreAdd

\* The init script takes back an edit with the takeover, and nothing else.
LEMMA ModestCleanup ==
    ASSUME ModestInv, Cleanup, pc \in {"idle", "rollback"}
    PROVE  /\ installed' = FALSE /\ backup' = NoFile
           /\ flash' = user' /\ staged' \in {NoFile, user'} /\ running'.uci = user'
           /\ user'.servers \subseteq Upstreams /\ user'.noresolv = user.noresolv
           /\ running'.forward = FALSE \/ unread'
  <1> USE ModestFacts DEF ModestInv, ModestRecords
  <1>1. CASE backup = NoFile
    BY <1>1 DEF Cleanup, ReloadIf, Reload, Untouched, ModestForward, ModestPaths
  <1>2. CASE backup # NoFile
    <2>1. flash' = backup /\ staged' = NoFile /\ backup' = NoFile /\ installed' = FALSE
          /\ ReloadIf(installed \/ Changes, backup)
      BY <1>2 DEF Cleanup, Cleaned
    <2>2. user' = backup
      BY <1>2, <2>1 DEF Cleanup, Cleaned, Undone
    <2>3. running'.uci = backup
      BY <1>2, <2>1 DEF ReloadIf, Reload, Untouched, Changes, Cleaned
    <2> QED
      BY <1>2, <2>1, <2>2, <2>3 DEF ReloadIf, Reload, Untouched, ModestForward, ModestPaths
  <1> QED
    BY <1>1, <1>2

LEMMA ModestWorld ==
    ASSUME ModestInv,
           \/ \E mode \in left.plans : Deploy(mode)
           \/ Stop \/ RollbackToDirect \/ Start
           \/ Crash \/ PowerCut \/ Reboot
           \/ \E s \in Upstreams : Edit(s)
    PROVE  ModestParts'
  <1> USE ModestFacts DEF ModestInv, ModestParts, BackupUsed, files, history, Applies, Restores, Rests, ModestPaths,
        ModestRecords, ModestState, ModestForward
  <1>1. CASE \E mode \in left.plans : Deploy(mode)
    BY <1>1 DEF Deploy, Modest
  <1>2. CASE Stop
    BY <1>2, ModestCleanup DEF Stop
  <1>3. CASE RollbackToDirect
    BY <1>3, ModestCleanup DEF RollbackToDirect
  <1>4. CASE Start
    <2>1. UNCHANGED <<flash, staged, backup>>
      BY <1>4 DEF Start, ApplyTakeover, TakeoverDomains
    <2>2. /\ running'.uci = user
          /\ running'.forward = installed' \/ unread'
      BY <1>4 DEF Start, ApplyTakeover, TakeoverDomains, Reload, Untouched
    <2>3. installed' = (IF state.plan = "none" THEN installed ELSE source)
      BY <1>4 DEF Start, ApplyTakeover, TakeoverDomains
    <2> QED
      BY <1>4, <2>1, <2>2, <2>3 DEF Start, Written
  <1>5. CASE Crash
    <2>1. ModestPaths'
      BY <1>5 DEF Crash, Written
    <2>2. ModestRecords'
      BY <1>5 DEF Crash, Written
    <2>3. ModestState'
      BY <1>5 DEF Crash, Written
    <2>4. ModestForward'
      BY <1>5 DEF Crash, Written
    <2> QED
      BY <2>1, <2>2, <2>3, <2>4
  <1>6. CASE PowerCut
    BY <1>6 DEF PowerCut, Boot, Reload, Untouched
  <1>7. CASE Reboot
    BY <1>7 DEF Reboot, Boot, Reload, Untouched, Cleaned, Undone
  <1>8. CASE \E s \in Upstreams : Edit(s)
    <2>1. PICK s \in Upstreams : Edit(s)
      BY <1>8
    <2>2. user' = flash' /\ user'.noresolv = user.noresolv /\ user'.servers \subseteq Upstreams
      BY <2>1 DEF Edit, EditedServers, Settings
    <2> QED
      BY <2>1, <2>2 DEF Edit, Reload, Untouched
  <1> QED
    BY <1>1, <1>2, <1>3, <1>4, <1>5, <1>6, <1>7, <1>8

LEMMA ModestInit == ASSUME Init, Modest(left) PROVE ModestInv
  BY TypeInit DEF Init, ModestInv, ModestPaths, ModestRecords, ModestState, ModestForward,
     BackupUsed, Applies, Restores

LEMMA ModestNext == ASSUME ModestInv, [Next]_vars PROVE ModestInv'
  <1>1. TypeInv'
    BY TypeNext DEF ModestInv
  <1>2. CASE UNCHANGED vars
    BY <1>1, <1>2 DEF vars, ModestInv, Modest, ModestPaths, ModestRecords, ModestState,
       ModestForward, BackupUsed, Written
  <1>3. CASE Next
    <2>1. Modest(left)'
      BY <1>3, LessLeft, ModestLeft DEF ModestInv, TypeInv, TypeOK
    <2>2. ModestParts'
      BY <1>3, ModestApply, ModestRestore, ModestWorld DEF Next
    <2> QED
      BY <1>1, <2>1, <2>2 DEF ModestInv, ModestParts
  <1> QED
    BY <1>2, <1>3

LEMMA ModestAlways == Spec /\ Modest(left) => []ModestInv
  BY ModestInit, ModestNext, PTL DEF Spec

-----------------------------------------------------------------------------
(* Calm behaviours.                                                        *)

CalmParts == CalmPaths /\ CalmRecords /\ CalmApply /\ CalmState /\ CalmProcess

LEMMA CalmLeft == ASSUME left \in Allowances, Calm(left), Less PROVE Calm(left)'
  BY DEF Calm, Less, Allowances

LEMMA CalmTypes ==
    ASSUME CalmInv
    PROVE  /\ source \in BOOLEAN /\ installed \in BOOLEAN /\ on \in BOOLEAN /\ edited \in BOOLEAN
           /\ {whole, hindered, unread} \subseteq BOOLEAN /\ running.forward \in BOOLEAN
           /\ state # NoFile => state.noresolv \in BOOLEAN /\ state.plan \in PlanNames
           /\ pc \in Applies \cup Restores \cup Rests /\ ret \in {"idle", "start"}
           /\ meta \in Metas
           /\ flash \in Settings
           /\ ~May("faults") /\ ~May("crashes") /\ ~May("cuts")
  <1>1. ~May("faults") /\ ~May("crashes") /\ ~May("cuts")
    BY DEF CalmInv, Calm, May
  <1>2. pc \in Applies \cup Restores \cup Rests
    BY DEF CalmInv, TypeInv, TypeOK, CalmPaths, Applies, Restores, Rests
  <1> QED
    BY <1>1, <1>2 DEF CalmInv, TypeInv, TypeOK, StateFiles

LEMMA CalmFacts ==
    ASSUME CalmInv
    PROVE  /\ user \in Settings /\ user # NoFile /\ Ours \notin user.servers
           /\ user.noresolv = "unset" /\ Users(user) = user
           /\ backup # NoFile => /\ backup \in Settings /\ Ours \notin backup.servers
                                 /\ backup.noresolv = "unset" /\ Users(backup) = backup
           /\ TakenOver.servers = {Ours} /\ TakenOver.noresolv = "1" /\ TakenOver # user
           /\ staged = NoFile => Current = flash
           /\ pc \in Applies => Target = IF meta = "all" THEN TakenOver ELSE user
           /\ Cleaned = IF backup = NoFile THEN flash ELSE backup
  <1>1. user \in Own /\ (backup # NoFile => backup \in Own)
    BY DEF CalmInv, CalmRecords
  <1>2. user # NoFile
    BY <1>1, OwnSetting, NamesAssumption
  <1>3. pc \in Applies => Target = IF meta = "all" THEN TakenOver ELSE user
    BY DEF Target, CalmInv, CalmApply
  <1> QED
    BY <1>1, <1>2, <1>3, OwnSetting, TakenOverType DEF Current, Cleaned

\* readBaseline finds what the user has configured.
LEMMA CalmBaseline == ASSUME CalmInv, pc = "read" PROVE Baseline = user
  <1> USE CalmFacts, CalmTypes
  <1>1. staged = NoFile /\ Current = flash
    BY DEF CalmInv, CalmPaths
  <1>2. user = [servers |-> user.servers, noresolv |-> "unset"]
    BY SettingType
  <1>3. CASE Ours \in flash.servers
    <2>1. backup # NoFile /\ state # NoFile /\ state.plan = "all"
          /\ user.servers = backup.servers \cup (flash.servers \ {Ours})
      BY <1>3 DEF CalmInv, CalmRecords, CalmState, Rests
    <2>2. BackupNoresolv = "unset"
      BY <2>1 DEF BackupNoresolv
    <2>3. (flash.servers \cup backup.servers) \ {Ours} = user.servers
      BY <2>1
    <2> QED
      BY <1>1, <1>2, <2>1, <2>2, <2>3 DEF Baseline
  <1>4. CASE Ours \notin flash.servers
    <2>1. flash = user
      BY <1>4 DEF CalmInv, CalmRecords
    <2>2. ~OldTakeover
      BY <1>1, <1>4 DEF OldTakeover
    <2>3. CASE state # NoFile /\ state.plan = "all"
      <3>1. backup = NoFile
        BY <1>4, <2>3 DEF CalmInv, CalmState, Rests
      <3>2. flash.servers \ {Ours} = user.servers
        BY <2>1
      <3> QED
        BY <1>1, <1>2, <2>3, <3>1, <3>2 DEF Baseline
    <2>4. CASE ~(state # NoFile /\ state.plan = "all")
      BY <1>1, <2>1, <2>2, <2>4 DEF Baseline
    <2> QED
      BY <2>3, <2>4
  <1> QED
    BY <1>3, <1>4

LEMMA CalmApplies ==
    ASSUME CalmInv,
           \/ Read \/ WriteBackup \/ Files \/ Stage \/ Add \/ Commit \/ RestartDnsmasq \/ Consume
           \/ WriteState \/ LaterStepFails
    PROVE  CalmParts'
  <1> USE CalmFacts, CalmTypes
      DEF CalmInv, CalmParts, BackupUsed, files, history, Applies, Restores, Rests, CalmPaths, CalmRecords,
          CalmApply, CalmState, CalmProcess, Written
  <1>1. CASE Read
    BY <1>1, CalmBaseline DEF Read
  <1>2. CASE WriteBackup
    BY <1>2 DEF WriteBackup, Own
  <1>3. CASE Files
    <2>1. /\ source' = (meta = "domains") /\ installed' = (meta = "domains") /\ staged = NoFile
          /\ UNCHANGED <<flash, staged, running, backup, state, meta, on, ret, base, left, history>>
          /\ pc = "files" /\ Current = flash
      BY <1>3 DEF Files
    <2>2. /\ pc' \in {"stage", "restart", "consume"}
          /\ pc' # "stage" => flash = Target
          /\ pc' = "consume" => installed' = installed
      BY <1>3, <2>1 DEF Files
    <2>3. Target' = Target
      BY <2>1 DEF Target
    <2>4. CalmPaths' /\ CalmRecords'
      BY <2>1, <2>2
    <2>5. CalmApply' /\ CalmState'
      BY <2>1, <2>2, <2>3
    <2>6. CalmProcess'
      BY <2>1, <2>2, <2>3
    <2> QED
      BY <2>4, <2>5, <2>6
  <1>4. CASE Stage
    BY <1>4 DEF Stage, Target
  <1>5. CASE Add
    BY <1>5 DEF Add, Throws, Target
  <1>6. CASE Commit
    BY <1>6 DEF Commit, Throws, Target
  <1>7. CASE RestartDnsmasq
    BY <1>7 DEF RestartDnsmasq, Throws, Reload, Untouched, Target
  <1>8. CASE Consume
    BY <1>8 DEF Consume, Target
  <1>9. CASE WriteState
    BY <1>9, TypeWritten DEF WriteState, Target, TypeInv, Writes
  <1> QED
    BY <1>1, <1>2, <1>3, <1>4, <1>5, <1>6, <1>7, <1>8, <1>9 DEF LaterStepFails, Throws

LEMMA CalmRestores ==
    ASSUME CalmInv,
           Restore \/ RestoreStage \/ RestoreAdd \/ RestoreCommit \/ RestoreRestart \/ RestoreConsume
    PROVE  CalmParts'
  <1> USE CalmFacts, CalmTypes
      DEF CalmInv, CalmParts, BackupUsed, files, history, Applies, Restores, Rests, CalmPaths, CalmRecords,
          CalmApply, CalmState, CalmProcess
  <1>1. CASE Restore
    BY <1>1 DEF Restore
  <1>2. CASE RestoreStage
    BY <1>2 DEF RestoreStage
  <1>3. CASE RestoreAdd
    BY <1>3 DEF RestoreAdd, Revert, Throws, TypeInv, Writes
  <1>4. CASE RestoreCommit
    BY <1>4 DEF RestoreCommit, Revert, Throws
  <1>5. CASE RestoreRestart
    BY <1>5 DEF RestoreRestart, Revert, Throws, Reload, Untouched
  <1>6. CASE RestoreConsume
    BY <1>6 DEF RestoreConsume, Undone
  <1> QED
    BY <1>1, <1>2, <1>3, <1>4, <1>5, <1>6

\* The init script gives the section back.
LEMMA CalmCleanup ==
    ASSUME CalmInv, Cleanup, pc = "idle"
    PROVE  /\ installed' = FALSE /\ backup' = NoFile /\ staged' = NoFile
           /\ user' \in Own /\ flash' = user' /\ running'.uci = user' /\ running'.forward = FALSE
  <1> USE CalmFacts, CalmTypes
  <1>1. staged = NoFile /\ running.uci = flash /\ running.forward = installed
    BY DEF CalmInv, CalmPaths, CalmProcess
  <1>2. user \in Own /\ (backup # NoFile => backup \in Own)
    BY DEF CalmInv, CalmRecords
  <1>3. CASE backup = NoFile
    <2>1. flash = user
      BY <1>3 DEF CalmInv, CalmRecords
    <2> QED
      BY <1>1, <1>2, <1>3, <2>1 DEF Cleanup, ReloadIf, Reload, Untouched
  <1>4. CASE backup # NoFile
    <2>1. /\ flash' = backup /\ staged' = NoFile /\ backup' = NoFile /\ installed' = FALSE
          /\ ReloadIf(installed \/ Changes, backup)
      BY <1>4 DEF Cleanup
    <2>2. user' = backup
      BY <1>4, <2>1 DEF Cleanup, Undone, CalmInv, CalmRecords
    <2>3. CASE installed \/ Changes
      BY <1>2, <1>4, <2>1, <2>2, <2>3 DEF ReloadIf, Reload, Untouched
    <2>4. CASE ~(installed \/ Changes)
      <3>1. flash = backup
        BY <1>4, <2>4 DEF Changes
      <3> QED
        BY <1>1, <1>2, <1>4, <2>1, <2>2, <2>4, <3>1 DEF ReloadIf, Untouched
    <2> QED
      BY <2>3, <2>4
  <1> QED
    BY <1>3, <1>4

\* So does the start script take over what the plan wants.
LEMMA CalmStart == ASSUME CalmInv, Start PROVE CalmParts'
  <1> USE CalmFacts, CalmTypes
      DEF CalmInv, CalmParts, BackupUsed, Applies, Restores, Rests, CalmPaths, CalmRecords,
          CalmApply, CalmState, CalmProcess, Written
  <1>1. /\ pc \in {"start", "boot"} /\ pc' = "idle" /\ on' = TRUE /\ staged = NoFile
        /\ UNCHANGED <<state, source, meta, ret, base, user, edited, hindered>>
        /\ Current = flash /\ ApplyTakeover
    BY DEF Start
  <1>2. CASE meta = "hijack" \/ state.plan = "none"
    <2>1. UNCHANGED <<flash, staged, running, backup, installed>>
      BY <1>1, <1>2 DEF ApplyTakeover, Untouched
    <2> QED
      BY <1>1, <1>2, <2>1
  <1>3. CASE meta = "domains"
    <2>1. state # NoFile /\ state.plan = "domains" /\ ~state.noresolv
      BY <1>1, <1>3
    <2>2. flash = user
      BY <1>1, <2>1
    <2>3. TakeoverDomains /\ installed' = source
      BY <1>1, <1>3, <2>1 DEF ApplyTakeover
    <2>4. /\ UNCHANGED <<flash, staged, backup>>
          /\ IF installed' # installed THEN Reload(flash, installed') ELSE Untouched
      BY <1>1, <2>1, <2>2, <2>3 DEF TakeoverDomains
    <2>5. running'.uci = flash /\ running'.forward = installed'
      BY <1>1, <2>4 DEF Reload, Untouched
    <2> QED
      BY <1>1, <1>3, <2>1, <2>2, <2>3, <2>4, <2>5
  <1>4. CASE meta = "all"
    <2>1. state # NoFile /\ state.plan = "all"
      BY <1>1, <1>4
    <2>2. TakeoverAll /\ installed' = source /\ ~source
      BY <1>1, <1>4, <2>1 DEF ApplyTakeover
    <2>3. /\ flash' = TakenOver /\ staged' = NoFile /\ backup' = user
          /\ running'.uci = TakenOver /\ running'.forward = FALSE
      <3>1. CASE Current = TakenOver /\ installed' = installed
        BY <1>1, <2>2, <3>1 DEF TakeoverAll, Untouched
      <3>2. CASE ~(Current = TakenOver /\ installed' = installed)
        <4>1. backup' = (IF backup = NoFile THEN flash ELSE backup) /\ Take(TakenOver)
          BY <1>1, <2>2, <3>2 DEF TakeoverAll
        <4> QED
          BY <1>1, <2>2, <4>1 DEF Take, Reload, Untouched
      <3> QED
        BY <3>1, <3>2
    <2>4. user.servers = user.servers \cup (TakenOver.servers \ {Ours})
      OBVIOUS
    <2> QED
      BY <1>1, <1>4, <2>1, <2>2, <2>3, <2>4
  <1> QED
    BY <1>1, <1>2, <1>3, <1>4 DEF Metas

LEMMA CalmWorld ==
    ASSUME CalmInv,
           \/ \E mode \in left.plans : Deploy(mode)
           \/ Stop \/ RollbackToDirect \/ Start
           \/ Crash \/ PowerCut \/ Reboot
           \/ \E s \in Upstreams : Edit(s)
    PROVE  CalmParts'
  <1> USE CalmFacts, CalmTypes
      DEF CalmInv, CalmParts, BackupUsed, files, history, Applies, Restores, Rests, CalmPaths, CalmRecords,
          CalmApply, CalmState, CalmProcess
  <1>1. CASE \E mode \in left.plans : Deploy(mode)
    BY <1>1 DEF Deploy
  <1>2. CASE Stop
    BY <1>2, CalmCleanup, OwnSetting DEF Stop
  <1>3. CASE RollbackToDirect
    BY <1>3, CalmCleanup, OwnSetting DEF RollbackToDirect
  <1>4. CASE Reboot
    <2>1. flash' = (IF backup = NoFile THEN user ELSE backup) /\ backup' = NoFile /\ user' = flash'
      BY <1>4 DEF Reboot, Boot, Undone
    <2>2. running'.uci = flash' /\ running'.forward = FALSE
      BY <1>4 DEF Reboot, Boot, Reload, Untouched
    <2> QED
      BY <1>4, <2>1, <2>2 DEF Reboot, Boot, Written
  <1>5. CASE \E s \in Upstreams : Edit(s)
    <2>1. PICK s \in Upstreams : Edit(s)
      BY <1>5
    <2>2. /\ pc = "idle" /\ Current = flash /\ s # Ours /\ edited' = TRUE /\ staged' = NoFile
          /\ flash' = [flash EXCEPT !.servers = EditedServers(s)]
          /\ running'.uci = flash' /\ running'.forward = installed
          /\ UNCHANGED <<files, meta, on, pc, ret, base, whole, hindered>>
      BY <2>1, NamesAssumption DEF Edit, Reload, Untouched
    <2>3. flash'.servers = EditedServers(s) /\ flash'.noresolv = flash.noresolv
      BY <2>2 DEF Settings
    <2>4. CASE Ours \in flash.servers
      <3>1. user' = [user EXCEPT !.servers = @ \cup {s}] /\ EditedServers(s) = flash.servers \cup {s}
        BY <2>1, <2>2, <2>4 DEF Edit, EditedServers
      <3>2. user' \in Own /\ user'.servers = user.servers \cup {s}
        BY <3>1 DEF Own
      <3>3. user'.servers = backup.servers \cup (flash'.servers \ {Ours})
        BY <2>2, <2>3, <2>4, <3>1, <3>2
      <3> QED
        BY <2>2, <2>3, <2>4, <3>1, <3>2, <3>3 DEF Written
    <2>5. CASE Ours \notin flash.servers
      <3>1. flash = user /\ user' = flash' /\ EditedServers(s) \subseteq Upstreams
        BY <2>1, <2>2, <2>5 DEF Edit, EditedServers, Own
      <3>2. user' \in Own
        BY <2>2, <3>1 DEF Own
      <3> QED
        BY <2>2, <2>3, <2>5, <3>1, <3>2, OwnSetting DEF Written
    <2> QED
      BY <2>4, <2>5
  <1> QED
    BY <1>1, <1>2, <1>3, <1>4, <1>5, CalmStart DEF Crash, PowerCut

LEMMA CalmInit == ASSUME Init, Calm(left) PROVE CalmInv
  <1>1. user \in Own
    BY DEF Init, Calm, Own
  <1>2. user # NoFile /\ Ours \notin user.servers
    BY <1>1, OwnSetting, NamesAssumption
  <1> QED
    BY <1>1, <1>2, TypeInit DEF Init, CalmInv, CalmPaths, CalmRecords, CalmApply, CalmState,
       CalmProcess, BackupUsed, Written, Applies, Restores, Rests

LEMMA CalmNext == ASSUME CalmInv, [Next]_vars PROVE CalmInv'
  <1>1. TypeInv'
    BY TypeNext DEF CalmInv
  <1>2. CASE UNCHANGED vars
    BY <1>1, <1>2 DEF vars, CalmInv, Calm, CalmPaths, CalmRecords, CalmApply, CalmState,
       CalmProcess, BackupUsed, Written, Target
  <1>3. CASE Next
    <2>1. Calm(left)'
      BY <1>3, LessLeft, CalmLeft DEF CalmInv, TypeInv, TypeOK
    <2>2. CalmParts'
      BY <1>3, CalmApplies, CalmRestores, CalmWorld DEF Next
    <2> QED
      BY <1>1, <2>1, <2>2 DEF CalmInv, CalmParts
  <1> QED
    BY <1>2, <1>3

LEMMA CalmAlways == Spec /\ Calm(left) => []CalmInv
  BY CalmInit, CalmNext, PTL DEF Spec

LEMMA ClearStart ==
    ASSUME ApplyTakeover
    PROVE  /\ installed' = installed \/ (meta # "hijack" /\ installed' = source)
           /\ backup # NoFile => backup' = backup
  BY DEF ApplyTakeover, TakeoverDomains, TakeoverAll

\* Without hijack, or without reboots, the conf-dir is clear when it should be.
LEMMA ClearNext == ASSUME CalmInv, CalmClear, [Next]_vars PROVE CalmClear'
  <1> USE CalmFacts, CalmTypes
      DEF CalmInv, files, history, Applies, Restores, Rests, CalmPaths, CalmRecords, CalmApply,
          CalmProcess, Written, CalmClear
  <1>1. CASE UNCHANGED vars
    BY <1>1 DEF vars
  <1>2. CASE Next
    <2>1. left'.plans = left.plans /\ left'.reboots \in Nat /\ left'.reboots <= left.reboots
      BY <1>2, LessLeft DEF Less, TypeInv, TypeOK, Allowances
    <2>2. left.reboots = 0 => left'.reboots = 0 /\ ~Reboot
      BY <2>1 DEF Reboot, May
    <2>3. CASE \E mode \in left.plans : Deploy(mode)
      BY <2>1, <2>2, <2>3 DEF Deploy
    <2>4. CASE \/ Read \/ WriteBackup \/ Files \/ Stage \/ Add \/ Commit \/ RestartDnsmasq
               \/ Consume
      BY <2>1, <2>2, <2>4 DEF Read, WriteBackup, Files, Stage, Add, Commit, RestartDnsmasq,
         Consume, Throws
    <2>5. CASE WriteState
      BY <2>1, <2>2, <2>5 DEF WriteState, TypeInv, Writes
    <2>6. CASE Restore \/ RestoreStage \/ RestoreAdd \/ RestoreCommit \/ RestoreRestart
      BY <2>1, <2>2, <2>6 DEF Restore, RestoreStage, RestoreAdd, RestoreCommit, RestoreRestart,
         Revert, Throws
    <2>7. CASE RestoreConsume
      BY <2>1, <2>2, <2>7 DEF RestoreConsume
    <2>8. CASE Stop \/ RollbackToDirect
      BY <2>1, <2>2, <2>8, CalmCleanup DEF Stop, RollbackToDirect
    <2>9. CASE Start
      BY <2>1, <2>2, <2>9, ClearStart DEF Start
    <2>10. CASE Reboot
      BY <2>1, <2>2, <2>10 DEF Reboot, Boot
    <2>11. CASE \E s \in Upstreams : Edit(s)
      BY <2>1, <2>2, <2>11 DEF Edit
    <2> QED
      BY <1>2, <2>3, <2>4, <2>5, <2>6, <2>7, <2>8, <2>9, <2>10, <2>11
         DEF Next, LaterStepFails, Throws, Crash, PowerCut
  <1> QED
    BY <1>1, <1>2

LEMMA ClearAlways == Spec /\ Calm(left) /\ Clear(left) => []CalmClear
  <1>1. Init /\ Clear(left) => CalmClear
    BY DEF Init, Clear, CalmClear
  <1>2. CalmInv /\ CalmClear /\ [Next]_vars => CalmClear'
    BY ClearNext
  <1> QED
    BY <1>1, <1>2, CalmAlways, PTL DEF Spec

-----------------------------------------------------------------------------
(* Commands fail, as often as they like.                                   *)

BumpyParts == BumpyRecords /\ BumpyStaged /\ BumpyApply /\ BumpyState

LEMMA BumpyLeft == ASSUME left \in Allowances, Bumpy(left), Less PROVE Bumpy(left)'
  BY DEF Bumpy, Less, Allowances

LEMMA BumpyFacts ==
    ASSUME BumpyInv
    PROVE  /\ user \in Settings /\ user # NoFile /\ Ours \notin user.servers
           /\ user.noresolv = "unset" /\ Users(user) = user
           /\ TakenOver.servers = {Ours} /\ TakenOver.noresolv = "1" /\ TakenOver # user
           /\ TakenOver # NoFile
           /\ pc \in Applies => Target = IF meta = "all" THEN TakenOver ELSE user
           /\ Cleaned = user
           /\ state # NoFile => state.noresolv \in BOOLEAN /\ state.plan \in PlanNames
           /\ ~May("edits") /\ ~May("crashes") /\ ~May("cuts")
           /\ ret \in {"idle", "start"} /\ meta \in Metas
  <1>1. user \in Own
    BY DEF BumpyInv, BumpyRecords
  <1>2. user # NoFile /\ TakenOver # NoFile
    BY <1>1, OwnSetting, TakenOverType, NamesAssumption
  <1>3. pc \in Applies => Target = IF meta = "all" THEN TakenOver ELSE user
    BY DEF Target, BumpyInv, BumpyApply
  <1>4. Cleaned = user
    BY <1>2 DEF Cleaned, BumpyInv, BumpyRecords
  <1>5. ~May("edits") /\ ~May("crashes") /\ ~May("cuts")
    BY DEF May, Bumpy, BumpyInv
  <1>6. (state # NoFile => state.noresolv \in BOOLEAN /\ state.plan \in PlanNames)
        /\ ret \in {"idle", "start"} /\ meta \in Metas
    BY DEF BumpyInv, TypeInv, TypeOK, StateFiles
  <1> QED
    BY <1>1, <1>2, <1>3, <1>4, <1>5, <1>6, OwnSetting, TakenOverType

\* readBaseline finds what the user has configured, in the file or in the backup.
LEMMA BumpyBaseline == ASSUME BumpyInv, pc = "read" PROVE Baseline = user
  <1> USE BumpyFacts
  <1>1. /\ Current = user \/ (Current = TakenOver /\ backup = user)
        /\ backup \in {NoFile, user}
    BY DEF BumpyInv, BumpyRecords, BumpyStaged, Current
  <1>2. user = [servers |-> user.servers, noresolv |-> "unset"]
    BY SettingType
  <1>3. backup # NoFile => BackupNoresolv = "unset"
    BY <1>1 DEF BackupNoresolv
  <1>4. CASE Current = user
    <2>1. ~OldTakeover
      BY <1>4 DEF OldTakeover
    <2>2. (user.servers \cup (IF backup = NoFile THEN {} ELSE backup.servers)) \ {Ours} = user.servers
      BY <1>1
    <2> QED
      BY <1>2, <1>3, <1>4, <2>1, <2>2 DEF Baseline
  <1>5. CASE Current = TakenOver /\ backup = user
    <2>1. state = NoFile \/ state.plan = "all"
      BY <1>5 DEF BumpyInv, BumpyState, Rests
    <2>2. state = NoFile => OldTakeover
      BY <1>5 DEF OldTakeover
    <2>3. (TakenOver.servers \cup user.servers) \ {Ours} = user.servers
      OBVIOUS
    <2> QED
      BY <1>2, <1>3, <1>5, <2>1, <2>2, <2>3 DEF Baseline
  <1> QED
    BY <1>1, <1>4, <1>5

LEMMA BumpyApplies ==
    ASSUME BumpyInv,
           \/ Read \/ WriteBackup \/ Files \/ Stage \/ Add \/ Commit \/ RestartDnsmasq \/ Consume
           \/ WriteState \/ LaterStepFails
    PROVE  BumpyParts'
  <1> USE BumpyFacts
      DEF BumpyInv, BumpyParts, files, history, Applies, Restores, Rests, BumpyRecords, BumpyStaged,
          BumpyApply, BumpyState, Throws
  <1>1. CASE Read
    BY <1>1, BumpyBaseline DEF Read, Current
  <1>2. CASE WriteBackup
    BY <1>2 DEF WriteBackup, Current
  <1>3. CASE Files
    BY <1>3 DEF Files, Current, Target
  <1>4. CASE Stage
    BY <1>4 DEF Stage, Current
  <1>5. CASE Add
    BY <1>5 DEF Add, Current, Target
  <1>6. CASE Commit
    BY <1>6 DEF Commit, Current, Target
  <1>7. CASE RestartDnsmasq
    BY <1>7 DEF RestartDnsmasq, Current, Target
  <1>8. CASE Consume
    BY <1>8 DEF Consume, Current, Target
  <1>9. CASE WriteState
    BY <1>9, TypeWritten DEF WriteState, Current, Target, TypeInv, Writes
  <1>10. CASE LaterStepFails
    BY <1>10 DEF LaterStepFails
  <1> QED
    BY <1>1, <1>2, <1>3, <1>4, <1>5, <1>6, <1>7, <1>8, <1>9, <1>10

LEMMA BumpyRestores ==
    ASSUME BumpyInv,
           Restore \/ RestoreStage \/ RestoreAdd \/ RestoreCommit \/ RestoreRestart \/ RestoreConsume
    PROVE  BumpyParts'
  <1> USE BumpyFacts
      DEF BumpyInv, BumpyParts, files, history, Applies, Restores, Rests, BumpyRecords, BumpyStaged,
          BumpyApply, BumpyState, Throws, Revert
  <1>1. CASE Restore
    BY <1>1 DEF Restore
  <1>2. CASE RestoreStage
    BY <1>2 DEF RestoreStage, Current
  <1>3. CASE RestoreAdd
    BY <1>3 DEF RestoreAdd, TypeInv, Writes
  <1>4. CASE RestoreCommit
    BY <1>4 DEF RestoreCommit
  <1>5. CASE RestoreRestart
    BY <1>5 DEF RestoreRestart
  <1>6. CASE RestoreConsume
    BY <1>6 DEF RestoreConsume, Undone
  <1> QED
    BY <1>1, <1>2, <1>3, <1>4, <1>5, <1>6

\* The init script: what it gives back is the user's, and what it leaves when its
\* commit is refused is as it was.
LEMMA BumpyCleanup ==
    ASSUME BumpyInv, Cleanup, pc \in {"idle", "rollback"}
    PROVE  /\ user' = user /\ edited' = FALSE
           /\ \/ flash' = user /\ staged' = NoFile /\ backup' = NoFile
              \/ flash' = flash /\ staged' = NoFile /\ backup' = backup
  <1> USE BumpyFacts DEF BumpyInv, BumpyRecords, BumpyStaged
  <1>1. CASE backup = NoFile
    <2>1. staged = NoFile
      BY <1>1
    <2> QED
      BY <1>1, <2>1 DEF Cleanup
  <1>2. CASE backup # NoFile
    BY <1>2 DEF Cleanup, Undone
  <1> QED
    BY <1>1, <1>2

LEMMA BumpyStart == ASSUME BumpyInv, Start PROVE BumpyParts'
  <1> USE BumpyFacts
      DEF BumpyInv, BumpyParts, Applies, Restores, Rests, BumpyRecords, BumpyStaged,
          BumpyApply, BumpyState
  <1>1. /\ pc' = "idle" /\ pc \in {"start", "boot"}
        /\ UNCHANGED <<state, source, meta, ret, base, user, edited, hindered>> /\ ApplyTakeover
    BY DEF Start
  <1>2. staged \in {NoFile, TakenOver} /\ Current \in {user, TakenOver}
        /\ (backup = NoFile => Current = user)
    BY <1>1 DEF Current
  <1>3. CASE UNCHANGED <<flash, staged, backup>>
    BY <1>1, <1>3 DEF Current
  <1>4. CASE TakeoverDomains /\ state # NoFile /\ state.plan = "domains"
    <2>1. UNCHANGED <<flash, staged, backup>>
      BY <1>1, <1>4 DEF TakeoverDomains
    <2> QED
      BY <1>3, <2>1
  <1>5. CASE TakeoverAll /\ (state = NoFile \/ state.plan = "all")
    <2>1. CASE Take(TakenOver) /\ backup' = IF backup = NoFile THEN Current ELSE backup
      <3>1. backup' = user
        BY <1>2, <2>1
      <3>2. \/ flash' = TakenOver /\ staged' = NoFile
            \/ flash' = flash /\ staged' = TakenOver
        BY <2>1 DEF Take
      <3> QED
        BY <1>1, <1>5, <3>1, <3>2
    <2> QED
      BY <1>3, <1>5, <2>1 DEF TakeoverAll
  <1> QED
    BY <1>1, <1>3, <1>4, <1>5 DEF ApplyTakeover, PlanNames

LEMMA BumpyWorld ==
    ASSUME BumpyInv,
           \/ \E mode \in left.plans : Deploy(mode)
           \/ Stop \/ RollbackToDirect \/ Start
           \/ Crash \/ PowerCut \/ Reboot
           \/ \E s \in Upstreams : Edit(s)
    PROVE  BumpyParts'
  <1> USE BumpyFacts
      DEF BumpyInv, BumpyParts, files, history, Applies, Restores, Rests, BumpyRecords, BumpyStaged,
          BumpyApply, BumpyState
  <1>1. CASE \E mode \in left.plans : Deploy(mode)
    BY <1>1 DEF Deploy, Current
  <1>2. CASE Stop
    BY <1>2, BumpyCleanup DEF Stop, Current
  <1>3. CASE RollbackToDirect
    BY <1>3, BumpyCleanup DEF RollbackToDirect
  <1>4. CASE Reboot
    BY <1>4 DEF Reboot, Boot, Undone, Current
  <1> QED
    BY <1>1, <1>2, <1>3, <1>4, BumpyStart DEF Crash, PowerCut, Edit

LEMMA BumpyInit == ASSUME Init, Bumpy(left) PROVE BumpyInv
  <1>1. user \in Own
    BY DEF Init, Bumpy, Own
  <1>2. user # NoFile /\ TakenOver # NoFile /\ user # TakenOver
    BY <1>1, OwnSetting, TakenOverType, NamesAssumption
  <1> QED
    BY <1>1, <1>2, TypeInit DEF Init, BumpyInv, BumpyRecords, BumpyStaged, BumpyApply, BumpyState,
       Applies, Restores, Rests

LEMMA BumpyNext == ASSUME BumpyInv, [Next]_vars PROVE BumpyInv'
  <1>1. TypeInv'
    BY TypeNext DEF BumpyInv
  <1>2. CASE UNCHANGED vars
    BY <1>1, <1>2 DEF vars, BumpyInv, Bumpy, BumpyRecords, BumpyStaged, BumpyApply, BumpyState,
       Target, Current
  <1>3. CASE Next
    <2>1. Bumpy(left)'
      BY <1>3, LessLeft, BumpyLeft DEF BumpyInv, TypeInv, TypeOK
    <2>2. BumpyParts'
      BY <1>3, BumpyApplies, BumpyRestores, BumpyWorld DEF Next
    <2> QED
      BY <1>1, <2>1, <2>2 DEF BumpyInv, BumpyParts
  <1> QED
    BY <1>2, <1>3

LEMMA BumpyAlways == Spec /\ Bumpy(left) => []BumpyInv
  BY BumpyInit, BumpyNext, PTL DEF Spec

-----------------------------------------------------------------------------
(* What it gives.                                                          *)

\* The user's own DNS setting is never lost: in calm behaviours, where any command may
\* fail (the backup is written before the section and removed after it), and where
\* plans are modest and the panel or the power dies anywhere.
THEOREM SettingKept ==
    Spec /\ (Calm(left) \/ Bumpy(left) \/ Modest(left)) => []UserSettingKept
  <1>1. CalmInv => UserSettingKept
    BY OwnSetting DEF CalmInv, CalmRecords, UserSettingKept
  <1>2. BumpyInv => UserSettingKept
    BY OwnSetting, BumpyFacts DEF BumpyInv, BumpyRecords, UserSettingKept
  <1>3. ModestInv => UserSettingKept
    BY DEF ModestInv, ModestRecords, UserSettingKept
  <1> QED
    BY <1>1, <1>2, <1>3, CalmAlways, BumpyAlways, ModestAlways, PTL

\* A stop or a rollback leaves neither a backup nor a forward file nor an entry of ours in
\* the section or in dnsmasq (restoreDnsTakeover, jbox_cleanup), for every history of
\* deploys, edits and reboots in which no command fails; with plans that leave the
\* upstream list alone also after deaths of the panel and power cuts, one of which may
\* have cut an operation short.
THEOREM GivenBackWhole == Spec /\ (Calm(left) \/ Modest(left)) => []NothingLeftBehind
  <1>1. CalmInv => NothingLeftBehind
    <2> SUFFICES ASSUME CalmInv PROVE NothingLeftBehind
      OBVIOUS
    <2>1. TypeOK
      BY DEF CalmInv, TypeInv
    <2>2. GivenBack /\ BackupUsed /\ StoppedForwardsNothing
      BY CalmTypes DEF CalmInv, CalmRecords, CalmProcess, GivenBack, StoppedForwardsNothing
    <2> QED
      BY <2>1, <2>2 DEF NothingLeftBehind
  <1>2. ModestInv => NothingLeftBehind
    <2> SUFFICES ASSUME ModestInv PROVE NothingLeftBehind
      OBVIOUS
    <2>1. TypeOK
      BY DEF ModestInv, TypeInv
    <2>2. GivenBack /\ BackupUsed /\ StoppedForwardsNothing
      BY ModestFacts DEF ModestInv, ModestRecords, ModestForward, GivenBack, StoppedForwardsNothing
    <2> QED
      BY <2>1, <2>2 DEF NothingLeftBehind
  <1> QED
    BY <1>1, <1>2, CalmAlways, ModestAlways, PTL

\* A deployed plan is what dnsmasq runs, also after a reboot or a power cut
\* (jbox_apply_takeover copies the state file).
THEOREM PlanKept ==
    Spec /\ ((Calm(left) /\ Clear(left)) \/ Modest(left)) => []PlanInForce
  <1>1. CalmInv /\ CalmClear => PlanInForce
    <2> SUFFICES ASSUME CalmInv, CalmClear, pc = "idle", on, ~edited
                 PROVE  running = CASE meta = "all" -> [uci |-> TakenOver, forward |-> FALSE]
                                    [] meta = "domains" -> [uci |-> user, forward |-> TRUE]
                                    [] OTHER -> [uci |-> user, forward |-> FALSE]
      BY DEF PlanInForce
    <2> USE CalmFacts, CalmTypes
    <2>1. running = [uci |-> flash, forward |-> installed]
      BY DEF CalmInv, TypeInv, TypeOK, CalmProcess
    <2>2. CASE meta = "hijack"
      <3>1. flash = user /\ ~installed
        BY <2>2 DEF CalmInv, CalmRecords, CalmClear, Rests
      <3> QED
        BY <2>1, <2>2, <3>1
    <2>3. CASE meta = "all"
      <3>1. flash = TakenOver /\ ~installed
        BY <2>3 DEF CalmInv, CalmProcess, Written
      <3> QED
        BY <2>1, <2>3, <3>1
    <2>4. CASE meta \in {"none", "domains"}
      <3>1. flash = user
        BY <2>4 DEF CalmInv, CalmRecords, CalmState, Rests
      <3>2. installed = (meta = "domains")
        BY <2>4 DEF CalmInv, CalmProcess, Written
      <3> QED
        BY <2>1, <2>4, <3>1, <3>2
    <2> QED
      BY <2>2, <2>3, <2>4 DEF Metas
  <1>2. ModestInv => PlanInForce
    <2> SUFFICES ASSUME ModestInv, pc = "idle", on, whole, ~unread
                 PROVE  running = CASE meta = "all" -> [uci |-> TakenOver, forward |-> FALSE]
                                    [] meta = "domains" -> [uci |-> user, forward |-> TRUE]
                                    [] OTHER -> [uci |-> user, forward |-> FALSE]
      BY DEF PlanInForce
    <2> USE ModestFacts
    <2>1. running = [uci |-> user, forward |-> installed]
      BY DEF ModestInv, TypeInv, TypeOK, ModestRecords, ModestForward
    <2>2. meta \in {"none", "domains"} /\ installed = (meta = "domains")
      BY DEF ModestInv, ModestPaths, ModestForward
    <2> QED
      BY <2>1, <2>2
  <1> QED
    BY <1>1, <1>2, CalmAlways, ClearAlways, ModestAlways, PTL

=============================================================================
