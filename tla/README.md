# TLA+ verification of J-Box

J-Box turns an OpenWrt router into a transparent proxy. A Node.js panel
(`src/panel/server`) keeps the profile, generates a sing-box configuration and
deploys it; a procd init script (`src/openwrt/initd/jbox`) starts and stops the
kernel (sing-box) and, without the panel, takes over or gives back dnsmasq and
the firewall; `src/scripts/update.sh` replaces all of it in place.

What must not go wrong is seldom inside one function. It is the agreement
between pieces of state that several actors change: the kernel, the metadata
the init script goes by, dnsmasq's upstream, the autostart flag, the IPv6
block, the records beside them. These modules model the actors and check the
agreement.

    cd tla
    tlc -workers 2 -config Deploy_queue.cfg MCDeploy
    tlapm DeployLockProofs.tla
    tlapm DeployProofs.tla

and likewise for the other modules whose name ends in `Proofs`.

`PROJECT.json` lists the runs, the lines every definition stands for (`map`),
one mutant per property and the hazards the properties are for.

## 1. Inventory

### Components modelled

| component | state | operations | properties that make it correct |
|---|---|---|---|
| deploy lock (`api/deploy-runner.mjs` withDeployLock) | one record in the store: pid, token, time | look, write, look again, heartbeat, release | exclusion as far as a store without compare-and-swap gives it; no record left behind; nobody locked out for good |
| deploy queue (`api/deploy-runner.mjs`) | a promise chain, the stop generation, the deploy serial, deployState | runDeploy, runExclusive, cancelPendingDeploys | the user's last action decides; every job ends |
| deploy pipeline (`system/deploy.mjs`) | config.json, config.meta.json, dnsmasq, firewall, procd instance | deployConfig step by step, rollbackToDirect, lateCrashWatch | metadata describes the running kernel; a clean rollback really is direct access |
| service control (`api/service.mjs`) | autostart flag | stop, rollback | a stop that was answered stays true |
| init script (`openwrt/initd/jbox`) | conf-dir file, uci dhcp and firewall | start_service, stop_service, jbox_cleanup, jbox_apply_takeover, watch loop | without the panel the router comes back with DNS that works |
| DNS takeover (`system/dns-takeover.mjs`) | uci dhcp (staged, committed, loaded), backup file, state file, forward file | applyDnsTakeover, restoreDnsTakeover | the user's own DNS setting is never lost and is given back |
| failover manager (`system/failover-manager.mjs`) | lanes and their health, streaks, current lane, pending reordering, saved copy | tick, round, switch, refresh, start, stop | a healthy lane is not left for a worse one; all-failed means all failed; recovery |
| updater (`scripts/update.sh`) | component directories, status file, cancel flag, lock directory | dispatch, cancel, prechecks, download, exchange, rollback, CLI deploy | all or nothing; one worker; an answered cancellation is honoured; the panel and a kernel that ran come back |
| subscriptions (`api/subscriptions.mjs`) | the list and the pool of nodes, two records | create, refresh, edit, reorder, delete | a refresh replaces exactly its own nodes and takes back nothing the user did meanwhile |
| scheduler (`system/scheduler.mjs`) | schedule state file | ticks: what is due is refreshed, then deployed | nothing twice, nothing forgotten; does not undo a stop |
| rule lists (`system/rule-lists.mjs`) | two compiled files per list, rule-lists.json | seed, keep, split, fetch, fall back, record | the record says what is on disk; an old copy is used while the source is silent |
| traffic collector (`system/traffic-collector.mjs`) | readings and pending rows in memory, a database | poll, flush with put-back, prune | no byte twice; days, hours and parts agree |

How they interact: the HTTP handlers, the scheduler and the failover manager run
in one Node process and interleave at every `await`. The command line deploy
(`cli/deploy.mjs`, started by update.sh) is a second process, with its own queue;
the two agree only through the lock record. The panel drives the init script with
`start`, `stop`, `restart`, `enable`, `disable`; the init script reads what the
panel wrote (metadata, state file, backup) and is also run by procd at boot, at
shutdown, and after a crash. LuCI changes the same uci sections. The failover
manager reads the metadata of the last deploy and talks to the kernel over HTTP,
as do browsers. The kernel dies when it likes.

### Components not modelled yet

| component | state and operations | hard behaviour | properties it should have |
|---|---|---|---|
| latency scheduler, history | one probe at a time in a fixed order, a ring of samples | order kept across config changes | every node is probed again and again |
| panel server (`index.mjs`): sessions, lock-out, controller proxy, WebSocket relay | tables in memory, persisted sessions | eviction at a limit, revocation by a password change | a revoked session never passes |
| DNS rewrite server | UDP socket, rules, policy cache | loops and long chains, stale cache | an answer agrees with the rules |
| DNS filter observer | bounded queues | overflow | counts do not exceed what was seen |
| selection sync (front end and `penetration.mjs`) | remembered selections | clash with failover | a failover group is not overwritten |
| configuration engine (`engine/*.mjs`) | none, a pure translation | size | modelled only as the modes it decides |
| storage (`store/jbox-store.mjs`) | one row per key in the SQLite table app_storage, which panel and command line both open | two processes that read a key and write it later | used in DeployLock as atomic get, set, delete of one key |
| backup, shares, profile and group API, LAN probe, diagnostics, conflicts, firewall text, front end, installation, LuCI, CI | read-modify-write of one store, or read-only | little | - |

### Hard behaviours

- steps of jobs and late watches interleave at every await;
- a check made before an await is used after it (`isStale`, the status look of
  the scheduler, `laneForNow`, the heartbeat);
- commands fail one by one, in the pipeline and in its own rollback;
- power goes between any two writes; /tmp is lost, flash is kept, staged uci
  changes are lost;
- the panel dies while init and kernel live on;
- an HTTP request is obeyed and its answer lost;
- records (backup, state file, metadata, saved lanes) describe different moments.

`PROJECT.json`, "hazards", lists them at their lines.

## 2. Plan

Order of work. Those marked done exist; the others are for later.

1. **DeployLock** (done), which implements the abstract **Exclusive** (done), with
   proofs in **DeployLockProofs** (done).
2. **Deploy** (done): queue, pipeline, late watch, init watch loop, upgrade. It
   takes the lock as exclusive, which is what DeployLock gives outside an overrun.
3. **DnsTakeover** (done): what is behind the three values of `dns` in Deploy.
4. **Failover** (done).
5. **Update** (done), which implements the abstract **AtomicInstall** (done).
6. **TrafficCollector**, **Subscriptions** with the scheduler, **RuleLists** with
   proofs in **RuleListsProofs** (done).
7. Proofs: **DeployProofs**, **FailoverProofs**, **UpdateProofs**,
   **DnsTakeoverProofs**, **SubscriptionsProofs**, **TrafficProofs** (done). Every safety
   property of the passing runs but BootIsVerified is the statement of a theorem, in full
   or for the budgets where it holds.
8. Abstract specifications still worth stating: *Router* (kernel and DNS are both on or
   both off at rest) for Deploy; *Chooser* (the highest lane that works, in the end) for
   Failover; *Ledger* (what was passed is what is kept) for TrafficCollector.
9. Access and sessions of `index.mjs`; LatencyScheduler; DnsRewrite as a recursive
   function checked against reachability over all small rule sets.
10. Deploy composed with DeployLock (two real processes) and with DnsTakeover.

## 3. The modules

A module `X` has the specification, `MCX` the constants for TLC, `X_<run>.cfg`
a run, `XProofs` the proofs. What may happen from outside (deploys, deaths, failing
commands and so on) is a record of budgets, `left`, that such steps spend; a run starts
with any record of a set, its scenarios, named in the MC module (`Budgets <- All`).
Deploy counts instead what has happened (`count.used`) against its budget, because its
properties speak of how much went wrong.
Each module has one invariant that holds its `TypeOK` together with those of its parts
that say the pieces of state agree: `RouterAgrees` (Deploy), `NothingLeftBehind`
(DnsTakeover), `ManagerAgrees` (Failover), `Intact` (Update), `AccountsAgree`
(TrafficCollector), `NodesFollowList` (Subscriptions), `RecordAgrees` (RuleLists).
Definitions whose names end as a mutation (`HeldInverted`, `WriteConfigOnly`, ...) stand
beside the definition they are wrong versions of; nothing in the specifications uses them.

### DeployLock

`withDeployLock` between awaits: `Begin`, `LookFree`/`LookHeld` (getLock and
`held`), `Write`, `CheckMine`/`CheckLost` (the confirming read), the timer
`BeatRead` / `BeatWrite`, `Finish`, `Unlock`; around it `Crash`, `Restart` (a new
process, which may get the pid its record names) and `Tick`. Time is counted in
retry periods; the timestamp of the record is kept as its age, cut off at the
limit beyond which nothing depends on it. History variables say which reads are still
true (`fresh`), who has been stalled since its last write (`late`), and whether the writer
of the record has died since (`orphaned`); `overrun` is set by a write on an outdated read
or over a stalled holder. `NoOrphanRecord` has two halves: as long as its writer lives, a
record belongs to an attempt that will release it; once the writer is dead, nobody takes
the record for his own, not even who comes back with its pid, so that it can only grow
stale. That it is then taken over is NobodyLockedOut.

The store has no compare-and-swap, so plain mutual exclusion is false; the
comment at deploy-runner.mjs:317-318 admits a window of milliseconds.
`ExclusionUnlessOverrun` says that window, and a stalled holder, are the only ways:
whatever else happens (crashes, reused pids, timeouts, late heartbeats), two
attempts are never inside together.

`Exclusive` is what callers of withDeployLock rely on: nobody enters while somebody is
inside, until `broken`. `ImplementsExclusive` maps `inside` to the processes in `fn` and
behind it and `broken` to `overrun`; it is checked and proved.

### Deploy

A thread is an async function under way: the panel's job, the command line's job,
or the late watch of a deploy. `pc` names the next piece of code between two awaits
that somebody else can see: `begin, prep, config, meta, takeover, firewall, gate,
restart, verify, fatal, rollback steps, report, flag`. The queue holds deploys with
the stop generation they were queued at, and stops and rollbacks. The router is
`core` (down, up, failing, lost), `dns`, `v6block`, `autostart`, `conf`, `meta`,
`loaded`. `failing` is a kernel that died while a watch or the init loop is to
see it; `lost` is one that died after everybody stopped looking, about which the
code promises nothing.

Abstractions: generating and checking the configuration is one step that succeeds
or fails in any of its stages; a profile is its DNS mode and whether auto_redirect
is on. Of the takeover of dnsmasq there is `dns`: `own`, `core` (queries go to the kernel,
and there is a backup to undo it by), and `names` (the init script has put the forward file
of listed names in place again after a stop, which leaves no backup: a later deploy in
hijack mode then finds nothing to restore, deploy.mjs:212). Failing commands are counted in
two budgets: `faults`, and `flags` for those that set or clear the autostart flag.

`Cleanup` and `StartCore` are the init script's stop and start as one step each:
they run in one shell under procd's lock and wait for nobody.

### DnsTakeover

One uci section in three copies (`staged`, `flash`, `running`: what dnsmasq last
read), the records `backup` and `state`, the forward file in data and in the
conf-dir. `applyDnsTakeover` is `Read, WriteBackup, Files, Stage, Add, Commit,
RestartDnsmasq, Consume, WriteState`; `restoreDnsTakeover` is `RestoreStage,
RestoreAdd, RestoreCommit, RestoreRestart, RestoreConsume`, with `Revert` for the
catch. Any of the commands may fail. `Cleanup` and `ApplyTakeover` are the two
shell functions, as one step each. `Edit` is a change in LuCI, `Crash` the death of
the panel alone, `PowerCut` and `Reboot` what they say.

The history variable `user` is what the user has last configured: `edited` holds
from his edit to the next time the panel reads the list, when nothing can be
expected to know it. `hindered` says that the last attempt to give dnsmasq back had a
command that failed, or that an operation was cut short since; `unread` that the conf-dir
was written and dnsmasq was not restarted since.

`NothingLeftBehind` demands of a router whose kernel is stopped, with nothing under way,
that there is no backup unless `hindered`; and without a backup, that file and process have
the user's setting, that no forward file is installed, and that dnsmasq has none in memory
unless `unread`. A stop that cleans nothing up is against it.

Abstractions: a list of servers is a set; the forward file is there or not; the
rebind exceptions for rewrite rules are left out.

### Failover

One failover group. A round is `Look` (GET /proxies and the inference of the lane in
use), `Probe`, `Assess` (lane health from the probe results), `Decide`, `Put`,
`ReadBack`; before it `Tick` loads the metadata (`LoadMap` with the reordering
protocol) and between them `Deploy`, `KernelStarts`, `KernelDies`, `Flip` (a node
fails or recovers), `Select` (another client), `Refresh`, `Restart` of the panel.
Lanes in memory (`order, health, fail, upFor, current, reorder`) and on disk
(`disk`) are separate.

Abstractions: a lane is one outbound, which may be shared by two lanes or absent
(an empty lane); the private url-test group of a lane with several nodes is part
of the outcome of its probe (up, down, unknown). Health that stays is counted in
units of the hold, as `upFor`. The setup of the group (which lanes share an outbound, the
orders a deploy may bring, restorePrimary, what may befall it) is chosen from `Groups` at
the start and does not change; `Found` is what the panel may then find on disk, a record
of an earlier run of the same order or one that knows no order.

### Update

`scripts/update.sh`, command by command where the order matters. `Detach` is the dispatcher
with its check for a running worker, `ByHand` a run in the foreground, `Cancel` the cancel
request. A worker is `MakeLock` (mkdir), `LookAtLock`, `TakeLock` (rm -rf), `Remake` (mkdir
again), `OwnLock` (the shell creates the pid file) and `NotePid` (the pid is in it, and the
first status), then `Precheck, Cancelled, Plan, Fetch, Unpack, Last` (each checkpoint), then
the exchange: `Commit, StopServices, ClearOld, MoveOut, MoveIn, Meta, KeepScripts,
InstallScripts, DropOld, StartPanel, Finish`, with `UndoPart, UndoFiles` for the rollback
and `Exit` for the trap. `Interrupt` is a signal, `Kill` a kill or a lack of memory,
`PowerCut` loses /tmp and keeps the flash. The script runs under set -e, which ends it
without a word in four places: at the cat of a pid file that is not there (update.sh:816,
`LookAtLock`), and where an old component cannot be removed or a script not made executable
(:1145, :1188, :1191, `ClearOld`, `DropOld`). `owed` are the workers a cancel request was in
time for (`Heeds`): a checkpoint is still ahead of them and nothing that clears the flag.
For a worker that has no lock yet, that takes that nobody is at work whose last checkpoint
is behind it, since the end of that one removes the flag. `erased` are those of them whose
request update.sh has taken away itself: the dispatcher for another update (:662), or a run
by hand once it has the lock (:826). The request was answered and is lost there;
CancelHonoured says that it is lost nowhere else.

An empty pid file counts as abandoned, also in the instant between its creation and the
write by a worker that lives. A look in that instant costs a budget of its own, `races`,
which is 0 in the runs: Update_runs is about everything else, and Update_lock does not need
it. With it the exceptions `unguarded` and `broken` are merely reached by one more way
(checked once with TLC, 8.2 million states; the proofs cover any number of such looks).

`AtomicInstall` has two steps, Replace and Break. `ImplementsAtomicInstall` maps
`installed` to what was installed when the exchange under way began, or to the
directories when there is none: nobody outside sees half an update, unless a worker died
among its renames, a rollback failed, or two workers were at it.

Abstractions: three components; a download and its checks succeed or end the run; files
that are copied with a warning only are left out.

### TrafficCollector

`Poll` reads the connection table (the await), `Apply` books what was added since the
last reading, under the day and the hour: `TotalGrowth`, `LoopGrowth` (connections that
go round through the router's dnsmasq), `NodeGrowth`. `Tick` is the timer: the flush
(all pending rows leave memory, and return when the write fails) and, once a day, the two
prunes. Around them `KernelStarts, KernelDies, Pass, Close, HourPasses, EditKeep,
PanelStarts, PanelDies`. History: `due`, what each day should have in memory or store;
`floor`, the oldest day never out of term; `unseen`, a restart of the kernel behind the
back of a reading; `neglected`, a prune that failed.

`AccountsAgree` is its types with `PartsWithinTotal` and `HoursAgree`; `KeptUp` is
`DetailTerm` (detail by hour is deleted in time, also after the panel was off or a row was
refused; for how long, DetailGoes in section 5 says) with `Settles` (in the end everything
is in the database).

Abstractions: one direction and one dimension; months are days of equal length; the
table is read in one piece.

### Subscriptions

The handlers of `api/subscriptions.mjs`, cut at the await of the fetch: `BeginCreate,
BeginRefresh, BeginEdit` and `Finish` or `GiveUp`; `EditInPlace, Reorder, Delete` do not
wait. `PoolThenList` and `ListThenPool` are the two writes of each, with the death of the
panel between them as an alternative. The scheduler is `TickBegins` (which subscriptions
the plans make due, by the day and hour), `TickRefreshes`, `TickFails`, `TickSaves` (the
state file after each), `TickNext` and `TickAsks` (the look at the kernel and the deploy).
Deploys are their effect on the nodes the kernel runs with: `DeployReads`,
`DeployRestarts`, `DeployEnds`, `DeployFails`.

Abstractions: the nodes of one subscription are one block, what its address served at a
time; time is in half days; at most one request waits for a fetch besides the scheduler's.

### RuleLists

`ensureRuleLists`: `Begin`, `Seed` (lists that ship with the panel), `Take` (a list is
kept, split out of its old file, or to be fetched), `Fetch`, `CompileDomain` and
`CompileIp` (two files, one after the other, in place), `CompileFails`, `FallBack` (the
old files, or the end of the deploy), `Finish` (the record of all lists at once), then
`Install` or `Refused` for the configuration that refers to the files. Around them
`Dies`, `GetsOld` (a day has passed), `World` (edits of the profile, outages, changed
sources). History: `content`, what the files of a list were last made of; `loose`,
the lists the record does not describe; `lost`, the lists that may have lost some of their
content. `RecordAgrees` asks of a list that is not loose that record and files name the same
files, and of every list that is not lost that its files together hold all of `content`.

Abstractions: a list is a set of conditions, each of a domain or of an IP; its tag and its
address are one; whether a record is fresh is a bit; torn writes of a file are left out.

## 4. What the runs check

| run | properties | shows |
|---|---|---|
| DeployLock_two | TypeOK, ExclusionUnlessOverrun, NoOrphanRecord, LiveHolderKept, ImplementsExclusive, NobodyLockedOut | two processes, a crash, restarts with a reused pid, stalled heartbeats, the clock; it implements Exclusive; every attempt ends and the lock is always obtained again |
| Deploy_queue | RouterAgrees, StopIsFinal, CancelledIsFollowed, RestoredMeansDirect, BootIsVerified | two deploys and two stops or rollbacks in every order with one failing step; two deploys and a stop with two failing steps, in any stages and their rollbacks, and a failing enable or disable; one death of the kernel |
| Deploy_shared | RouterAgrees, UpgradeKeepsKernel, QueueDrains, DeadCoreReleased | update.sh at any moment of a deploy or of its late watch; panel, background task and command line behind one lock while a step fails and the kernel, the panel or the power dies: every job ends, and unless a command failed dnsmasq does not stay at a dead kernel |
| DnsTakeover_safety | NothingLeftBehind, UserSettingKept, PlanInForce | all plans with one edit and one failing command; plans of dnsmasq mode over two reboots; the panel dies anywhere and the power goes: the user's setting is never lost, and a stop leaves nothing behind unless its own way back failed or was cut short |
| Failover_group | ManagerAgrees, NeverDownhill, RejectedWhenAllFailed, Recovers, OrderIsFollowed | three lanes with backups swapped, or two of them on one node with a new primary and a lane dropped; flips, a lost message or kernel death, a restart, a selection by hand |
| Update_runs | Intact, CancelHonoured, ExchangeRepairs, ImplementsAtomicInstall, BackAgain | two workers and a cancel request; a second dispatch beside a cancelled one; two failing commands, in the rollback too, and those at which set -e ends the script; a signal; a kill and a second run; a power cut: one worker unless its lock was removed, no component missing, everything or nothing, and the panel comes back |
| TrafficCollector_days | AccountsAgree, NothingTwice, Exact, KeptUp | deaths of kernel and panel, a refusing database, midnight, many days with the panel off, a changed term |
| Subscriptions_day | NodesFollowList, SavedStays, NewsReachesKernel, DeletedStaysDeleted, Settles | requests and scheduled refreshes that overlap, changes upstream, failing fetches and deploys, a death between any two writes |
| RuleLists_lists | RecordAgrees, DnsSeesNoIps, Settles | two lists, one that ships, new or from files of an earlier version, over outages, changed sources, edits of the profile, failing commands and deploys, a death |

### Runs that find a disagreement

Each checks one property that a comment of the code states, and TLC finds a
behaviour of the code against it. `PROJECT.json`, "findings", quotes the comments.

- **Deploy_stop_watch** (StopIsFinal): the late watch passes `isStale` and
  `isCancelled`, a stop runs and is answered, the watch sees no kernel, rewrites the
  configuration and restarts it.
- **DnsTakeover_noresolv** (UserSettingKept): plan all, stop, plan all, without any
  fault. The state file outlives the stop, so the second takeover takes the plan to be
  in force still, and without a backup records the user's `noresolv` as unset.
- **Update_lock** (LockExcludes): a worker is killed. Two later ones look at its lock and
  both find a dead pid, or an empty pid file. The first removes the directory, makes its own
  and goes to work; the second removes that one (update.sh:820), and both work.

### What the passing runs leave out, and why

The passing runs are set up without the step that leads to a disagreement, or the
property names it as its exception. Other budgets show these with TLC as well:

| change of a run | property that fails | what happens |
|---|---|---|
| Deploy_queue with background = 1 | StopIsFinal, CancelledIsFollowed | the scheduler reads that the kernel runs, a stop is answered, the scheduler deploys (scheduler.mjs:91) |
| Deploy_queue with lateWatch | RouterAgrees | the late watch of one deploy and the next deploy write configuration and metadata in turns (deploy.mjs:322) |
| exception in MetaMatchesKernel: losses | RouterAgrees | the power goes between configuration and metadata (deploy.mjs:165) |
| exception in MetaMatchesKernel: one fault | RouterAgrees | the new metadata is written, the takeover throws and the stop of its rollback fails too: the old kernel runs on beside the metadata of the new configuration (deploy.mjs:165) |
| exception `flags` in BootIsVerified | it | a deploy fails and `disable` fails behind it, which is only logged (deploy-runner.mjs:445): the flag of the deploy before stands over a configuration nobody has seen running |
| exception in BootIsVerified: a stop and a fault | it | a stop comes behind the last check of a deploy, which therefore leaves flag and kernel to it; then the stop of the kernel fails, and the stop ends before it clears the flag; the user was told |
| Deploy_shared, BootIsVerified added | BootIsVerified | update.sh kills a late watch that has rewritten the configuration and not started it yet |
| Deploy_queue with upgrades = 1 | BootIsVerified | the kernel has died unseen; update.sh kills a deploy that has written its configuration, finds no kernel to bring back, and the flag of the deploy before stands (update.sh, core_was_running) |
| Deploy_queue with upgrades = 1 | StopIsFinal | the panel answers a stop while jbox-deploy of update.sh waits for the lock, in a process whose queue the stop does not reach; then it deploys |
| Deploy_queue with upgrades = 1 | CancelledIsFollowed | update.sh kills the panel with the stop that a cancelled deploy counts on; it stops the kernel itself one command later |
| Deploy_queue with lateWatch | RestoredMeansDirect | the late watch restarts the kernel between the rollback of the next deploy and its report; the other four properties of the run fail with it too |
| Crashes of DnsTakeover with plan all | UserSettingKept | the panel dies between uci delete and commit; the next deploy backs up the emptied list (dns-takeover.mjs:169) |
| Crashes of DnsTakeover with an edit and hijack | UserSettingKept | a restore undoes an edit made under plan domains and the panel dies before it is done |
| Reboots of DnsTakeover with cuts = 1 | UserSettingKept | after a cut an upstream is added beside our entry: noresolv=1 of the takeover is recorded as the user's (dns-takeover.mjs:110) |
| Reboots of DnsTakeover with hijack | PlanInForce | domains, reboot, hijack: without a backup nothing is restored and the forward file stays (deploy.mjs:215) |
| exception `unread` in PlanInForce, NothingLeftBehind | both | the forward file is written and the panel dies, or the commit of a stop fails, before dnsmasq is restarted: the next deploy finds the file installed and does not restart it, and after the stop dnsmasq goes on forwarding to a kernel that is gone (dns-takeover.mjs:215, initd/jbox:332) |
| exception `hindered` in NothingLeftBehind | it | a command of the way back fails, or the panel dies in it: the backup stays on purpose, for the next stop or deploy |
| exception `erased` in CancelHonoured | it | a worker whose cancellation was answered has no pid in the status yet, and a second --detach removes the flag (update.sh:662); or a run by hand gets the lock between two others and removes it (:826): the update goes on |
| NothingLost of what was in place or beside it when the last exchange began | it | a run killed between its renames leaves a component as .old only; the next one removes every .old before it moves anything (update.sh:1144) and is interrupted there: the component is nowhere, although the comment at update.sh:1108 and the advice of swap_failed count on the .old. NothingLost says what is left: what was in place when the last exchange began stays in place or beside it, and what was missing then is in the stage |
| exception `broken` in ImplementsAtomicInstall | it | a run is killed in the exchange after meta.json was moved: the next run finds the release installed and ends as done, on half of it |
| exception `torn` in PoolFollowsList | it | the panel dies between the two writes of a deletion: the nodes stay, and activeNodes sends nodes nobody lists to the kernel until the next rebuild (subscriptions.mjs:526) |
| SavedStays counts an edit as saving all it read | - | a PATCH that fetches writes back the settings it read before: a switch turned meanwhile is turned back (subscriptions.mjs:589) |
| exception `excused` in NewsReachesKernel | it | the scheduler looks while another deploy has the kernel down, or the panel dies between refresh and deploy: fetched nodes wait for the next deploy of anybody, since a repeat finds them unchanged (scheduler.mjs:90) |
| exception `unseen` in PartsWithinTotal, Exact | both | a kernel that restarts between two readings and has passed more than before is not seen to have restarted |
| exception `loose` in RecordAgrees | it | a list not used by one deploy is dropped from the record while its files stay, and a deploy that stops for another list, or dies, has replaced files and not written the record. Used again while the source is silent, a list of IPs only is referred to by its missing domain file and the kernel refuses the configuration (rule-lists.mjs:288) |
| exception `lost` in RecordAgrees | it | the file of the domains of such a list is split as if it were of the old format, and its IP file, which the split finds empty, is deleted; so it goes for a list that a death or a stop overtook between its split and the record. Also lost are what a failing command or a death leaves of a list between its two files. All of it until the source answers (Settles) |

Met while modelling and not made a property:

- the watch loop of an older start may remove the IPv6 block of a newer deploy
  (initd/jbox:92); a deploy that throws before it has touched anything switches autostart
  off under a running kernel (deploy-runner.mjs:442, stage `error`); a stop takes back
  what the user edited under plan domains (initd/jbox:296);
- a deploy during a failover round is not seen by `stale()` (failover-manager.mjs:262),
  because `version` changes only between rounds; the header (line 25) holds a new primary
  to the rules of recovery, while the comment at :336 and the code move to it at once;
- a worker killed between making the lock directory and creating its pid file
  (update.sh:815-823) locks all later ones out until /tmp is cleared: each ends at the cat of
  :816 without a word, and a dispatched one leaves the status at `starting`, which still
  answers a cancel request. The model has it (LookAtLock), and no promise of the code is
  about it but the takeover of :813;
- a worker killed before its first status leaves `starting` without a pid;
- the last minute of traffic is lost with the panel: shutdownServer (index.mjs:1342),
  which would write it, is called by tests only; a clock that jumps by more than three
  days leaves detail by hour until the next start;
- a deploy that stops at `rulesets` has, against deploy-runner.mjs:377, touched the
  system: files of the configuration in force may be gone, and the kernel does not come
  up at the next boot;
- a slower, older fetch of a subscription may overwrite newer nodes until the next one;
- dns-filter.mjs:52 speaks of a shared schedule-state.json, paths.mjs:27 has two.

### Bounds

The bounds are the budgets: they count events from outside (deploys, stops, faults,
deaths, edits, crashes), never steps of the code. Two deploys are what is needed for one
to be queued, watched or stale while another runs; a third, in DnsTakeover, for a state
left by one and misread by the second to be acted on. One fault at a time is enough to
leave every partial state, since each command may be the one; Update and the second
scenario of Deploy_queue have two, for the one in the rollback of the other. Two
upstreams distinguish lost, kept and added; three lanes distinguish primary, current and
better; two flips are a node that fails and recovers, or two that fail, and with two
lanes on one node a single flip and one lost probe leave no lane up. A failure threshold
of two is the least at which one bad round must not switch. Two workers are what meets
at a lock, and two releases, one of which brings a runtime of its own, tell a full
package from a partial one. Two subscriptions have an order, and a third identifier is
for one that is new. A day of the collector has two hours and detail is kept for one
day: six hours take it past its term, and four the totals past a term shortened to one
day. A rule list has at most one condition of a kind at a time, and two that tell old
content from new.

Budgets that need each other are in one scenario, others are not multiplied: each MC
module says what its scenarios are for. Deploys in RuleLists and days in Subscriptions and
RuleLists are without bound: their states are finite without one. Symmetry is used for
the upstreams of DnsTakeover_safety, which has no liveness.

Deadlock is checked for DeployLock, Failover, Subscriptions and RuleLists. In Deploy,
DnsTakeover, Update and TrafficCollector the system comes to rest when the budgets are
spent, so their runs turn it off; `QueueDrains`, `BackAgain` and `KeptUp` say what that
rest is like.

### Fairness

- DeployLock: weak fairness of each process's own steps (the event loop runs what is
  ready, somebody asks again, procd restarts a panel); strong fairness of time, which
  passes although steps that take none keep happening, and of `Finish`, since the
  pipeline inside the lock ends but may be delayed by heartbeats.
- Deploy: weak fairness of every step of a running thread (every command has a
  timeout), of the deploy the scheduler has decided on, of the steps of update.sh and of
  the watch loop of the init script (a shell loop with a count); strong fairness of
  taking the lock, which is retried until it is free or the wait is over. No fairness
  of faults, deaths, requests.
- Failover: weak fairness of the rounds (the timer of `start`) and of the kernel's
  start by procd, strong fairness of a decision on a round whose probes were
  answered: a probe of a working node that is retried for ever is answered again
  and again.
- Update: weak fairness of each worker, a shell script that is scheduled; its download
  ends, which curl without a time limit leaves to the connection. None of kills, signals
  or requests.
- TrafficCollector: the poll reschedules itself whatever came of it, the flush has an
  interval of its own, procd starts a panel that ended.
- Subscriptions: the scheduler ticks every minute, fetches have a time limit, deploys end,
  procd starts the panel, days go by. Requests need none: what waits for a fetch may wait.
- RuleLists: a deploy that has begun goes on; a day passes also between deploys (strong,
  since a deploy may always be under way). That deploys are asked for, and that the
  sources in use answer in the end, is the assumption of `Settles` itself.

## 5. Proofs

`DeployLockProofs` proves for any set of processes, any tokens, any bounds and any
times with 0 < Beat < Stale:

| theorem | states |
|---|---|
| TypeCorrect | Spec => []TypeOK |
| Exclusion | Spec => []ExclusionUnlessOverrun |
| NoOrphan | Spec => []NoOrphanRecord |
| HolderKept | Spec => LiveHolderKept |
| Implements | Spec => ImplementsExclusive |

They assume `TimesAssumption` and `NamesAssumption` of DeployLock, which TLC evaluates
in the runs. Neither exclusion nor the action property is inductive. `IInv` adds:

- `Named`: a process has a token exactly while it is in withDeployLock, and no two
  have the same, so a record has at most one owner;
- `Refreshed`: the owner of the record is past its write, and unless it was stalled
  the record is no older than its heartbeat timer, hence younger than Stale;
- `Decided`: a decision that is still up to date (`fresh`) is about a record that is
  nobody's, or of a stalled process, or the decider's own;
- `InsideMine`: without an overrun whoever is inside owns the record;
- `Owned`: the record's token is the one its process has now, until its writer dies; from
  then on nobody has it.

`InsideMine` and the uniqueness of the owner give exclusion; `Refreshed` and
`Decided` give HolderKept: to displace a holder on time one must have decided on an
outdated read. The proof has one lemma per action and one step per conjunct. Implements
takes from it that whoever enters finds nobody inside unless the step overruns: every
action either leaves who is inside alone (StaysIn), or lets one go (Leaves), or is
CheckMine, and maps to Leave, Enter or Break of Exclusive or to a stutter.

`RuleListsProofs` proves for any lists, conditions, contents, shipped lists and budgets,
so for any number of edits, outages, failures and deaths:

| theorem | states |
|---|---|
| Invariance | Spec => []IInv |
| RecordSafe | Spec => []RecordAgrees |
| DnsSafe | Spec => []DnsSeesNoIps |

From `RuleListsAssumption`: domain and IP conditions are disjoint, and what is served or
shipped consists of them. `RecordTellsFiles` speaks of the record, which is written once,
at the end of a deploy, after many files were replaced; the induction has to follow what
the deploy knows in between. `IInv` is the types and

- `Underway`: a list is under way while one is fetched or compiled;
- `Purity`: whatever is referred to as split, in the record, in the configuration in
  force and in both tables of the deploy, has a first file without an IP condition, and
  so has the list under way once that file is written;
- `Account`: the lists the deploy wants are those to do, the one under way and those
  with an entry, and one with an entry has a file unless a command failed on it;
- `Truth`: the record is right about the lists not `loose`, the new table about the lists
  done that are `clean`, and the old one about the clean lists still to do; a list that is
  not `lost` is whole, up to the one whose second file is still to be written, and that is
  covered by what it is being compiled of.

`Frame` says what a step about one list leaves true of the others; `Enters`, `GoesOn` and
`FallsBack` are the three ways the work on a list goes on, and each action is one of them.
TLC found `IInv` to hold on the instance of RuleLists_lists before it was proved.

`UpdateProofs` proves for any set of workers, any releases, any shared runtime and any
number of runs, cancel requests, failing commands, signals, kills and power cuts:

| theorem | states |
|---|---|
| Invariance | Spec => []IInv |
| NothingMissing | Spec => []Intact |
| RequestHonoured | Spec => []CancelHonoured |
| RunRepairs | Spec => []ExchangeRepairs |
| Atomic | Spec => ImplementsAtomicInstall |

From `NamesAssumption` and `BudgetsAssumption` of Update. The two exceptions are history
variables (beside `erased`): `broken` (two were at work at once, a rollback failed, or one
died among its renames) and `unguarded` (a lock directory was removed under the worker that
made it, by another's end or takeover, or by a signal). `IInv` adds to the types

- `LockNames`, `OneUnbroken`: whoever is at work made the lock directory, so one at a time;
- `Listed`, `Staged`: the lists of a worker name each component once, what is still to be
  moved in is in the stage, and one outside the exchange has nothing to put back;
- `Reused`, `Exchanged`, `Filed`, `Undoing` (together `Progress`): for every command of the
  exchange and of its rollback, where each component, its .old, meta.json and the scripts
  are, compared with what was installed when the exchange began (`base`);
- `Waiting`: the flag of a request in time that is not `erased` is still there, and nobody
  is past the last checkpoint who could take it away.

`Exchanged` at the last command is the whole release (RunRepairs), `Undoing` when nothing
is left to undo is `base` again; so each step shows outside a whole release, the installation
as it was, or Break (Atomic: one lemma for each command, of what `installed` is mapped to
before and after it).

`FailoverProofs` proves for any lanes, outbounds shared among them or absent, setups,
thresholds and holds, and any number of deploys, failures, lost calls, restarts and
selections by hand:

| theorem | states |
|---|---|
| Invariance | Spec => []IInv |
| RecordIsTrue | Spec => []ManagerAgrees |
| OnlyUphill | Spec => NeverDownhill |
| RejectIsLast | Spec => RejectedWhenAllFailed |

From `FailoverAssumption`. A decision is taken in one step and sent in another, and
what justified it may change between: `IInv` says that a decided switch stays justified by
the health it was taken on (`Upwards`, `LastResort`), that its target is a lane of the order
in force (`TargetKnown`, `OnRecord`), and that what the manager has read stays true until it
moves the selector (`StillAgrees`). The code looks for the first lane with a property;
`FirstIsLeast` shows once that there is one, by well-founded induction on the subsets of an
interval.

`DeployProofs` proves for any DNS modes, with any number of deploys, stops, rollbacks,
background restarts, upgrades, failing commands, dying kernels, power cuts and deaths of
the panel:

| theorem | states |
|---|---|
| TypeCorrect | Spec => []TypeOK |
| UpgradeKeeps | Spec => []UpgradeKeepsKernel |
| Invariance | NoWatch => (Spec => []IInv) |
| RestoredIsDirect | NoWatch => (Spec => []RestoredMeansDirect) |
| RouterIsLeftAgreed | NoWatch => (Spec => []RouterAgrees) |
| StopIsKept | OneQueue /\ OnRequest => (Spec => []StopIsFinal) |
| StopFollows | OneQueue /\ OnRequest => (Spec => []CancelledIsFollowed) |

All from `DeployAssumption`. The first two need nothing else: any budget, late watches and
update.sh included. The others have hypotheses about the budgets, which those of
Deploy_queue satisfy. `NoWatch`: no late watch. `OneQueue`: no update.sh either. `OnRequest`:
no background restart. They are needed, not convenient: each of them, dropped where it
stands, lets TLC break the property, as section 4 tells. With late watches RouterAgrees
stays with Deploy_shared.

TypeCorrect is not only a matter of types: a late watch runs through the code of a deploy,
and has to be kept from every place where a job takes or returns the lock (`Watched`).
UpgradeKeeps has an invariant of its own, `KeepInv`: as long as nothing fails, dies or is
stopped (`Calm`), every job is a deploy that goes all the way and every late watch only
looks (`OnTheWay`, `Content`), so update.sh may kill what it likes: the kernel it found up
is brought up by a deploy that cannot fail (`Kept`).

`IInv` is stated of the job that holds the lock, the panel's or the command line's, and of
the panel's, which may wait for it meanwhile (`Alone`). Beside it there are two groups of
parts:

- the requests: `Generations` and `Followed` (a deploy asked for before the last stop is of
  an older generation, and as long as one is under way the stop waits in the queue),
  `LastWord`, `StopComes`, `Undone` (what a rollback has done when it says so);
- the router: `Files` (which of configuration and metadata are those of the deploy under
  way), `Verdicts` (how a deploy can end when no command fails), `Matched`
  and `Directed` (kernel, metadata and dnsmasq disagree only while a named step of the
  deploy, a stop that waits or a watch is to put it right).

`DnsTakeoverProofs` proves for any upstreams and any number of deploys, stops and
rollbacks, from `NamesAssumption` and `BudgetsAssumption` of DnsTakeover:

| theorem | states |
|---|---|
| TypeCorrect | Spec => []TypeOK |
| SettingKept | Spec /\ (Calm(left) \/ Bumpy(left) \/ Modest(left)) => []UserSettingKept |
| GivenBackWhole | Spec /\ (Calm(left) \/ Modest(left)) => []NothingLeftBehind |
| PlanKept | Spec /\ ((Calm(left) /\ Clear(left)) \/ Modest(left)) => []PlanInForce |

None of the three holds for every combination of events, as DnsTakeover_noresolv and four
rows of the table in section 4 show, so a theorem names the behaviours it is about by the
budget `left` they begin with. In each of them the counts it allows are arbitrary:

| behaviours | plans | the user's noresolv | edits | failing commands | deaths, power cuts | reboots |
|---|---|---|---|---|---|---|
| Calm | all | unset | any | none | none | any |
| Bumpy | all | unset | none | any | none | any |
| Modest | none, domains | any | any | none | any | any |

`Clear` excludes hijack together with reboots. The budget Reboots of DnsTakeover_safety is
Calm and Clear, the budget Crashes is Modest; its budget Faults (one edit and one failing
command) is neither, and stays with TLC. Each kind has an inductive invariant:

- `CalmInv`: the section holds our entry exactly while a plan `all` is written down in the
  state file, and then the user's list is the backup with what was added beside the entry
  (`CalmRecords`, `CalmState`); the file on disk, the process and the conf-dir differ only
  between a named write and the restart that follows it (`CalmProcess`);
- `BumpyInv`: whatever failed, file and backup are the user's or ours, ours in the file or
  among the uncommitted changes implies the user's in the backup (`BumpyRecords`,
  `BumpyStaged`), so that the next `Baseline` finds the user's list again (BumpyBaseline);
- `ModestInv`: the section is never touched, what a restore finds in a backup is the user's,
  and dnsmasq has read the conf-dir as it is unless `unread` (`ModestForward`).

`SubscriptionsProofs` proves for any subscriptions and addresses, any first list with
distinct ids, any finite set of plans, and any number of requests, refreshes, deploys,
changes upstream, failures and deaths of the panel:

| theorem | states |
|---|---|
| NewsArrives | Spec => []NewsReachesKernel |
| SavingLasts | Spec => []SavedStays |
| DeletionLasts | Spec => DeletedStaysDeleted |
| PoolFollows | Spec => []PoolFollowsList |
| NodesFollow | Spec => []NodesFollowList |

From `SubscriptionsAssumption`. There are three invariants, each of which uses the one before:

- `NewsInv`: what was fetched and the kernel does not run with is announced by the tick
  (`poolChanged` of the code), or the kernel is off and gets it when it is started, or a
  failed deploy or a death is answerable for it (`NewsKept`); the scheduler waits for its own
  deploy exactly while that is queued or under way, and such a deploy has all the news
  (`Awaited`, `NewsInOrder`);
- `ListInv`: ids are distinct in the list and in the nodes, nodes and list name the same
  subscriptions in the same order unless a death tore them apart, the list says of each
  what was saved last, and a waiting creation has an id that was never saved
  (`JobOK`), whatever else was changed or deleted since it began;
- `FetchInv`: every fetch of today that was made again, or will be because the state file
  does not know of the first (`Lost`), is paid by a death of the panel (`FetchPaid`).
  FetchedOnce alone is not inductive: what is lost is only fetched again hours later.

The list is filtered, rebuilt and reordered as sequences, for which the library has no
theorems, and its induction theorems are out of this prover's reach. The module therefore
proves its induction once, as the least counterexample (`Induction`, by well-founded
subsets of Nat, then `SeqInduction` over Append), finds that FlattenSeq is the recursion it
is defined by (`FlattenSeqIs`), and derives the laws of filters (`Those...`), of names,
and of `Put`, `Rebuilt` and `Ordered`, from which each handler is one lemma.
Settles, which is liveness, stays with TLC.

`TrafficProofs` proves for any finite set of connections, through any nodes, any terms the
user may set and any amount of traffic, hours, restarts, refused writes and edits:

| theorem | states |
|---|---|
| Always | Spec => []IInv |
| CountedOnce | Spec => []NothingTwice |
| DaysAreExact | Spec => []Exact |
| BooksAgree | Spec => []AccountsAgree |
| DetailGoes | Span > 0 => (Spec /\ []InReach => []DetailTerm) |

From `TrafficAssumption`: there are finitely many connections, and no node is called like
one of the totals. `SumOf` is a fold, which the library defines by a choice of order; the
module first proves that such a sum exists, whatever the order, and its laws: by one
element, in two parts, of two functions, by groups (`SumsExist` to `SumGroups`, by the
smallest set for which a law would fail). `IInv` is

- `ReadingInv`: the reading in use and the one under way are readings of this kernel or of
  an earlier one (`Behind`, `Between`): no connection has less than it had then, one open
  since the reading belongs to the life that was read, and what passed through the open
  connections since then is in the total since then. The last is what makes a total that
  is smaller than its last reading, or a connection that is gone, come out right;
- `DueInv`: no day holds more than is due to it, and none of the term less;
- `AccountInv`: the rows in the database agree with each other, and so do those pending.
  Both have to be accounts by themselves, since either may be lost or deleted without the
  other. What a reading books is an account (`AccountBooked`), two of them are one
  (`AccountPlus`), and so is what a prune leaves (`AccountPruned`);
- `TwiceInv`: what is held is within the room for it. `Room` is all that passed while the
  process has no base line, and what had passed at the base line when it has one, less what
  a reading under way will add. No step takes room away, and `Apply` makes as much as it
  books (`RoomApply`). NothingTwice compares with everything that ever passed, which a
  second booking could stay below for a while; that is why it is not inductive.

DetailTerm is false for some behaviours, and TLC finds one as soon as the panel may be off
for long enough: the first prune of a process looks 60 days back, the later ones three
(system/traffic-collector.mjs:428), so that what is older stays for good. `InReach` says what the
code relies on: a panel that is off comes back within the reach of its first prune, and no
row is refused by the database until past its term. Under it `Tidy` is inductive together
with `IInv`: the last prune was today, or yesterday when the timer has not come round yet,
and what it left is within the term. TLC found `Tidy` to hold under the same constraint
before it was proved.

Every step but Apply is a `Move`: what was pending is written, stays or is lost, rows that
are not firm are deleted, and nothing is booked (`MoveKept`).

The inductive invariants of the last six were also found to hold by TLC, on the
instances of the runs, before they were proved. In two places they were not inductive
because the property itself was false for more events than the run has: the two failing
commands of MetaMatchesKernel and the two interruptions of NothingLost in section 4.

Only model-checked:

- BootIsVerified: which stages fail, and in what order, is what it is about, and the runs
  count them;
- the properties of DnsTakeover where an edit and a failing command, or a failing command
  and NothingLeftBehind or PlanInForce, come together;
- RouterAgrees with late watches (Deploy_shared has one; with more deploys it fails);
- DetailTerm of TrafficCollector in behaviours that leave InReach: it holds within the
  bounds of the run, and not for any number of hours;
- all liveness, out of its reach too.

## 6. Not modelled, and why

- The text of configurations, uci sections, nft rules and messages: no property here
  depends on it.
- Clocks that jump: the age of the lock record is a difference of wall clocks. A
  router that sets its clock after boot could see a record as fresh or stale too
  early; this needs a second clock in DeployLock.
- Deaths of the kernel after the last look of all watches (`lost`): nothing in the
  code reacts to them, procd's respawn aside.
- A lock timeout of a stop while the command line deploys (the stop is answered as
  failed): in Deploy the step exists, what the user is then owed is open.
- The panel's own update plan in the scheduler, which starts a worker of Update; backup
  import, which writes the two records of the subscriptions as a reorder does; the parsers.
- Torn writes of single files by a power cut, sector by sector.
- The components of the second table of section 1: those with state of their own are in
  the plan; the configuration engine, the parsers and the front end, by far the largest
  part of the code, are pure translations and views, whose size is in texts that no
  property here tells apart.
