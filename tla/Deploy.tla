------------------------------- MODULE Deploy -------------------------------
(***************************************************************************)
(* Deploying, stopping and rolling back the kernel: the queue of            *)
(* panel/server/api/deploy-runner.mjs, the pipeline and the late crash      *)
(* watch of panel/server/system/deploy.mjs, and what they do to the router  *)
(* through openwrt/initd/jbox.                                              *)
(*                                                                         *)
(* A thread is an asynchronous function under way: the job the panel's      *)
(* queue is running, the command line's one job, or the late watch a        *)
(* successful deploy of the panel leaves behind.  Each step of a thread is  *)
(* the code between two awaits that others may see.  The cross-process lock *)
(* is the one DeployLock describes, taken here as exclusive.                *)
(*                                                                         *)
(* Of the DNS takeover there is here whether the router's dnsmasq forwards  *)
(* to the kernel, and whether there is a backup to give it back by.         *)
(***************************************************************************)
EXTENDS Integers, Sequences, FiniteSets

CONSTANTS
    Budgets,      \* what may happen in a behaviour: runDeployInner's lateWatch, the DNS
                  \* modes of profiles, and how many deploys, stops or rollbacks,
                  \* background deploys, runs of update.sh, failing commands (those that
                  \* set the autostart flag apart), dying kernels, and power cuts or
                  \* deaths of the panel
    MaxWatches    \* deploys of the panel, background ones included, in any of them

Counted ==
    {"deploys", "stops", "background", "upgrades", "faults", "flags", "deaths", "losses"}
DnsModes == {"hijack", "dnsmasq"}
Budget(b) ==
    /\ b.lateWatch \in BOOLEAN
    /\ b.modes \subseteq DnsModes /\ b.modes # {}
    /\ \A w \in Counted : b[w] \in Nat
    /\ b.deploys + b.background <= MaxWatches

ASSUME DeployAssumption == MaxWatches \in Nat /\ \A b \in Budgets : Budget(b)

\* Threads by number: a late watch has the serial of its deploy.
Panel == 0
Cli == -1
Nobody == -2
Watches == 1..MaxWatches
Jobs == {Panel, Cli}
Threads == Jobs \cup Watches

VARIABLES
    \* The router.
    core,        \* the procd instance: down, up, failing (it died in somebody's
                 \* sight), lost (it died when nobody looked any more)
    fatal,       \* the last FATAL line in the log
    dns,         \* where dnsmasq sends queries: own upstreams; the core, with a
                 \* backup of what it had; some names to the core, without one
    v6block,     \* the firewall rule that rejects LAN IPv6
    autostart,   \* the init script is enabled
    conf, meta,  \* config.json and config.meta.json
    loaded,      \* the mode of the configuration the kernel was started with
    dogs,        \* watch loops left by init starts: of the last, of older ones
    \* The panel.
    queue,       \* deployQueue: jobs not yet begun
    stopGen, serial,
    state,       \* the store's deployState.stage
    bg,          \* a background task between its status look and runDeploy
    \* The upgrade.
    upgrade, wasRunning,
    \* The deploy lock and the threads.
    lock, th,
    count,       \* the budget of this behaviour, and what of it has happened
    \* History: the user's last wish, whether a stop has since succeeded, and
    \* whether the configuration on disk was seen running.
    wish, offDone, verified

router == <<core, fatal, dns, v6block, autostart, conf, meta, loaded, dogs>>
panel == <<queue, stopGen, serial, state, bg>>
outside == <<upgrade, wasRunning>>
history == <<wish, offDone, verified>>
vars == <<core, fatal, dns, v6block, autostart, conf, meta, loaded, dogs,
          queue, stopGen, serial, state, bg, upgrade, wasRunning,
          lock, th, count, wish, offDone, verified>>

-----------------------------------------------------------------------------
(* Types.                                                                  *)

NoConf == [mode |-> "none", redirect |-> FALSE]
Confs == [mode : DnsModes \cup {"none"}, redirect : BOOLEAN]
Kinds == {"deploy", "stop", "rollback", "watch"}
Stages == {"running", "cancelled", "rulesets", "conflict", "validate",
           "start", "verify", "error"}
Failures == Stages \ {"running"}

\* Where a thread is.  gone: it does not exist.
Pcs == {"gone", "lock", "begin", "prep", "config", "meta", "takeover", "firewall",
        "gate", "restart", "verify1", "verify2", "fatal",
        "stopcore", "restoredns", "removefw", "report", "flag", "stop", "disable",
        "wake1", "look1", "wake2", "look2", "settle"}

Gone == [pc |-> "gone", kind |-> "deploy", gen |-> 0, serial |-> 0,
         mode |-> "none", redirect |-> FALSE, tried |-> FALSE,
         stage |-> "running", rollback |-> "none"]

ThreadRecords ==
    [pc : Pcs, kind : Kinds, gen : Nat, serial : Nat, mode : DnsModes \cup {"none"},
     redirect : BOOLEAN, tried : BOOLEAN, stage : Stages,
     rollback : {"none", "clean", "partial"}]

Requests == [kind : {"deploy", "stop", "rollback"}, gen : Nat]

RouterTypes ==
    /\ core \in {"down", "up", "failing", "lost"}
    /\ fatal \in {"none", "redirect", "other"}
    /\ dns \in {"own", "core", "names"}
    /\ v6block \in BOOLEAN /\ autostart \in BOOLEAN
    /\ conf \in Confs /\ meta \in Confs
    /\ loaded \in DnsModes \cup {"none"}
    /\ dogs \subseteq {"current", "old"}

PanelTypes ==
    /\ queue \in Seq(Requests)
    /\ stopGen \in Nat /\ serial \in Nat
    /\ state \in Stages \cup {"idle"}
    /\ bg \in BOOLEAN

ThreadTypes ==
    /\ lock \in {Nobody} \cup Jobs
    /\ th \in [Threads -> ThreadRecords]

CountTypes ==
    /\ count \in [budget : Budgets, used : [Counted -> Nat]]
    /\ \A w \in Counted : count.used[w] <= count.budget[w]

HistoryTypes ==
    /\ wish \in {"none", "on", "off"}
    /\ offDone \in BOOLEAN /\ verified \in BOOLEAN

TypeOK ==
    /\ RouterTypes /\ PanelTypes /\ ThreadTypes /\ CountTypes /\ HistoryTypes
    /\ upgrade \in {"no", "killed", "stopped", "deploying"}
    /\ wasRunning \in BOOLEAN

Init ==
    /\ core = "down" /\ fatal = "none" /\ dns = "own"
    /\ v6block = FALSE /\ autostart = FALSE
    /\ conf = NoConf /\ meta = NoConf /\ loaded = "none" /\ dogs = {}
    /\ queue = <<>> /\ stopGen = 0 /\ serial = 0 /\ state = "idle" /\ bg = FALSE
    /\ upgrade = "no" /\ wasRunning = FALSE
    /\ lock = Nobody /\ th = [t \in Threads |-> Gone]
    /\ count \in [budget : Budgets, used : {[w \in Counted |-> 0]}]
    /\ wish = "none" /\ offDone = FALSE /\ verified = FALSE

-----------------------------------------------------------------------------
(* Threads.                                                                *)

At(t, pc) == th[t].pc = pc
Become(t, rec) == th' = [th EXCEPT ![t] = rec]
Goto(t, pc) == Become(t, [th[t] EXCEPT !.pc = pc])
Fail(t, stage, pc) == Become(t, [th[t] EXCEPT !.stage = stage, !.pc = pc])

May(what) == count.used[what] < count.budget[what]
Use(what) == count' = [count EXCEPT !.used[what] = @ + 1]

\* isCancelled: only a stop in the same process raises the generation.
Cancelled(t) == t # Cli /\ th[t].gen # stopGen
\* isStale of a watch: the panel has begun another deploy.
StaleWatch(t) == th[t].serial # serial

\* Mutant: no finally around the job.
ReturnHolding(t) == Become(t, Gone) /\ UNCHANGED lock

\* A job returns: the lock is released, and a thread of the queue ends.
Return(t) == Become(t, Gone) /\ lock' = (IF t \in Jobs THEN Nobody ELSE lock)

-----------------------------------------------------------------------------
(* The init script.                                                        *)

\* Mutant: the upstream stays where the takeover put it.
CleanupKeepsDns == v6block' = FALSE /\ UNCHANGED dns

\* jbox_cleanup: dnsmasq is given back, the IPv6 block is lifted.
Cleanup == dns' = "own" /\ v6block' = FALSE

\* /etc/init.d/jbox enable and disable.
EnableService == autostart' = TRUE

\* Mutant: the flag stays.
DisableNothing == UNCHANGED autostart

DisableService == autostart' = FALSE

\* A kernel start that works, or one whose process dies at once.
Launch ==
    /\ loaded' = conf.mode
    /\ \/ core' = "up" /\ UNCHANGED <<fatal, count>>
       \/ /\ May("deaths") /\ Use("deaths")
          /\ core' = "failing"
          /\ fatal' \in {"other"} \cup (IF conf.redirect THEN {"redirect"} ELSE {})

\* jbox_watch_start forks a loop when the metadata says dnsmasq.
Dogs ==
    dogs' = (IF meta.mode = "dnsmasq" THEN {"current"} ELSE {})
            \cup (IF dogs # {} THEN {"old"} ELSE {})

\* jbox_apply_takeover, which follows the metadata file: everything is taken over with a
\* backup, a list of names without one.
Retaken(d) == IF meta.mode = "dnsmasq" /\ d = "own" THEN {"core", "names"} ELSE {d}

\* start_service, and jbox_watch_start behind it.  The kernel reads the configuration file.
StartCore ==
    /\ dns' \in Retaken(dns)
    /\ Launch /\ Dogs
    /\ UNCHANGED v6block

-----------------------------------------------------------------------------
(* Requests.                                                               *)

Enqueue(kind, gen) == queue' = Append(queue, [kind |-> kind, gen |-> gen])

\* runDeploy, asked for by the user: start, restart, apply.
RunDeploy ==
    /\ May("deploys") /\ Use("deploys") /\ upgrade # "killed" /\ upgrade # "stopped"
    /\ Enqueue("deploy", stopGen)
    /\ wish' = "on" /\ offDone' = FALSE
    /\ UNCHANGED <<router, stopGen, serial, state, bg, outside, lock, th, verified>>

\* Mutant: ahead of the queue, without cancelling what waits in it.
RunExclusiveAhead(kind) ==
    /\ May("stops") /\ Use("stops") /\ upgrade # "killed" /\ upgrade # "stopped"
    /\ queue' = <<[kind |-> kind, gen |-> stopGen]>> \o queue
    /\ wish' = "off" /\ offDone' = FALSE
    /\ UNCHANGED <<router, stopGen, serial, state, bg, outside, lock, th, verified>>

\* Stop and rollback: cancelPendingDeploys, then runExclusive.
RunExclusive(kind) ==
    /\ May("stops") /\ Use("stops") /\ upgrade # "killed" /\ upgrade # "stopped"
    /\ stopGen' = stopGen + 1
    /\ Enqueue(kind, stopGen')
    /\ wish' = "off" /\ offDone' = FALSE
    /\ UNCHANGED <<router, serial, state, bg, outside, lock, th, verified>>

\* A subscription update or a selection change that restarts a running
\* kernel: the status is awaited, and runDeploy called when it arrives.
BackgroundLook ==
    /\ ~bg /\ May("background") /\ Use("background")
    /\ core = "up" /\ upgrade \notin {"killed", "stopped"}
    /\ bg' = TRUE
    /\ UNCHANGED <<router, queue, stopGen, serial, state, outside, lock, th, history>>

BackgroundDeploy ==
    /\ bg
    /\ bg' = FALSE
    /\ Enqueue("deploy", stopGen)
    /\ UNCHANGED <<router, stopGen, serial, state, outside, lock, th, count, history>>

\* The queue runs its jobs one after the other.
Dequeue ==
    /\ At(Panel, "gone") /\ queue # <<>>
    /\ Become(Panel, [Gone EXCEPT !.pc = "lock", !.kind = Head(queue).kind,
                                    !.gen = Head(queue).gen])
    /\ queue' = Tail(queue)
    /\ UNCHANGED <<router, stopGen, serial, state, bg, outside, lock, count, history>>

Acquire(t) ==
    /\ At(t, "lock") /\ lock = Nobody
    /\ lock' = t
    /\ Goto(t, CASE th[t].kind = "deploy" -> "begin"
                 [] th[t].kind = "stop" -> "stop"
                 [] OTHER -> "stopcore")
    /\ UNCHANGED <<router, panel, outside, count, history>>

\* 90 seconds behind another process: the job is rejected.
LockTimeout(t) ==
    /\ At(t, "lock") /\ lock # Nobody
    /\ May("faults") /\ Use("faults")
    /\ Become(t, Gone)
    /\ UNCHANGED <<router, panel, outside, lock, history>>

-----------------------------------------------------------------------------
(* The pipeline: runDeployInner and deployConfig.                          *)

Begin(t) ==
    /\ At(t, "begin")
    /\ serial' = IF t = Panel THEN serial + 1 ELSE serial
    /\ IF Cancelled(t)
       THEN state' = "cancelled" /\ Return(t)
       ELSE /\ Become(t, [th[t] EXCEPT !.pc = "prep", !.serial = serial'])
            /\ UNCHANGED <<state, lock>>
    /\ UNCHANGED <<router, queue, stopGen, bg, outside, count, history>>

\* Everything up to the first write: nothing on the router has changed.
Prepare(t) ==
    /\ At(t, "prep")
    /\ \/ /\ May("faults") /\ Use("faults")
          /\ \E stage \in {"rulesets", "conflict", "validate", "error"} : Fail(t, stage, "report")
       \/ /\ Cancelled(t) /\ Fail(t, "cancelled", "report")
          /\ UNCHANGED count
       \/ /\ ~Cancelled(t)
          /\ \E mode \in count.budget.modes, redirect \in BOOLEAN :
               Become(t, [th[t] EXCEPT !.pc = "config", !.mode = mode, !.redirect = redirect])
          /\ UNCHANGED count
    /\ UNCHANGED <<router, panel, outside, lock, history>>

ConfOf(t) == [mode |-> th[t].mode, redirect |-> th[t].redirect]

\* An exception: deployConfig catches it and rolls back; the watch's caller
\* only logs it.
Throw(t) ==
    /\ May("faults") /\ Use("faults")
    /\ IF th[t].kind = "watch"
       THEN Become(t, Gone)
       ELSE Fail(t, "error", "stopcore")

\* Mutant: the configuration without its metadata.
WriteConfigOnly(t) ==
    /\ At(t, "config")
    /\ conf' = ConfOf(t) /\ verified' = FALSE
    /\ Goto(t, IF th[t].tried THEN "restart" ELSE "takeover")
    /\ UNCHANGED <<core, fatal, dns, v6block, autostart, meta, loaded, dogs,
                   panel, outside, lock, count, wish, offDone>>

WriteConfig(t) ==
    /\ At(t, "config")
    /\ \/ /\ conf' = ConfOf(t) /\ verified' = FALSE
          /\ Goto(t, "meta")
          /\ UNCHANGED count
       \/ Throw(t) /\ UNCHANGED <<conf, verified>>
    /\ UNCHANGED <<core, fatal, dns, v6block, autostart, meta, loaded, dogs,
                   panel, outside, lock, wish, offDone>>

\* The retry without auto_redirect goes straight back to the restart.
WriteMeta(t) ==
    /\ At(t, "meta")
    /\ \/ /\ meta' = ConfOf(t)
          /\ Goto(t, IF th[t].tried THEN "restart" ELSE "takeover")
          /\ UNCHANGED count
       \/ Throw(t) /\ UNCHANGED meta
    /\ UNCHANGED <<core, fatal, dns, v6block, autostart, conf, loaded, dogs,
                   panel, outside, lock, history>>

\* applyDnsTakeover, which makes a backup.  A mode that leaves dnsmasq alone gives back
\* what there is a backup of, and names that the init script forwarded stay.
Takeover(t) ==
    /\ At(t, "takeover")
    /\ \/ /\ dns' = IF th[t].mode = "dnsmasq" THEN "core"
                    ELSE IF dns = "core" THEN "own" ELSE dns
          /\ Goto(t, "firewall")
          /\ UNCHANGED count
       \/ Throw(t) /\ UNCHANGED dns
    /\ UNCHANGED <<core, fatal, v6block, autostart, conf, meta, loaded, dogs,
                   panel, outside, lock, history>>

\* The four rules, one commit and reload.  The profile has IPv6 off.
Firewall(t) ==
    /\ At(t, "firewall")
    /\ \/ /\ v6block' = TRUE
          /\ Goto(t, "gate")
          /\ UNCHANGED count
       \/ Throw(t) /\ v6block' \in {v6block, TRUE}
    /\ UNCHANGED <<core, fatal, dns, autostart, conf, meta, loaded, dogs,
                   panel, outside, lock, history>>

\* The last point at which a cancelled deploy undoes itself; then the files
\* and the tun device are looked for.
Gate(t) ==
    /\ At(t, "gate")
    /\ \/ Cancelled(t) /\ Fail(t, "cancelled", "stopcore") /\ UNCHANGED count
       \/ ~Cancelled(t) /\ Goto(t, "restart") /\ UNCHANGED count
       \/ /\ ~Cancelled(t) /\ May("faults") /\ Use("faults")
          /\ Fail(t, "start", "stopcore")
    /\ UNCHANGED <<router, panel, outside, lock, history>>

\* restartService: stop without cleanup, start.
Restart(t) ==
    /\ At(t, "restart")
    /\ \/ /\ StartCore
          /\ Goto(t, IF th[t].kind = "watch" THEN "settle" ELSE "verify1")
       \/ /\ May("faults") /\ Use("faults")
          /\ Fail(t, IF th[t].kind = "watch" THEN "verify" ELSE "start", "stopcore")
          /\ core' \in {core, "down"}
          /\ UNCHANGED <<fatal, dns, v6block, loaded, dogs>>
    /\ UNCHANGED <<autostart, conf, meta, panel, outside, lock, history>>

\* Two looks, the second after VERIFY_SETTLE_MS.  A deploy cancelled here
\* leaves the kernel to the stop that cancelled it.
Verify(t) ==
    /\ At(t, "verify1") \/ At(t, "verify2")
    /\ IF Cancelled(t) THEN Fail(t, "cancelled", "report") /\ UNCHANGED verified
       ELSE IF core # "up" THEN Goto(t, "fatal") /\ UNCHANGED verified
       ELSE IF At(t, "verify1") THEN Goto(t, "verify2") /\ UNCHANGED verified
       ELSE Fail(t, "running", "report") /\ verified' = TRUE
    /\ UNCHANGED <<router, panel, outside, lock, count, wish, offDone>>

\* readLastKernelFatal: one more try without auto_redirect, or give up.
ReadFatal(t) ==
    /\ At(t, "fatal")
    /\ IF th[t].redirect /\ ~th[t].tried /\ fatal = "redirect"
       THEN Become(t, [th[t] EXCEPT !.pc = "config", !.redirect = FALSE, !.tried = TRUE])
       ELSE Fail(t, "verify", "stopcore")
    /\ UNCHANGED <<router, panel, outside, lock, count, history>>

-----------------------------------------------------------------------------
(* rollbackToDirect: three steps, each tried whatever became of the last.  *)

\* Mutant: the step is taken for done.
FailedSilently(t, pc) ==
    /\ May("faults") /\ Use("faults")
    /\ Become(t, [th[t] EXCEPT !.pc = pc, !.rollback = "clean"])

\* A step that failed is remembered, and the next one tried.
Failed(t, pc) ==
    /\ May("faults") /\ Use("faults")
    /\ Become(t, [th[t] EXCEPT !.pc = pc, !.rollback = "partial"])

RollbackStop(t) ==
    /\ At(t, "stopcore")
    /\ \/ /\ core' = "down" /\ Cleanup
          /\ Become(t, [th[t] EXCEPT !.pc = "restoredns", !.rollback = "clean"])
          /\ UNCHANGED count
       \/ Failed(t, "restoredns") /\ UNCHANGED <<core, dns, v6block>>
    /\ UNCHANGED <<fatal, autostart, conf, meta, loaded, dogs, panel, outside, lock, history>>

RollbackDns(t) ==
    /\ At(t, "restoredns")
    /\ \/ dns' = "own" /\ Goto(t, "removefw") /\ UNCHANGED count
       \/ Failed(t, "removefw") /\ UNCHANGED dns
    /\ UNCHANGED <<core, fatal, v6block, autostart, conf, meta, loaded, dogs,
                   panel, outside, lock, history>>

RollbackFirewall(t) ==
    LET next == IF th[t].kind = "rollback" THEN "disable" ELSE "report" IN
    /\ At(t, "removefw")
    /\ \/ v6block' = FALSE /\ Goto(t, next) /\ UNCHANGED count
       \/ Failed(t, next) /\ v6block' \in {v6block, FALSE}
    /\ UNCHANGED <<core, fatal, dns, autostart, conf, meta, loaded, dogs,
                   panel, outside, lock, history>>

-----------------------------------------------------------------------------
(* The end of a deploy.                                                    *)

FreshWatch(t) ==
    [th[t] EXCEPT !.pc = "wake1", !.kind = "watch"]

\* setDeployState; a running kernel is watched on, outside queue and lock.
\* The command line exits, and its watch with it.
Report(t) ==
    /\ At(t, "report")
    /\ state' = th[t].stage
    /\ IF th[t].kind = "watch"
       THEN IF th[t].stage = "running" THEN Become(t, Gone) ELSE Goto(t, "disable")
       ELSE IF th[t].stage = "running" /\ count.budget.lateWatch /\ t = Panel
       THEN th' = [th EXCEPT ![t] = [th[t] EXCEPT !.pc = "flag"],
                             ![th[t].serial] = FreshWatch(t)]
       ELSE Goto(t, "flag")
    /\ UNCHANGED <<router, queue, stopGen, serial, bg, outside, lock, count, history>>

RolledBackStages == {"start", "verify", "error"}

\* The autostart flag follows the result; then the job returns.
Flag(t) ==
    /\ At(t, "flag")
    /\ LET stage == th[t].stage IN
       \/ /\ stage = "running"
          /\ EnableService /\ UNCHANGED count
       \/ /\ stage # "running" /\ stage # "cancelled"
          /\ stage \in RolledBackStages \/ core # "up"
          /\ DisableService /\ UNCHANGED count
       \/ /\ \/ stage = "cancelled"
             \/ stage \notin RolledBackStages \cup {"running"} /\ core = "up"
          /\ UNCHANGED <<autostart, count>>
       \/ /\ stage # "cancelled"
          /\ May("flags") /\ Use("flags")
          /\ UNCHANGED autostart
    /\ Return(t)
    /\ UNCHANGED <<core, fatal, dns, v6block, conf, meta, loaded, dogs, panel, outside, history>>

-----------------------------------------------------------------------------
(* Stopping, and the disable at the end of stop, rollback and late watch.  *)

\* stopService and waitForServiceState; a failure ends the job there.
Stop(t) ==
    /\ At(t, "stop")
    /\ \/ /\ core' = "down" /\ Cleanup
          /\ Goto(t, "disable")
          /\ UNCHANGED <<count, lock>>
       \/ /\ May("faults") /\ Use("faults")
          /\ UNCHANGED core
          /\ Cleanup \/ UNCHANGED <<dns, v6block>>
          /\ Return(t)
    /\ UNCHANGED <<fatal, autostart, conf, meta, loaded, dogs, panel, outside, history>>

Disable(t) ==
    /\ At(t, "disable")
    /\ \/ /\ DisableService
          /\ offDone' = IF th[t].kind # "watch" /\ th[t].rollback # "partial"
                        THEN wish = "off" ELSE offDone
          /\ UNCHANGED count
       \/ May("flags") /\ Use("flags") /\ UNCHANGED <<autostart, offDone>>
    /\ Return(t)
    /\ UNCHANGED <<core, fatal, dns, v6block, conf, meta, loaded, dogs,
                   panel, outside, wish, verified>>

-----------------------------------------------------------------------------
(* lateCrashWatch.                                                         *)

\* Six seconds after the deploy reported, when the job has long set its flag.
Wake(t) ==
    /\ At(t, "wake1") \/ At(t, "wake2")
    /\ ~(At(Panel, "flag") /\ th[Panel].serial = th[t].serial)
    /\ IF StaleWatch(t) \/ Cancelled(t) THEN Become(t, Gone)
       ELSE Goto(t, IF At(t, "wake1") THEN "look1" ELSE "look2")
    /\ UNCHANGED <<router, panel, outside, lock, count, history>>

Look(t) ==
    /\ At(t, "look1") \/ At(t, "look2")
    /\ IF core # "up" THEN Goto(t, "fatal")
       ELSE IF At(t, "look1") THEN Goto(t, "wake2")
       ELSE Become(t, Gone)
    /\ UNCHANGED <<router, panel, outside, lock, count, history>>

Settle(t) ==
    /\ At(t, "settle")
    /\ IF core = "up"
       THEN Fail(t, "running", "report") /\ verified' = TRUE
       ELSE Fail(t, "verify", "stopcore") /\ UNCHANGED verified
    /\ UNCHANGED <<router, panel, outside, lock, count, wish, offDone>>

-----------------------------------------------------------------------------
(* The kernel, the init script's watch loop, power, and update.sh.         *)

\* A deploy or a late watch between its restart of the kernel and its verdict.
Watching(t) ==
    \/ th[t].pc \in {"verify1", "verify2", "look1", "look2", "fatal", "settle"}
    \/ th[t].pc \in {"wake1", "wake2"} /\ ~StaleWatch(t) /\ ~Cancelled(t)
    \/ th[t].tried /\ th[t].pc \in {"config", "meta", "restart"}

\* The kernel's process dies, and procd gives up on it or brings it up into
\* the next death.
CoreDies ==
    /\ core = "up"
    /\ May("deaths") /\ Use("deaths")
    /\ core' = IF "current" \in dogs \/ \E t \in Threads : Watching(t)
               THEN "failing" ELSE "lost"
    /\ fatal' \in {"other"} \cup (IF conf.redirect THEN {"redirect"} ELSE {})
    /\ UNCHANGED <<dns, v6block, autostart, conf, meta, loaded, dogs,
                   panel, outside, lock, th, history>>

\* jbox_watch_start: five equal looks at the pid end the loop.  They take ten
\* seconds, longer than a deploy's and the first of the late watch.
DogLeaves(d) ==
    /\ d \in dogs /\ core = "up"
    /\ d = "current" => \A t \in Threads :
            ~(Watching(t) /\ th[t].pc \in {"verify1", "verify2", "wake1"})
    /\ dogs' = dogs \ {d}
    /\ UNCHANGED <<core, fatal, dns, v6block, autostart, conf, meta, loaded,
                   panel, outside, lock, th, count, history>>

\* Sixty seconds after its start, without a pid: the loop of the last start
\* does not get there before the deploy's three seconds and the late watch's
\* twelve are over.  An older loop may, whatever goes on by then.
DogCleans(d) ==
    /\ d \in dogs /\ core # "up"
    /\ d = "current" => \A t \in Threads : ~Watching(t)
    /\ dogs' = dogs \ {d}
    /\ \/ Cleanup /\ UNCHANGED count
       \/ May("faults") /\ Use("faults") /\ v6block' = FALSE /\ UNCHANGED dns
    /\ UNCHANGED <<core, fatal, autostart, conf, meta, loaded,
                   panel, outside, lock, th, history>>

Forget ==
    /\ queue' = <<>> /\ stopGen' = 0 /\ serial' = 0 /\ bg' = FALSE
    /\ th' = [t \in Threads |-> Gone]
    /\ lock' = Nobody

\* The conf-dir with the forwarded names is in /tmp.
DnsAtBoot == IF dns = "names" THEN "own" ELSE dns

\* Power is lost and comes back.  Files and committed uci changes survive;
\* an enabled init script starts the kernel.  A lock record outlives the
\* process that wrote it and is taken over.
PowerLoss ==
    /\ May("losses") /\ upgrade = "no"
    /\ Forget
    /\ UNCHANGED <<autostart, conf, meta, state, outside, history>>
    /\ IF autostart /\ conf # NoConf
       THEN /\ dns' \in Retaken(DnsAtBoot)
            /\ loaded' = conf.mode
            /\ dogs' = IF meta.mode = "dnsmasq" THEN {"current"} ELSE {}
            /\ core' = "up" /\ fatal' = "none"
            /\ UNCHANGED v6block
       ELSE /\ core' = "down" /\ loaded' = "none" /\ dogs' = {}
            /\ dns' = DnsAtBoot
            /\ UNCHANGED <<v6block, fatal>>
    /\ Use("losses")

\* The panel's process dies and procd starts a new one, which has no job to do.
PanelDies ==
    /\ upgrade = "no" /\ May("losses") /\ Use("losses")
    /\ Forget
    /\ core' = IF core = "failing" /\ "current" \notin dogs THEN "lost" ELSE core
    /\ UNCHANGED <<fatal, dns, v6block, autostart, conf, meta, loaded, dogs, state,
                   outside, history>>

\* update.sh: remember whether the kernel runs, kill the panel, stop the
\* kernel with its cleanup, start the new panel, deploy from the command line.
UpgradeKill ==
    /\ upgrade = "no" /\ May("upgrades") /\ Use("upgrades")
    /\ upgrade' = "killed"
    /\ wasRunning' = (core = "up")
    /\ Forget
    /\ UNCHANGED <<router, state, history>>

UpgradeStop ==
    /\ upgrade = "killed"
    /\ upgrade' = "stopped"
    /\ core' = "down" /\ Cleanup
    /\ UNCHANGED <<fatal, autostart, conf, meta, loaded, dogs, panel, wasRunning,
                   lock, th, count, history>>

\* Mutant: the redeploy of the command line is dropped.
UpgradeEnds ==
    /\ upgrade = "stopped"
    /\ upgrade' = "no"
    /\ UNCHANGED <<router, panel, wasRunning, lock, th, count, history>>

UpgradeDeploy ==
    /\ upgrade = "stopped"
    /\ IF wasRunning
       THEN /\ upgrade' = "deploying"
            /\ Become(Cli, [Gone EXCEPT !.pc = "lock"])
       ELSE /\ upgrade' = "no"
            /\ UNCHANGED th
    /\ UNCHANGED <<router, panel, wasRunning, lock, count, history>>

UpgradeDone ==
    /\ upgrade = "deploying" /\ At(Cli, "gone")
    /\ upgrade' = "no"
    /\ UNCHANGED <<router, panel, wasRunning, lock, th, count, history>>

-----------------------------------------------------------------------------
Step(t) ==
    \/ Acquire(t) \/ Begin(t) \/ Prepare(t) \/ WriteConfig(t) \/ WriteMeta(t)
    \/ Takeover(t) \/ Firewall(t) \/ Gate(t) \/ Restart(t) \/ Verify(t) \/ ReadFatal(t)
    \/ RollbackStop(t) \/ RollbackDns(t) \/ RollbackFirewall(t)
    \/ Report(t) \/ Flag(t) \/ Stop(t) \/ Disable(t)
    \/ Wake(t) \/ Look(t) \/ Settle(t)

Next ==
    \/ RunDeploy
    \/ RunExclusive("stop") \/ RunExclusive("rollback")
    \/ BackgroundLook \/ BackgroundDeploy
    \/ Dequeue
    \/ \E t \in Threads : Step(t)
    \/ \E t \in Jobs : LockTimeout(t)
    \/ CoreDies
    \/ \E d \in {"current", "old"} : DogLeaves(d) \/ DogCleans(d)
    \/ PowerLoss \/ PanelDies
    \/ UpgradeKill \/ UpgradeStop \/ UpgradeDeploy \/ UpgradeDone

Spec == Init /\ [][Next]_vars

\* The event loop runs what is ready: every await of a thread is a command
\* with a timeout or a timer.  The shell loops of the init script run on.
Fairness ==
    /\ WF_vars(Dequeue) /\ WF_vars(BackgroundDeploy)
    /\ \A t \in Threads : SF_vars(Acquire(t)) /\ WF_vars(Step(t))
    /\ \A d \in {"current", "old"} : WF_vars(DogLeaves(d) \/ DogCleans(d))
    /\ WF_vars(UpgradeStop) /\ WF_vars(UpgradeDeploy) /\ WF_vars(UpgradeDone)

FairSpec == Spec /\ Fairness

-----------------------------------------------------------------------------
(* Properties.                                                             *)

\* Nothing is under way and nothing is waiting to be.
AtRest ==
    /\ queue = <<>> /\ ~bg /\ upgrade = "no"
    /\ \A t \in Threads : At(t, "gone")

\* Nothing outside the deploys went wrong with a command, a file or the power.
Happened(what) == count.used[what]
NoFaults == Happened("faults") = 0 /\ Happened("losses") = 0

\* A stop or rollback that reported success is the last word: until the user
\* asks for a deploy again the kernel stays down and will not start at boot
\* (cancelPendingDeploys and the shared queue).
StopIsFinal == offDone => core # "up" /\ ~autostart

\* A deploy that was cancelled with its kernel up says the stop behind it
\* will see to it: such a stop is still to come (deploy.mjs, step 9).
CancelledIsFollowed ==
    wish = "off" /\ core = "up" /\ NoFaults =>
        \/ \E i \in 1..Len(queue) : queue[i].kind # "deploy"
        \/ th[Panel].kind \in {"stop", "rollback"} /\ ~At(Panel, "gone")

\* A failed deploy that reports direct access as restored has restored it:
\* no kernel, dnsmasq on its own upstreams, LAN IPv6 not rejected
\* (rollbackSummary).
RestoredMeansDirect ==
    \A t \in Jobs :
        /\ th[t].kind = "deploy" /\ th[t].pc \in {"report", "flag"}
        /\ th[t].rollback = "clean"
        => core = "down" /\ dns = "own" /\ ~v6block

\* At rest dnsmasq and the kernel agree: no queries into a kernel that was
\* stopped, never came up or has no DNS inbound, and no kernel in dnsmasq mode
\* that sends the router's own queries round in a ring.  Names the init script forwarded
\* without a backup outlast a deploy that leaves dnsmasq alone, up to the next stop.
DnsFollowsCore ==
    AtRest /\ dogs = {} /\ NoFaults /\ core # "lost" =>
        /\ core # "up" => dns = "own"
        /\ core = "up" /\ loaded = "dnsmasq" => dns # "own"
        /\ core = "up" /\ dns = "core" => loaded = "dnsmasq"

\* At rest the metadata the init script goes by describes the configuration
\* the running kernel was started with, unless the power went between the two
\* files (writeConfigAndMeta), or a deploy failed and the stop of its rollback too.
MetaMatchesKernel ==
    AtRest /\ core = "up" /\ Happened("losses") = 0 /\ Happened("faults") <= 1 => loaded = meta.mode

\* At rest kernel, dnsmasq and metadata agree: the init script, which knows only the
\* metadata, does the right thing to the right dnsmasq at the next boot or stop.
RouterAgrees == TypeOK /\ DnsFollowsCore /\ MetaMatchesKernel

\* At rest an enabled init script would start a configuration that has been seen
\* running, and whose metadata belongs to it, in whichever stage the deploys failed (the
\* comments on ROLLED_BACK_STAGES and on the flag).  Not so when the flag itself could not
\* be set, and when a stop the user asked for last did not get through.
BootIsVerified ==
    /\ AtRest /\ autostart
    /\ Happened("flags") = 0 /\ Happened("losses") = 0
    /\ wish = "off" => Happened("faults") = 0
    => verified /\ conf = meta

\* A kernel that ran before an upgrade runs after it, when nothing failed and
\* nobody asked for a stop (update.sh, core_was_running).
UpgradeKeepsKernel ==
    /\ AtRest /\ Happened("upgrades") > 0 /\ wasRunning
    /\ NoFaults /\ \A w \in {"flags", "deaths", "stops"} : Happened(w) = 0
    => core = "up" /\ autostart

\* dnsmasq does not stay pointed at a kernel that died in somebody's sight,
\* unless a command failed, which nobody repeats (jbox_watch_start,
\* lateCrashWatch).
DeadCoreReleased ==
    (core = "failing" /\ dns = "core") ~>
        (core # "failing" \/ dns = "own" \/ Happened("faults") > 0)

\* Every job the panel accepted comes to an end, whatever holds the lock.
QueueDrains == (queue # <<>> \/ bg) ~> AtRest
=============================================================================
