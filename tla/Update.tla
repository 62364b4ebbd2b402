------------------------------- MODULE Update -------------------------------
(***************************************************************************)
(* scripts/update.sh: the dispatcher (--detach), the workers it spawns or   *)
(* somebody runs by hand, the cancel request (--cancel), and the exchange   *)
(* of the component directories with its rollback.  Workers agree through   *)
(* three files in /tmp: the status file, the cancel flag and the lock       *)
(* directory, in which a pid file is created and then written after the     *)
(* directory is made.                                                      *)
(*                                                                         *)
(* The components that are swapped are panel, openwrt and node; bin is      *)
(* treated as node is.  A directory is known by the release it came from    *)
(* and the node runtime by the release that last changed it.  The download  *)
(* and its checks succeed, or fail and end the run.  uninstall.sh,          *)
(* update.sh and the LuCI files are copied with warnings only and left out; *)
(* the kernel's stop and the deploy afterwards are in Deploy.               *)
(***************************************************************************)
EXTENDS Naturals, Sequences

CONSTANTS
    Workers,     \* processes that run update.sh
    Nobody,      \* no pid in a file that is there; no worker
    Dead,        \* a pid whose process is gone
    None,        \* a directory or a file that does not exist
    Releases,    \* a set of numbers; 0 is installed
    Runtime,     \* Runtime[r]: the release whose node the release r has
    Budgets      \* what may happen: updates dispatched and run by hand, cancel
                 \* requests, failing commands, signals, kills, power cuts, and looks
                 \* at a pid file between its creation and its pid

Parts == {"panel", "openwrt", "node"}
Scripts == {"jbox", "jbox-panel"}

Counted == {"detached", "byhand", "cancels", "faults", "signals", "kills", "cuts", "races"}

ASSUME NamesAssumption ==
    /\ Nobody \notin Workers /\ Dead \notin Workers /\ Nobody # Dead
    /\ None \notin Workers \cup {Nobody, Dead}
    /\ None \notin Releases /\ 0 \in Releases /\ Releases \subseteq Nat
    /\ None \notin [Scripts -> Releases \cup {None}]
    /\ Runtime \in [Releases -> Releases] /\ Runtime[0] = 0
ASSUME BudgetsAssumption == Budgets \subseteq [Counted -> Nat]

VARIABLES
    worker,   \* each process: its pc and its shell variables
    disk,     \* the install root and /etc/init.d
    lock,     \* jbox-update.status.lock: who made it, the pid in it, and who has its
              \* pid file open
    status,   \* jbox-update.status
    flag,     \* jbox-update.cancel exists
    panel,    \* the panel is up
    latest,   \* the newest release so far
    left,
    \* History.
    base,     \* the installation when the last exchange began
    owed,     \* workers whose cancellation was answered "requested" in time
    erased,   \* those of them whose flag update.sh itself took away since: another
              \* update was dispatched, or one run by hand got the lock
    unguarded,\* the lock directory was once removed under a worker that had it
    killed,   \* a worker was killed
    broken    \* two worked at once, a rollback failed, or one died in an exchange

history == <<base, owed, erased, unguarded, killed, broken>>
vars == <<worker, disk, lock, status, flag, panel, latest, left,
          base, owed, erased, unguarded, killed, broken>>

-----------------------------------------------------------------------------
FullPackage == <<"node", "panel", "openwrt">>
Contents(r) == [c \in Parts |-> IF c = "node" THEN Runtime[r] ELSE r]
Whole(r, shown) == [part |-> Contents(r), meta |-> shown, init |-> [s \in Scripts |-> r]]
Installed == [part |-> disk.part, meta |-> disk.meta, init |-> disk.init]

Ended == {"done", "failed", "cancelled"}
Cancellable == {"starting", "busy"}
Stages == {"none", "committing", "restarting"} \cup Cancellable \cup Ended

\* Before the lock; before the last checkpoint; not yet deaf to signals; in
\* the exchange; at the end.
Locking == {"lock", "look", "take", "remake"}
Early == {"plan", "fetch", "unpack", "last"}
Signalled == Early \cup {"commit", "stop"}
Swapping == {"out", "in", "meta", "scripts", "install", "rollback"}
Renaming == {"clear", "drop", "panel", "finish"} \cup (Swapping \ {"rollback"})
Working ==
    {"own", "note", "start", "clear", "drop", "panel", "finish", "exit"} \cup Signalled \cup Swapping

Off == [pc |-> "off", bg |-> FALSE, to |-> 0, comps |-> <<>>, todo |-> <<>>, moved |-> {},
        stage |-> {}, tmp |-> FALSE, keptMeta |-> None, keptInit |-> None, bad |-> FALSE,
        post |-> FALSE]

Existing(names) == [names -> Releases \cup {None}]
Processes ==
    [pc : {"off"} \cup Locking \cup Working, bg : BOOLEAN, to : Releases,
     comps : Seq(Parts), todo : Seq(Parts \cup Scripts), moved : SUBSET Parts,
     stage : SUBSET (Parts \cup {"meta"}), tmp : BOOLEAN,
     keptMeta : Releases \cup {None}, keptInit : Existing(Scripts) \cup {None},
     bad : BOOLEAN, post : BOOLEAN]
Pids == Workers \cup {Nobody, Dead}
Locks == [by : Pids, pid : Pids \cup {None}, open : SUBSET Workers]
Reports == [pid : Pids, stage : Stages]
Installations == [part : Existing(Parts), meta : Releases, init : Existing(Scripts)]
Disks == [part : Existing(Parts), old : Existing(Parts), meta : Releases,
          init : Existing(Scripts)]

TypeOK ==
    /\ worker \in [Workers -> Processes]
    /\ disk \in Disks /\ lock \in Locks /\ status \in Reports
    /\ flag \in BOOLEAN /\ panel \in BOOLEAN /\ latest \in Releases
    /\ left \in [Counted -> Nat]
    /\ base \in Installations /\ owed \subseteq Workers /\ erased \subseteq Workers
    /\ unguarded \in BOOLEAN /\ killed \in BOOLEAN /\ broken \in BOOLEAN

NoLock == [by |-> Nobody, pid |-> None, open |-> {}]

Init ==
    /\ worker = [w \in Workers |-> Off]
    /\ disk = [part |-> Contents(0), old |-> [c \in Parts |-> None], meta |-> 0,
               init |-> [s \in Scripts |-> 0]]
    /\ lock = NoLock /\ status = [pid |-> Nobody, stage |-> "none"]
    /\ flag = FALSE /\ panel = TRUE /\ latest = 0 /\ left \in Budgets
    /\ base = Installed /\ owed = {} /\ erased = {} /\ unguarded = FALSE
    /\ killed = FALSE /\ broken = FALSE

Alive(p) == p \in Workers /\ worker[p].pc # "off"
At(w, pc) == worker[w].pc = pc
Go(w, pc) == worker' = [worker EXCEPT ![w].pc = pc]
May(what) == left[what] > 0
Use(what) == left' = [left EXCEPT ![what] = @ - 1]
Show(w, stage) == status' = [pid |-> w, stage |-> stage]

\* A process ends; what a file says of its pid is then about nobody.
Deceased(pid, w) == IF pid = w THEN Dead ELSE pid
LockAfter(w) ==
    [by |-> Deceased(lock.by, w), pid |-> Deceased(lock.pid, w), open |-> lock.open \ {w}]
StatusAfter(w) == [pid |-> Deceased(status.pid, w), stage |-> status.stage]

\* set -e ends the script, or kill -9: nothing is written, nothing cleaned up.
Gone(w) ==
    /\ worker' = [worker EXCEPT ![w] = Off]
    /\ status' = StatusAfter(w) /\ lock' = LockAfter(w)

\* die before the trap is set: the status is written, nothing is cleaned up.
DieEarly(w) ==
    /\ worker' = [worker EXCEPT ![w] = Off]
    /\ status' = [pid |-> Dead, stage |-> "failed"]
    /\ lock' = LockAfter(w)

\* die, or the end, after it.
End(w, stage) == Go(w, "exit") /\ Show(w, stage)

-----------------------------------------------------------------------------
(* Who asks.                                                               *)

\* The dispatcher refuses while the worker the status names is at work;
\* otherwise it writes a status without a pid, removes the cancel flag, whosever
\* request that was, and forks.
Detach(w) ==
    /\ At(w, "off") /\ May("detached") /\ Use("detached")
    /\ ~(Alive(status.pid) /\ status.stage \notin Ended)
    /\ Show(Nobody, "starting")
    /\ flag' = FALSE
    /\ worker' = [worker EXCEPT ![w] = [Off EXCEPT !.pc = "lock", !.bg = TRUE]]
    /\ owed' = owed \ {w} /\ erased' = (erased \cup owed) \ {w}
    /\ UNCHANGED <<disk, lock, panel, latest, base, unguarded, broken, killed>>

ByHand(w) ==
    /\ At(w, "off") /\ May("byhand") /\ Use("byhand")
    /\ worker' = [worker EXCEPT ![w] = [Off EXCEPT !.pc = "lock"]]
    /\ owed' = owed \ {w} /\ erased' = erased \ {w}
    /\ UNCHANGED <<disk, lock, status, flag, panel, latest, base, unguarded, broken, killed>>

\* A checkpoint is still ahead of it, and nothing of its own that clears the flag: for
\* one that has no lock yet, nobody is at work whose last checkpoint is behind it.
Heeds(w) ==
    \/ worker[w].pc \in Early
    \/ worker[w].bg /\ worker[w].pc \in {"own", "note", "start"}
    \/ /\ worker[w].bg /\ worker[w].pc \in Locking
       /\ \A q \in Workers : worker[q].pc \notin Working

\* --cancel.  A status without a pid may be a worker that has not written yet.
Cancel ==
    /\ May("cancels") /\ Use("cancels")
    /\ status.stage \in Cancellable
    /\ status.pid = Nobody \/ Alive(status.pid)
    /\ flag' = TRUE
    /\ LET heeding == {w \in Workers : Heeds(w)} IN
       owed' = owed \cup heeding /\ erased' = erased \ heeding
    /\ UNCHANGED <<worker, disk, lock, status, panel, latest, base, unguarded, broken, killed>>

-----------------------------------------------------------------------------
(* The lock directory.                                                     *)

Made(w) ==
    /\ lock' = [NoLock EXCEPT !.by = w]
    /\ Go(w, "own")
    /\ broken' = (broken \/ \E q \in Workers \ {w} : worker[q].pc \in Working)
    /\ UNCHANGED status

\* mkdir: there was no lock, or there is one.
MakeLock(w) ==
    /\ At(w, "lock")
    /\ \/ lock = NoLock /\ Made(w)
       \/ lock # NoLock /\ Go(w, "look") /\ UNCHANGED <<lock, status, broken>>
    /\ UNCHANGED <<disk, flag, panel, latest, left, base, owed, erased, unguarded, killed>>

\* cat of the pid.  Without the file, or without the lock by now, it fails and takes the
\* shell with it, whose status stays what it was; a pid that lives, and die; a pid that
\* is gone or an empty file, and the lock is taken for abandoned.  An empty file may be
\* one that is about to be written.
LookAtLock(w) ==
    /\ At(w, "look")
    /\ \/ lock.pid = None /\ Gone(w) /\ UNCHANGED left
       \/ Alive(lock.pid) /\ DieEarly(w) /\ UNCHANGED left
       \/ /\ lock.pid # None /\ ~Alive(lock.pid)
          /\ IF \E q \in lock.open : Alive(q) THEN May("races") /\ Use("races")
             ELSE UNCHANGED left
          /\ Go(w, "take") /\ UNCHANGED <<lock, status>>
    /\ UNCHANGED <<disk, flag, panel, latest, history>>

\* rm -rf of the lock that is there now, whoever made it since the look.
TakeLock(w) ==
    /\ At(w, "take")
    /\ lock' = NoLock
    /\ unguarded' = (unguarded \/ Alive(lock.by))
    /\ Go(w, "remake")
    /\ UNCHANGED <<disk, status, flag, panel, latest, left, base, owed, erased, broken, killed>>

Remake(w) ==
    /\ At(w, "remake")
    /\ IF lock = NoLock THEN Made(w) ELSE DieEarly(w) /\ UNCHANGED broken
    /\ UNCHANGED <<disk, flag, panel, latest, left, base, owed, erased, unguarded, killed>>

\* The shell creates the pid file, or empties it; that the lock is gone is ignored.
OwnLock(w) ==
    /\ At(w, "own")
    /\ lock' = IF lock = NoLock THEN lock
               ELSE [lock EXCEPT !.pid = Nobody, !.open = @ \cup {w}]
    /\ Go(w, "note")
    /\ UNCHANGED <<disk, status, flag, panel, latest, left, history>>

\* The pid, into the file that was opened; the flag of an earlier request (the
\* dispatcher has removed it for a worker of its own); the status.
NotePid(w) ==
    /\ At(w, "note")
    /\ lock' = IF w \in lock.open THEN [lock EXCEPT !.pid = w, !.open = @ \ {w}] ELSE lock
    /\ flag' = (flag /\ worker[w].bg)
    /\ erased' = IF worker[w].bg THEN erased ELSE erased \cup owed
    /\ Show(w, "starting")
    /\ Go(w, "start")
    /\ UNCHANGED <<disk, panel, latest, left, base, owed, unguarded, broken, killed>>

-----------------------------------------------------------------------------
(* Up to the last checkpoint nothing that is installed is touched.         *)

\* Disk and memory suffice, or not.  Stage directories, also of a worker that
\* is still at work, are removed; then the trap is set.
Precheck(w) ==
    /\ At(w, "start")
    /\ \/ May("faults") /\ Use("faults") /\ DieEarly(w)
       \/ /\ worker' = [q \in Workers |->
                IF q = w THEN [worker[w] EXCEPT !.pc = "plan", !.tmp = TRUE]
                ELSE [worker[q] EXCEPT !.stage = {}, !.keptMeta = None, !.keptInit = None]]
          /\ UNCHANGED <<left, lock, status>>
    /\ UNCHANGED <<disk, flag, panel, latest, history>>

\* A checkpoint that finds the flag.
Cancelled(w) ==
    /\ worker[w].pc \in Early
    /\ At(w, "last") => worker[w].stage # {}
    /\ flag
    /\ End(w, "cancelled")
    /\ UNCHANGED <<disk, lock, flag, panel, latest, left, history>>

\* What has to be exchanged for r when the manifest is there: panel and
\* openwrt always, node unless its files are the ones of r.
Changed(r) ==
    IF disk.part["node"] = Runtime[r] THEN <<"panel", "openwrt">> ELSE <<"panel", "openwrt", "node">>

\* The tag is known beforehand or not; the manifest needs the installed helper
\* and node; without it the full package is fetched.
Plan(w) ==
    /\ At(w, "plan") /\ ~flag
    /\ \E r \in {r \in Releases : r >= latest} :
          /\ latest' = r
          /\ \/ disk.meta = r /\ End(w, "done")
             \/ \E comps \in {FullPackage} \cup
                    (IF disk.part["panel"] # None /\ disk.part["node"] # None
                     THEN {Changed(r)} ELSE {}) :
                   /\ worker' = [worker EXCEPT ![w].pc = "fetch", ![w].to = r, ![w].comps = comps]
                   /\ Show(w, "busy")
    /\ UNCHANGED <<disk, lock, flag, panel, left, history>>

Fail(w) == May("faults") /\ Use("faults") /\ End(w, "failed")

\* A download, or a file of it that a signal has removed, ends the run.
Fetch(w) ==
    /\ At(w, "fetch") /\ ~flag
    /\ \/ worker[w].tmp /\ Go(w, "unpack") /\ UNCHANGED <<left, status>>
       \/ ~worker[w].tmp /\ End(w, "failed") /\ UNCHANGED left
       \/ Fail(w)
    /\ UNCHANGED <<disk, lock, flag, panel, latest, history>>

\* The stage directory: what is exchanged; what is reused is a link.
Unpack(w) ==
    /\ At(w, "unpack") /\ ~flag
    /\ \/ /\ worker[w].tmp
          /\ worker' = [worker EXCEPT ![w].pc = "last",
                           ![w].stage = {worker[w].comps[i] : i \in DOMAIN worker[w].comps}
                                            \cup {"meta"}]
          /\ Show(w, "busy") /\ UNCHANGED left
       \/ ~worker[w].tmp /\ End(w, "failed") /\ UNCHANGED left
       \/ Fail(w)
    /\ UNCHANGED <<disk, lock, flag, panel, latest, history>>

\* Mutant: the last checkpoint is missing.
LastUnchecked(w) ==
    /\ At(w, "last")
    /\ Go(w, "commit")
    /\ UNCHANGED <<disk, lock, status, flag, panel, latest, left, history>>

\* The stage is complete and not cancelled; a full package may turn out to be
\* the release that is installed.
Last(w) ==
    /\ At(w, "last")
    /\ \/ worker[w].stage = {} /\ End(w, "failed")
       \/ /\ worker[w].stage # {} /\ ~flag
          /\ IF worker[w].comps = FullPackage /\ disk.meta = worker[w].to
             THEN End(w, "done")
             ELSE Go(w, "commit") /\ UNCHANGED status
    /\ UNCHANGED <<disk, lock, flag, panel, latest, left, history>>

-----------------------------------------------------------------------------
(* The exchange.                                                           *)

Commit(w) ==
    /\ At(w, "commit")
    /\ Show(w, "committing")
    /\ flag' = FALSE
    /\ Go(w, "stop")
    /\ UNCHANGED <<disk, lock, panel, latest, left, history>>

\* Panel and kernel are stopped; from here on signals are ignored.
StopServices(w) ==
    /\ At(w, "stop")
    /\ panel' = FALSE
    /\ worker' = [worker EXCEPT ![w].pc = "clear", ![w].post = TRUE]
    /\ UNCHANGED <<disk, lock, status, flag, latest, left, history>>

Todo(w, pc, seq) == worker' = [worker EXCEPT ![w].pc = pc, ![w].todo = seq]

Components(w) == {worker[w].comps[i] : i \in DOMAIN worker[w].comps}
Without(cs) == [disk EXCEPT !.old = [c \in Parts |-> IF c \in cs THEN None ELSE @[c]]]

\* The .old of a run that was killed.  One that cannot be removed ends the script there
\* and then: the panel is started again, the status stays at committing.
ClearOld(w) ==
    /\ At(w, "clear")
    /\ base' = Installed
    /\ \/ /\ disk' = Without(Components(w))
          /\ Todo(w, "out", worker[w].comps) /\ UNCHANGED left
       \/ /\ May("faults") /\ Use("faults")
          /\ \E cs \in SUBSET Components(w) :
                /\ \E c \in Components(w) \ cs : disk.old[c] # None
                /\ disk' = Without(cs)
          /\ Go(w, "exit")
    /\ UNCHANGED <<lock, status, flag, panel, latest, owed, erased, unguarded, broken, killed>>

\* swap_failed.
RollBack(w) == Todo(w, "rollback", worker[w].comps)
RollBackOn(w) == May("faults") /\ Use("faults") /\ RollBack(w)

\* Mutant: the old component is deleted, not renamed.
MoveOutDeletes(w) ==
    /\ At(w, "out")
    /\ IF worker[w].todo = <<>> THEN Todo(w, "in", worker[w].comps) /\ UNCHANGED disk
       ELSE LET c == Head(worker[w].todo) IN
            /\ Todo(w, "out", Tail(worker[w].todo))
            /\ disk' = [disk EXCEPT !.part[c] = None]
    /\ UNCHANGED <<lock, status, flag, panel, latest, left, history>>

MoveOut(w) ==
    /\ At(w, "out")
    /\ \/ worker[w].todo = <<>> /\ Todo(w, "in", worker[w].comps) /\ UNCHANGED <<disk, left>>
       \/ /\ worker[w].todo # <<>>
          /\ LET c == Head(worker[w].todo) IN
             \/ /\ Todo(w, "out", Tail(worker[w].todo)) /\ UNCHANGED left
                /\ disk' = IF disk.part[c] = None THEN disk
                           ELSE [disk EXCEPT !.old[c] = disk.part[c], !.part[c] = None]
             \/ disk.part[c] # None /\ RollBackOn(w) /\ UNCHANGED disk
    /\ UNCHANGED <<lock, status, flag, panel, latest, history>>

\* Mutant: only what replaces something is moved in.
MoveInExisting(w) ==
    /\ At(w, "in")
    /\ \/ worker[w].todo = <<>> /\ Go(w, "meta") /\ UNCHANGED <<disk, left>>
       \/ /\ worker[w].todo # <<>>
          /\ LET c == Head(worker[w].todo) IN
             /\ worker' = [worker EXCEPT ![w].todo = Tail(@), ![w].moved = @ \cup {c}]
             /\ disk' = IF disk.old[c] = None THEN disk
                        ELSE [disk EXCEPT !.part[c] = Contents(worker[w].to)[c]]
             /\ UNCHANGED left
    /\ UNCHANGED <<lock, status, flag, panel, latest, history>>

\* Noted as moved before it is: a move that fails half-way is undone too.
MoveIn(w) ==
    /\ At(w, "in")
    /\ \/ worker[w].todo = <<>> /\ Go(w, "meta") /\ UNCHANGED <<disk, left>>
       \/ /\ worker[w].todo # <<>>
          /\ LET c == Head(worker[w].todo)
                 moved == worker[w].moved \cup {c}
             IN \/ /\ c \in worker[w].stage
                   /\ worker' = [worker EXCEPT ![w].todo = Tail(@), ![w].moved = moved,
                                               ![w].stage = @ \ {c}]
                   /\ disk' = [disk EXCEPT !.part[c] = Contents(worker[w].to)[c]]
                   /\ UNCHANGED left
                \/ /\ IF c \in worker[w].stage THEN May("faults") /\ Use("faults")
                      ELSE UNCHANGED left
                   /\ worker' = [worker EXCEPT ![w].pc = "rollback", ![w].todo = worker[w].comps,
                                               ![w].moved = moved]
                   /\ UNCHANGED disk
    /\ UNCHANGED <<lock, status, flag, panel, latest, history>>

\* meta.json is backed up or the exchange undone; that it cannot be replaced is
\* a warning.
Meta(w) ==
    /\ At(w, "meta")
    /\ \/ RollBackOn(w) /\ UNCHANGED disk
       \/ /\ worker' = [worker EXCEPT ![w].pc = "scripts", ![w].keptMeta = disk.meta,
                                      ![w].stage = @ \ {"meta"}]
          /\ \/ /\ "meta" \in worker[w].stage
                /\ disk' = [disk EXCEPT !.meta = worker[w].to] /\ UNCHANGED left
             \/ /\ IF "meta" \in worker[w].stage THEN May("faults") /\ Use("faults")
                   ELSE UNCHANGED left
                /\ UNCHANGED disk
    /\ UNCHANGED <<lock, status, flag, panel, latest, history>>

KeepScripts(w) ==
    /\ At(w, "scripts")
    /\ \/ RollBackOn(w)
       \/ /\ worker' = [worker EXCEPT ![w].pc = "install", ![w].keptInit = disk.init,
                                      ![w].todo = <<"jbox", "jbox-panel">>]
          /\ UNCHANGED left
    /\ UNCHANGED <<disk, lock, status, flag, panel, latest, history>>

InstallScripts(w) ==
    /\ At(w, "install")
    /\ \/ worker[w].todo = <<>> /\ Go(w, "drop") /\ UNCHANGED <<disk, left>>
       \/ /\ worker[w].todo # <<>>
          /\ \/ /\ Todo(w, "install", Tail(worker[w].todo)) /\ UNCHANGED left
                /\ disk' = [disk EXCEPT !.init[Head(worker[w].todo)] = disk.part["openwrt"]]
             \/ RollBackOn(w) /\ UNCHANGED disk
    /\ UNCHANGED <<lock, status, flag, panel, latest, history>>

\* Everything is in place; only now the scripts are made executable and the old
\* components go.  Either may fail and end the script.
DropOld(w) ==
    /\ At(w, "drop")
    /\ \/ disk' = Without(Components(w)) /\ Go(w, "panel") /\ UNCHANGED left
       \/ /\ May("faults") /\ Use("faults")
          /\ \E cs \in SUBSET Components(w) : disk' = Without(cs)
          /\ Go(w, "exit")
    /\ UNCHANGED <<lock, status, flag, panel, latest, history>>

StartPanel(w) ==
    /\ At(w, "panel")
    /\ panel' = TRUE
    /\ worker' = [worker EXCEPT ![w].pc = "finish", ![w].post = FALSE]
    /\ UNCHANGED <<disk, lock, status, flag, latest, left, history>>

\* A kernel that was running is deployed again, which shows as a stage of its own.
Finish(w) ==
    /\ At(w, "finish")
    /\ \/ status # [pid |-> w, stage |-> "restarting"]
          /\ Show(w, "restarting") /\ UNCHANGED worker
       \/ End(w, "done")
    /\ UNCHANGED <<disk, lock, flag, panel, latest, left, history>>

-----------------------------------------------------------------------------
(* swap_failed: rollback_components, then die.                             *)

\* Mutant: what was moved in is left where it is.
UndoKeepsNew(w, c) ==
    disk' = IF disk.old[c] = None \/ c \in worker[w].moved THEN disk
            ELSE [disk EXCEPT !.part[c] = disk.old[c], !.old[c] = None]

\* One component: away with the new one, back with the old one.
Undo(w, c) ==
    LET gone == IF c \in worker[w].moved THEN None ELSE disk.part[c] IN
    disk' = IF disk.old[c] = None THEN [disk EXCEPT !.part[c] = gone]
            ELSE [disk EXCEPT !.part[c] = disk.old[c], !.old[c] = None]

UndoFails(w, c) ==
    /\ disk.old[c] # None /\ May("faults") /\ Use("faults")
    /\ disk' = IF c \in worker[w].moved THEN [disk EXCEPT !.part[c] = None] ELSE disk

UndoPart(w) ==
    /\ At(w, "rollback") /\ worker[w].todo # <<>>
    /\ LET c == Head(worker[w].todo) IN
       \/ Undo(w, c) /\ Todo(w, "rollback", Tail(worker[w].todo)) /\ UNCHANGED left
       \/ /\ UndoFails(w, c)
          /\ worker' = [worker EXCEPT ![w].todo = Tail(@), ![w].bad = TRUE]
    /\ UNCHANGED <<lock, status, flag, panel, latest, history>>

\* The scripts and meta.json from their backups, if it came to that; then die.
UndoFiles(w) ==
    /\ At(w, "rollback") /\ worker[w].todo = <<>>
    /\ \/ /\ disk' = [disk EXCEPT
                !.init = IF worker[w].keptInit = None THEN @ ELSE worker[w].keptInit,
                !.meta = IF worker[w].keptMeta = None THEN @ ELSE worker[w].keptMeta]
          /\ broken' = (broken \/ worker[w].bad) /\ UNCHANGED left
       \/ /\ worker[w].keptMeta # None /\ May("faults") /\ Use("faults")
          /\ broken' = TRUE /\ UNCHANGED disk
    /\ End(w, "failed")
    /\ UNCHANGED <<lock, flag, panel, latest, base, owed, erased, unguarded, killed>>

\* Mutant: the panel is started on the way out of a success only.
ExitPanelDown(w) ==
    /\ At(w, "exit")
    /\ worker' = [worker EXCEPT ![w] = Off]
    /\ status' = StatusAfter(w)
    /\ lock' = NoLock
    /\ owed' = owed \ {w} /\ erased' = erased \ {w}
    /\ UNCHANGED <<disk, flag, panel, latest, left, base, unguarded, broken, killed>>

\* cleanup: the files of the run, the panel if the exchange stopped it, the lock.
Exit(w) ==
    /\ At(w, "exit")
    /\ worker' = [worker EXCEPT ![w] = Off]
    /\ status' = StatusAfter(w)
    /\ panel' = (panel \/ worker[w].post)
    /\ lock' = NoLock
    /\ owed' = owed \ {w} /\ erased' = erased \ {w}
    /\ unguarded' = (unguarded \/ (Alive(lock.by) /\ lock.by # w))
    /\ UNCHANGED <<disk, flag, latest, left, base, broken, killed>>

-----------------------------------------------------------------------------
(* Signals, kills, power.                                                  *)

\* Ctrl-C or a shutdown's TERM before the exchange: the trap cleans up, the
\* lock included, and the shell goes on with the next command.
Interrupt(w) ==
    /\ worker[w].pc \in Signalled /\ May("signals") /\ Use("signals")
    /\ worker' = [worker EXCEPT ![w].stage = {}, ![w].tmp = FALSE]
    /\ lock' = NoLock
    /\ unguarded' = TRUE
    /\ UNCHANGED <<disk, status, flag, panel, latest, base, owed, erased, broken, killed>>

\* kill -9, or the kernel is out of memory.
Kill(w) ==
    /\ ~At(w, "off") /\ May("kills") /\ Use("kills")
    /\ Gone(w)
    /\ broken' = (broken \/ worker[w].pc \in Swapping)
    /\ killed' = TRUE
    /\ UNCHANGED <<disk, flag, panel, latest, base, owed, erased, unguarded>>

\* /tmp is empty afterwards; the panel starts at boot if it is there.
PowerCut ==
    /\ May("cuts") /\ Use("cuts")
    /\ broken' = (broken \/ \E w \in Workers : worker[w].pc \in Swapping)
    /\ worker' = [w \in Workers |-> Off]
    /\ lock' = NoLock /\ status' = [pid |-> Nobody, stage |-> "none"] /\ flag' = FALSE
    /\ panel' = (disk.part["panel"] # None /\ disk.part["node"] # None)
    /\ owed' = {} /\ erased' = {}
    /\ UNCHANGED <<disk, latest, base, unguarded, killed>>

Acquire(w) ==
    MakeLock(w) \/ LookAtLock(w) \/ TakeLock(w) \/ Remake(w) \/ OwnLock(w) \/ NotePid(w)
Prepare(w) == Precheck(w) \/ Cancelled(w) \/ Plan(w) \/ Fetch(w) \/ Unpack(w) \/ Last(w)
Exchange(w) ==
    \/ Commit(w) \/ StopServices(w) \/ ClearOld(w) \/ MoveOut(w) \/ MoveIn(w) \/ Meta(w)
    \/ KeepScripts(w) \/ InstallScripts(w) \/ DropOld(w) \/ StartPanel(w) \/ Finish(w)
    \/ UndoPart(w) \/ UndoFiles(w) \/ Exit(w)
Run(w) == Acquire(w) \/ Prepare(w) \/ Exchange(w)

Next ==
    \/ \E w \in Workers :
         \/ Detach(w) \/ ByHand(w)
         \/ MakeLock(w) \/ LookAtLock(w) \/ TakeLock(w) \/ Remake(w) \/ OwnLock(w) \/ NotePid(w)
         \/ Precheck(w) \/ Cancelled(w) \/ Plan(w) \/ Fetch(w) \/ Unpack(w) \/ Last(w)
         \/ Commit(w) \/ StopServices(w) \/ ClearOld(w) \/ MoveOut(w) \/ MoveIn(w) \/ Meta(w)
         \/ KeepScripts(w) \/ InstallScripts(w) \/ DropOld(w) \/ StartPanel(w) \/ Finish(w)
         \/ UndoPart(w) \/ UndoFiles(w) \/ Exit(w)
         \/ Interrupt(w) \/ Kill(w)
    \/ Cancel \/ PowerCut

Spec == Init /\ [][Next]_vars

\* A worker is a shell script that is scheduled; a download ends, one way or the
\* other (curl is given no time limit, but the connection breaks or is cancelled).
FairSpec == Spec /\ \A w \in Workers : WF_vars(Run(w))

-----------------------------------------------------------------------------
(* Properties.                                                             *)

\* The lock of update.sh: two workers are at work together only after the lock
\* directory was removed under one of them (update.sh:811-820).
OneWorker ==
    unguarded \/ \A p, q \in Workers :
        worker[p].pc \in Working /\ worker[q].pc \in Working => p = q

\* The lock as its comment states it: mkdir is atomic, so one worker at a time.
LockExcludes ==
    \A p, q \in Workers : worker[p].pc \in Working /\ worker[q].pc \in Working => p = q

\* "requested": a worker that had its last checkpoint ahead of it when the flag was
\* written does not stop the services or touch the installation, whatever it and the
\* others do in between, unless the flag was taken away by the script itself because
\* another update was asked for: by the dispatcher (update.sh:662), which looks at the
\* status only, or by a run by hand once it has the lock (:826).  Those requests are lost.
CancelHonoured ==
    broken \/ \A w \in owed \ erased :
        worker[w].pc \notin {"commit", "stop", "clear"} \cup Swapping

\* Whatever fails or is interrupted, a component that was in place when the last
\* exchange began is in place or beside it as .old, which is what the advice of
\* swap_failed (move the .old back) depends on; and one that was missing then,
\* the exchange has in its stage until it is in place.
NothingLost ==
    unguarded \/ \A c \in Parts :
        disk.part[c] = None /\ disk.old[c] = None =>
            /\ base.part[c] = None
            /\ \A w \in Workers : worker[w].pc \in Renaming => c \in worker[w].stage

\* Whoever runs, and whatever is interrupted: one worker, and nothing missing.
Intact == TypeOK /\ OneWorker /\ NothingLost

\* A run that got through its exchange leaves one whole release, whatever an
\* earlier run that was killed had left for it: running update.sh again repairs.
ExchangeRepairs ==
    unguarded \/ \A w \in Workers : At(w, "panel") =>
        /\ disk.part = Contents(worker[w].to)
        /\ \A s \in Scripts : disk.init[s] = worker[w].to

\* An update replaces everything or nothing.
A == INSTANCE AtomicInstall WITH
        installed <- IF \E w \in Workers : worker[w].pc \in Swapping THEN base ELSE Installed

ImplementsAtomicInstall == A!Spec

\* A run that stopped the panel starts it again, however it ends, unless it is
\* killed.
PanelReturns == ~panel ~> (panel \/ killed \/ broken)

\* Every run ends.
RunsEnd == \A w \in Workers : worker[w].pc # "off" ~> worker[w].pc = "off"

\* An update is over some time, and the panel is back.
BackAgain == PanelReturns /\ RunsEnd
=============================================================================
