---------------------------- MODULE DeployProofs ----------------------------
(***************************************************************************)
(* The deploys, stops, rollbacks and background restarts of the panel and   *)
(* the deploy of the command line (jbox-deploy, which update.sh calls), for *)
(* any number of each, of failing commands, dying kernels, power cuts and   *)
(* deaths of the panel, in any DNS modes.                                  *)
(*                                                                         *)
(* TypeCorrect and UpgradeKeeps hold under every budget.  The others leave  *)
(* out what is known to break them:                                        *)
(*   NoWatch    no late watch, which writes without the lock: it breaks     *)
(*              RestoredMeansDirect, RouterAgrees, StopIsFinal;            *)
(*   NoUpgrade  no update.sh, whose kill of the panel takes a waiting stop  *)
(*              with it or cuts a deploy in two: it breaks StopIsFinal,    *)
(*              CancelledIsFollowed;                                       *)
(*   OnRequest  no background restart, which may bring the kernel back      *)
(*              after a stop.                                              *)
(*                                                                         *)
(* The file has the types, then UpgradeKeeps with its own small invariant,  *)
(* then the inductive invariant IInv, stated of the job that holds the      *)
(* lock, with one lemma per kind of step, and the theorems at the end.     *)
(***************************************************************************)
EXTENDS Deploy, TLAPS

-----------------------------------------------------------------------------
(* Threads and their records.                                              *)

LEMMA Jobs0 ==
    /\ Panel \in Jobs /\ Cli \in Jobs /\ Jobs \subseteq Threads /\ Watches \subseteq Threads
    /\ Panel # Cli /\ Panel \in Threads /\ Cli \in Threads
    /\ Nobody \notin Jobs /\ Panel \notin Watches /\ Cli \notin Watches
    /\ (\A t \in Threads \ Watches : t \in Jobs) /\ (\A t \in Watches : t \notin Jobs)
  BY DEF Jobs, Threads, Panel, Cli, Nobody, Watches

LEMMA GoneFields ==
    /\ Gone \in ThreadRecords
    /\ Gone.pc = "gone" /\ Gone.kind = "deploy" /\ Gone.gen = 0 /\ Gone.mode = "none"
    /\ Gone.tried = FALSE /\ Gone.stage = "running" /\ Gone.rollback = "none"
  BY DEF Gone, ThreadRecords, Pcs, Kinds, Stages

LEMMA ThreadType ==
    ASSUME TypeOK, NEW t \in Threads
    PROVE  /\ th[t] \in ThreadRecords
           /\ th[t].pc \in Pcs /\ th[t].kind \in Kinds /\ th[t].gen \in Nat
           /\ th[t].serial \in Nat /\ th[t].mode \in DnsModes \cup {"none"}
           /\ th[t].redirect \in BOOLEAN /\ th[t].tried \in BOOLEAN /\ th[t].stage \in Stages
           /\ th[t].rollback \in {"none", "clean", "partial"}
  <1>1. th[t] \in ThreadRecords
    BY DEF TypeOK, ThreadTypes
  <1> QED
    BY <1>1 DEF ThreadRecords

\* What the records become where more than the place changes.
LEMMA Prepped ==
    ASSUME TypeOK, NEW t \in Threads, NEW s \in Nat
    PROVE  [th[t] EXCEPT !.pc = "prep", !.serial = s] \in ThreadRecords
  <1>1. th[t] \in ThreadRecords
    BY ThreadType
  <1>2. "prep" \in Pcs
    BY DEF Pcs
  <1> QED
    BY <1>1, <1>2 DEF ThreadRecords

LEMMA Configured ==
    ASSUME TypeOK, NEW t \in Threads, NEW mode \in DnsModes, NEW redirect \in BOOLEAN
    PROVE  [th[t] EXCEPT !.pc = "config", !.mode = mode, !.redirect = redirect]
             \in ThreadRecords
  <1>1. th[t] \in ThreadRecords
    BY ThreadType
  <1>2. "config" \in Pcs
    BY DEF Pcs
  <1> QED
    BY <1>1, <1>2 DEF ThreadRecords

LEMMA Flagged ==
    ASSUME TypeOK, NEW t \in Threads
    PROVE  /\ [th[t] EXCEPT !.pc = "flag"] \in ThreadRecords
           /\ FreshWatch(t) \in ThreadRecords
           /\ FreshWatch(t).pc = "wake1" /\ FreshWatch(t).kind = "watch"
  <1>1. th[t] \in ThreadRecords
    BY ThreadType
  <1>2. "flag" \in Pcs /\ "wake1" \in Pcs /\ "watch" \in Kinds
    BY DEF Pcs, Kinds
  <1>3. FreshWatch(t) = [th[t] EXCEPT !.pc = "wake1", !.kind = "watch"]
    BY DEF FreshWatch
  <1> QED
    BY <1>1, <1>2, <1>3 DEF ThreadRecords

OthersKept(t) == \A u \in Threads \ {t} : th'[u] = th[u]

\* One thread's record is replaced.
LEMMA Becoming ==
    ASSUME TypeOK, NEW t \in Threads, NEW r \in ThreadRecords, Become(t, r)
    PROVE  th' \in [Threads -> ThreadRecords] /\ th'[t] = r /\ OthersKept(t)
  BY DEF TypeOK, ThreadTypes, Become, OthersKept

\* A thread stays what it is, apart from its place, its verdict and what it has undone.
Same(t) ==
    /\ th' \in [Threads -> ThreadRecords] /\ OthersKept(t)
    /\ th'[t].kind = th[t].kind /\ th'[t].gen = th[t].gen /\ th'[t].serial = th[t].serial
    /\ th'[t].mode = th[t].mode /\ th'[t].redirect = th[t].redirect
    /\ th'[t].tried = th[t].tried

\* A thread goes on to another step.
LEMMA Going ==
    ASSUME TypeOK, NEW t \in Threads, NEW pc \in Pcs, Goto(t, pc)
    PROVE  /\ Same(t) /\ th'[t].pc = pc
           /\ th'[t].stage = th[t].stage /\ th'[t].rollback = th[t].rollback
  <1> DEFINE r == [th[t] EXCEPT !.pc = pc]
  <1>1. r \in ThreadRecords
    BY ThreadType DEF ThreadRecords
  <1>2. th' \in [Threads -> ThreadRecords] /\ OthersKept(t) /\ th'[t] = r
    BY <1>1, Becoming DEF Goto
  <1> QED
    BY <1>2, ThreadType DEF ThreadRecords, Same

\* A thread gives its verdict and goes on.
LEMMA Judging ==
    ASSUME TypeOK, NEW t \in Threads, NEW stage \in Stages, NEW pc \in Pcs, Fail(t, stage, pc)
    PROVE  Same(t) /\ th'[t].pc = pc /\ th'[t].stage = stage /\ th'[t].rollback = th[t].rollback
  <1> DEFINE r == [th[t] EXCEPT !.stage = stage, !.pc = pc]
  <1>1. r \in ThreadRecords
    BY ThreadType DEF ThreadRecords
  <1>2. th' \in [Threads -> ThreadRecords] /\ OthersKept(t) /\ th'[t] = r
    BY <1>1, Becoming DEF Fail
  <1> QED
    BY <1>2, ThreadType DEF ThreadRecords, Same

\* A step of a rollback is done or has failed.
LEMMA Undoes ==
    ASSUME TypeOK, NEW t \in Threads, NEW how \in {"clean", "partial"}, NEW pc \in Pcs,
           Become(t, [th[t] EXCEPT !.pc = pc, !.rollback = how])
    PROVE  Same(t) /\ th'[t].pc = pc /\ th'[t].stage = th[t].stage /\ th'[t].rollback = how
  <1> DEFINE r == [th[t] EXCEPT !.pc = pc, !.rollback = how]
  <1>1. r \in ThreadRecords
    BY ThreadType DEF ThreadRecords
  <1>2. th' \in [Threads -> ThreadRecords] /\ OthersKept(t) /\ th'[t] = r
    BY <1>1, Becoming
  <1> QED
    BY <1>2, ThreadType DEF ThreadRecords, Same

\* A thread ends.
LEMMA Ending ==
    ASSUME TypeOK, NEW t \in Threads, Become(t, Gone)
    PROVE  th' \in [Threads -> ThreadRecords] /\ OthersKept(t) /\ th'[t] = Gone
  BY Becoming, GoneFields

\* The retry without auto_redirect.
LEMMA Retrying ==
    ASSUME TypeOK, NEW t \in Threads,
           Become(t, [th[t] EXCEPT !.pc = "config", !.redirect = FALSE, !.tried = TRUE])
    PROVE  /\ th' \in [Threads -> ThreadRecords] /\ OthersKept(t)
           /\ th'[t].pc = "config" /\ th'[t].tried = TRUE
           /\ th'[t].kind = th[t].kind /\ th'[t].gen = th[t].gen /\ th'[t].serial = th[t].serial
           /\ th'[t].mode = th[t].mode
           /\ th'[t].stage = th[t].stage /\ th'[t].rollback = th[t].rollback
  <1> DEFINE r == [th[t] EXCEPT !.pc = "config", !.redirect = FALSE, !.tried = TRUE]
  <1>1. r \in ThreadRecords
    BY ThreadType DEF ThreadRecords, Pcs
  <1>2. th' \in [Threads -> ThreadRecords] /\ OthersKept(t) /\ th'[t] = r
    BY <1>1, Becoming
  <1> QED
    BY <1>2, ThreadType DEF ThreadRecords

\* What may happen is counted, and within its budget.
LEMMA Counting ==
    ASSUME TypeOK, NEW what \in Counted, May(what), Use(what)
    PROVE  /\ CountTypes' /\ count'.budget = count.budget
           /\ count'.used[what] = count.used[what] + 1
           /\ \A w \in Counted \ {what} : count'.used[w] = count.used[w]
  <1> DEFINE u == [count.used EXCEPT ![what] = @ + 1]
  <1>1. count.used \in [Counted -> Nat] /\ count.budget \in Budgets
    BY DEF TypeOK, CountTypes
  <1>2. count.budget[what] \in Nat
    BY <1>1, DeployAssumption DEF Budget
  <1>3. u \in [Counted -> Nat] /\ u[what] = count.used[what] + 1
        /\ \A w \in Counted \ {what} : u[w] = count.used[w]
    BY <1>1
  <1>4. count' = [count EXCEPT !.used = u]
    BY DEF Use, TypeOK, CountTypes
  <1>5. count'.used = u /\ count'.budget = count.budget
    BY <1>4 DEF TypeOK, CountTypes
  <1>6. count' \in [budget : Budgets, used : [Counted -> Nat]]
    BY <1>1, <1>3, <1>4 DEF TypeOK, CountTypes
  <1>7. u[what] <= count.budget[what]
    BY <1>1, <1>2, <1>3 DEF May
  <1>8. \A w \in Counted : u[w] <= count.budget[w]
    BY <1>3, <1>7 DEF TypeOK, CountTypes
  <1> QED
    BY <1>3, <1>5, <1>6, <1>8 DEF CountTypes

\* What is left alone keeps its types.
LEMMA RouterStays == TypeOK /\ UNCHANGED router => RouterTypes'
  BY DEF TypeOK, RouterTypes, router

LEMMA PanelStays == TypeOK /\ UNCHANGED panel => PanelTypes'
  BY DEF TypeOK, PanelTypes, panel

LEMMA CountStays == TypeOK /\ UNCHANGED count => CountTypes'
  BY DEF TypeOK, CountTypes

LEMMA HistoryStays == TypeOK /\ UNCHANGED history => HistoryTypes'
  BY DEF TypeOK, HistoryTypes, history

-----------------------------------------------------------------------------
(* Types.  A late watch must not come where a job takes the lock.          *)

WatchPcs == {"gone", "wake1", "look1", "wake2", "look2", "fatal", "config", "meta", "restart",
             "settle", "stopcore", "restoredns", "removefw", "report", "disable"}

WatchRecord(r) ==
    /\ r.pc \in WatchPcs
    /\ r.pc # "gone" => r.kind = "watch"
    /\ r.pc \in {"config", "meta"} => r.tried

Watched == \A t \in Watches : WatchRecord(th[t])

Typed == TypeOK /\ Watched

\* Something happens that is counted, or nothing.
Counts == UNCHANGED count \/ \E w \in Counted : May(w) /\ Use(w)

LEMMA CountsTyped == TypeOK /\ Counts => CountTypes'
  BY Counting, CountStays DEF Counts

\* A step of a thread is one of a late watch when the thread is one.
LEMMA StepTypes ==
    ASSUME Typed, NEW t \in Threads, th' \in [Threads -> ThreadRecords], OthersKept(t),
           t \in Watches => WatchRecord(th'[t]),
           RouterTypes', PanelTypes', Counts, HistoryTypes', UNCHANGED outside,
           lock' \in {Nobody} \cup Jobs
    PROVE  Typed'
  <1>1. Watched'
    BY Jobs0 DEF Typed, Watched, OthersKept, WatchRecord
  <1>2. upgrade' \in {"no", "killed", "stopped", "deploying"} /\ wasRunning' \in BOOLEAN
    BY DEF Typed, TypeOK, outside
  <1> QED
    BY <1>1, <1>2, CountsTyped DEF Typed, TypeOK, ThreadTypes

\* Such a step leaves the router, the panel and the lock as they are.
Bystander == UNCHANGED <<router, panel, outside, lock, history>>

LEMMA QuietTypes ==
    ASSUME Typed, NEW t \in Threads, th' \in [Threads -> ThreadRecords], OthersKept(t),
           t \in Watches => WatchRecord(th'[t]), Counts, Bystander
    PROVE  Typed'
  <1>1. RouterTypes' /\ PanelTypes' /\ HistoryTypes' /\ lock' \in {Nobody} \cup Jobs
    BY RouterStays, PanelStays, HistoryStays DEF Typed, Bystander, TypeOK, ThreadTypes
  <1> QED
    BY <1>1, StepTypes DEF Bystander

LEMMA GoneWatch == WatchRecord(Gone)
  BY GoneFields DEF WatchRecord, WatchPcs

\* Where a late watch is, it is a watch.
LEMMA WatchAt ==
    ASSUME Typed, NEW t \in Threads
    PROVE  t \in Watches => WatchRecord(th[t])
  BY DEF Typed, Watched

-----------------------------------------------------------------------------
(* Each step of a thread keeps the types.                                  *)

LEMMA ThrowTypes ==
    ASSUME Typed, NEW t \in Threads, Throw(t)
    PROVE  /\ th' \in [Threads -> ThreadRecords] /\ OthersKept(t) /\ Counts
           /\ t \in Watches /\ th[t].pc # "gone" => WatchRecord(th'[t])
  <1>1. Counts
    BY DEF Throw, Counts, Counted
  <1>2. CASE th[t].kind = "watch"
    BY <1>1, <1>2, Ending, GoneWatch DEF Throw, Typed
  <1>3. CASE th[t].kind # "watch"
    <2>1. Fail(t, "error", "stopcore") /\ (t \in Watches => th[t].pc = "gone")
      BY <1>3, WatchAt DEF Throw, WatchRecord
    <2> QED
      BY <1>1, <2>1, Judging DEF Typed, Stages, Pcs, Same
  <1> QED
    BY <1>2, <1>3

LEMMA AcquireTypes == ASSUME Typed, NEW t \in Threads, Acquire(t) PROVE Typed'
  <1> DEFINE pc == CASE th[t].kind = "deploy" -> "begin"
                     [] th[t].kind = "stop" -> "stop"
                     [] OTHER -> "stopcore"
  <1>1. th[t].pc = "lock" /\ t \notin Watches /\ t \in Jobs
    BY WatchAt, Jobs0 DEF Acquire, At, WatchRecord, WatchPcs
  <1>2. pc \in Pcs /\ Goto(t, pc)
    BY DEF Acquire, Pcs
  <1>3. Same(t)
    BY <1>2, Going DEF Typed
  <1>4. RouterTypes' /\ PanelTypes' /\ HistoryTypes' /\ lock' = t /\ Counts
    BY RouterStays, PanelStays, HistoryStays DEF Acquire, Typed, Counts
  <1> QED
    BY <1>1, <1>3, <1>4, StepTypes DEF Acquire, Same

LEMMA LockTimeoutTypes == ASSUME Typed, NEW t \in Jobs, LockTimeout(t) PROVE Typed'
  <1>1. t \in Threads /\ Become(t, Gone) /\ Counts /\ Bystander
    BY Jobs0 DEF LockTimeout, Counts, Counted, Bystander
  <1> QED
    BY <1>1, Ending, GoneWatch, QuietTypes DEF Typed

LEMMA BeginTypes == ASSUME Typed, NEW t \in Threads, Begin(t) PROVE Typed'
  <1>1. th[t].pc = "begin" /\ t \notin Watches /\ t \in Jobs
    BY WatchAt, Jobs0 DEF Begin, At, WatchRecord, WatchPcs
  <1>2. serial \in Nat /\ serial' \in Nat /\ stopGen \in Nat /\ queue \in Seq(Requests)
    BY DEF Begin, Typed, TypeOK, PanelTypes
  <1>3. /\ th' \in [Threads -> ThreadRecords] /\ OthersKept(t)
        /\ lock' \in {Nobody} \cup Jobs /\ state' \in Stages \cup {"idle"}
    <2>1. CASE Cancelled(t)
      BY <2>1, Ending DEF Begin, Return, Typed, TypeOK, ThreadTypes, Stages
    <2>2. CASE ~Cancelled(t)
      <3> DEFINE r == [th[t] EXCEPT !.pc = "prep", !.serial = serial']
      <3>1. r \in ThreadRecords
        BY <1>2, Prepped DEF Typed
      <3>2. Become(t, r) /\ UNCHANGED <<state, lock>>
        BY <2>2 DEF Begin
      <3> QED
        BY <3>1, <3>2, Becoming DEF Typed, TypeOK, ThreadTypes, PanelTypes
    <2> QED
      BY <2>1, <2>2
  <1>4. PanelTypes' /\ RouterTypes' /\ HistoryTypes' /\ Counts
    BY <1>2, <1>3, RouterStays, HistoryStays DEF Begin, Typed, TypeOK, PanelTypes, Counts
  <1> QED
    BY <1>1, <1>3, <1>4, StepTypes DEF Begin

LEMMA PrepareTypes == ASSUME Typed, NEW t \in Threads, Prepare(t) PROVE Typed'
  <1>1. th[t].pc = "prep" /\ t \notin Watches
    BY WatchAt DEF Prepare, At, WatchRecord, WatchPcs
  <1>2. Counts /\ Bystander
    BY DEF Prepare, Counts, Counted, Bystander
  <1>3. th' \in [Threads -> ThreadRecords] /\ OthersKept(t)
    <2>1. ASSUME NEW mode \in count.budget.modes, NEW redirect \in BOOLEAN,
                 Become(t, [th[t] EXCEPT !.pc = "config", !.mode = mode, !.redirect = redirect])
          PROVE  th' \in [Threads -> ThreadRecords] /\ OthersKept(t)
      <3> DEFINE r == [th[t] EXCEPT !.pc = "config", !.mode = mode, !.redirect = redirect]
      <3>1. mode \in DnsModes
        BY DeployAssumption DEF Budget, Typed, TypeOK, CountTypes
      <3>2. r \in ThreadRecords
        BY <3>1, Configured DEF Typed
      <3> QED
        BY <2>1, <3>2, Becoming DEF Typed
    <2>2. ASSUME NEW stage \in Stages, Fail(t, stage, "report")
          PROVE  th' \in [Threads -> ThreadRecords] /\ OthersKept(t)
      BY <2>2, Judging DEF Typed, Pcs, Same
    <2> QED
      BY <2>1, <2>2 DEF Prepare, Stages
  <1> QED
    BY <1>1, <1>2, <1>3, QuietTypes

LEMMA ConfType == ASSUME TypeOK, NEW t \in Threads PROVE ConfOf(t) \in Confs
  BY ThreadType DEF ConfOf, Confs

LEMMA WriteConfigTypes == ASSUME Typed, NEW t \in Threads, WriteConfig(t) PROVE Typed'
  <1>1. th[t].pc = "config" /\ (t \in Watches => WatchRecord(th[t]))
    BY WatchAt DEF WriteConfig, At
  <1>2. RouterTypes' /\ HistoryTypes'
    <2>1. /\ TypeOK /\ conf' \in Confs /\ verified' \in BOOLEAN
          /\ UNCHANGED <<core, fatal, dns, v6block, autostart, meta, loaded, dogs>>
          /\ UNCHANGED <<wish, offDone>>
      BY ConfType DEF WriteConfig, Typed, TypeOK, RouterTypes, HistoryTypes
    <2> QED
      BY <2>1 DEF TypeOK, RouterTypes, HistoryTypes
  <1>3. PanelTypes' /\ Counts /\ lock' \in {Nobody} \cup Jobs
    BY PanelStays DEF WriteConfig, Typed, Counts, TypeOK, ThreadTypes, Throw, Counted
  <1>4. CASE Goto(t, "meta")
    <2>1. Same(t) /\ th'[t].pc = "meta"
      BY <1>4, Going DEF Typed, Pcs
    <2> QED
      BY <1>1, <1>2, <1>3, <2>1, StepTypes DEF WriteConfig, Same, WatchRecord, WatchPcs
  <1>5. CASE Throw(t)
    BY <1>1, <1>2, <1>3, <1>5, ThrowTypes, StepTypes DEF WriteConfig
  <1> QED
    BY <1>4, <1>5 DEF WriteConfig

LEMMA WriteMetaTypes == ASSUME Typed, NEW t \in Threads, WriteMeta(t) PROVE Typed'
  <1>1. th[t].pc = "meta" /\ (t \in Watches => WatchRecord(th[t]))
    BY WatchAt DEF WriteMeta, At
  <1>2. RouterTypes' /\ HistoryTypes'
    BY ConfType, HistoryStays DEF WriteMeta, Typed, TypeOK, RouterTypes
  <1>3. PanelTypes' /\ Counts /\ lock' \in {Nobody} \cup Jobs
    BY PanelStays DEF WriteMeta, Typed, Counts, TypeOK, ThreadTypes, Throw, Counted
  <1>4. CASE Goto(t, IF th[t].tried THEN "restart" ELSE "takeover")
    <2>1. Same(t) /\ th'[t].pc = (IF th[t].tried THEN "restart" ELSE "takeover")
      BY <1>4, Going DEF Typed, Pcs
    <2> QED
      BY <1>1, <1>2, <1>3, <2>1, StepTypes DEF WriteMeta, Same, WatchRecord, WatchPcs
  <1>5. CASE Throw(t)
    BY <1>1, <1>2, <1>3, <1>5, ThrowTypes, StepTypes DEF WriteMeta
  <1> QED
    BY <1>4, <1>5 DEF WriteMeta

LEMMA TakeoverTypes == ASSUME Typed, NEW t \in Threads, Takeover(t) PROVE Typed'
  <1>1. th[t].pc = "takeover" /\ t \notin Watches
    BY WatchAt DEF Takeover, At, WatchRecord, WatchPcs
  <1>2. RouterTypes' /\ HistoryTypes'
    BY HistoryStays DEF Takeover, Typed, TypeOK, RouterTypes
  <1>3. PanelTypes' /\ Counts /\ lock' \in {Nobody} \cup Jobs
    BY PanelStays DEF Takeover, Typed, Counts, TypeOK, ThreadTypes, Throw, Counted
  <1>4. th' \in [Threads -> ThreadRecords] /\ OthersKept(t)
    BY ThrowTypes, Going DEF Takeover, Typed, Pcs, Same
  <1> QED
    BY <1>1, <1>2, <1>3, <1>4, StepTypes DEF Takeover

LEMMA FirewallTypes == ASSUME Typed, NEW t \in Threads, Firewall(t) PROVE Typed'
  <1>1. th[t].pc = "firewall" /\ t \notin Watches
    BY WatchAt DEF Firewall, At, WatchRecord, WatchPcs
  <1>2. RouterTypes' /\ HistoryTypes'
    BY HistoryStays DEF Firewall, Typed, TypeOK, RouterTypes
  <1>3. PanelTypes' /\ Counts /\ lock' \in {Nobody} \cup Jobs
    BY PanelStays DEF Firewall, Typed, Counts, TypeOK, ThreadTypes, Throw, Counted
  <1>4. th' \in [Threads -> ThreadRecords] /\ OthersKept(t)
    BY ThrowTypes, Going DEF Firewall, Typed, Pcs, Same
  <1> QED
    BY <1>1, <1>2, <1>3, <1>4, StepTypes DEF Firewall

LEMMA GateTypes == ASSUME Typed, NEW t \in Threads, Gate(t) PROVE Typed'
  <1>1. th[t].pc = "gate" /\ t \notin Watches
    BY WatchAt DEF Gate, At, WatchRecord, WatchPcs
  <1>2. Counts /\ Bystander
    BY DEF Gate, Counts, Counted, Bystander
  <1>3. th' \in [Threads -> ThreadRecords] /\ OthersKept(t)
    BY Judging, Going DEF Gate, Typed, Pcs, Same, Stages
  <1> QED
    BY <1>1, <1>2, <1>3, QuietTypes

LEMMA RestartTypes == ASSUME Typed, NEW t \in Threads, Restart(t) PROVE Typed'
  <1>1. th[t].pc = "restart" /\ (t \in Watches => WatchRecord(th[t]))
    BY WatchAt DEF Restart, At
  <1>2. RouterTypes' /\ HistoryTypes' /\ PanelTypes'
    <2>1. conf.mode \in DnsModes \cup {"none"}
      BY DEF Typed, TypeOK, RouterTypes, Confs
    <2>2. RouterTypes'
      BY <2>1 DEF Restart, StartCore, Launch, Dogs, Retaken, Typed, TypeOK, RouterTypes
    <2> QED
      BY <2>2, HistoryStays, PanelStays DEF Restart, Typed
  <1>3. Counts /\ lock' \in {Nobody} \cup Jobs
    BY DEF Restart, StartCore, Launch, Typed, Counts, TypeOK, ThreadTypes, Counted
  <1>4. CASE Goto(t, IF th[t].kind = "watch" THEN "settle" ELSE "verify1")
    <2>1. Same(t) /\ th'[t].pc = (IF th[t].kind = "watch" THEN "settle" ELSE "verify1")
      BY <1>4, Going DEF Typed, Pcs
    <2> QED
      BY <1>1, <1>2, <1>3, <2>1, StepTypes DEF Restart, Same, WatchRecord, WatchPcs
  <1>5. CASE Fail(t, IF th[t].kind = "watch" THEN "verify" ELSE "start", "stopcore")
    <2>1. Same(t) /\ th'[t].pc = "stopcore"
      BY <1>5, Judging DEF Typed, Pcs, Stages
    <2> QED
      BY <1>1, <1>2, <1>3, <2>1, StepTypes DEF Restart, Same, WatchRecord, WatchPcs
  <1> QED
    BY <1>4, <1>5 DEF Restart

LEMMA VerifyTypes == ASSUME Typed, NEW t \in Threads, Verify(t) PROVE Typed'
  <1>1. th[t].pc \in {"verify1", "verify2"} /\ t \notin Watches
    BY WatchAt DEF Verify, At, WatchRecord, WatchPcs
  <1>2. RouterTypes' /\ PanelTypes' /\ HistoryTypes' /\ Counts /\ lock' \in {Nobody} \cup Jobs
    BY RouterStays, PanelStays DEF Verify, Typed, TypeOK, HistoryTypes, ThreadTypes, Counts
  <1>3. th' \in [Threads -> ThreadRecords] /\ OthersKept(t)
    BY Judging, Going DEF Verify, Typed, Pcs, Same, Stages
  <1> QED
    BY <1>1, <1>2, <1>3, StepTypes DEF Verify

LEMMA ReadFatalTypes == ASSUME Typed, NEW t \in Threads, ReadFatal(t) PROVE Typed'
  <1>1. th[t].pc = "fatal" /\ (t \in Watches => WatchRecord(th[t]))
    BY WatchAt DEF ReadFatal, At
  <1>2. Counts /\ Bystander
    BY DEF ReadFatal, Counts, Bystander
  <1>3. /\ th' \in [Threads -> ThreadRecords] /\ OthersKept(t) /\ th'[t].kind = th[t].kind
        /\ (th'[t].pc = "config" /\ th'[t].tried) \/ th'[t].pc = "stopcore"
    BY Judging, Retrying DEF ReadFatal, Typed, Pcs, Same, Stages
  <1> QED
    BY <1>1, <1>2, <1>3, QuietTypes DEF WatchRecord, WatchPcs

LEMMA FailedTypes ==
    ASSUME Typed, NEW t \in Threads, NEW pc \in {"restoredns", "removefw", "report", "disable"},
           Failed(t, pc)
    PROVE  Same(t) /\ th'[t].pc = pc /\ Counts
  BY Undoes DEF Failed, Typed, Pcs, Counts, Counted

LEMMA RollbackStopTypes == ASSUME Typed, NEW t \in Threads, RollbackStop(t) PROVE Typed'
  <1>1. th[t].pc = "stopcore" /\ (t \in Watches => WatchRecord(th[t]))
    BY WatchAt DEF RollbackStop, At
  <1>2. RouterTypes' /\ PanelTypes' /\ HistoryTypes' /\ lock' \in {Nobody} \cup Jobs
    BY PanelStays, HistoryStays
       DEF RollbackStop, Cleanup, Typed, TypeOK, RouterTypes, ThreadTypes
  <1>3. Same(t) /\ th'[t].pc = "restoredns" /\ Counts
    BY FailedTypes, Undoes DEF RollbackStop, Typed, Pcs, Counts
  <1> QED
    BY <1>1, <1>2, <1>3, StepTypes DEF RollbackStop, Same, WatchRecord, WatchPcs

LEMMA RollbackDnsTypes == ASSUME Typed, NEW t \in Threads, RollbackDns(t) PROVE Typed'
  <1>1. th[t].pc = "restoredns" /\ (t \in Watches => WatchRecord(th[t]))
    BY WatchAt DEF RollbackDns, At
  <1>2. RouterTypes' /\ PanelTypes' /\ HistoryTypes' /\ lock' \in {Nobody} \cup Jobs
    BY PanelStays, HistoryStays DEF RollbackDns, Typed, TypeOK, RouterTypes, ThreadTypes
  <1>3. Same(t) /\ th'[t].pc = "removefw" /\ Counts
    BY FailedTypes, Going DEF RollbackDns, Typed, Pcs, Counts
  <1> QED
    BY <1>1, <1>2, <1>3, StepTypes DEF RollbackDns, Same, WatchRecord, WatchPcs

LEMMA RollbackFirewallTypes == ASSUME Typed, NEW t \in Threads, RollbackFirewall(t) PROVE Typed'
  <1> DEFINE next == IF th[t].kind = "rollback" THEN "disable" ELSE "report"
  <1>1. th[t].pc = "removefw" /\ (t \in Watches => WatchRecord(th[t]))
    BY WatchAt DEF RollbackFirewall, At
  <1>2. RouterTypes' /\ PanelTypes' /\ HistoryTypes' /\ lock' \in {Nobody} \cup Jobs
    <2>1. TypeOK /\ v6block' \in BOOLEAN /\ UNCHANGED <<panel, history, lock>>
          /\ UNCHANGED <<core, fatal, dns, autostart, conf, meta, loaded, dogs>>
      BY DEF RollbackFirewall, Typed, TypeOK, RouterTypes
    <2>2. RouterTypes'
      BY <2>1 DEF TypeOK, RouterTypes
    <2> QED
      BY <2>1, <2>2, PanelStays, HistoryStays DEF TypeOK, ThreadTypes
  <1>3. next \in {"report", "disable"} /\ next \in Pcs
    BY DEF Pcs
  <1>4. (Goto(t, next) /\ UNCHANGED count) \/ Failed(t, next)
    BY DEF RollbackFirewall
  <1> HIDE DEF next
  <1>5. Same(t) /\ th'[t].pc = next /\ Counts
    BY <1>3, <1>4, FailedTypes, Going DEF Typed, Counts
  <1> QED
    BY <1>1, <1>2, <1>3, <1>5, StepTypes DEF RollbackFirewall, Same, WatchRecord, WatchPcs

LEMMA FlagTypes == ASSUME Typed, NEW t \in Threads, Flag(t) PROVE Typed'
  <1>1. RouterTypes' /\ PanelTypes' /\ HistoryTypes' /\ Counts
    BY PanelStays, HistoryStays
       DEF Flag, EnableService, DisableService, Typed, TypeOK, RouterTypes, Counts, Counted
  <1>2. th' \in [Threads -> ThreadRecords] /\ OthersKept(t) /\ th'[t] = Gone
        /\ lock' \in {Nobody} \cup Jobs
    BY Ending DEF Flag, Return, Typed, TypeOK, ThreadTypes
  <1> QED
    BY <1>1, <1>2, StepTypes, GoneWatch DEF Flag

LEMMA StopTypes == ASSUME Typed, NEW t \in Threads, Stop(t) PROVE Typed'
  <1>1. th[t].pc = "stop" /\ t \notin Watches
    BY WatchAt DEF Stop, At, WatchRecord, WatchPcs
  <1>2. RouterTypes' /\ PanelTypes' /\ HistoryTypes' /\ Counts
    BY PanelStays, HistoryStays
       DEF Stop, Cleanup, Typed, TypeOK, RouterTypes, Counts, Counted
  <1>3. th' \in [Threads -> ThreadRecords] /\ OthersKept(t) /\ lock' \in {Nobody} \cup Jobs
    BY Ending, Going DEF Stop, Return, Typed, TypeOK, ThreadTypes, Same, Pcs
  <1> QED
    BY <1>1, <1>2, <1>3, StepTypes DEF Stop

LEMMA DisableTypes == ASSUME Typed, NEW t \in Threads, Disable(t) PROVE Typed'
  <1>1. RouterTypes' /\ PanelTypes' /\ HistoryTypes' /\ Counts
    <2>1. TypeOK /\ wish \in {"none", "on", "off"} /\ offDone \in BOOLEAN
      BY DEF Typed, TypeOK, HistoryTypes
    <2>2. autostart' \in BOOLEAN /\ offDone' \in BOOLEAN
      BY <2>1 DEF Disable, DisableService, TypeOK, RouterTypes
    <2>3. RouterTypes' /\ PanelTypes' /\ HistoryTypes'
      BY <2>1, <2>2, PanelStays DEF Disable, TypeOK, RouterTypes, HistoryTypes
    <2>4. Counts
      BY DEF Disable, Counts, Counted
    <2> QED
      BY <2>3, <2>4
  <1>2. th' \in [Threads -> ThreadRecords] /\ OthersKept(t) /\ th'[t] = Gone
        /\ lock' \in {Nobody} \cup Jobs
    BY Ending DEF Disable, Return, Typed, TypeOK, ThreadTypes
  <1> QED
    BY <1>1, <1>2, StepTypes, GoneWatch DEF Disable

LEMMA WakeTypes == ASSUME Typed, NEW t \in Threads, Wake(t) PROVE Typed'
  <1>1. th[t].pc \in {"wake1", "wake2"} /\ (t \in Watches => WatchRecord(th[t]))
    BY WatchAt DEF Wake, At
  <1>2. Counts /\ Bystander
    BY DEF Wake, Counts, Bystander
  <1>3. CASE Become(t, Gone)
    BY <1>2, <1>3, Ending, GoneWatch, QuietTypes DEF Typed
  <1>4. ASSUME NEW pc \in {"look1", "look2"}, Goto(t, pc) PROVE Typed'
    <2>1. Same(t) /\ th'[t].pc = pc
      BY <1>4, Going DEF Typed, Pcs
    <2> QED
      BY <1>1, <1>2, <2>1, QuietTypes DEF Same, WatchRecord, WatchPcs
  <1> QED
    BY <1>3, <1>4 DEF Wake

LEMMA LookTypes == ASSUME Typed, NEW t \in Threads, Look(t) PROVE Typed'
  <1>1. th[t].pc \in {"look1", "look2"} /\ (t \in Watches => WatchRecord(th[t]))
    BY WatchAt DEF Look, At
  <1>2. Counts /\ Bystander
    BY DEF Look, Counts, Bystander
  <1>3. CASE Become(t, Gone)
    BY <1>2, <1>3, Ending, GoneWatch, QuietTypes DEF Typed
  <1>4. ASSUME NEW pc \in {"fatal", "wake2"}, Goto(t, pc) PROVE Typed'
    <2>1. Same(t) /\ th'[t].pc = pc
      BY <1>4, Going DEF Typed, Pcs
    <2> QED
      BY <1>1, <1>2, <2>1, QuietTypes DEF Same, WatchRecord, WatchPcs
  <1> QED
    BY <1>3, <1>4 DEF Look

LEMMA SettleTypes == ASSUME Typed, NEW t \in Threads, Settle(t) PROVE Typed'
  <1>1. th[t].pc = "settle" /\ (t \in Watches => WatchRecord(th[t]))
    BY WatchAt DEF Settle, At
  <1>2. RouterTypes' /\ PanelTypes' /\ HistoryTypes' /\ Counts /\ lock' \in {Nobody} \cup Jobs
    BY RouterStays, PanelStays DEF Settle, Typed, TypeOK, HistoryTypes, ThreadTypes, Counts
  <1>3. Same(t) /\ th'[t].pc \in {"report", "stopcore"}
    BY Judging DEF Settle, Typed, Pcs, Stages
  <1> QED
    BY <1>1, <1>2, <1>3, StepTypes DEF Settle, Same, WatchRecord, WatchPcs

LEMMA ReportTypes == ASSUME Typed, NEW t \in Threads, Report(t) PROVE Typed'
  <1>1. th[t].pc = "report" /\ (t \in Watches => WatchRecord(th[t]))
    BY WatchAt DEF Report, At
  <1>2. RouterTypes' /\ PanelTypes' /\ HistoryTypes' /\ Counts /\ lock' \in {Nobody} \cup Jobs
    BY RouterStays, HistoryStays, ThreadType
       DEF Report, Typed, TypeOK, PanelTypes, ThreadTypes, Counts
  <1>3. CASE Become(t, Gone)
    BY <1>2, <1>3, Ending, GoneWatch, StepTypes DEF Typed, Report
  <1>4. CASE Goto(t, "disable") \/ (th[t].kind # "watch" /\ Goto(t, "flag"))
    <2>1. Same(t) /\ (th'[t].pc = "disable" \/ th[t].kind # "watch")
      BY <1>4, Going DEF Typed, Pcs
    <2> QED
      BY <1>1, <1>2, <2>1, StepTypes DEF Report, Same, WatchRecord, WatchPcs
  <1>5. CASE /\ th[t].kind # "watch"
             /\ th' = [th EXCEPT ![t] = [th[t] EXCEPT !.pc = "flag"],
                                 ![th[t].serial] = FreshWatch(t)]
    <2> DEFINE r == [th[t] EXCEPT !.pc = "flag"]
    <2>1. r \in ThreadRecords /\ FreshWatch(t) \in ThreadRecords
      BY Flagged DEF Typed
    <2>2. FreshWatch(t).pc = "wake1" /\ FreshWatch(t).kind = "watch"
      BY Flagged DEF Typed
    <2>3. t \notin Watches
      BY <1>1, <1>5 DEF WatchRecord
    <2>4. th \in [Threads -> ThreadRecords]
      BY DEF Typed, TypeOK, ThreadTypes
    <2>5. /\ th' \in [Threads -> ThreadRecords]
          /\ \A u \in Threads \ {t} : th'[u] = th[u] \/ th'[u] = FreshWatch(t)
      BY <1>5, <2>1, <2>4
    <2>6. WatchRecord(FreshWatch(t))
      BY <2>2 DEF WatchRecord, WatchPcs
    <2>7. Watched'
      BY <2>3, <2>5, <2>6, Jobs0 DEF Typed, Watched, WatchRecord
    <2>8. upgrade' \in {"no", "killed", "stopped", "deploying"} /\ wasRunning' \in BOOLEAN
      BY DEF Report, Typed, TypeOK, outside
    <2> QED
      BY <1>2, <2>5, <2>7, <2>8, CountsTyped DEF Typed, TypeOK, ThreadTypes
  <1> QED
    BY <1>3, <1>4, <1>5 DEF Report

LEMMA StepTyped == ASSUME Typed, NEW t \in Threads, Step(t) PROVE Typed'
  BY AcquireTypes, BeginTypes, PrepareTypes, WriteConfigTypes, WriteMetaTypes, TakeoverTypes,
     FirewallTypes, GateTypes, RestartTypes, VerifyTypes, ReadFatalTypes, RollbackStopTypes,
     RollbackDnsTypes, RollbackFirewallTypes, ReportTypes, FlagTypes, StopTypes, DisableTypes,
     WakeTypes, LookTypes, SettleTypes DEF Step

-----------------------------------------------------------------------------
(* Each step of the rest keeps the types.                                  *)

\* A request is put at the end of the queue.
LEMMA Asking ==
    ASSUME TypeOK, NEW kind \in {"deploy", "stop", "rollback"}, NEW gen \in Nat, Enqueue(kind, gen)
    PROVE  /\ queue' \in Seq(Requests)
           /\ \A i \in 1..Len(queue') : \/ queue'[i] = [kind |-> kind, gen |-> gen]
                                        \/ \E j \in 1..Len(queue) : queue'[i] = queue[j]
           /\ Len(queue') = Len(queue) + 1 /\ queue'[Len(queue) + 1] = [kind |-> kind, gen |-> gen]
           /\ Len(queue) \in Nat /\ \A i \in 1..Len(queue) : queue'[i] = queue[i]
  <1> DEFINE r == [kind |-> kind, gen |-> gen]
  <1>1. r \in Requests /\ queue \in Seq(Requests) /\ queue' = Append(queue, r)
    BY DEF Requests, Enqueue, TypeOK, PanelTypes
  <1> HIDE DEF r
  <1>2. /\ queue' \in Seq(Requests) /\ Len(queue) \in Nat /\ Len(queue') = Len(queue) + 1
        /\ queue'[Len(queue) + 1] = r /\ \A i \in 1..Len(queue) : queue'[i] = queue[i]
    BY <1>1
  <1>3. \A i \in 1..Len(queue') : queue'[i] = r \/ \E j \in 1..Len(queue) : queue'[i] = queue[j]
    BY <1>2
  <1> QED
    BY <1>2, <1>3 DEF r

\* The threads stay.
LEMMA RestTypes ==
    ASSUME Typed, UNCHANGED <<lock, th>>, RouterTypes', PanelTypes', Counts, HistoryTypes',
           upgrade' \in {"no", "killed", "stopped", "deploying"}, wasRunning' \in BOOLEAN
    PROVE  Typed'
  <1>1. Watched' /\ ThreadTypes'
    BY DEF Typed, Watched, TypeOK, ThreadTypes
  <1> QED
    BY <1>1, CountsTyped DEF Typed, TypeOK

LEMMA RunDeployTypes == Typed /\ RunDeploy => Typed'
  <1> SUFFICES ASSUME Typed, RunDeploy PROVE Typed'
    OBVIOUS
  <1>1. stopGen \in Nat /\ Enqueue("deploy", stopGen)
    BY DEF RunDeploy, Typed, TypeOK, PanelTypes
  <1>2. RouterTypes' /\ PanelTypes' /\ HistoryTypes'
    BY <1>1, Asking, RouterStays DEF RunDeploy, Typed, TypeOK, PanelTypes, HistoryTypes
  <1> QED
    BY <1>2, RestTypes DEF RunDeploy, Counts, Counted, Typed, TypeOK, outside

LEMMA RunExclusiveTypes ==
    ASSUME Typed, NEW kind \in {"stop", "rollback"}, RunExclusive(kind) PROVE Typed'
  <1>1. stopGen' \in Nat /\ Enqueue(kind, stopGen')
    BY DEF RunExclusive, Typed, TypeOK, PanelTypes
  <1>2. RouterTypes' /\ PanelTypes' /\ HistoryTypes'
    BY <1>1, Asking, RouterStays DEF RunExclusive, Typed, TypeOK, PanelTypes, HistoryTypes
  <1> QED
    BY <1>2, RestTypes DEF RunExclusive, Counts, Counted, Typed, TypeOK, outside

LEMMA BackgroundTypes == Typed /\ (BackgroundLook \/ BackgroundDeploy) => Typed'
  <1> SUFFICES ASSUME Typed, BackgroundLook \/ BackgroundDeploy PROVE Typed'
    OBVIOUS
  <1>1. RouterTypes' /\ HistoryTypes'
    BY RouterStays, HistoryStays DEF BackgroundLook, BackgroundDeploy, Typed
  <1>2. PanelTypes'
    BY Asking DEF BackgroundLook, BackgroundDeploy, Typed, TypeOK, PanelTypes
  <1> QED
    BY <1>1, <1>2, RestTypes
       DEF BackgroundLook, BackgroundDeploy, Counts, Counted, Typed, TypeOK, outside

\* The next request becomes the job.
LEMMA Dequeuing ==
    ASSUME TypeOK, Dequeue
    PROVE  /\ queue' \in Seq(Requests) /\ queue[1] \in Requests /\ th[Panel].pc = "gone"
           /\ Len(queue) \in Nat /\ Len(queue) >= 1 /\ Len(queue') = Len(queue) - 1
           /\ \A i \in 1..Len(queue') : queue'[i] = queue[i + 1]
           /\ th' \in [Threads -> ThreadRecords] /\ OthersKept(Panel)
           /\ th'[Panel].pc = "lock" /\ th'[Panel].kind = queue[1].kind
           /\ th'[Panel].gen = queue[1].gen /\ th'[Panel].tried = FALSE
           /\ th'[Panel].stage = "running" /\ th'[Panel].rollback = "none"
           /\ th'[Panel].kind \in {"deploy", "stop", "rollback"}
  <1> DEFINE r == Head(queue)
             p == [Gone EXCEPT !.pc = "lock", !.kind = r.kind, !.gen = r.gen]
  <1>1. /\ queue \in Seq(Requests) /\ queue # <<>> /\ th[Panel].pc = "gone"
        /\ Become(Panel, p) /\ queue' = Tail(queue)
    BY DEF Dequeue, At, TypeOK, PanelTypes
  <1>2. /\ r \in Requests /\ r = queue[1] /\ queue' \in Seq(Requests)
        /\ Len(queue) \in Nat /\ Len(queue) >= 1 /\ Len(queue') = Len(queue) - 1
        /\ \A i \in 1..Len(queue') : queue'[i] = queue[i + 1]
    BY <1>1
  <1>3. r.kind \in {"deploy", "stop", "rollback"} /\ r.gen \in Nat
    BY <1>2 DEF Requests
  <1>4. /\ p \in ThreadRecords
        /\ p.pc = "lock" /\ p.kind = r.kind /\ p.gen = r.gen /\ p.tried = FALSE
        /\ p.stage = "running" /\ p.rollback = "none"
    BY <1>3, GoneFields DEF ThreadRecords, Pcs, Kinds, Gone
  <1>5. th' \in [Threads -> ThreadRecords] /\ th'[Panel] = p /\ OthersKept(Panel)
    BY <1>1, <1>4, Becoming, Jobs0
  <1> QED
    BY <1>1, <1>2, <1>3, <1>4, <1>5

LEMMA DequeueTypes == Typed /\ Dequeue => Typed'
  <1> SUFFICES ASSUME Typed, Dequeue PROVE Typed'
    OBVIOUS
  <1>1. RouterTypes' /\ HistoryTypes' /\ PanelTypes' /\ Counts /\ lock' \in {Nobody} \cup Jobs
    BY RouterStays, HistoryStays, Dequeuing
       DEF Dequeue, Typed, TypeOK, PanelTypes, ThreadTypes, Counts
  <1> QED
    BY <1>1, Dequeuing, StepTypes, Jobs0 DEF Typed, Dequeue

LEMMA CoreDiesTypes == Typed /\ CoreDies => Typed'
  <1> SUFFICES ASSUME Typed, CoreDies PROVE Typed'
    OBVIOUS
  <1>1. RouterTypes' /\ HistoryTypes' /\ PanelTypes'
    BY PanelStays, HistoryStays DEF CoreDies, Typed, TypeOK, RouterTypes
  <1> QED
    BY <1>1, RestTypes DEF CoreDies, Counts, Counted, Typed, TypeOK, outside

LEMMA DogTypes ==
    ASSUME Typed, NEW d \in {"current", "old"}, DogLeaves(d) \/ DogCleans(d) PROVE Typed'
  <1>1. RouterTypes' /\ HistoryTypes' /\ PanelTypes'
    BY PanelStays, HistoryStays DEF DogLeaves, DogCleans, Cleanup, Typed, TypeOK, RouterTypes
  <1> QED
    BY <1>1, RestTypes DEF DogLeaves, DogCleans, Cleanup, Counts, Counted, Typed, TypeOK, outside

\* The panel forgets its queue and its jobs.
LEMMA Forgetting ==
    ASSUME Forget
    PROVE  /\ queue' = <<>> /\ queue' \in Seq(Requests) /\ Len(queue') = 0
           /\ stopGen' = 0 /\ serial' = 0 /\ bg' = FALSE /\ lock' = Nobody
           /\ th' \in [Threads -> ThreadRecords] /\ \A t \in Threads : th'[t] = Gone
  <1>1. /\ queue' = <<>> /\ stopGen' = 0 /\ serial' = 0 /\ bg' = FALSE /\ lock' = Nobody
        /\ th' = [t \in Threads |-> Gone]
    BY DEF Forget
  <1>2. queue' \in Seq(Requests) /\ Len(queue') = 0
    BY <1>1
  <1> QED
    BY <1>1, <1>2, GoneFields

LEMMA ForgetTypes ==
    ASSUME Typed, Forget, UNCHANGED state, RouterTypes', Counts, HistoryTypes',
           upgrade' \in {"no", "killed", "stopped", "deploying"}, wasRunning' \in BOOLEAN
    PROVE  Typed'
  <1>1. PanelTypes' /\ ThreadTypes' /\ Watched'
    BY Forgetting, GoneWatch, Jobs0 DEF Typed, TypeOK, PanelTypes, ThreadTypes, Watched
  <1> QED
    BY <1>1, CountsTyped DEF Typed, TypeOK

LEMMA LossTypes == Typed /\ (PowerLoss \/ PanelDies) => Typed'
  <1> SUFFICES ASSUME Typed, PowerLoss \/ PanelDies PROVE Typed'
    OBVIOUS
  <1>1. conf.mode \in DnsModes \cup {"none"}
    BY DEF Confs, Typed, TypeOK, RouterTypes
  <1>2. RouterTypes' /\ HistoryTypes'
    BY <1>1, HistoryStays
       DEF PowerLoss, PanelDies, Retaken, DnsAtBoot, Typed, TypeOK, RouterTypes
  <1> QED
    BY <1>2, ForgetTypes DEF PowerLoss, PanelDies, Counts, Counted, Typed, TypeOK, outside

\* The command line gets its job.
LEMMA Upgrading ==
    ASSUME TypeOK, Become(Cli, [Gone EXCEPT !.pc = "lock"])
    PROVE  /\ th' \in [Threads -> ThreadRecords] /\ OthersKept(Cli) /\ th'[Cli].pc = "lock"
           /\ th'[Cli].kind = "deploy" /\ th'[Cli].gen = 0 /\ th'[Cli].tried = FALSE
           /\ th'[Cli].stage = "running" /\ th'[Cli].rollback = "none"
  <1> DEFINE r == [Gone EXCEPT !.pc = "lock"]
  <1>1. /\ r \in ThreadRecords /\ r.pc = "lock" /\ r.kind = "deploy" /\ r.gen = 0
        /\ r.tried = FALSE /\ r.stage = "running" /\ r.rollback = "none"
    BY DEF Gone, ThreadRecords, Pcs, Kinds, Stages
  <1> QED
    BY <1>1, Becoming, Jobs0

LEMMA UpgradeTypes ==
    Typed /\ (UpgradeKill \/ UpgradeStop \/ UpgradeDeploy \/ UpgradeDone) => Typed'
  <1>1. ASSUME Typed, UpgradeKill PROVE Typed'
    BY <1>1, RouterStays, HistoryStays, ForgetTypes DEF UpgradeKill, Counts, Counted, Typed
  <1>2. ASSUME Typed, UpgradeStop PROVE Typed'
    <2>1. RouterTypes' /\ PanelTypes' /\ HistoryTypes'
      BY <1>2, PanelStays, HistoryStays DEF UpgradeStop, Cleanup, Typed, TypeOK, RouterTypes
    <2> QED
      BY <1>2, <2>1, RestTypes DEF UpgradeStop, Counts, Typed, TypeOK
  <1>3. ASSUME Typed, UpgradeDone PROVE Typed'
    BY <1>3, RouterStays, PanelStays, HistoryStays, RestTypes
       DEF UpgradeDone, Counts, Typed, TypeOK
  <1>4. ASSUME Typed, UpgradeDeploy PROVE Typed'
    <2>1. RouterTypes' /\ PanelTypes' /\ HistoryTypes' /\ Counts
      BY <1>4, RouterStays, PanelStays, HistoryStays DEF UpgradeDeploy, Typed, Counts
    <2>2. /\ upgrade' \in {"no", "deploying"} /\ wasRunning' \in BOOLEAN
          /\ lock' \in {Nobody} \cup Jobs
      BY <1>4 DEF UpgradeDeploy, Typed, TypeOK, ThreadTypes
    <2>3. CASE UNCHANGED th
      BY <1>4, <2>1, <2>2, <2>3, RestTypes DEF UpgradeDeploy
    <2>4. CASE Become(Cli, [Gone EXCEPT !.pc = "lock"])
      <3>1. Watched'
        BY <1>4, <2>4, Upgrading, Jobs0 DEF Typed, Watched, OthersKept
      <3> QED
        BY <1>4, <2>1, <2>2, <2>4, <3>1, Upgrading, CountsTyped DEF Typed, TypeOK, ThreadTypes
    <2> QED
      BY <1>4, <2>3, <2>4 DEF UpgradeDeploy
  <1> QED
    BY <1>1, <1>2, <1>3, <1>4

LEMMA InitTyped == Init => Typed
  <1> SUFFICES ASSUME Init PROVE Typed
    OBVIOUS
  <1>1. th \in [Threads -> ThreadRecords] /\ \A t \in Threads : th[t] = Gone
    BY GoneFields DEF Init
  <1>2. CountTypes
    <2>1. /\ count \in [budget : Budgets, used : [Counted -> Nat]]
          /\ \A w \in Counted : count.used[w] = 0 /\ count.budget[w] \in Nat
      BY DeployAssumption DEF Init, Budget
    <2> QED
      BY <2>1 DEF CountTypes
  <1>3. RouterTypes
    BY DEF Init, RouterTypes, Confs, NoConf
  <1>4. PanelTypes
    <2>1. queue \in Seq(Requests)
      BY DEF Init
    <2> QED
      BY <2>1 DEF Init, PanelTypes, Stages
  <1>5. Watched
    BY <1>1, GoneWatch, Jobs0 DEF Watched
  <1> QED
    BY <1>1, <1>2, <1>3, <1>4, <1>5 DEF Init, Typed, TypeOK, ThreadTypes, HistoryTypes

LEMMA NextTyped == Typed /\ [Next]_vars => Typed'
  <1> SUFFICES ASSUME Typed, [Next]_vars PROVE Typed'
    OBVIOUS
  <1>1. CASE UNCHANGED vars
    BY <1>1, RouterStays, PanelStays, HistoryStays, RestTypes
       DEF vars, router, panel, history, Counts, Typed, TypeOK
  <1> QED
    BY <1>1, RunDeployTypes, RunExclusiveTypes, BackgroundTypes, DequeueTypes, StepTyped,
       LockTimeoutTypes, CoreDiesTypes, DogTypes, LossTypes, UpgradeTypes DEF Next

\* Every variable keeps its type in every behaviour, with late watches and update.sh too:
\* a late watch never comes to a step of a job that takes the lock (lateCrashWatch).
THEOREM TypeCorrect == Spec => []TypeOK
  <1>1. Typed => TypeOK
    BY DEF Typed
  <1> QED
    BY <1>1, InitTyped, NextTyped, PTL DEF Spec

-----------------------------------------------------------------------------
(* A kernel that ran before an upgrade.  As long as nothing fails, dies or  *)
(* is stopped, every job is a deploy that goes all the way and leaves the   *)
(* kernel up.                                                              *)

Calm == NoFaults /\ \A w \in {"flags", "deaths", "stops"} : Happened(w) = 0

Way == {"gone", "lock", "begin", "prep", "config", "meta", "takeover", "firewall", "gate",
        "restart", "verify1", "verify2", "report", "flag"}

\* The record of a job and the kernel it finds.
OnTheWay(t, r, kernel) ==
    /\ r.kind = "deploy" /\ r.gen = 0 /\ r.pc \in Way
    /\ r.pc \in {"verify1", "verify2", "report", "flag"} => kernel = "up"
    /\ r.pc \in {"report", "flag"} => r.stage = "running"
    /\ t = Panel /\ r.pc \notin {"gone", "lock", "begin"} => r.serial > 0

\* A late watch has nothing to do but look.
Content(r, kernel) ==
    r.pc # "gone" =>
        /\ r.kind = "watch" /\ r.gen = 0 /\ kernel = "up"
        /\ r.pc \in {"wake1", "look1", "wake2", "look2"}

\* Nobody works while the panel is down, and the command line only for the upgrade.
Interrupted ==
    /\ upgrade \in {"killed", "stopped"} =>
          queue = <<>> /\ ~bg /\ \A t \in Threads : th[t].pc = "gone"
    /\ upgrade # "deploying" => th[Cli].pc = "gone"

Kept ==
    wasRunning /\ \/ upgrade = "deploying" /\ th[Cli].pc = "gone"
                  \/ upgrade = "no" /\ Happened("upgrades") > 0
    => core = "up" /\ autostart

Smooth ==
    /\ core \in {"down", "up"} /\ stopGen = 0
    /\ \A i \in 1..Len(queue) : queue[i].kind = "deploy" /\ queue[i].gen = 0
    /\ \A t \in Jobs : OnTheWay(t, th[t], core)
    /\ \A t \in Watches : Content(th[t], core)
    /\ Interrupted /\ Kept

KeepInv == Typed /\ (Calm => Smooth)

\* Each of these ends the calm, which no step brings back.
Troubles == {"faults", "flags", "losses", "deaths", "stops"}

LEMMA TroubleStays ==
    ASSUME TypeOK
    PROVE  /\ \A w \in Troubles : May(w) /\ Use(w) => ~Calm'
           /\ \A w \in Counted : May(w) /\ Use(w) /\ Calm' => Calm
           /\ UNCHANGED count /\ Calm' => Calm
  <1>1. \A w \in Counted : count.used[w] \in Nat
    BY DEF TypeOK, CountTypes
  <1>2. ASSUME NEW w \in Counted, May(w), Use(w)
        PROVE  /\ count'.used[w] = count.used[w] + 1
               /\ \A x \in Counted \ {w} : count'.used[x] = count.used[x]
    BY <1>2, Counting
  <1>3. ASSUME NEW w \in Troubles, May(w), Use(w) PROVE ~Calm'
    <2>1. w \in Counted /\ count'.used[w] = count.used[w] + 1 /\ count.used[w] \in Nat
      BY <1>1, <1>2, <1>3 DEF Troubles, Counted
    <2>2. count'.used[w] # 0
      BY <2>1
    <2> QED
      BY <2>2 DEF Calm, NoFaults, Happened, Troubles
  <1>4. ASSUME NEW w \in Counted, May(w), Use(w), Calm' PROVE Calm
    <2>1. \A x \in Counted : count'.used[x] = 0 => count.used[x] = 0
      BY <1>1, <1>2, <1>4
    <2> QED
      BY <1>4, <2>1 DEF Calm, NoFaults, Happened, Counted
  <1>5. UNCHANGED count /\ Calm' => Calm
    BY DEF Calm, NoFaults, Happened
  <1> QED
    BY <1>3, <1>4, <1>5

\* A thread at work goes on, and does the kernel no harm.
LEMMA Onward ==
    ASSUME TypeOK, Smooth, NEW t \in Threads, OthersKept(t), th[t].pc # "gone",
           t \in Jobs => OnTheWay(t, th'[t], core'), t \in Watches => Content(th'[t], core'),
           core' = core \/ core' = "up", autostart' = autostart \/ autostart' = TRUE,
           UNCHANGED <<stopGen, queue, bg, upgrade, wasRunning>>,
           t = Cli /\ th'[t].pc = "gone" => core' = "up" /\ autostart' = TRUE,
           Happened("upgrades")' = Happened("upgrades")
    PROVE  Smooth'
  <1>1. \A u \in Jobs : OnTheWay(u, th'[u], core')
    BY Jobs0 DEF Smooth, OnTheWay, OthersKept
  <1>2. \A u \in Watches : Content(th'[u], core')
    BY Jobs0 DEF Smooth, Content, OthersKept
  <1>3. Interrupted'
    BY Jobs0 DEF Smooth, Interrupted, OthersKept
  <1>4. Kept'
    BY Jobs0 DEF Smooth, Kept, Interrupted, OthersKept, TypeOK, RouterTypes
  <1> QED
    BY <1>1, <1>2, <1>3, <1>4 DEF Smooth

\* A deploy of the calm.
LEMMA JobOnward ==
    ASSUME KeepInv, Calm, Calm', NEW t \in Jobs, Step(t)
    PROVE  Smooth'
  <1> USE DEF KeepInv, Typed
  <1>1. /\ Smooth /\ OnTheWay(t, th[t], core) /\ t \in Threads /\ th[t].kind = "deploy"
        /\ th[t].pc \in Way
        /\ TypeOK
    BY Jobs0 DEF Smooth, OnTheWay
  <1>2. ~Cancelled(t)
    BY <1>1 DEF Smooth, OnTheWay, Cancelled
  <1>3. \A w \in Troubles : ~(May(w) /\ Use(w))
    BY TroubleStays
  <1>4. UNCHANGED count => Happened("upgrades")' = Happened("upgrades")
    BY DEF Happened
  <1>5. CASE Acquire(t)
    <2>1. /\ th[t].pc = "lock" /\ Goto(t, "begin") /\ UNCHANGED count
          /\ UNCHANGED <<core, autostart, stopGen, queue, bg, upgrade, wasRunning>>
      BY <1>1, <1>5 DEF Acquire, At, router, panel, outside
    <2>2. Same(t) /\ th'[t].pc = "begin"
      BY <1>1, <2>1, Going DEF Pcs
    <2>3. OnTheWay(t, th'[t], core')
      BY <1>1, <2>1, <2>2 DEF OnTheWay, Same, Way
    <2> QED
      BY <1>1, <1>4, <2>1, <2>2, <2>3, Onward, Jobs0 DEF Same
  <1>6. CASE Begin(t)
    <2> DEFINE r == [th[t] EXCEPT !.pc = "prep", !.serial = serial']
    <2>1. /\ th[t].pc = "begin" /\ Become(t, r) /\ UNCHANGED count
          /\ serial' = (IF t = Panel THEN serial + 1 ELSE serial) /\ serial \in Nat
          /\ UNCHANGED <<core, autostart, stopGen, queue, bg, upgrade, wasRunning>>
      BY <1>2, <1>6 DEF Begin, At, router, outside, TypeOK, PanelTypes
    <2>2. r \in ThreadRecords
      <3>1. serial' \in Nat
        BY <2>1
      <3> QED
        BY <1>1, <3>1, Prepped
    <2>3. OthersKept(t) /\ th'[t] = r
      BY <1>1, <2>1, <2>2, Becoming
    <2>4. th'[t].pc = "prep" /\ th'[t].kind = "deploy" /\ th'[t].gen = th[t].gen
          /\ th'[t].serial = serial'
      BY <1>1, <2>3, ThreadType DEF ThreadRecords
    <2>5. OnTheWay(t, th'[t], core')
      BY <1>1, <2>1, <2>4 DEF OnTheWay, Way
    <2> QED
      BY <1>1, <1>4, <2>1, <2>3, <2>4, <2>5, Onward, Jobs0
  <1>7. CASE Prepare(t)
    <2>1. PICK mode \in count.budget.modes, redirect \in BOOLEAN :
             /\ Become(t, [th[t] EXCEPT !.pc = "config", !.mode = mode, !.redirect = redirect])
             /\ UNCHANGED count
      BY <1>2, <1>3, <1>7 DEF Prepare, Troubles
    <2> DEFINE r == [th[t] EXCEPT !.pc = "config", !.mode = mode, !.redirect = redirect]
    <2>2. mode \in DnsModes
      BY DeployAssumption DEF Budget, TypeOK, CountTypes
    <2>3. r \in ThreadRecords
      BY <1>1, <2>2, Configured
    <2>4. OthersKept(t) /\ th'[t] = r
      BY <1>1, <2>1, <2>3, Becoming
    <2>5. th'[t].pc = "config" /\ th'[t].kind = "deploy" /\ th'[t].gen = th[t].gen
          /\ th'[t].serial = th[t].serial
      BY <1>1, <2>4, ThreadType DEF ThreadRecords
    <2>6. /\ th[t].pc = "prep"
          /\ UNCHANGED <<core, autostart, stopGen, queue, bg, upgrade, wasRunning>>
      BY <1>7 DEF Prepare, At, router, panel, outside
    <2>7. OnTheWay(t, th'[t], core')
      BY <1>1, <2>5, <2>6 DEF OnTheWay, Way
    <2> QED
      BY <1>1, <1>4, <2>1, <2>4, <2>5, <2>6, <2>7, Onward, Jobs0
  <1>8. CASE WriteConfig(t) \/ WriteMeta(t) \/ Takeover(t) \/ Firewall(t) \/ Gate(t)
    <2>1. /\ UNCHANGED <<core, autostart, stopGen, queue, bg, upgrade, wasRunning, count>>
          /\ th[t].pc \in {"config", "meta", "takeover", "firewall", "gate"}
          /\ \E pc \in {"meta", "takeover", "firewall", "gate", "restart"} : Goto(t, pc)
      BY <1>2, <1>3, <1>8
         DEF WriteConfig, WriteMeta, Takeover, Firewall, Gate, Throw, Troubles, At, router, panel,
             outside
    <2>2. PICK pc \in {"meta", "takeover", "firewall", "gate", "restart"} : Goto(t, pc)
      BY <2>1
    <2>3. Same(t) /\ th'[t].pc = pc
      BY <1>1, <2>2, Going DEF Pcs
    <2>4. OnTheWay(t, th'[t], core')
      BY <1>1, <2>1, <2>3 DEF OnTheWay, Same, Way
    <2> QED
      BY <1>1, <1>4, <2>1, <2>3, <2>4, Onward, Jobs0 DEF Same
  <1>9. CASE Restart(t)
    <2>1. /\ UNCHANGED <<autostart, stopGen, queue, bg, upgrade, wasRunning, count>>
          /\ th[t].pc = "restart" /\ core' = "up" /\ Goto(t, "verify1")
      BY <1>1, <1>3, <1>9 DEF Restart, StartCore, Launch, Troubles, At, panel, outside
    <2>2. Same(t) /\ th'[t].pc = "verify1"
      BY <1>1, <2>1, Going DEF Pcs
    <2>3. OnTheWay(t, th'[t], core')
      BY <1>1, <2>1, <2>2 DEF OnTheWay, Same, Way
    <2> QED
      BY <1>1, <1>4, <2>1, <2>2, <2>3, Onward, Jobs0 DEF Same
  <1>10. CASE Verify(t)
    <2>1. /\ UNCHANGED <<core, autostart, stopGen, queue, bg, upgrade, wasRunning, count>>
          /\ th[t].pc \in {"verify1", "verify2"} /\ core = "up"
          /\ Goto(t, "verify2") \/ Fail(t, "running", "report")
      BY <1>1, <1>2, <1>10 DEF Verify, At, OnTheWay, router, panel, outside
    <2>2. Same(t) /\ (th'[t].pc = "verify2" \/ (th'[t].pc = "report" /\ th'[t].stage = "running"))
      BY <1>1, <2>1, Going, Judging DEF Pcs, Stages
    <2>3. OnTheWay(t, th'[t], core')
      BY <1>1, <2>1, <2>2 DEF OnTheWay, Same, Way
    <2> QED
      BY <1>1, <1>4, <2>1, <2>2, <2>3, Onward, Jobs0 DEF Same
  <1>11. CASE Report(t)
    <2>1. /\ UNCHANGED <<core, autostart, stopGen, queue, bg, upgrade, wasRunning, count>>
          /\ th[t].pc = "report" /\ core = "up" /\ th[t].stage = "running"
      BY <1>1, <1>11 DEF Report, At, OnTheWay, router, outside
    <2>2. CASE Goto(t, "flag")
      <3>1. Same(t) /\ th'[t].pc = "flag" /\ th'[t].stage = "running"
        BY <1>1, <2>1, <2>2, Going DEF Pcs
      <3>2. OnTheWay(t, th'[t], core')
        BY <1>1, <2>1, <3>1 DEF OnTheWay, Same, Way
      <3> QED
        BY <1>1, <1>4, <2>1, <3>1, <3>2, Onward, Jobs0 DEF Same
    <2>3. CASE /\ t = Panel
               /\ th' = [th EXCEPT ![t] = [th[t] EXCEPT !.pc = "flag"],
                                   ![th[t].serial] = FreshWatch(t)]
      <3> DEFINE r == [th[t] EXCEPT !.pc = "flag"]
      <3>1. r \in ThreadRecords /\ FreshWatch(t) \in ThreadRecords
        BY <1>1, Flagged
      <3>2. /\ r.pc = "flag" /\ r.kind = th[t].kind /\ r.gen = th[t].gen
            /\ r.serial = th[t].serial /\ r.stage = th[t].stage
            /\ FreshWatch(t).pc = "wake1" /\ FreshWatch(t).kind = "watch"
            /\ FreshWatch(t).gen = th[t].gen
        BY <1>1, ThreadType DEF ThreadRecords, FreshWatch
      <3>3. th[t].serial > 0 /\ th[t].serial \in Nat
        BY <1>1, <2>1, <2>3, ThreadType DEF OnTheWay
      <3>4. th[t].serial \notin Jobs
        BY <3>3 DEF Jobs, Panel, Cli
      <3>5. th \in [Threads -> ThreadRecords]
        BY DEF TypeOK, ThreadTypes
      <3>6. /\ th'[Panel] = r /\ th'[Cli] = th[Cli]
            /\ \A u \in Watches : th'[u] = th[u] \/ th'[u] = FreshWatch(t)
        <4> HIDE DEF r
        <4>1. th'[t] = r
          BY <1>1, <2>3, <3>4, <3>5 DEF r
        <4>2. th'[Cli] = th[Cli]
          BY <2>3, <3>4, <3>5, Jobs0
        <4>3. \A u \in Watches : th'[u] = th[u] \/ th'[u] = FreshWatch(t)
          BY <2>3, <3>5, Jobs0
        <4> QED
          BY <2>3, <4>1, <4>2, <4>3
      <3> HIDE DEF r
      <3>7. OnTheWay(Panel, th'[Panel], core') /\ OnTheWay(Cli, th'[Cli], core')
        BY <1>1, <2>1, <2>3, <3>2, <3>6, Jobs0 DEF OnTheWay, Smooth, Way
      <3>8. \A u \in Watches : Content(th'[u], core')
        BY <1>1, <2>1, <3>2, <3>6 DEF OnTheWay, Content, Smooth
      <3>9. Interrupted' /\ Kept'
        BY <1>1, <1>4, <2>1, <2>3, <3>6, Jobs0 DEF Smooth, Interrupted, Kept
      <3> QED
        BY <1>1, <2>1, <3>7, <3>8, <3>9 DEF Smooth, Jobs
    <2>4. \/ Goto(t, "flag")
          \/ /\ t = Panel
             /\ th' = [th EXCEPT ![t] = [th[t] EXCEPT !.pc = "flag"],
                                 ![th[t].serial] = FreshWatch(t)]
      BY <1>1, <1>11 DEF Report
    <2> QED
      BY <2>2, <2>3, <2>4
  <1>12. CASE Flag(t)
    <2>1. /\ UNCHANGED <<core, stopGen, queue, bg, upgrade, wasRunning, count>>
          /\ th[t].pc = "flag" /\ core = "up" /\ autostart' = TRUE /\ Become(t, Gone)
      BY <1>1, <1>3, <1>12
         DEF Flag, At, OnTheWay, EnableService, Return, Troubles, panel, outside
    <2>2. th'[t] = Gone /\ OthersKept(t)
      BY <1>1, <2>1, Ending
    <2>3. OnTheWay(t, th'[t], core')
      BY <2>2, GoneFields DEF OnTheWay, Way
    <2> QED
      BY <1>1, <1>4, <2>1, <2>2, <2>3, Onward, Jobs0
  <1> QED
    BY <1>1, <1>5, <1>6, <1>7, <1>8, <1>9, <1>10, <1>11, <1>12
       DEF Step, ReadFatal, RollbackStop, RollbackDns, RollbackFirewall, Stop, Disable, Wake, Look,
           Settle, At, Way

LEMMA WatchOnward ==
    ASSUME KeepInv, Calm, Calm', NEW t \in Watches, Step(t)
    PROVE  Smooth'
  <1>1. Smooth /\ Content(th[t], core) /\ t \in Threads /\ TypeOK
    BY Jobs0 DEF KeepInv, Typed, Smooth
  <1>2. \/ Wake(t) \/ Look(t)
        \/ th[t].pc = "gone"
    BY <1>1
       DEF Content, Step, Acquire, Begin, Prepare, WriteConfig, WriteMeta, Takeover, Firewall,
           Gate, Restart, Verify, ReadFatal, RollbackStop, RollbackDns, RollbackFirewall, Report,
           Flag, Stop, Disable, Settle, At
  <1>3. th[t].pc # "gone"
    BY DEF Step, Acquire, Begin, Prepare, WriteConfig, WriteMeta, Takeover, Firewall,
           Gate, Restart, Verify, ReadFatal, RollbackStop, RollbackDns, RollbackFirewall, Report,
           Flag, Stop, Disable, Settle, Wake, Look, At
  <1>4. /\ UNCHANGED <<core, autostart, stopGen, queue, bg, upgrade, wasRunning, count>>
        /\ Become(t, Gone) \/ \E pc \in {"look1", "look2", "wake2"} : Goto(t, pc)
    BY <1>1, <1>2, <1>3 DEF Wake, Look, Content, router, panel, outside
  <1>5. OthersKept(t) /\ Content(th'[t], core')
    <2>1. CASE Become(t, Gone)
      BY <1>1, <2>1, Ending, GoneFields DEF Content
    <2>2. ASSUME NEW pc \in {"look1", "look2", "wake2"}, Goto(t, pc)
          PROVE  OthersKept(t) /\ Content(th'[t], core')
      <3>1. Same(t) /\ th'[t].pc = pc
        BY <1>1, <2>2, Going DEF Pcs
      <3> QED
        BY <1>1, <1>3, <1>4, <3>1 DEF Same, Content
    <2> QED
      BY <1>4, <2>1, <2>2
  <1>6. Happened("upgrades")' = Happened("upgrades")
    BY <1>4 DEF Happened
  <1> QED
    BY <1>1, <1>3, <1>4, <1>5, <1>6, Onward, Jobs0

\* The rest of the calm: requests, the loops of the init script, update.sh.
LEMMA RestSmooth ==
    ASSUME TypeOK, Smooth, UNCHANGED <<core, autostart, stopGen, queue, bg, upgrade, wasRunning, th>>,
           Happened("upgrades")' = Happened("upgrades")
    PROVE  Smooth'
  BY DEF Smooth, OnTheWay, Content, Interrupted, Kept

LEMMA AskedSmooth ==
    ASSUME TypeOK, Smooth, Enqueue("deploy", stopGen), upgrade \notin {"killed", "stopped"},
           UNCHANGED <<core, autostart, stopGen, upgrade, wasRunning, th>>,
           Happened("upgrades")' = Happened("upgrades")
    PROVE  Smooth'
  <1>1. stopGen = 0
    BY DEF Smooth
  <1>2. \A i \in 1..Len(queue') : \/ queue'[i] = [kind |-> "deploy", gen |-> stopGen]
                                  \/ \E j \in 1..Len(queue) : queue'[i] = queue[j]
    BY <1>1, Asking
  <1>3. \A i \in 1..Len(queue') : queue'[i].kind = "deploy" /\ queue'[i].gen = 0
    BY <1>1, <1>2 DEF Smooth
  <1> QED
    BY <1>3 DEF Smooth, OnTheWay, Content, Interrupted, Kept

LEMMA UpgradeSmooth ==
    ASSUME KeepInv, Calm, Calm', UpgradeKill \/ UpgradeStop \/ UpgradeDeploy \/ UpgradeDone
    PROVE  Smooth'
  <1>1. Smooth /\ TypeOK
    BY DEF KeepInv, Typed
  <1>2. CASE UpgradeKill
    <2>1. /\ Forget /\ UNCHANGED <<core, autostart>> /\ upgrade' = "killed"
      BY <1>2 DEF UpgradeKill, router
    <2>2. /\ queue' = <<>> /\ Len(queue') = 0 /\ stopGen' = 0 /\ bg' = FALSE
          /\ \A t \in Threads : th'[t] = Gone
      BY <2>1, Forgetting
    <2>3. Interrupted' /\ Kept'
      BY <2>1, <2>2, GoneFields, Jobs0 DEF Interrupted, Kept
    <2>4. /\ \A t \in Jobs : OnTheWay(t, th'[t], core')
          /\ \A t \in Watches : Content(th'[t], core')
      BY <2>2, GoneFields, Jobs0 DEF OnTheWay, Content, Way
    <2> QED
      BY <1>1, <2>1, <2>2, <2>3, <2>4 DEF Smooth
  <1>3. CASE UpgradeStop
    <2>1. /\ upgrade = "killed" /\ upgrade' = "stopped" /\ core' = "down"
          /\ UNCHANGED <<autostart, stopGen, queue, bg, th>>
      BY <1>3 DEF UpgradeStop, panel
    <2>2. \A t \in Threads : th[t].pc = "gone"
      BY <1>1, <2>1 DEF Smooth, Interrupted
    <2>3. Interrupted' /\ Kept'
      BY <1>1, <2>1, Jobs0 DEF Smooth, Interrupted, Kept
    <2>4. /\ \A t \in Jobs : OnTheWay(t, th'[t], core')
          /\ \A t \in Watches : Content(th'[t], core')
      BY <1>1, <2>1, <2>2, Jobs0 DEF Smooth, OnTheWay, Content
    <2> QED
      BY <1>1, <2>1, <2>3, <2>4 DEF Smooth
  <1>4. CASE UpgradeDeploy
    <2>1. /\ upgrade = "stopped" /\ UNCHANGED <<core, autostart, stopGen, queue, bg, wasRunning>>
          /\ \A t \in Threads : th[t].pc = "gone"
      BY <1>1, <1>4 DEF UpgradeDeploy, router, panel, Smooth, Interrupted
    <2>2. CASE ~wasRunning
      BY <1>1, <1>4, <2>1, <2>2, Jobs0
         DEF UpgradeDeploy, Smooth, Interrupted, Kept, OnTheWay, Content
    <2>3. CASE wasRunning
      <3>1. /\ upgrade' = "deploying" /\ OthersKept(Cli) /\ th'[Cli].pc = "lock"
            /\ th'[Cli].kind = "deploy" /\ th'[Cli].gen = 0
        BY <1>1, <1>4, <2>3, Upgrading DEF UpgradeDeploy
      <3>2. \A t \in Threads \ {Cli} : th'[t] = th[t]
        BY <3>1 DEF OthersKept
      <3>3. \A t \in Jobs : OnTheWay(t, th'[t], core')
        BY <1>1, <2>1, <3>1, <3>2, Jobs0 DEF Smooth, OnTheWay, Way
      <3>4. \A t \in Watches : Content(th'[t], core')
        BY <2>1, <3>2, Jobs0 DEF Content
      <3>5. Interrupted' /\ Kept'
        BY <3>1 DEF Interrupted, Kept
      <3> QED
        BY <1>1, <2>1, <3>3, <3>4, <3>5 DEF Smooth
    <2> QED
      BY <2>2, <2>3
  <1>5. CASE UpgradeDone
    BY <1>1, <1>5
       DEF UpgradeDone, router, panel, Smooth, Interrupted, Kept, OnTheWay, Content, At
  <1> QED
    BY <1>2, <1>3, <1>4, <1>5

LEMMA DequeueSmooth == ASSUME KeepInv, Calm, Dequeue PROVE Smooth'
  <1>1. Smooth /\ TypeOK
    BY DEF KeepInv, Typed
  <1>2. /\ UNCHANGED <<core, autostart, stopGen, bg, upgrade, wasRunning, count>>
        /\ queue # <<>>
    BY DEF Dequeue, router, outside
  <1>3. 1 \in 1..Len(queue) /\ \A i \in 1..Len(queue') : i + 1 \in 1..Len(queue)
    BY <1>1, Dequeuing
  <1>4. \A i \in 1..Len(queue') : queue'[i].kind = "deploy" /\ queue'[i].gen = 0
    BY <1>1, <1>3, Dequeuing DEF Smooth
  <1>5. OnTheWay(Panel, th'[Panel], core') /\ OnTheWay(Cli, th'[Cli], core')
    BY <1>1, <1>2, <1>3, Dequeuing, Jobs0 DEF Smooth, OnTheWay, OthersKept, Way
  <1>6. \A t \in Watches : Content(th'[t], core')
    BY <1>1, <1>2, Dequeuing, Jobs0 DEF Smooth, Content, OthersKept
  <1>7. Interrupted' /\ Kept'
    BY <1>1, <1>2, Dequeuing, Jobs0 DEF Smooth, Interrupted, Kept, OthersKept, Happened
  <1> QED
    BY <1>1, <1>2, <1>4, <1>5, <1>6, <1>7 DEF Smooth, Jobs

LEMMA InitKeepInv == Init => KeepInv
  <1> SUFFICES ASSUME Init PROVE Typed /\ Smooth
    BY DEF KeepInv
  <1>1. \A t \in Threads : th[t] = Gone
    BY DEF Init
  <1>2. Len(queue) = 0
    BY DEF Init
  <1> QED
    BY <1>1, <1>2, InitTyped, GoneFields, Jobs0
       DEF Init, Smooth, OnTheWay, Content, Interrupted, Kept, Way

LEMMA NextKeepInv == KeepInv /\ [Next]_vars => KeepInv'
  <1> SUFFICES ASSUME KeepInv, [Next]_vars, Calm' PROVE Smooth'
    BY NextTyped DEF KeepInv
  <1>1. Typed /\ TypeOK
    BY DEF KeepInv, Typed
  <1>2. /\ \A w \in Troubles : ~(May(w) /\ Use(w))
        /\ \A w \in Counted : May(w) /\ Use(w) => Calm
        /\ UNCHANGED count => Calm
    BY <1>1, TroubleStays
  <1>3. UNCHANGED count => Happened("upgrades")' = Happened("upgrades")
    BY DEF Happened
  <1>4. \A w \in Counted \ {"upgrades"} :
           May(w) /\ Use(w) => Happened("upgrades")' = Happened("upgrades")
    BY <1>1, Counting DEF Happened, Counted
  <1>5. CASE UNCHANGED vars
    BY <1>1, <1>2, <1>3, <1>5, RestSmooth DEF vars, KeepInv
  <1>6. CASE RunDeploy
    BY <1>1, <1>2, <1>4, <1>6, AskedSmooth DEF RunDeploy, KeepInv, Counted, router, outside
  <1>7. CASE BackgroundLook
    <2>1. /\ Smooth /\ Happened("upgrades")' = Happened("upgrades")
          /\ upgrade \notin {"killed", "stopped"}
          /\ UNCHANGED <<core, autostart, stopGen, queue, upgrade, wasRunning, th>>
      BY <1>2, <1>4, <1>7 DEF BackgroundLook, KeepInv, Counted, router, outside
    <2> QED
      BY <2>1 DEF Smooth, OnTheWay, Content, Interrupted, Kept
  <1>8. CASE BackgroundDeploy
    BY <1>1, <1>2, <1>3, <1>8, AskedSmooth
       DEF BackgroundDeploy, KeepInv, Smooth, Interrupted, router, outside
  <1>9. CASE Dequeue
    BY <1>2, <1>9, DequeueSmooth DEF Dequeue
  <1>10. ASSUME NEW t \in Threads, Step(t) PROVE Smooth'
    <2>1. Counts
      BY <1>10
         DEF Counts, Counted, Step, Acquire, Begin, Prepare, WriteConfig, WriteMeta, Takeover,
             Firewall, Gate, Restart, StartCore, Launch, Verify, ReadFatal, RollbackStop, Failed,
             RollbackDns, RollbackFirewall, Report, Flag, Stop, Disable, Wake, Look, Settle, Throw
    <2>2. Calm
      BY <1>2, <2>1 DEF Counts
    <2> QED
      BY <1>10, <2>2, JobOnward, WatchOnward, Jobs0
  <1>11. ASSUME NEW d \in {"current", "old"}, DogLeaves(d) \/ DogCleans(d) PROVE Smooth'
    <2>1. UNCHANGED count
      BY <1>2, <1>11 DEF DogLeaves, DogCleans, Troubles
    <2>2. UNCHANGED <<core, autostart, stopGen, queue, bg, upgrade, wasRunning, th>>
      BY <1>11 DEF DogLeaves, DogCleans, panel, outside
    <2> QED
      BY <1>1, <1>2, <1>3, <2>1, <2>2, RestSmooth DEF KeepInv
  <1>12. CASE UpgradeKill \/ UpgradeStop \/ UpgradeDeploy \/ UpgradeDone
    <2>1. Calm
      BY <1>2, <1>12 DEF UpgradeKill, UpgradeStop, UpgradeDeploy, UpgradeDone, Counted
    <2> QED
      BY <1>12, <2>1, UpgradeSmooth
  <1>13. /\ ~RunExclusive("stop") /\ ~RunExclusive("rollback") /\ ~CoreDies /\ ~PowerLoss
         /\ ~PanelDies /\ \A t \in Jobs : ~LockTimeout(t)
    BY <1>2 DEF RunExclusive, CoreDies, PowerLoss, PanelDies, LockTimeout, Troubles
  <1> QED
    BY <1>5, <1>6, <1>7, <1>8, <1>9, <1>10, <1>11, <1>12, <1>13 DEF Next

\* A kernel that ran before an upgrade runs after it and at the next boot, when nothing
\* failed, died or was stopped: whatever else was asked for meanwhile, background restarts
\* and late watches included (update.sh, core_was_running).
THEOREM UpgradeKeeps == Spec => []UpgradeKeepsKernel
  <1>1. KeepInv => UpgradeKeepsKernel
    <2> SUFFICES ASSUME KeepInv, AtRest, Happened("upgrades") > 0, wasRunning, Calm
                 PROVE  core = "up" /\ autostart
      BY DEF UpgradeKeepsKernel, Calm
    <2> QED
      BY DEF KeepInv, Smooth, Kept, AtRest
  <1> QED
    BY <1>1, InitKeepInv, NextKeepInv, PTL DEF Spec

-----------------------------------------------------------------------------
(* One job at a time on the router: the one that holds the lock, the        *)
(* panel's or the command line's.  The invariant is stated of it, and of    *)
(* the panel's, which may be waiting for the lock.                         *)

NoWatch == \A b \in Budgets : ~b.lateWatch
NoUpgrade == \A b \in Budgets : b.upgrades = 0
OneQueue == NoWatch /\ NoUpgrade

\* Only the user asks for deploys.
OnRequest == \A b \in Budgets : b.background = 0

Active == IF lock = Cli THEN Cli ELSE Panel
job == th[Active]
waiting == th[Panel]
Idle == {"gone", "lock"}

\* A job at work has the lock.  The command line deploys for update.sh alone, which has
\* killed the panel before, and nobody cancels it.
Alone ==
    /\ (NoUpgrade => upgrade = "no") /\ (OnRequest => ~bg)
    /\ \A t \in Watches : th[t].pc = "gone"
    /\ \A t \in Jobs : lock = t <=> th[t].pc \notin Idle
    /\ upgrade # "deploying" => th[Cli].pc = "gone"
    /\ upgrade \in {"killed", "stopped"} => queue = <<>> /\ ~bg /\ waiting.pc = "gone"
    /\ th[Cli].kind = "deploy" /\ th[Cli].stage # "cancelled"

\* The steps of a deploy once it has begun; those of a rollback.
Undoing == {"stopcore", "restoredns", "removefw"}
Committed == {"gate", "restart", "verify1", "verify2", "fatal"}
Written == {"takeover", "firewall"} \cup Committed
Ends == {"report", "flag"}
Begun == {"prep", "config", "meta"} \cup Written \cup Undoing \cup Ends

Deploying == job.kind = "deploy" /\ job.pc \in Begun
Stopping == waiting.kind \in {"stop", "rollback"}
StopAhead == Stopping /\ waiting.pc \in {"lock", "stop", "stopcore"}
JobCancelled == Active = Panel /\ job.gen # stopGen

\* Which steps a job takes.
Path(r) ==
    /\ r.kind = "deploy" => r.pc \in {"gone", "lock", "begin"} \cup Begun
    /\ r.kind = "stop" => r.pc \in {"lock", "stop", "disable"}
    /\ r.kind = "rollback" => r.pc \in {"lock", "disable"} \cup Undoing
    /\ r.kind # "watch"
    /\ r.pc \in {"gone", "lock", "begin", "prep"} =>
          ~r.tried /\ r.stage = "running" /\ r.rollback = "none"

Paths == \A t \in Jobs : Path(th[t])

Waits(q) == \E i \in 1..Len(q) : q[i].kind # "deploy"

\* The deploys that were asked for before the last stop are of an older generation.
Older(q) == \A i \in 1..Len(q) : q[i].kind = "deploy" => q[i].gen # stopGen

Generations ==
    /\ waiting.gen <= stopGen /\ \A i \in 1..Len(queue) : queue[i].gen <= stopGen
    /\ OnRequest /\ wish = "off" => Older(queue)
    /\ OnRequest /\ wish = "off" /\ waiting.kind = "deploy" /\ waiting.pc # "gone" =>
          waiting.gen # stopGen

\* A stop still follows a deploy that was cancelled on its way.
Followed ==
    Deploying /\ (JobCancelled \/ job.stage = "cancelled") => Waits(queue)

LastWord ==
    NoUpgrade /\ OnRequest /\ offDone => wish = "off" /\ core # "up" /\ ~autostart /\ ~Deploying

\* What a rollback and a stop have done when they say so.
Undone ==
    /\ job.rollback = "clean" =>
          /\ job.pc \in {"restoredns", "removefw", "disable"} \cup Ends
          /\ core = "down" /\ dns = "own" /\ ~v6block
    /\ job.rollback = "partial" => Happened("faults") > 0
    /\ job.kind = "stop" /\ job.pc = "disable" => core = "down"
    /\ job.pc \in {"restoredns", "removefw"} => job.rollback # "none"
    /\ job.kind = "rollback" /\ job.pc = "disable" => job.rollback # "none"

StopComes ==
    NoUpgrade /\ OnRequest /\ wish = "off" /\ core = "up" /\ NoFaults => Waits(queue) \/ Stopping

JobConf == [mode |-> job.mode, redirect |-> job.redirect]

\* The two files, as the deploy under way has written them.
Files ==
    /\ job.pc = "meta" => conf = JobConf
    /\ job.pc \in Written => conf = JobConf /\ meta = JobConf
    /\ job.pc \in {"config", "meta"} \cup Written => job.mode \in DnsModes
    /\ job.tried /\ job.pc \in {"config", "meta"} => meta.mode = job.mode /\ core # "up"
    /\ job.pc = "fatal" => core # "up"
    /\ Deploying /\ job.pc \in Ends /\ job.stage = "running" => verified /\ conf = meta

\* How a deploy may end when no command fails.
Verdicts ==
    /\ NoFaults /\ Deploying /\ job.pc \in Ends => job.stage \in {"running", "cancelled", "verify"}
    /\ NoFaults /\ Deploying /\ job.pc \in Undoing => job.stage \in {"cancelled", "verify"}
    /\ Deploying /\ job.pc \in Undoing =>
          /\ job.stage # "running"
          /\ core # "up" \/ job.stage = "cancelled" \/ Happened("faults") > 0

\* The kernel runs without the mode the metadata says only while a deploy is between the
\* files and the restart; or else a stop follows, or update.sh stops it.
Matched ==
    core = "up" /\ loaded # meta.mode /\ Happened("losses") = 0 /\ Happened("faults") <= 1 =>
        \/ job.pc \in {"takeover", "firewall", "gate", "restart"}
        \/ Deploying /\ job.pc = "stopcore" /\ (Happened("faults") = 1 \/ Waits(queue))
        \/ Happened("faults") = 1 /\ (Waits(queue) \/ StopAhead)
        \/ upgrade = "killed"

\* dnsmasq sends its queries to the kernel when it should, or somebody will see to it.
Taking == upgrade = "killed" \/ job.pc \in {"firewall", "gate", "restart", "stopcore"}
Redone == job.tried /\ job.pc \in {"config", "meta"}

Directed ==
    NoFaults =>
        /\ core = "up" => Taking \/ (loaded = "dnsmasq" => dns # "own")
        /\ core = "up" => Taking \/ (dns = "core" => loaded = "dnsmasq")
        /\ core = "down" /\ dns # "own" => Taking
        /\ core = "failing" /\ dns # "own" =>
              \/ "current" \in dogs \/ Taking
              \/ job.pc \in {"verify1", "verify2", "fatal", "config", "meta", "takeover"}
              \/ Waits(queue) \/ Stopping
        /\ (job.pc \in {"firewall"} \cup Committed \/ Redone) /\ job.mode = "hijack" =>
              dns # "core"

IInv ==
    /\ TypeOK /\ Alone /\ Paths /\ Generations /\ Followed /\ LastWord /\ Undone
    /\ StopComes /\ Files /\ Verdicts /\ Matched /\ Directed

-----------------------------------------------------------------------------
(* The job and the lock.                                                   *)

LEMMA ActiveJob == Active \in Jobs /\ Active \in Threads
  BY Jobs0 DEF Active

LEMMA JobType ==
    ASSUME TypeOK
    PROVE  /\ job \in ThreadRecords
           /\ job.pc \in Pcs /\ job.kind \in Kinds /\ job.gen \in Nat /\ job.serial \in Nat
           /\ job.mode \in DnsModes \cup {"none"} /\ job.redirect \in BOOLEAN
           /\ job.tried \in BOOLEAN /\ job.stage \in Stages
           /\ job.rollback \in {"none", "clean", "partial"}
  BY ActiveJob, ThreadType DEF job

LEMMA WaitingType ==
    ASSUME TypeOK
    PROVE  waiting.pc \in Pcs /\ waiting.kind \in Kinds /\ waiting.gen \in Nat
  BY Jobs0, ThreadType DEF waiting

\* Who is at work is the job, and update.sh has left the router to it.
LEMMA Holder ==
    ASSUME IInv, NEW t \in Jobs, th[t].pc \notin Idle
    PROVE  /\ lock = t /\ Active = t /\ job = th[t] /\ upgrade # "killed"
           /\ t = Cli => upgrade = "deploying" /\ ~NoUpgrade
           /\ t = Panel => upgrade \notin {"killed", "stopped"}
           /\ (Cancelled(t) <=> JobCancelled) /\ ConfOf(t) = JobConf
           /\ t \in Threads
  <1>1. lock = t
    BY DEF IInv, Alone
  <1>2. Active = t /\ job = th[t] /\ t \in {Panel, Cli} /\ t \in Threads
    BY <1>1, Jobs0 DEF Active, job, Jobs
  <1>3. /\ t = Cli => upgrade = "deploying"
        /\ t = Panel => upgrade \notin {"killed", "stopped"}
    BY DEF IInv, Alone, Idle, waiting
  <1>4. t = Cli => ~NoUpgrade
    BY <1>3 DEF IInv, Alone
  <1>5. Cancelled(t) <=> JobCancelled
    BY <1>2, Jobs0 DEF Cancelled, JobCancelled
  <1>6. ConfOf(t) = JobConf
    BY <1>2 DEF ConfOf, JobConf
  <1> QED
    BY <1>1, <1>2, <1>3, <1>4, <1>5, <1>6

\* Without update.sh the panel's job is the only one.
LEMMA PanelAlone ==
    ASSUME IInv, NoUpgrade
    PROVE  upgrade = "no" /\ lock # Cli /\ Active = Panel /\ job = waiting
  BY Jobs0 DEF IInv, Alone, Active, job, waiting, Idle

\* Somebody who does not have the lock is not the job, unless nobody has it.
LEMMA IdleJob ==
    ASSUME IInv, lock \notin Jobs
    PROVE  /\ Active = Panel /\ job = waiting /\ \A t \in Jobs : th[t].pc \in Idle
           /\ job.pc \in Idle /\ ~Deploying
  BY Jobs0
     DEF IInv, Alone, Active, job, waiting, Idle, Deploying, Begun, Written, Committed, Undoing,
         Ends

\* The hypotheses rule out what works beside the queue.
LEMMA NotBeside ==
    ASSUME TypeOK
    PROVE  /\ NoWatch => ~count.budget.lateWatch
           /\ NoUpgrade => ~May("upgrades")
           /\ OnRequest => ~May("background")
  <1>1. /\ count.budget \in Budgets
        /\ count.used["background"] \in Nat /\ count.used["upgrades"] \in Nat
    BY DEF TypeOK, CountTypes, Counted
  <1> QED
    BY <1>1 DEF NoWatch, NoUpgrade, OnRequest, May

LEMMA QuietCount ==
    ASSUME TypeOK, NEW w \in Counted \ {"faults", "losses"}, May(w), Use(w)
    PROVE  /\ NoFaults' = NoFaults
           /\ Happened("faults")' = Happened("faults") /\ Happened("losses")' = Happened("losses")
  BY Counting DEF Counted, Happened, NoFaults

LEMMA CountUnchanged ==
    ASSUME TypeOK, UNCHANGED count
    PROVE  /\ NoFaults' = NoFaults
           /\ Happened("faults")' = Happened("faults") /\ Happened("losses")' = Happened("losses")
           /\ Happened("faults") \in Nat
  BY DEF Happened, NoFaults, TypeOK, CountTypes, Counted

\* A step that is tried and fails.
LEMMA Faulting ==
    ASSUME TypeOK, May("faults"), Use("faults")
    PROVE  /\ Happened("losses")' = Happened("losses")
           /\ Happened("faults")' = Happened("faults") + 1 /\ Happened("faults") \in Nat
           /\ ~NoFaults'
  <1>1. Happened("faults") \in Nat
    BY DEF Counted, Happened, TypeOK, CountTypes
  <1> QED
    BY <1>1, Counting DEF Counted, Happened, NoFaults

-----------------------------------------------------------------------------
(* The beginning, and requests.                                            *)

LEMMA InitIInv == Init => IInv
  <1> SUFFICES ASSUME Init PROVE IInv
    OBVIOUS
  <1>1. \A t \in Threads : th[t] = Gone
    BY DEF Init
  <1>2. Active = Panel /\ job = Gone /\ waiting = Gone /\ th[Cli] = Gone
    BY <1>1, Jobs0 DEF Init, job, waiting, Active
  <1>3. \A w \in Counted : count.used[w] = 0
    BY DEF Init
  <1>4. Len(queue) = 0 /\ TypeOK
    BY InitTyped DEF Init, Typed
  <1>5. \A t \in Jobs : th[t].pc = "gone" /\ lock # t /\ Path(th[t])
    BY <1>1, GoneFields, Jobs0 DEF Init, Path
  <1>6. ~Deploying /\ ~Stopping
    BY <1>2, GoneFields DEF Deploying, Begun, Written, Committed, Undoing, Ends, Stopping
  <1>7. Alone /\ Paths /\ Generations /\ Followed /\ LastWord /\ Undone
    BY <1>1, <1>2, <1>4, <1>5, <1>6, GoneFields, Jobs0
       DEF Init, Alone, Paths, Generations, Followed, LastWord, Undone, Older, Idle
  <1>8. StopComes /\ Files /\ Verdicts /\ Matched /\ Directed
    BY <1>2, <1>6, GoneFields
       DEF Init, StopComes, Files, Verdicts, Matched, Directed, Written, Committed, Redone
  <1> QED
    BY <1>4, <1>7, <1>8 DEF IInv

\* A stop in the queue is still there when something is put behind it.
LEMMA AskedWaits ==
    ASSUME TypeOK, NEW kind \in {"deploy", "stop", "rollback"}, NEW gen \in Nat, Enqueue(kind, gen)
    PROVE  /\ Waits(queue) \/ kind # "deploy" => Waits(queue)'
           /\ queue' # <<>>
  <1> DEFINE r == [kind |-> kind, gen |-> gen]
  <1>1. r.kind = kind
    OBVIOUS
  <1> HIDE DEF r
  <1>2. /\ Len(queue) \in Nat /\ Len(queue') = Len(queue) + 1 /\ queue'[Len(queue) + 1] = r
        /\ \A i \in 1..Len(queue) : queue'[i] = queue[i]
    BY Asking DEF r
  <1> QED
    BY <1>1, <1>2 DEF Waits

\* The threads, the lock and the router stay as they are.
LEMMA SameThreads ==
    ASSUME UNCHANGED <<th, lock>>
    PROVE  /\ Active' = Active /\ job' = job /\ waiting' = waiting /\ JobConf' = JobConf
           /\ Deploying' = Deploying /\ Stopping' = Stopping /\ StopAhead' = StopAhead
           /\ Redone' = Redone
  BY DEF Active, job, waiting, JobConf, Deploying, Stopping, StopAhead, Redone

LEMMA RunDeployStep == IInv /\ TypeOK' /\ RunDeploy => IInv'
  <1> SUFFICES ASSUME IInv, TypeOK', RunDeploy PROVE IInv'
    OBVIOUS
  <1> USE DEF IInv
  <1>1. UNCHANGED <<core, fatal, dns, v6block, autostart, conf, meta, loaded, dogs, stopGen,
                    serial, state, bg, upgrade, wasRunning, lock, th, verified>>
        /\ wish' = "on" /\ offDone' = FALSE /\ upgrade \notin {"killed", "stopped"}
    BY DEF RunDeploy, router, outside
  <1>2. stopGen \in Nat /\ Enqueue("deploy", stopGen)
    BY DEF RunDeploy, TypeOK, PanelTypes
  <1>3. /\ (Waits(queue) => Waits(queue)')
        /\ \A i \in 1..Len(queue') : \/ queue'[i] = [kind |-> "deploy", gen |-> stopGen]
                                     \/ \E j \in 1..Len(queue) : queue'[i] = queue[j]
    BY <1>2, Asking, AskedWaits
  <1>4. /\ NoFaults' = NoFaults
        /\ Happened("faults")' = Happened("faults") /\ Happened("losses")' = Happened("losses")
    BY QuietCount DEF RunDeploy, Counted
  <1>5. /\ Active' = Active /\ job' = job /\ waiting' = waiting /\ JobConf' = JobConf
        /\ Deploying' = Deploying /\ Stopping' = Stopping /\ StopAhead' = StopAhead
        /\ Redone' = Redone
    BY <1>1, SameThreads
  <1>6. Generations'
    BY <1>1, <1>2, <1>3, <1>5 DEF Generations, Older
  <1>7. Alone' /\ Paths' /\ Followed' /\ LastWord' /\ Undone' /\ StopComes' /\ Files' /\ Verdicts'
    BY <1>1, <1>3, <1>4, <1>5
       DEF Alone, Paths, Followed, LastWord, Undone, StopComes, Files, Verdicts, JobCancelled
  <1>8. Matched' /\ Directed'
    BY <1>1, <1>3, <1>4, <1>5 DEF Matched, Directed, Taking
  <1> QED
    BY <1>6, <1>7, <1>8

LEMMA RunExclusiveStep ==
    ASSUME IInv, TypeOK', NEW kind \in {"stop", "rollback"}, RunExclusive(kind) PROVE IInv'
  <1> USE DEF IInv
  <1>1. UNCHANGED <<core, fatal, dns, v6block, autostart, conf, meta, loaded, dogs,
                    serial, state, bg, upgrade, wasRunning, lock, th, verified>>
        /\ wish' = "off" /\ offDone' = FALSE /\ upgrade \notin {"killed", "stopped"}
    BY DEF RunExclusive, router, outside
  <1>2. stopGen \in Nat /\ stopGen' = stopGen + 1 /\ Enqueue(kind, stopGen')
    BY DEF RunExclusive, TypeOK, PanelTypes
  <1>3. /\ Waits(queue)'
        /\ \A i \in 1..Len(queue') : \/ queue'[i] = [kind |-> kind, gen |-> stopGen']
                                     \/ \E j \in 1..Len(queue) : queue'[i] = queue[j]
    BY <1>2, Asking, AskedWaits
  <1>4. /\ NoFaults' = NoFaults
        /\ Happened("faults")' = Happened("faults") /\ Happened("losses")' = Happened("losses")
    BY QuietCount DEF RunExclusive, Counted
  <1>5. /\ Active' = Active /\ job' = job /\ waiting' = waiting /\ JobConf' = JobConf
        /\ Deploying' = Deploying /\ Stopping' = Stopping /\ StopAhead' = StopAhead
        /\ Redone' = Redone
    BY <1>1, SameThreads
  <1>6. /\ waiting'.gen <= stopGen' /\ waiting'.gen # stopGen'
        /\ \A i \in 1..Len(queue') : queue'[i].gen <= stopGen'
        /\ \A i \in 1..Len(queue') : queue'[i].kind = "deploy" => queue'[i].gen # stopGen'
    <2>1. \A j \in 1..Len(queue) : queue[j] \in Requests
      BY DEF TypeOK, PanelTypes
    <2>2. \A j \in 1..Len(queue) : queue[j].gen <= stopGen' /\ queue[j].gen # stopGen'
      BY <1>2, <2>1 DEF Generations, Requests
    <2>3. waiting'.gen <= stopGen' /\ waiting'.gen # stopGen'
      BY <1>2, <1>5, WaitingType DEF Generations
    <2>4. ASSUME NEW i \in 1..Len(queue')
          PROVE  /\ queue'[i].gen <= stopGen'
                 /\ queue'[i].kind = "deploy" => queue'[i].gen # stopGen'
      BY <1>2, <1>3, <2>2
    <2> QED
      BY <2>3, <2>4
  <1>7. Generations'
    BY <1>6 DEF Generations, Older
  <1>8. Alone' /\ Paths' /\ Followed' /\ LastWord' /\ Undone' /\ StopComes' /\ Files' /\ Verdicts'
    BY <1>1, <1>3, <1>4, <1>5
       DEF Alone, Paths, Followed, LastWord, Undone, StopComes, Files, Verdicts
  <1>9. Matched' /\ Directed'
    BY <1>1, <1>3, <1>4, <1>5 DEF Matched, Directed, Taking
  <1> QED
    BY <1>7, <1>8, <1>9

\* A background task has seen the kernel run, and later asks for a deploy.
LEMMA BackgroundLookStep == IInv /\ TypeOK' /\ BackgroundLook => IInv'
  <1> SUFFICES ASSUME IInv, TypeOK', BackgroundLook PROVE IInv'
    OBVIOUS
  <1> USE DEF IInv
  <1>1. /\ UNCHANGED <<core, fatal, dns, v6block, autostart, conf, meta, loaded, dogs,
                       queue, stopGen, upgrade, lock, th, wish, offDone, verified>>
        /\ ~OnRequest /\ upgrade \notin {"killed", "stopped"}
    BY NotBeside DEF BackgroundLook, router, outside, history
  <1>2. /\ NoFaults' = NoFaults
        /\ Happened("faults")' = Happened("faults") /\ Happened("losses")' = Happened("losses")
    BY QuietCount DEF BackgroundLook, Counted
  <1>3. /\ Active' = Active /\ job' = job /\ waiting' = waiting /\ JobConf' = JobConf
        /\ Deploying' = Deploying /\ Stopping' = Stopping /\ StopAhead' = StopAhead
        /\ Redone' = Redone
    BY <1>1, SameThreads
  <1>4. Alone' /\ Paths' /\ Followed' /\ LastWord' /\ Undone' /\ StopComes' /\ Files' /\ Verdicts'
    BY <1>1, <1>2, <1>3
       DEF Alone, Paths, Followed, LastWord, Undone, StopComes, Files, Verdicts, JobCancelled,
           Waits
  <1>5. Generations' /\ Matched' /\ Directed'
    BY <1>1, <1>2, <1>3 DEF Generations, Older, Matched, Directed, Taking, Waits
  <1> QED
    BY <1>4, <1>5

LEMMA BackgroundDeployStep == IInv /\ TypeOK' /\ BackgroundDeploy => IInv'
  <1> SUFFICES ASSUME IInv, TypeOK', BackgroundDeploy PROVE IInv'
    OBVIOUS
  <1> USE DEF IInv
  <1>1. /\ UNCHANGED <<core, fatal, dns, v6block, autostart, conf, meta, loaded, dogs,
                       stopGen, upgrade, lock, th, count, wish, offDone, verified>>
        /\ ~OnRequest /\ bg' = FALSE /\ upgrade \notin {"killed", "stopped"}
    BY DEF BackgroundDeploy, Alone, router, outside, history
  <1>2. stopGen \in Nat /\ Enqueue("deploy", stopGen)
    BY DEF BackgroundDeploy, TypeOK, PanelTypes
  <1>3. /\ (Waits(queue) => Waits(queue)')
        /\ \A i \in 1..Len(queue') : \/ queue'[i] = [kind |-> "deploy", gen |-> stopGen]
                                     \/ \E j \in 1..Len(queue) : queue'[i] = queue[j]
    BY <1>2, Asking, AskedWaits
  <1>4. /\ Active' = Active /\ job' = job /\ waiting' = waiting /\ JobConf' = JobConf
        /\ Deploying' = Deploying /\ Stopping' = Stopping /\ StopAhead' = StopAhead
        /\ Redone' = Redone
    BY <1>1, SameThreads
  <1>5. /\ NoFaults' = NoFaults
        /\ Happened("faults")' = Happened("faults") /\ Happened("losses")' = Happened("losses")
    BY <1>1, CountUnchanged
  <1>6. Generations'
    BY <1>1, <1>2, <1>3, <1>4 DEF Generations
  <1>7. Alone' /\ Paths' /\ Followed' /\ LastWord' /\ Undone' /\ StopComes' /\ Files' /\ Verdicts'
    BY <1>1, <1>3, <1>4, <1>5
       DEF Alone, Paths, Followed, LastWord, Undone, StopComes, Files, Verdicts, JobCancelled
  <1>8. Matched' /\ Directed'
    BY <1>1, <1>3, <1>4, <1>5 DEF Matched, Directed, Taking
  <1> QED
    BY <1>6, <1>7, <1>8

\* The next request becomes the panel's job, which waits for the lock.
LEMMA DequeueStep == IInv /\ TypeOK' /\ Dequeue => IInv'
  <1> SUFFICES ASSUME IInv, TypeOK', Dequeue PROVE IInv'
    OBVIOUS
  <1> USE DEF IInv
  <1>1. /\ Len(queue) \in Nat /\ Len(queue) >= 1 /\ Len(queue') = Len(queue) - 1
        /\ \A i \in 1..Len(queue') : queue'[i] = queue[i + 1]
        /\ queue[1] \in Requests /\ waiting.pc = "gone" /\ queue # <<>>
        /\ OthersKept(Panel)
    BY Dequeuing DEF waiting, Dequeue
  <1>2. /\ waiting'.pc = "lock" /\ waiting'.kind = queue[1].kind /\ waiting'.gen = queue[1].gen
        /\ waiting'.tried = FALSE /\ waiting'.stage = "running" /\ waiting'.rollback = "none"
        /\ waiting'.kind \in {"deploy", "stop", "rollback"}
    BY Dequeuing DEF waiting
  <1>3. /\ UNCHANGED <<core, fatal, dns, v6block, autostart, conf, meta, loaded, dogs,
                       stopGen, bg, upgrade, lock, count, wish, offDone, verified>>
        /\ NoFaults' = NoFaults
        /\ Happened("faults")' = Happened("faults") /\ Happened("losses")' = Happened("losses")
    BY CountUnchanged DEF Dequeue, router, outside, history
  <1>4. th'[Cli] = th[Cli] /\ Active' = Active /\ lock # Panel
        /\ \A t \in Watches : th'[t] = th[t]
    BY <1>1, <1>3, Jobs0 DEF OthersKept, Active, Alone, Idle, waiting
  <1>5. \/ /\ Active = Cli /\ job' = job /\ JobConf' = JobConf /\ Deploying' = Deploying
           /\ Redone' = Redone /\ ~NoUpgrade /\ job.stage # "cancelled"
        \/ Active = Panel /\ job = waiting /\ job' = waiting'
    BY <1>4, PanelAlone DEF Active, job, waiting, JobConf, Deploying, Redone, Alone
  <1>6. 1 \in 1..Len(queue) /\ \A i \in 1..Len(queue') : i + 1 \in 1..Len(queue)
    BY <1>1
  <1>7. Waits(queue) => Waits(queue)' \/ Stopping'
    <2>1. ASSUME NEW i \in 1..Len(queue), queue[i].kind # "deploy", i # 1
          PROVE  Waits(queue)'
      <3>1. i - 1 \in 1..Len(queue') /\ queue'[i - 1] = queue[i]
        BY <1>1, <2>1
      <3> QED
        BY <2>1, <3>1 DEF Waits
    <2> QED
      BY <1>2, <2>1 DEF Waits, Stopping
  <1>8. ~Stopping /\ (Stopping' => StopAhead') /\ (Active = Panel => ~Deploying /\ ~Deploying')
    BY <1>1, <1>2, <1>5, WaitingType, Jobs0
       DEF Stopping, StopAhead, Paths, Path, Deploying, Begun, Written, Committed, Undoing, Ends,
           waiting
  <1>9. Generations'
    BY <1>1, <1>2, <1>3, <1>6 DEF Generations, Older
  <1>10. Alone' /\ Paths'
    <2>1. Path(waiting') /\ Path(th'[Cli])
      BY <1>2, <1>4, Jobs0 DEF Paths, Path
    <2>2. lock # Panel /\ waiting'.pc \in Idle /\ upgrade \notin {"killed", "stopped"}
      BY <1>1, <1>2, <1>4 DEF Idle, Alone
    <2> QED
      BY <1>3, <1>4, <2>1, <2>2 DEF Alone, Paths, Jobs, waiting
  <1>11. Followed' /\ LastWord'
    BY <1>3, <1>4, <1>5, <1>8, Jobs0 DEF Followed, LastWord, JobCancelled
  <1>12. Undone' /\ Files' /\ Verdicts'
    BY <1>2, <1>3, <1>5, <1>8, Jobs0 DEF Undone, Files, Verdicts, Written, Committed
  <1>13. StopComes'
    BY <1>3, <1>5, <1>7, <1>8, PanelAlone DEF StopComes
  <1>14. Matched'
    <2>1. CASE Active = Cli
      <3>1. job.stage # "cancelled" /\ job' = job /\ Deploying' = Deploying
        BY <1>5, <2>1, Jobs0
      <3>2. core = "up" /\ Deploying /\ job.pc = "stopcore" /\ Happened("faults") <= 1 =>
               Happened("faults") = 1
        BY <1>3, <3>1, CountUnchanged DEF Verdicts, Undoing
      <3> QED
        BY <1>3, <1>7, <1>8, <3>1, <3>2 DEF Matched, StopAhead
    <2>2. CASE Active = Panel
      BY <1>1, <1>3, <1>5, <1>7, <1>8, <2>2, Jobs0 DEF Matched, StopAhead
    <2> QED
      BY <2>1, <2>2 DEF Active
  <1>15. Directed'
    BY <1>1, <1>2, <1>3, <1>5, <1>7, <1>8, Jobs0 DEF Directed, Taking, Redone, Committed
  <1> QED
    BY <1>9, <1>10, <1>11, <1>12, <1>13, <1>14, <1>15

-----------------------------------------------------------------------------
(* The kernel, the loops of the init script, power, the panel and the      *)
(* upgrade.                                                                *)

\* The jobs and the queue stay as they are.
LEMMA Aside ==
    ASSUME IInv, UNCHANGED <<queue, stopGen, bg, upgrade, lock, th, wish>>
    PROVE  /\ Alone' /\ Paths' /\ Generations' /\ Followed'
           /\ Active' = Active /\ job' = job /\ waiting' = waiting /\ JobConf' = JobConf
           /\ Deploying' = Deploying /\ Stopping' = Stopping /\ StopAhead' = StopAhead
           /\ Redone' = Redone /\ Waits(queue)' = Waits(queue)
  <1>1. /\ Active' = Active /\ job' = job /\ waiting' = waiting /\ JobConf' = JobConf
        /\ Deploying' = Deploying /\ Stopping' = Stopping /\ StopAhead' = StopAhead
        /\ Redone' = Redone
    BY SameThreads
  <1>2. Waits(queue)' = Waits(queue)
    BY DEF Waits
  <1> QED
    BY <1>1, <1>2 DEF IInv, Alone, Paths, Generations, Older, Followed, JobCancelled

LEMMA CoreDiesStep == IInv /\ TypeOK' /\ CoreDies => IInv'
  <1> SUFFICES ASSUME IInv, TypeOK', CoreDies PROVE IInv'
    OBVIOUS
  <1> USE DEF IInv
  <1>1. /\ UNCHANGED <<dns, v6block, autostart, conf, meta, loaded, dogs, queue, stopGen,
                       bg, upgrade, lock, th, wish, offDone, verified>>
        /\ core = "up" /\ core' \in {"failing", "lost"}
    BY DEF CoreDies, panel, outside, history
  <1>2. /\ NoFaults' = NoFaults
        /\ Happened("faults")' = Happened("faults") /\ Happened("losses")' = Happened("losses")
    BY QuietCount DEF CoreDies, Counted
  <1>3. /\ Alone' /\ Paths' /\ Generations' /\ Followed' /\ job' = job /\ JobConf' = JobConf
        /\ Waits(queue)' = Waits(queue) /\ Deploying' = Deploying /\ Stopping' = Stopping
        /\ StopAhead' = StopAhead /\ Redone' = Redone
    BY <1>1, Aside
  <1>4. ASSUME core' = "failing", NoFaults
        PROVE  \/ "current" \in dogs \/ Taking
               \/ job.pc \in {"verify1", "verify2", "fatal", "config", "meta"}
    <2>1. CASE "current" \in dogs
      BY <2>1
    <2>2. CASE \E t \in Threads : Watching(t)
      <3>1. PICK t \in Threads : Watching(t)
        BY <2>2
      <3>2. t \in Jobs /\ th[t].pc \notin Idle
        BY <3>1, Jobs0 DEF Watching, Alone, Idle
      <3>3. job = th[t] /\ Path(job)
        BY <3>2, Holder DEF Paths
      <3>4. \/ job.pc \in {"verify1", "verify2", "fatal"}
            \/ job.pc \in {"config", "meta", "restart"}
        BY <3>1, <3>3, JobType
           DEF Watching, Path, Kinds, Begun, Written, Committed, Undoing, Ends
      <3> QED
        BY <1>1, <1>4, <3>4 DEF Taking
    <2> QED
      BY <1>4, <2>1, <2>2 DEF CoreDies
  <1>5. LastWord' /\ Undone' /\ StopComes' /\ Files' /\ Verdicts' /\ Matched'
    BY <1>1, <1>2, <1>3 DEF LastWord, Undone, StopComes, Files, Verdicts, Matched
  <1>6. Directed'
    BY <1>1, <1>2, <1>3, <1>4 DEF Directed, Taking
  <1> QED
    BY <1>3, <1>5, <1>6

LEMMA DogLeavesStep ==
    ASSUME IInv, TypeOK', NEW d \in {"current", "old"}, DogLeaves(d) PROVE IInv'
  <1> USE DEF IInv
  <1>1. /\ UNCHANGED <<core, fatal, dns, v6block, autostart, conf, meta, loaded, queue, stopGen,
                       bg, upgrade, lock, th, count, wish, offDone, verified>>
        /\ core = "up" /\ dogs' = dogs \ {d}
    BY DEF DogLeaves, panel, outside, history
  <1>2. /\ Alone' /\ Paths' /\ Generations' /\ Followed' /\ job' = job /\ JobConf' = JobConf
        /\ Waits(queue)' = Waits(queue) /\ Deploying' = Deploying /\ Stopping' = Stopping
        /\ StopAhead' = StopAhead /\ Redone' = Redone /\ NoFaults' = NoFaults
        /\ Happened("faults")' = Happened("faults") /\ Happened("losses")' = Happened("losses")
    BY <1>1, Aside, CountUnchanged
  <1>3. LastWord' /\ Undone' /\ StopComes' /\ Files' /\ Verdicts' /\ Matched'
    BY <1>1, <1>2 DEF LastWord, Undone, StopComes, Files, Verdicts, Matched
  <1>4. job.pc \in {"verify1", "verify2"} => d # "current"
    BY ActiveJob DEF DogLeaves, Watching, job
  <1>5. Directed'
    BY <1>1, <1>2, <1>4 DEF Directed, Taking
  <1> QED
    BY <1>2, <1>3, <1>5

LEMMA DogCleansStep ==
    ASSUME IInv, TypeOK', NEW d \in {"current", "old"}, DogCleans(d) PROVE IInv'
  <1> USE DEF IInv
  <1>1. /\ UNCHANGED <<core, fatal, autostart, conf, meta, loaded, queue, stopGen,
                       bg, upgrade, lock, th, wish, offDone, verified>>
        /\ core # "up" /\ dogs' = dogs \ {d} /\ v6block' = FALSE /\ dns' \in {dns, "own"}
    BY DEF DogCleans, Cleanup, panel, outside, history
  <1>2. \/ UNCHANGED count /\ dns' = "own"
        \/ May("faults") /\ Use("faults")
    BY DEF DogCleans, Cleanup
  <1>3. /\ Happened("losses")' = Happened("losses") /\ Happened("faults") \in Nat
        /\ \/ Happened("faults")' = Happened("faults") /\ NoFaults' = NoFaults /\ dns' = "own"
           \/ Happened("faults")' = Happened("faults") + 1 /\ ~NoFaults'
    BY <1>2, CountUnchanged, Faulting
  <1>4. /\ Alone' /\ Paths' /\ Generations' /\ Followed' /\ job' = job /\ JobConf' = JobConf
        /\ Waits(queue)' = Waits(queue) /\ Deploying' = Deploying /\ Stopping' = Stopping
        /\ StopAhead' = StopAhead /\ Redone' = Redone
    BY <1>1, Aside
  <1>5. LastWord' /\ Undone' /\ StopComes' /\ Files' /\ Matched'
    BY <1>1, <1>3, <1>4 DEF LastWord, Undone, StopComes, Files, Matched
  <1>6. Verdicts'
    BY <1>1, <1>3, <1>4 DEF Verdicts
  <1>7. Directed'
    BY <1>1, <1>3, <1>4 DEF Directed, Taking
  <1> QED
    BY <1>4, <1>5, <1>6, <1>7

\* The panel forgets its queue and its jobs.
LEMMA Forgotten ==
    ASSUME IInv, Forget, UNCHANGED wish, NoUpgrade => upgrade' = "no"
    PROVE  /\ Alone' /\ Paths' /\ Generations' /\ job' = Gone /\ waiting' = Gone
           /\ ~Deploying' /\ ~Stopping'
  <1>1. /\ queue' = <<>> /\ Len(queue') = 0 /\ stopGen' = 0 /\ bg' = FALSE /\ lock' = Nobody
        /\ \A t \in Threads : th'[t] = Gone
    BY Forgetting
  <1>2. job' = Gone /\ waiting' = Gone /\ th'[Cli] = Gone
    BY <1>1, Jobs0 DEF Active, job, waiting
  <1>3. Alone' /\ Paths'
    BY <1>1, <1>2, GoneFields, Jobs0 DEF Alone, Paths, Path, Idle
  <1>4. Generations'
    BY <1>1, <1>2, GoneFields DEF Generations, Older
  <1>5. ~Deploying' /\ ~Stopping'
    BY <1>2, GoneFields DEF Deploying, Stopping, Begun, Written, Committed, Undoing, Ends
  <1> QED
    BY <1>2, <1>3, <1>4, <1>5

\* So nothing is said of the router as long as power has been lost once.
LEMMA AfterLoss ==
    ASSUME TypeOK', Alone', Paths', Generations', job' = Gone, ~Deploying', ~Stopping',
           LastWord', Happened("losses")' > 0
    PROVE  IInv'
  BY GoneFields
     DEF IInv, Followed, Undone, StopComes, Files, Verdicts, Matched, Directed, NoFaults,
         Written, Committed

LEMMA LossStep == IInv /\ TypeOK' /\ (PowerLoss \/ PanelDies) => IInv'
  <1> SUFFICES ASSUME IInv, TypeOK', PowerLoss \/ PanelDies PROVE IInv'
    OBVIOUS
  <1>1. /\ UNCHANGED <<autostart, conf, meta, upgrade, wish, offDone, verified>>
        /\ Forget /\ upgrade = "no" /\ May("losses") /\ Use("losses")
    BY DEF PowerLoss, PanelDies, outside, history
  <1>2. /\ Alone' /\ Paths' /\ Generations' /\ job' = Gone /\ ~Deploying' /\ ~Stopping'
    BY <1>1, Forgotten
  <1>3. Happened("losses")' > 0
    <2>1. count.used["losses"] \in Nat
      BY DEF Counted, IInv, TypeOK, CountTypes
    <2> QED
      BY <1>1, <2>1, Counting DEF Counted, Happened, IInv
  <1>4. core' = "up" => core = "up" \/ autostart
    BY DEF PowerLoss, PanelDies
  <1>5. LastWord'
    BY <1>1, <1>2, <1>4 DEF LastWord, IInv
  <1> QED
    BY <1>2, <1>3, <1>5, AfterLoss

\* update.sh kills the panel, whatever it was doing.
LEMMA UpgradeKillStep == IInv /\ TypeOK' /\ UpgradeKill => IInv'
  <1> SUFFICES ASSUME IInv, TypeOK', UpgradeKill PROVE IInv'
    OBVIOUS
  <1>1. /\ UNCHANGED <<core, fatal, dns, v6block, autostart, conf, meta, loaded, dogs, wish,
                       offDone, verified>>
        /\ Forget /\ upgrade' = "killed" /\ ~NoUpgrade
    BY NotBeside DEF UpgradeKill, router, history, IInv
  <1>2. /\ Alone' /\ Paths' /\ Generations' /\ job' = Gone /\ ~Deploying' /\ ~Stopping'
    BY <1>1, Forgotten
  <1>3. Followed' /\ LastWord' /\ Undone' /\ StopComes' /\ Files' /\ Verdicts'
    BY <1>1, <1>2, GoneFields
       DEF Followed, LastWord, Undone, StopComes, Files, Verdicts, Written, Committed
  <1>4. Matched' /\ Directed'
    BY <1>1, <1>2, GoneFields DEF Matched, Directed, Taking, Redone, Committed
  <1> QED
    BY <1>2, <1>3, <1>4 DEF IInv

\* Then nothing is at work.
LEMMA Quiet ==
    ASSUME IInv, upgrade \in {"killed", "stopped"}
    PROVE  /\ lock = Nobody /\ Active = Panel /\ job = waiting /\ waiting.pc = "gone"
           /\ th[Cli].pc = "gone" /\ ~NoUpgrade /\ ~Deploying /\ ~Stopping /\ ~Redone
           /\ job.rollback = "none" /\ job.kind = "deploy"
  <1>1. waiting.pc = "gone" /\ th[Cli].pc = "gone" /\ ~NoUpgrade
    BY DEF IInv, Alone
  <1>2. lock = Nobody
    BY <1>1 DEF IInv, Alone, Idle, Jobs, TypeOK, ThreadTypes, waiting
  <1>3. Active = Panel /\ job = waiting
    BY <1>2, Jobs0 DEF Active, job, waiting
  <1>4. Path(job) /\ job.kind \in Kinds
    BY <1>3, Jobs0, JobType DEF IInv, Paths, waiting
  <1>5. job.kind = "deploy" /\ job.rollback = "none" /\ ~job.tried
    BY <1>1, <1>3, <1>4 DEF Path, Kinds, Undoing
  <1>6. ~Deploying /\ ~Stopping /\ ~Redone
    BY <1>1, <1>3, <1>5
       DEF Deploying, Stopping, Redone, Begun, Written, Committed, Undoing, Ends
  <1> QED
    BY <1>1, <1>2, <1>3, <1>5, <1>6

LEMMA UpgradeStopStep == IInv /\ TypeOK' /\ UpgradeStop => IInv'
  <1> SUFFICES ASSUME IInv, TypeOK', UpgradeStop PROVE IInv'
    OBVIOUS
  <1>1. /\ UNCHANGED <<fatal, autostart, conf, meta, loaded, dogs, queue, stopGen, bg, lock, th,
                       count, wish, offDone, verified>>
        /\ core' = "down" /\ dns' = "own" /\ v6block' = FALSE
        /\ upgrade = "killed" /\ upgrade' = "stopped"
    BY DEF UpgradeStop, Cleanup, panel, history
  <1>2. /\ job' = job /\ waiting' = waiting /\ Deploying' = Deploying /\ Redone' = Redone
        /\ job.pc = "gone" /\ ~NoUpgrade /\ ~Deploying /\ ~Redone
    BY <1>1, Quiet, SameThreads
  <1>3. Alone' /\ Paths' /\ Generations'
    BY <1>1, <1>2 DEF IInv, Alone, Paths, Generations, Older
  <1>4. Followed' /\ LastWord' /\ Undone' /\ StopComes' /\ Files' /\ Verdicts'
    BY <1>1, <1>2, Quiet
       DEF Followed, LastWord, Undone, StopComes, Files, Verdicts, Written, Committed
  <1>5. Matched' /\ Directed'
    BY <1>1, <1>2 DEF Matched, Directed, Committed
  <1> QED
    BY <1>3, <1>4, <1>5 DEF IInv

\* The command line's deploy waits for the lock like any other.
LEMMA UpgradeDeployStep == IInv /\ TypeOK' /\ UpgradeDeploy => IInv'
  <1> SUFFICES ASSUME IInv, TypeOK', UpgradeDeploy PROVE IInv'
    OBVIOUS
  <1> USE DEF IInv
  <1>1. /\ UNCHANGED <<core, fatal, dns, v6block, autostart, conf, meta, loaded, dogs, queue,
                       stopGen, bg, lock, count, wish, offDone, verified>>
        /\ upgrade = "stopped"
    BY DEF UpgradeDeploy, router, panel, history
  <1>2. /\ lock = Nobody /\ job = waiting /\ waiting.pc = "gone" /\ th[Cli].pc = "gone"
        /\ ~NoUpgrade /\ ~Deploying /\ ~Redone /\ job.rollback = "none"
    BY <1>1, Quiet
  <1>3. /\ OthersKept(Cli)
        /\ \/ upgrade' = "deploying" /\ th'[Cli].pc = "lock" /\ ~th'[Cli].tried
              /\ th'[Cli].kind = "deploy" /\ th'[Cli].stage = "running"
              /\ th'[Cli].rollback = "none"
           \/ upgrade' = "no" /\ th'[Cli] = th[Cli]
    BY Upgrading DEF UpgradeDeploy, OthersKept
  <1>4. th'[Panel] = th[Panel] /\ \A t \in Watches : th'[t] = th[t]
    BY <1>3, Jobs0 DEF OthersKept
  <1>5. /\ job' = job /\ waiting' = waiting /\ ~Deploying' /\ ~Redone'
    BY <1>1, <1>2, <1>4, Jobs0 DEF Active, job, waiting, Deploying, Redone
  <1>6. Paths'
    <2>1. Path(th'[Cli]) /\ Path(th'[Panel])
      BY <1>3, <1>4, Jobs0 DEF Paths, Path
    <2> QED
      BY <2>1 DEF Paths, Jobs
  <1>7. Alone'
    BY <1>1, <1>2, <1>3, <1>4, <1>5, Jobs0 DEF Alone, Idle, Jobs, waiting
  <1>8. Generations'
    BY <1>1, <1>5 DEF Generations, Older
  <1>9. Followed' /\ LastWord' /\ Undone' /\ StopComes' /\ Files' /\ Verdicts'
    BY <1>1, <1>2, <1>5
       DEF Followed, LastWord, Undone, StopComes, Files, Verdicts, Written, Committed
  <1>10. /\ NoFaults' = NoFaults
         /\ Happened("faults")' = Happened("faults") /\ Happened("losses")' = Happened("losses")
    BY <1>1, CountUnchanged
  <1>11. Matched' /\ Directed'
    BY <1>1, <1>2, <1>5, <1>10
       DEF Matched, Directed, Committed, Taking, Waits, StopAhead, Stopping
  <1> QED
    BY <1>6, <1>7, <1>8, <1>9, <1>11

LEMMA UpgradeDoneStep == IInv /\ TypeOK' /\ UpgradeDone => IInv'
  <1> SUFFICES ASSUME IInv, TypeOK', UpgradeDone PROVE IInv'
    OBVIOUS
  <1> USE DEF IInv
  <1>1. /\ UNCHANGED <<core, fatal, dns, v6block, autostart, conf, meta, loaded, dogs, queue,
                       stopGen, bg, lock, th, count, wish, offDone, verified>>
        /\ upgrade = "deploying" /\ upgrade' = "no" /\ th[Cli].pc = "gone"
    BY DEF UpgradeDone, At, router, panel, history
  <1>2. /\ Active' = Active /\ job' = job /\ waiting' = waiting /\ JobConf' = JobConf
        /\ Deploying' = Deploying /\ Stopping' = Stopping /\ StopAhead' = StopAhead
        /\ Redone' = Redone
    BY <1>1, SameThreads
  <1>3. /\ NoFaults' = NoFaults /\ Waits(queue)' = Waits(queue)
        /\ Happened("faults")' = Happened("faults") /\ Happened("losses")' = Happened("losses")
    BY <1>1, CountUnchanged DEF Waits
  <1>4. Alone' /\ Paths' /\ Generations' /\ Followed'
    BY <1>1, <1>2, <1>3 DEF Alone, Paths, Generations, Older, Followed, JobCancelled
  <1>5. LastWord' /\ Undone' /\ StopComes' /\ Files' /\ Verdicts'
    BY <1>1, <1>2, <1>3 DEF LastWord, Undone, StopComes, Files, Verdicts
  <1>6. Matched' /\ Directed'
    BY <1>1, <1>2, <1>3 DEF Matched, Directed, Taking
  <1> QED
    BY <1>4, <1>5, <1>6

-----------------------------------------------------------------------------
(* The job at the lock.                                                    *)

\* The job returns, and the lock is free.
LEMMA JobGone ==
    ASSUME IInv, NEW t \in Jobs, UNCHANGED <<queue, stopGen, bg, upgrade, wish>>,
           th' \in [Threads -> ThreadRecords], OthersKept(t), th'[t] = Gone,
           \/ th[t].pc \notin Idle /\ lock' = Nobody
           \/ th[t].pc = "lock" /\ lock' = lock
    PROVE  /\ Alone' /\ Paths' /\ Generations' /\ Waits(queue)' = Waits(queue)
           /\ t = Cli => waiting' = waiting /\ Stopping' = Stopping /\ StopAhead' = StopAhead
           /\ t = Panel => waiting' = Gone /\ ~Stopping'
  <1> USE DEF IInv
  <1>1. \A u \in Jobs : lock' = u <=> th'[u].pc \notin Idle
    BY GoneFields, Jobs0 DEF Alone, Idle, OthersKept
  <1>2. /\ t = Panel => waiting' = Gone
        /\ t = Cli => waiting' = waiting
    BY Jobs0 DEF OthersKept, waiting
  <1>3. th'[Cli] = th[Cli] \/ th'[Cli] = Gone
    BY Jobs0 DEF OthersKept
  <1>4. \A u \in Watches : th'[u] = th[u]
    BY Jobs0 DEF OthersKept
  <1>5. Alone'
    <2>1. waiting' = waiting \/ waiting' = Gone
      BY <1>2 DEF Jobs
    <2> QED
      BY <1>1, <1>3, <1>4, <2>1, GoneFields DEF Alone
  <1>6. Paths'
    BY GoneFields, Jobs0 DEF Paths, Path, OthersKept
  <1>7. stopGen \in Nat /\ Waits(queue)' = Waits(queue)
    BY DEF TypeOK, PanelTypes, Waits
  <1>8. Generations'
    BY <1>2, <1>7, GoneFields, Jobs0 DEF Generations, Older, Jobs
  <1> QED
    BY <1>2, <1>5, <1>6, <1>7, <1>8, GoneFields DEF Stopping, StopAhead

\* Nobody is at work then.
LEMMA LockFree ==
    ASSUME Alone', Paths', TypeOK', lock' = Nobody
    PROVE  /\ Active' = Panel /\ job' = waiting' /\ job'.pc \in Idle /\ ~Deploying'
           /\ ~job'.tried /\ job'.rollback = "none" /\ ~Redone'
  <1>1. Active' = Panel /\ job' = waiting'
    BY Jobs0 DEF Active, job, waiting
  <1>2. job'.pc \in Idle /\ Path(job)'
    BY <1>1, Jobs0 DEF Alone, Paths, waiting
  <1>3. ~job'.tried /\ job'.rollback = "none"
    BY <1>2 DEF Path, Idle
  <1> QED
    BY <1>1, <1>2, <1>3
       DEF Deploying, Redone, Idle, Begun, Written, Committed, Undoing, Ends

\* What it says of the job is then said of nobody.
LEMMA FreeParts ==
    ASSUME IInv, Alone', Paths', TypeOK', lock' = Nobody
    PROVE  Followed' /\ Undone' /\ Files' /\ Verdicts'
  <1>1. /\ job'.pc \in Idle /\ ~Deploying' /\ ~job'.tried /\ job'.rollback = "none"
    BY LockFree
  <1> QED
    BY <1>1 DEF Followed, Undone, Files, Verdicts, Idle, Written, Committed, Undoing, Ends

LEMMA LockTimeoutStep == ASSUME IInv, TypeOK', NEW t \in Jobs, LockTimeout(t) PROVE IInv'
  <1> USE DEF IInv
  <1>1. /\ th[t].pc = "lock" /\ Become(t, Gone) /\ lock # Nobody
        /\ May("faults") /\ Use("faults") /\ t \in Threads
        /\ UNCHANGED <<core, fatal, dns, v6block, autostart, conf, meta, loaded, dogs,
                       queue, stopGen, bg, upgrade, lock, wish, offDone, verified>>
    BY Jobs0 DEF LockTimeout, At, router, panel, outside, history
  <1>2. th' \in [Threads -> ThreadRecords] /\ OthersKept(t) /\ th'[t] = Gone
    BY <1>1, Ending
  <1>3. /\ Alone' /\ Paths' /\ Generations' /\ Waits(queue)' = Waits(queue)
        /\ t = Cli => waiting' = waiting /\ Stopping' = Stopping /\ StopAhead' = StopAhead
    BY <1>1, <1>2, JobGone
  <1>4. /\ Happened("losses")' = Happened("losses")
        /\ Happened("faults")' = Happened("faults") + 1 /\ Happened("faults") \in Nat
        /\ ~NoFaults'
    BY <1>1, Faulting
  <1>5. lock \in Jobs /\ t # lock
    BY <1>1 DEF Alone, Idle, TypeOK, ThreadTypes
  <1>6. /\ Active' = Active /\ job' = job /\ JobConf' = JobConf /\ Deploying' = Deploying
    <2>1. Active' = Active /\ Active # t
      BY <1>1, <1>5, Jobs0 DEF Active, Jobs
    <2>2. job' = job
      BY <1>2, <2>1, ActiveJob DEF job, OthersKept
    <2> QED
      BY <2>1, <2>2 DEF JobConf, Deploying
  <1>7. Followed' /\ LastWord' /\ Undone' /\ Files'
    BY <1>1, <1>3, <1>4, <1>6 DEF Followed, LastWord, Undone, Files, JobCancelled
  <1>8. StopComes' /\ Verdicts' /\ Directed'
    BY <1>1, <1>4, <1>6 DEF StopComes, Verdicts, Directed
  <1>9. Matched'
    BY <1>1, <1>3, <1>4, <1>6 DEF Matched
  <1> QED
    BY <1>3, <1>7, <1>8, <1>9

\* A job takes the lock, or goes on with it.
Works(t) ==
    /\ UNCHANGED <<queue, stopGen, bg, upgrade, wish>>
    /\ th' \in [Threads -> ThreadRecords] /\ OthersKept(t)
    /\ lock' = t /\ th'[t].pc \notin Idle
    /\ th'[t].kind = th[t].kind /\ th'[t].gen = th[t].gen

LEMMA Working ==
    ASSUME IInv, NEW t \in Jobs, lock \in {Nobody, t}, th[t].pc # "gone", Works(t),
           t = Cli => th'[t].stage # "cancelled"
    PROVE  /\ Alone' /\ Generations' /\ Waits(queue)' = Waits(queue)
           /\ Active' = t /\ job' = th'[t] /\ (t = Cli => waiting' = waiting)
           /\ Stopping' = Stopping
           /\ Path(th'[t]) => Paths'
  <1> USE DEF IInv
  <1>1. Active' = t /\ job' = th'[t]
    BY Jobs0 DEF Works, Active, job, Jobs
  <1>2. t = Cli => waiting' = waiting
    BY Jobs0 DEF Works, OthersKept, waiting
  <1>3. Stopping' = Stopping
    BY <1>2, Jobs0 DEF Works, Stopping, waiting, Jobs
  <1>4. waiting'.kind = waiting.kind /\ waiting'.gen = waiting.gen
        /\ (waiting'.pc # "gone" => waiting.pc # "gone")
    BY <1>2, Jobs0 DEF Works, waiting, Jobs
  <1>5. Generations' /\ Waits(queue)' = Waits(queue)
    BY <1>4 DEF Works, Generations, Older, Waits
  <1>6. \A u \in Jobs : lock' = u <=> th'[u].pc \notin Idle
    BY Jobs0 DEF Works, Alone, OthersKept
  <1>7. \A u \in Watches : th'[u] = th[u]
    BY Jobs0 DEF Works, OthersKept
  <1>8. th'[Cli].kind = th[Cli].kind /\ (th'[Cli].pc # "gone" => th[Cli].pc # "gone")
        /\ th'[Cli].stage # "cancelled"
    BY Jobs0 DEF Works, OthersKept, Alone, Jobs
  <1>9. upgrade \in {"killed", "stopped"} => waiting'.pc = "gone"
    BY <1>4 DEF Alone
  <1>10. upgrade # "deploying" => th'[Cli].pc = "gone"
    BY <1>8 DEF Alone
  <1>11. Alone'
    BY <1>6, <1>7, <1>8, <1>9, <1>10 DEF Alone, Works
  <1>12. Path(th'[t]) => Paths'
    BY Jobs0 DEF Works, Paths, OthersKept
  <1> QED
    BY <1>1, <1>2, <1>3, <1>5, <1>11, <1>12

LEMMA AcquireStep == ASSUME IInv, TypeOK', NEW t \in Jobs, Acquire(t) PROVE IInv'
  <1> USE DEF IInv
  <1> DEFINE pc == CASE th[t].kind = "deploy" -> "begin"
                     [] th[t].kind = "stop" -> "stop"
                     [] OTHER -> "stopcore"
  <1>1. /\ th[t].pc = "lock" /\ Goto(t, pc) /\ lock = Nobody /\ lock' = t /\ t \in Threads
        /\ UNCHANGED <<core, fatal, dns, v6block, autostart, conf, meta, loaded, dogs,
                       queue, stopGen, bg, upgrade, count, wish, offDone, verified>>
    BY Jobs0 DEF Acquire, At, router, panel, outside, history
  <1>2. pc \in Pcs /\ pc \notin Idle
    BY DEF Pcs, Idle
  <1>3. /\ Same(t) /\ th'[t].pc = pc
        /\ th'[t].stage = th[t].stage /\ th'[t].rollback = th[t].rollback
    BY <1>1, <1>2, Going
  <1> HIDE DEF pc
  <1>4. Path(th[t]) /\ th[t].kind \in {"deploy", "stop", "rollback"}
    BY <1>1, ThreadType DEF Paths, Path, Kinds
  <1>5. /\ ~th[t].tried /\ th[t].stage = "running" /\ th[t].rollback = "none"
    BY <1>1, <1>4 DEF Path
  <1>6. \/ th[t].kind = "deploy" /\ pc = "begin"
        \/ th[t].kind = "stop" /\ pc = "stop"
        \/ th[t].kind = "rollback" /\ pc = "stopcore"
    BY <1>4 DEF pc
  <1>7. Works(t)
    BY <1>1, <1>2, <1>3 DEF Works, Same
  <1>8. Path(th'[t])
    BY <1>3, <1>5, <1>6 DEF Path, Same, Undoing
  <1>9. /\ Alone' /\ Generations' /\ Waits(queue)' = Waits(queue) /\ Paths'
        /\ Active' = t /\ job' = th'[t] /\ (t = Cli => waiting' = waiting)
        /\ Stopping' = Stopping
    BY <1>1, <1>3, <1>5, <1>7, <1>8, Working
  <1>10. /\ job = waiting /\ ~Deploying /\ job.pc \in Idle /\ Active = Panel
    BY <1>1, Jobs0, IdleJob
  <1>11. /\ job'.pc = pc /\ job'.kind = th[t].kind /\ ~job'.tried /\ job'.stage = "running"
         /\ job'.rollback = "none" /\ ~Redone'
    BY <1>3, <1>5, <1>9 DEF Same, Redone
  <1>12. ~Deploying' /\ (StopAhead => StopAhead')
    <2>1. ~Deploying'
      BY <1>6, <1>11 DEF Deploying, Begun, Written, Committed, Undoing, Ends
    <2>2. t = Panel /\ Stopping => waiting'.pc \in {"stop", "stopcore"}
      BY <1>3, <1>6 DEF Stopping, waiting
    <2> QED
      BY <1>9, <2>1, <2>2, Jobs0 DEF StopAhead, Jobs
  <1>13. /\ NoFaults' = NoFaults
         /\ Happened("faults")' = Happened("faults") /\ Happened("losses")' = Happened("losses")
    BY <1>1, CountUnchanged
  <1>14. Followed' /\ LastWord' /\ Undone' /\ Files' /\ Verdicts'
    BY <1>1, <1>6, <1>10, <1>11, <1>12
       DEF Followed, LastWord, Undone, Files, Verdicts, Written, Committed, Ends
  <1>15. StopComes'
    BY <1>1, <1>9, <1>10, <1>12, <1>13 DEF StopComes
  <1>16. Matched'
    BY <1>1, <1>9, <1>10, <1>12, <1>13 DEF Matched, Idle
  <1>17. Directed'
    BY <1>1, <1>6, <1>9, <1>10, <1>11, <1>13 DEF Directed, Taking, Committed, Idle
  <1> QED
    BY <1>9, <1>14, <1>15, <1>16, <1>17

\* Where a deploy is at work, it is the job.
LEMMA AtWork ==
    ASSUME IInv, NEW t \in Jobs,
           th[t].pc \in {"begin", "prep", "config", "meta"} \cup Written \cup Ends
    PROVE  /\ lock = t /\ Active = t /\ job = th[t] /\ upgrade # "killed" /\ t \in Threads
           /\ job.kind = "deploy" /\ (job.pc # "begin" => Deploying) /\ th[t].pc \notin Idle
           /\ (Cancelled(t) <=> JobCancelled) /\ ConfOf(t) = JobConf
           /\ t = Panel => ~Stopping /\ ~StopAhead
           /\ t = Cli => job.stage # "cancelled" /\ ~Cancelled(t)
  <1>1. th[t].pc \notin Idle
    BY DEF Idle, Written, Committed, Ends
  <1>2. /\ lock = t /\ Active = t /\ job = th[t] /\ upgrade # "killed" /\ t \in Threads
        /\ (Cancelled(t) <=> JobCancelled) /\ ConfOf(t) = JobConf
    BY <1>1, Holder
  <1>3. Path(job) /\ job.kind \in Kinds
    BY <1>2, JobType DEF IInv, Paths
  <1>4. job.kind = "deploy"
    BY <1>2, <1>3 DEF Path, Kinds, Undoing, Written, Committed, Ends
  <1>5. t = Panel => ~Stopping
    BY <1>2, <1>4 DEF Stopping, waiting
  <1>6. t = Cli => job.stage # "cancelled" /\ ~Cancelled(t)
    BY <1>2 DEF IInv, Alone, Cancelled
  <1>7. job.pc # "begin" => Deploying
    BY <1>2, <1>4 DEF Deploying, Begun
  <1> QED
    BY <1>1, <1>2, <1>4, <1>5, <1>6, <1>7 DEF StopAhead

LEMMA BeginStep == ASSUME IInv, TypeOK', NEW t \in Jobs, Begin(t) PROVE IInv'
  <1> USE DEF IInv
  <1>1. /\ th[t].pc = "begin"
        /\ UNCHANGED <<core, fatal, dns, v6block, autostart, conf, meta, loaded, dogs,
                       queue, stopGen, bg, upgrade, count, wish, offDone, verified>>
    BY DEF Begin, At, router, outside, history
  <1>2. /\ lock = t /\ Active = t /\ job = th[t] /\ upgrade # "killed" /\ t \in Threads
        /\ job.kind = "deploy" /\ th[t].pc \notin Idle /\ job.pc = "begin"
        /\ (Cancelled(t) <=> JobCancelled)
        /\ t = Panel => ~Stopping /\ ~StopAhead
    BY <1>1, AtWork
  <1>3. ~Deploying /\ Path(job)
    BY <1>2 DEF Paths, Deploying, Begun, Written, Committed, Undoing, Ends
  <1>4. /\ NoFaults' = NoFaults
        /\ Happened("faults")' = Happened("faults") /\ Happened("losses")' = Happened("losses")
    BY <1>1, CountUnchanged
  <1>5. CASE Cancelled(t)
    <2>1. Become(t, Gone) /\ lock' = Nobody
      BY <1>5 DEF Begin, Return
    <2>2. th' \in [Threads -> ThreadRecords] /\ OthersKept(t) /\ th'[t] = Gone
      BY <1>2, <2>1, Ending
    <2>3. /\ Alone' /\ Paths' /\ Generations' /\ Waits(queue)' = Waits(queue)
          /\ t = Cli => waiting' = waiting /\ Stopping' = Stopping /\ StopAhead' = StopAhead
      BY <1>1, <1>2, <2>1, <2>2, JobGone
    <2>4. /\ Followed' /\ Undone' /\ Files' /\ Verdicts'
          /\ job'.pc \in Idle /\ ~Deploying' /\ ~Redone'
      BY <2>1, <2>3, FreeParts, LockFree
    <2>5. t = Panel \/ t = Cli
      BY DEF Jobs
    <2>6. LastWord' /\ StopComes' /\ Matched'
      BY <1>1, <1>2, <1>3, <1>4, <2>3, <2>4, <2>5 DEF LastWord, StopComes, Matched
    <2>7. Directed'
      BY <1>1, <1>2, <1>4, <2>3, <2>4, <2>5
         DEF Directed, Taking, Redone, Committed, Idle
    <2> QED
      BY <2>3, <2>4, <2>6, <2>7
  <1>6. CASE ~Cancelled(t)
    <2> DEFINE p == [th[t] EXCEPT !.pc = "prep", !.serial = serial']
    <2>1. Become(t, p) /\ UNCHANGED lock
      BY <1>6 DEF Begin
    <2>2. serial' \in Nat
      BY DEF TypeOK, PanelTypes
    <2>3. p \in ThreadRecords
      BY <1>2, <2>2, Prepped DEF IInv
    <2>4. /\ p.pc = "prep" /\ p.kind = th[t].kind /\ p.gen = th[t].gen
          /\ p.tried = th[t].tried /\ p.stage = th[t].stage /\ p.rollback = th[t].rollback
      BY <1>2, ThreadType DEF ThreadRecords
    <2> HIDE DEF p
    <2>5. th' \in [Threads -> ThreadRecords] /\ OthersKept(t) /\ th'[t] = p
      BY <1>2, <2>1, <2>3, Becoming
    <2>6. Works(t) /\ Path(p) /\ p.stage = "running" /\ p.rollback = "none" /\ ~p.tried
      BY <1>1, <1>2, <1>3, <2>1, <2>4, <2>5 DEF Works, Idle, Path, Begun
    <2>7. /\ Alone' /\ Generations' /\ Waits(queue)' = Waits(queue) /\ Paths'
          /\ Active' = t /\ job' = p /\ (t = Cli => waiting' = waiting)
          /\ Stopping' = Stopping
      BY <1>1, <1>2, <2>5, <2>6, Working
    <2>8. StopAhead' = StopAhead
      BY <1>2, <2>7 DEF StopAhead, Jobs
    <2>9. ~JobCancelled /\ ~JobCancelled' /\ ~Redone'
      BY <1>1, <1>2, <1>6, <2>4, <2>6, <2>7 DEF JobCancelled, Redone
    <2>10. Followed' /\ Undone' /\ Files' /\ Verdicts'
      BY <2>4, <2>6, <2>7, <2>9
         DEF Followed, Undone, Files, Verdicts, Written, Committed, Undoing, Ends
    <2>11. LastWord'
      <3>1. NoUpgrade => t = Panel /\ job = waiting
        BY <1>2, PanelAlone
      <3> QED
        BY <1>1, <1>2, <2>9, <3>1, Jobs0 DEF LastWord, Generations, JobCancelled
    <2>12. StopComes' /\ Matched'
      BY <1>1, <1>2, <1>3, <1>4, <2>7, <2>8 DEF StopComes, Matched
    <2>13. Directed'
      BY <1>1, <1>2, <1>4, <2>4, <2>7, <2>9 DEF Directed, Taking, Committed
    <2> QED
      BY <2>7, <2>10, <2>11, <2>12, <2>13
  <1> QED
    BY <1>5, <1>6

-----------------------------------------------------------------------------
(* A deploy at work.                                                       *)

Writing == {"config", "meta", "takeover", "firewall"}

LEMMA OnWork ==
    ASSUME IInv, NEW t \in Jobs,
           th[t].pc \in {"prep", "config", "meta"} \cup Written \cup Ends,
           UNCHANGED <<queue, stopGen, bg, upgrade, wish, lock, offDone>>,
           th' \in [Threads -> ThreadRecords], OthersKept(t),
           th'[t].kind = th[t].kind, th'[t].gen = th[t].gen, th'[t].pc \in Begun \ {"prep"},
           th'[t].stage = "cancelled" => th[t].stage = "cancelled" \/ Cancelled(t)
    PROVE  /\ Alone' /\ Paths' /\ Generations' /\ Followed' /\ LastWord' /\ Deploying'
           /\ job' = th'[t] /\ Waits(queue)' = Waits(queue)
           /\ Stopping' = Stopping /\ StopAhead' = StopAhead
  <1>1. /\ lock = t /\ Active = t /\ job = th[t] /\ th[t].pc \notin Idle /\ t \in Threads
        /\ job.kind = "deploy" /\ Deploying
        /\ (Cancelled(t) <=> JobCancelled)
        /\ t = Panel => ~Stopping /\ ~StopAhead
        /\ t = Cli => job.stage # "cancelled" /\ ~Cancelled(t)
    BY AtWork DEF Written, Committed, Ends
  <1>2. th'[t].pc \notin {"gone", "lock", "begin", "prep"} /\ th[t].pc # "gone"
    BY <1>1 DEF Begun, Written, Committed, Undoing, Ends, Idle
  <1>3. Works(t) /\ Path(th'[t])
    BY <1>1, <1>2 DEF Works, Idle, Path
  <1>4. /\ Alone' /\ Generations' /\ Waits(queue)' = Waits(queue) /\ Paths'
        /\ Active' = t /\ job' = th'[t] /\ (t = Cli => waiting' = waiting)
        /\ Stopping' = Stopping
    BY <1>1, <1>2, <1>3, Working
  <1>5. Deploying' /\ StopAhead' = StopAhead
    BY <1>1, <1>4 DEF Deploying, StopAhead, Jobs
  <1>6. JobCancelled' = JobCancelled
    BY <1>1, <1>4 DEF JobCancelled
  <1>7. Followed'
    BY <1>1, <1>4, <1>6 DEF IInv, Followed
  <1>8. LastWord'
    BY <1>1 DEF IInv, LastWord
  <1> QED
    BY <1>4, <1>5, <1>7, <1>8

LEMMA ThrowStep ==
    ASSUME IInv, TypeOK', NEW t \in Jobs, Throw(t), th[t].pc \in Writing,
           UNCHANGED <<core, fatal, dns, autostart, conf, meta, loaded, dogs, queue, stopGen,
                       bg, upgrade, lock, wish, offDone, verified>>
    PROVE  IInv'
  <1> USE DEF IInv
  <1>1. /\ job = th[t] /\ t \in Threads /\ job.kind = "deploy" /\ Deploying
    BY AtWork DEF Writing, Written
  <1>2. Fail(t, "error", "stopcore") /\ May("faults") /\ Use("faults")
    BY <1>1 DEF Throw
  <1>3. /\ Same(t) /\ th'[t].pc = "stopcore" /\ th'[t].stage = "error"
        /\ th'[t].rollback = th[t].rollback
    BY <1>1, <1>2, Judging DEF Stages, Pcs
  <1>4. /\ Happened("losses")' = Happened("losses")
        /\ Happened("faults")' = Happened("faults") + 1 /\ Happened("faults") \in Nat
        /\ ~NoFaults'
    BY <1>2, Faulting
  <1>5. /\ Alone' /\ Paths' /\ Generations' /\ Followed' /\ LastWord' /\ Deploying'
        /\ job' = th'[t] /\ Waits(queue)' = Waits(queue) /\ StopAhead' = StopAhead
    BY <1>3, OnWork DEF Same, Begun, Undoing, Writing, Written
  <1>6. Undone' /\ Files' /\ Verdicts'
    BY <1>1, <1>3, <1>4, <1>5
       DEF Undone, Files, Verdicts, Same, Writing, Written, Committed, Undoing, Ends
  <1>7. StopComes' /\ Directed'
    BY <1>4 DEF StopComes, Directed
  <1>8. Matched'
    BY <1>1, <1>3, <1>4, <1>5 DEF Matched
  <1> QED
    BY <1>5, <1>6, <1>7, <1>8

LEMMA PrepareStep == ASSUME IInv, TypeOK', NEW t \in Jobs, Prepare(t) PROVE IInv'
  <1> USE DEF IInv
  <1>1. /\ th[t].pc = "prep"
        /\ UNCHANGED <<core, fatal, dns, v6block, autostart, conf, meta, loaded, dogs,
                       queue, stopGen, bg, upgrade, lock, wish, offDone, verified>>
    BY DEF Prepare, At, router, panel, outside, history
  <1>2. /\ Active = t /\ job = th[t] /\ t \in Threads /\ job.kind = "deploy" /\ Deploying
        /\ upgrade # "killed" /\ (Cancelled(t) <=> JobCancelled)
    BY <1>1, AtWork
  <1>3. job.rollback = "none" /\ ~job.tried /\ job.stage = "running"
    BY <1>1, <1>2 DEF Paths, Path
  <1>4. ASSUME NEW stage \in Stages \ {"running"}, Fail(t, stage, "report"),
               Happened("losses")' = Happened("losses"), Happened("faults") \in Nat,
               \/ /\ stage = "cancelled" /\ Cancelled(t) /\ NoFaults' = NoFaults
                  /\ Happened("faults")' = Happened("faults")
               \/ /\ stage # "cancelled" /\ ~NoFaults'
                  /\ Happened("faults")' = Happened("faults") + 1
        PROVE  IInv'
    <2>1. /\ Same(t) /\ th'[t].pc = "report" /\ th'[t].stage = stage
          /\ th'[t].rollback = th[t].rollback
      BY <1>2, <1>4, Judging DEF Pcs
    <2>2. /\ Alone' /\ Paths' /\ Generations' /\ Followed' /\ LastWord' /\ Deploying'
          /\ job' = th'[t] /\ Waits(queue)' = Waits(queue)
          /\ Stopping' = Stopping /\ StopAhead' = StopAhead
      BY <1>1, <1>2, <1>4, <2>1, OnWork DEF Same, Begun, Ends
    <2>3. Undone' /\ Files' /\ Verdicts'
      BY <1>2, <1>3, <1>4, <2>1, <2>2
         DEF Undone, Files, Verdicts, Same, Written, Committed, Undoing, Ends
    <2>4. StopComes' /\ Matched'
      BY <1>1, <1>2, <1>4, <2>1, <2>2 DEF StopComes, Matched
    <2>5. Directed'
      BY <1>1, <1>2, <1>4, <2>1, <2>2 DEF Directed, Committed, Redone, Taking
    <2> QED
      BY <2>2, <2>3, <2>4, <2>5
  <1>5. ASSUME NEW mode \in count.budget.modes, NEW redirect \in BOOLEAN, UNCHANGED count,
               Become(t, [th[t] EXCEPT !.pc = "config", !.mode = mode, !.redirect = redirect])
        PROVE  IInv'
    <2> DEFINE p == [th[t] EXCEPT !.pc = "config", !.mode = mode, !.redirect = redirect]
    <2>1. mode \in DnsModes
      BY DeployAssumption DEF Budget, TypeOK, CountTypes
    <2>2. p \in ThreadRecords
      BY <1>2, <2>1, Configured DEF IInv
    <2>3. /\ p.pc = "config" /\ p.kind = th[t].kind /\ p.gen = th[t].gen /\ p.mode = mode
          /\ p.tried = th[t].tried /\ p.stage = th[t].stage /\ p.rollback = th[t].rollback
      BY <1>2, ThreadType DEF ThreadRecords
    <2>4. th' \in [Threads -> ThreadRecords] /\ OthersKept(t) /\ th'[t] = p
      BY <1>2, <1>5, <2>2, Becoming
    <2> HIDE DEF p
    <2>5. /\ NoFaults' = NoFaults
          /\ Happened("faults")' = Happened("faults") /\ Happened("losses")' = Happened("losses")
      BY <1>5, CountUnchanged
    <2>6. /\ Alone' /\ Paths' /\ Generations' /\ Followed' /\ LastWord' /\ Deploying'
          /\ job' = p /\ Waits(queue)' = Waits(queue)
          /\ Stopping' = Stopping /\ StopAhead' = StopAhead
      BY <1>1, <1>2, <2>3, <2>4, OnWork DEF Begun
    <2>7. Undone' /\ Files' /\ Verdicts'
      BY <1>2, <1>3, <2>1, <2>3, <2>6
         DEF Undone, Files, Verdicts, Written, Committed, Undoing, Ends
    <2>8. StopComes' /\ Matched'
      BY <1>1, <1>2, <2>3, <2>5, <2>6 DEF StopComes, Matched
    <2>9. Directed'
      BY <1>1, <1>2, <1>3, <2>3, <2>5, <2>6 DEF Directed, Committed, Redone, Taking
    <2> QED
      BY <2>6, <2>7, <2>8, <2>9
  <1>6. CASE May("faults") /\ Use("faults")
             /\ \E stage \in {"rulesets", "conflict", "validate", "error"} :
                   Fail(t, stage, "report")
    BY <1>4, <1>6, Faulting DEF Stages
  <1>7. CASE Cancelled(t) /\ Fail(t, "cancelled", "report") /\ UNCHANGED count
    BY <1>4, <1>7, CountUnchanged DEF Stages
  <1> QED
    BY <1>5, <1>6, <1>7 DEF Prepare

\* What a deploy has when it goes on to the next place.
LEMMA Proceeds ==
    ASSUME IInv, NEW t \in Jobs,
           th[t].pc \in {"prep", "config", "meta"} \cup Written \cup Ends,
           UNCHANGED <<queue, stopGen, bg, upgrade, wish, lock, offDone>>,
           NEW pc \in Begun \ {"prep"}, Goto(t, pc)
    PROVE  /\ Alone' /\ Paths' /\ Generations' /\ Followed' /\ LastWord' /\ Deploying'
           /\ Waits(queue)' = Waits(queue) /\ Stopping' = Stopping /\ StopAhead' = StopAhead
           /\ Deploying /\ upgrade # "killed" /\ job = th[t]
           /\ job'.pc = pc /\ job'.kind = job.kind /\ job.kind = "deploy"
           /\ job'.mode = job.mode /\ job'.redirect = job.redirect /\ job'.tried = job.tried
           /\ job'.stage = job.stage /\ job'.rollback = job.rollback /\ JobConf' = JobConf
           /\ ConfOf(t) = JobConf
  <1>1. /\ job = th[t] /\ t \in Threads /\ Deploying /\ upgrade # "killed"
        /\ ConfOf(t) = JobConf /\ job.kind = "deploy"
    BY AtWork DEF Written, Committed, Ends
  <1>2. pc \in Pcs
    BY DEF Pcs, Begun, Written, Committed, Undoing, Ends
  <1>3. /\ Same(t) /\ th'[t].pc = pc
        /\ th'[t].stage = th[t].stage /\ th'[t].rollback = th[t].rollback
    BY <1>1, <1>2, Going DEF IInv
  <1>4. /\ Alone' /\ Paths' /\ Generations' /\ Followed' /\ LastWord' /\ Deploying'
        /\ job' = th'[t] /\ Waits(queue)' = Waits(queue)
        /\ Stopping' = Stopping /\ StopAhead' = StopAhead
    BY <1>3, OnWork DEF Same
  <1> QED
    BY <1>1, <1>3, <1>4 DEF Same, JobConf

LEMMA WriteConfigStep == ASSUME IInv, TypeOK', NEW t \in Jobs, WriteConfig(t) PROVE IInv'
  <1> USE DEF IInv
  <1>1. /\ th[t].pc = "config"
        /\ UNCHANGED <<core, fatal, dns, v6block, autostart, meta, loaded, dogs,
                       queue, stopGen, bg, upgrade, lock, wish, offDone>>
    BY DEF WriteConfig, At, panel, outside
  <1>2. CASE Throw(t) /\ UNCHANGED <<conf, verified>>
    BY <1>1, <1>2, ThrowStep DEF Writing
  <1>3. CASE conf' = ConfOf(t) /\ verified' = FALSE /\ Goto(t, "meta") /\ UNCHANGED count
    <2>1. /\ Alone' /\ Paths' /\ Generations' /\ Followed' /\ LastWord' /\ Deploying'
          /\ Waits(queue)' = Waits(queue) /\ Stopping' = Stopping /\ StopAhead' = StopAhead
          /\ Deploying /\ upgrade # "killed" /\ job = th[t]
          /\ job'.pc = "meta" /\ job'.kind = job.kind
          /\ job'.mode = job.mode /\ job'.redirect = job.redirect /\ job'.tried = job.tried
          /\ job'.stage = job.stage /\ job'.rollback = job.rollback /\ JobConf' = JobConf
          /\ ConfOf(t) = JobConf
      BY <1>1, <1>3, Proceeds DEF Begun
    <2>2. /\ NoFaults' = NoFaults
          /\ Happened("faults")' = Happened("faults") /\ Happened("losses")' = Happened("losses")
      BY <1>3, CountUnchanged
    <2>3. Undone' /\ Files' /\ Verdicts'
      BY <1>1, <1>3, <2>1, <2>2
         DEF Undone, Files, Verdicts, Written, Committed, Undoing, Ends
    <2>4. StopComes' /\ Matched'
      BY <1>1, <2>1, <2>2 DEF StopComes, Matched
    <2>5. Directed'
      BY <1>1, <2>1, <2>2 DEF Directed, Committed, Redone, Taking
    <2> QED
      BY <2>1, <2>3, <2>4, <2>5
  <1> QED
    BY <1>2, <1>3 DEF WriteConfig

LEMMA WriteMetaStep == ASSUME IInv, TypeOK', NEW t \in Jobs, WriteMeta(t) PROVE IInv'
  <1> USE DEF IInv
  <1>1. /\ th[t].pc = "meta"
        /\ UNCHANGED <<core, fatal, dns, v6block, autostart, conf, loaded, dogs,
                       queue, stopGen, bg, upgrade, lock, wish, offDone, verified>>
    BY DEF WriteMeta, At, panel, outside, history
  <1>2. CASE Throw(t) /\ UNCHANGED meta
    BY <1>1, <1>2, ThrowStep DEF Writing
  <1>3. CASE /\ meta' = ConfOf(t) /\ UNCHANGED count
             /\ Goto(t, IF th[t].tried THEN "restart" ELSE "takeover")
    <2> DEFINE pc == IF th[t].tried THEN "restart" ELSE "takeover"
    <2>1. pc \in Begun \ {"prep"}
      BY DEF Begun, Written, Committed
    <2>2. /\ Alone' /\ Paths' /\ Generations' /\ Followed' /\ LastWord' /\ Deploying'
          /\ Waits(queue)' = Waits(queue) /\ Stopping' = Stopping /\ StopAhead' = StopAhead
          /\ Deploying /\ upgrade # "killed" /\ job = th[t]
          /\ job'.pc = pc /\ job'.kind = job.kind
          /\ job'.mode = job.mode /\ job'.redirect = job.redirect /\ job'.tried = job.tried
          /\ job'.stage = job.stage /\ job'.rollback = job.rollback /\ JobConf' = JobConf
          /\ ConfOf(t) = JobConf
      BY <1>1, <1>3, <2>1, Proceeds
    <2>3. /\ NoFaults' = NoFaults
          /\ Happened("faults")' = Happened("faults") /\ Happened("losses")' = Happened("losses")
      BY <1>3, CountUnchanged
    <2>4. conf = JobConf /\ meta' = JobConf /\ job.mode \in DnsModes
      BY <1>1, <1>3, <2>2 DEF Files
    <2>5. Undone' /\ Files' /\ Verdicts'
      BY <1>1, <2>2, <2>3, <2>4
         DEF Undone, Files, Verdicts, Written, Committed, Undoing, Ends
    <2>6. StopComes' /\ Matched'
      BY <1>1, <2>2, <2>3 DEF StopComes, Matched
    <2>7. Directed'
      BY <1>1, <2>2, <2>3, JobType DEF Directed, Committed, Redone, Taking
    <2> QED
      BY <2>2, <2>5, <2>6, <2>7
  <1> QED
    BY <1>2, <1>3 DEF WriteMeta

LEMMA TakeoverStep == ASSUME IInv, TypeOK', NEW t \in Jobs, Takeover(t) PROVE IInv'
  <1> USE DEF IInv
  <1>1. /\ th[t].pc = "takeover"
        /\ UNCHANGED <<core, fatal, v6block, autostart, conf, meta, loaded, dogs,
                       queue, stopGen, bg, upgrade, lock, wish, offDone, verified>>
    BY DEF Takeover, At, panel, outside, history
  <1>2. CASE Throw(t) /\ UNCHANGED dns
    BY <1>1, <1>2, ThrowStep DEF Writing
  <1>3. CASE /\ dns' = IF th[t].mode = "dnsmasq" THEN "core"
                       ELSE IF dns = "core" THEN "own" ELSE dns
             /\ Goto(t, "firewall") /\ UNCHANGED count
    <2>1. /\ Alone' /\ Paths' /\ Generations' /\ Followed' /\ LastWord' /\ Deploying'
          /\ Waits(queue)' = Waits(queue) /\ Stopping' = Stopping /\ StopAhead' = StopAhead
          /\ Deploying /\ upgrade # "killed" /\ job = th[t]
          /\ job'.pc = "firewall" /\ job'.kind = job.kind
          /\ job'.mode = job.mode /\ job'.redirect = job.redirect /\ job'.tried = job.tried
          /\ job'.stage = job.stage /\ job'.rollback = job.rollback /\ JobConf' = JobConf
      BY <1>1, <1>3, Proceeds DEF Begun, Written
    <2>2. /\ NoFaults' = NoFaults
          /\ Happened("faults")' = Happened("faults") /\ Happened("losses")' = Happened("losses")
      BY <1>3, CountUnchanged
    <2>3. Undone' /\ Files' /\ Verdicts'
      BY <1>1, <2>1, <2>2
         DEF Undone, Files, Verdicts, Written, Committed, Undoing, Ends
    <2>4. StopComes' /\ Matched'
      BY <1>1, <2>1, <2>2 DEF StopComes, Matched
    <2>5. Directed'
      BY <1>1, <1>3, <2>1, <2>2 DEF Directed, Committed, Redone, Taking
    <2> QED
      BY <2>1, <2>3, <2>4, <2>5
  <1> QED
    BY <1>2, <1>3 DEF Takeover

LEMMA FirewallStep == ASSUME IInv, TypeOK', NEW t \in Jobs, Firewall(t) PROVE IInv'
  <1> USE DEF IInv
  <1>1. /\ th[t].pc = "firewall"
        /\ UNCHANGED <<core, fatal, dns, autostart, conf, meta, loaded, dogs,
                       queue, stopGen, bg, upgrade, lock, wish, offDone, verified>>
    BY DEF Firewall, At, panel, outside, history
  <1>2. CASE Throw(t)
    BY <1>1, <1>2, ThrowStep DEF Writing
  <1>3. CASE v6block' = TRUE /\ Goto(t, "gate") /\ UNCHANGED count
    <2>1. /\ Alone' /\ Paths' /\ Generations' /\ Followed' /\ LastWord' /\ Deploying'
          /\ Waits(queue)' = Waits(queue) /\ Stopping' = Stopping /\ StopAhead' = StopAhead
          /\ Deploying /\ upgrade # "killed" /\ job = th[t]
          /\ job'.pc = "gate" /\ job'.kind = job.kind
          /\ job'.mode = job.mode /\ job'.redirect = job.redirect /\ job'.tried = job.tried
          /\ job'.stage = job.stage /\ job'.rollback = job.rollback /\ JobConf' = JobConf
      BY <1>1, <1>3, Proceeds DEF Begun, Written, Committed
    <2>2. /\ NoFaults' = NoFaults
          /\ Happened("faults")' = Happened("faults") /\ Happened("losses")' = Happened("losses")
      BY <1>3, CountUnchanged
    <2>3. Undone' /\ Files' /\ Verdicts'
      BY <1>1, <2>1, <2>2
         DEF Undone, Files, Verdicts, Written, Committed, Undoing, Ends
    <2>4. StopComes' /\ Matched'
      BY <1>1, <2>1, <2>2 DEF StopComes, Matched
    <2>5. Directed'
      BY <1>1, <2>1, <2>2 DEF Directed, Committed, Redone, Taking
    <2> QED
      BY <2>1, <2>3, <2>4, <2>5
  <1> QED
    BY <1>2, <1>3 DEF Firewall

LEMMA GateStep == ASSUME IInv, TypeOK', NEW t \in Jobs, Gate(t) PROVE IInv'
  <1> USE DEF IInv
  <1>1. /\ th[t].pc = "gate"
        /\ UNCHANGED <<core, fatal, dns, v6block, autostart, conf, meta, loaded, dogs,
                       queue, stopGen, bg, upgrade, lock, wish, offDone, verified>>
    BY DEF Gate, At, router, panel, outside, history
  <1>2. /\ Active = t /\ job = th[t] /\ t \in Threads /\ job.kind = "deploy" /\ Deploying
        /\ upgrade # "killed" /\ (Cancelled(t) <=> JobCancelled)
    BY <1>1, AtWork DEF Written, Committed
  <1>3. ASSUME NEW stage \in {"cancelled", "start"}, Fail(t, stage, "stopcore"),
               Happened("losses")' = Happened("losses"), Happened("faults") \in Nat,
               \/ /\ stage = "cancelled" /\ Cancelled(t) /\ NoFaults' = NoFaults
                  /\ Happened("faults")' = Happened("faults")
               \/ /\ stage # "cancelled" /\ ~NoFaults'
                  /\ Happened("faults")' = Happened("faults") + 1
        PROVE  IInv'
    <2>1. /\ Same(t) /\ th'[t].pc = "stopcore" /\ th'[t].stage = stage
          /\ th'[t].rollback = th[t].rollback
      BY <1>2, <1>3, Judging DEF Stages, Pcs
    <2>2. /\ Alone' /\ Paths' /\ Generations' /\ Followed' /\ LastWord' /\ Deploying'
          /\ job' = th'[t] /\ Waits(queue)' = Waits(queue)
          /\ Stopping' = Stopping /\ StopAhead' = StopAhead
      BY <1>1, <1>2, <1>3, <2>1, OnWork DEF Same, Begun, Undoing, Written, Committed
    <2>3. Undone' /\ Files' /\ Verdicts'
      BY <1>1, <1>2, <1>3, <2>1, <2>2
         DEF Undone, Files, Verdicts, Same, Written, Committed, Undoing, Ends
    <2>4. stage = "cancelled" => Waits(queue)
      BY <1>2, <1>3 DEF Followed
    <2>5. StopComes' /\ Matched'
      BY <1>1, <1>2, <1>3, <2>1, <2>2, <2>4 DEF StopComes, Matched
    <2>6. Directed'
      BY <1>1, <1>2, <1>3, <2>1, <2>2 DEF Directed, Committed, Redone, Taking
    <2> QED
      BY <2>2, <2>3, <2>5, <2>6
  <1>4. ASSUME Goto(t, "restart"), UNCHANGED count PROVE IInv'
    <2>1. /\ Alone' /\ Paths' /\ Generations' /\ Followed' /\ LastWord' /\ Deploying'
          /\ Waits(queue)' = Waits(queue) /\ Stopping' = Stopping /\ StopAhead' = StopAhead
          /\ job'.pc = "restart" /\ job'.kind = job.kind
          /\ job'.mode = job.mode /\ job'.redirect = job.redirect /\ job'.tried = job.tried
          /\ job'.stage = job.stage /\ job'.rollback = job.rollback /\ JobConf' = JobConf
      BY <1>1, <1>4, Proceeds DEF Begun, Written, Committed
    <2>2. /\ NoFaults' = NoFaults
          /\ Happened("faults")' = Happened("faults") /\ Happened("losses")' = Happened("losses")
      BY <1>4, CountUnchanged
    <2>3. Undone' /\ Files' /\ Verdicts'
      BY <1>1, <1>2, <2>1, <2>2
         DEF Undone, Files, Verdicts, Written, Committed, Undoing, Ends
    <2>4. StopComes' /\ Matched'
      BY <1>1, <1>2, <2>1, <2>2 DEF StopComes, Matched
    <2>5. Directed'
      BY <1>1, <1>2, <2>1, <2>2 DEF Directed, Committed, Redone, Taking
    <2> QED
      BY <2>1, <2>3, <2>4, <2>5
  <1>5. CASE Cancelled(t) /\ Fail(t, "cancelled", "stopcore") /\ UNCHANGED count
    BY <1>3, <1>5, CountUnchanged
  <1>6. CASE ~Cancelled(t) /\ May("faults") /\ Use("faults") /\ Fail(t, "start", "stopcore")
    BY <1>3, <1>6, Faulting
  <1> QED
    BY <1>4, <1>5, <1>6 DEF Gate

LEMMA RestartStep == ASSUME IInv, TypeOK', NEW t \in Jobs, Restart(t) PROVE IInv'
  <1> USE DEF IInv
  <1>1. /\ th[t].pc = "restart"
        /\ UNCHANGED <<v6block, autostart, conf, meta, queue, stopGen, bg, upgrade, lock,
                       wish, offDone, verified>>
    BY DEF Restart, StartCore, At, panel, outside, history
  <1>2. /\ Active = t /\ job = th[t] /\ t \in Threads /\ job.kind = "deploy" /\ Deploying
        /\ upgrade # "killed"
    BY <1>1, AtWork DEF Written, Committed
  <1>3. job.mode \in DnsModes /\ conf.mode = job.mode /\ meta.mode = job.mode
    BY <1>1, <1>2 DEF Files, Written, Committed, JobConf
  <1>4. CASE StartCore /\ Goto(t, IF th[t].kind = "watch" THEN "settle" ELSE "verify1")
    <2>1. Goto(t, "verify1")
      BY <1>2, <1>4
    <2>2. /\ Alone' /\ Paths' /\ Generations' /\ Followed' /\ LastWord' /\ Deploying'
          /\ Waits(queue)' = Waits(queue) /\ Stopping' = Stopping /\ StopAhead' = StopAhead
          /\ job'.pc = "verify1" /\ job'.kind = job.kind
          /\ job'.mode = job.mode /\ job'.redirect = job.redirect /\ job'.tried = job.tried
          /\ job'.stage = job.stage /\ job'.rollback = job.rollback /\ JobConf' = JobConf
      BY <1>1, <2>1, Proceeds DEF Begun, Written, Committed
    <2>3. /\ loaded' = job.mode /\ core' \in {"up", "failing"}
          /\ dns' = dns \/ (job.mode = "dnsmasq" /\ dns' # "own")
          /\ dns' = "own" => job.mode # "dnsmasq"
          /\ job.mode = "dnsmasq" => "current" \in dogs'
      BY <1>3, <1>4 DEF StartCore, Launch, Dogs, Retaken
    <2>4. /\ NoFaults' = NoFaults
          /\ Happened("faults")' = Happened("faults") /\ Happened("losses")' = Happened("losses")
      <3>1. CASE UNCHANGED count
        BY <3>1, CountUnchanged
      <3>2. CASE May("deaths") /\ Use("deaths")
        BY <3>2, QuietCount DEF Counted
      <3> QED
        BY <1>4, <3>1, <3>2 DEF StartCore, Launch
    <2>5. Undone' /\ Files' /\ Verdicts'
      BY <1>1, <1>2, <1>3, <2>2, <2>4
         DEF Undone, Files, Verdicts, Written, Committed, Undoing, Ends
    <2>6. NoUpgrade /\ OnRequest /\ wish = "off" => Waits(queue)
      <3>1. NoUpgrade => t = Panel /\ job = waiting
        BY <1>2, PanelAlone
      <3> QED
        BY <1>1, <1>2, <3>1 DEF Generations, Followed, JobCancelled
    <2>7. StopComes' /\ Matched'
      BY <1>1, <1>2, <1>3, <2>2, <2>3, <2>4, <2>6 DEF StopComes, Matched
    <2>8. Directed'
      BY <1>1, <1>2, <1>3, <2>2, <2>3, <2>4
         DEF Directed, Committed, Redone, Taking, DnsModes
    <2> QED
      BY <2>2, <2>5, <2>7, <2>8
  <1>5. CASE /\ May("faults") /\ Use("faults") /\ core' \in {core, "down"}
             /\ Fail(t, IF th[t].kind = "watch" THEN "verify" ELSE "start", "stopcore")
             /\ UNCHANGED <<fatal, dns, v6block, loaded, dogs>>
    <2>1. Fail(t, "start", "stopcore")
      BY <1>2, <1>5
    <2>2. /\ Same(t) /\ th'[t].pc = "stopcore" /\ th'[t].stage = "start"
          /\ th'[t].rollback = th[t].rollback
      BY <1>2, <2>1, Judging DEF Stages, Pcs
    <2>3. /\ Happened("losses")' = Happened("losses")
          /\ Happened("faults")' = Happened("faults") + 1 /\ Happened("faults") \in Nat
          /\ ~NoFaults'
      BY <1>5, Faulting
    <2>4. /\ Alone' /\ Paths' /\ Generations' /\ Followed' /\ LastWord' /\ Deploying'
          /\ job' = th'[t] /\ Waits(queue)' = Waits(queue) /\ StopAhead' = StopAhead
      BY <1>1, <1>2, <2>2, OnWork DEF Same, Begun, Undoing, Written, Committed
    <2>5. Undone' /\ Files' /\ Verdicts'
      BY <1>1, <1>2, <2>2, <2>3, <2>4
         DEF Undone, Files, Verdicts, Same, Written, Committed, Undoing, Ends
    <2>6. StopComes' /\ Directed'
      BY <2>3 DEF StopComes, Directed
    <2>7. Matched'
      BY <2>2, <2>3, <2>4 DEF Matched
    <2> QED
      BY <2>4, <2>5, <2>6, <2>7
  <1> QED
    BY <1>4, <1>5 DEF Restart

LEMMA VerifyStep == ASSUME IInv, TypeOK', NEW t \in Jobs, Verify(t) PROVE IInv'
  <1> USE DEF IInv
  <1>1. /\ th[t].pc \in {"verify1", "verify2"}
        /\ UNCHANGED <<core, fatal, dns, v6block, autostart, conf, meta, loaded, dogs,
                       queue, stopGen, bg, upgrade, lock, count, wish, offDone>>
    BY DEF Verify, At, router, panel, outside
  <1>2. /\ Active = t /\ job = th[t] /\ t \in Threads /\ job.kind = "deploy" /\ Deploying
        /\ upgrade # "killed" /\ (Cancelled(t) <=> JobCancelled)
    BY <1>1, AtWork DEF Written, Committed
  <1>3. /\ NoFaults' = NoFaults
        /\ Happened("faults")' = Happened("faults") /\ Happened("losses")' = Happened("losses")
    BY <1>1, CountUnchanged
  <1>4. ASSUME NEW stage \in {"cancelled", "running"}, Fail(t, stage, "report"),
               stage = "cancelled" => Cancelled(t) /\ verified' = verified,
               stage = "running" => verified' = TRUE /\ core = "up"
        PROVE  IInv'
    <2>1. /\ Same(t) /\ th'[t].pc = "report" /\ th'[t].stage = stage
          /\ th'[t].rollback = th[t].rollback
      BY <1>2, <1>4, Judging DEF Stages, Pcs
    <2>2. /\ Alone' /\ Paths' /\ Generations' /\ Followed' /\ LastWord' /\ Deploying'
          /\ job' = th'[t] /\ Waits(queue)' = Waits(queue)
          /\ Stopping' = Stopping /\ StopAhead' = StopAhead
      BY <1>1, <1>2, <1>4, <2>1, OnWork DEF Same, Begun, Ends, Written, Committed
    <2>3. Undone' /\ Files' /\ Verdicts'
      BY <1>1, <1>2, <1>3, <1>4, <2>1, <2>2
         DEF Undone, Files, Verdicts, Same, Written, Committed, Undoing, Ends
    <2>4. StopComes' /\ Matched'
      BY <1>1, <1>2, <1>3, <1>4, <2>1, <2>2 DEF StopComes, Matched
    <2>5. Directed'
      <3>1. stage = "cancelled" => Waits(queue)
        BY <1>2, <1>4 DEF Followed
      <3> QED
        BY <1>1, <1>2, <1>3, <1>4, <2>1, <2>2, <3>1 DEF Directed, Committed, Redone, Taking
    <2> QED
      BY <2>2, <2>3, <2>4, <2>5
  <1>5. ASSUME NEW pc \in {"verify2", "fatal"}, Goto(t, pc), UNCHANGED verified,
               pc = "fatal" => core # "up"
        PROVE  IInv'
    <2>1. /\ Alone' /\ Paths' /\ Generations' /\ Followed' /\ LastWord' /\ Deploying'
          /\ Waits(queue)' = Waits(queue) /\ Stopping' = Stopping /\ StopAhead' = StopAhead
          /\ job'.pc = pc /\ job'.kind = job.kind
          /\ job'.mode = job.mode /\ job'.redirect = job.redirect /\ job'.tried = job.tried
          /\ job'.stage = job.stage /\ job'.rollback = job.rollback /\ JobConf' = JobConf
      BY <1>1, <1>5, Proceeds DEF Begun, Written, Committed
    <2>2. Undone' /\ Files' /\ Verdicts'
      BY <1>1, <1>2, <1>3, <1>5, <2>1
         DEF Undone, Files, Verdicts, Written, Committed, Undoing, Ends
    <2>3. StopComes' /\ Matched'
      BY <1>1, <1>2, <1>3, <1>5, <2>1 DEF StopComes, Matched
    <2>4. Directed'
      BY <1>1, <1>2, <1>3, <1>5, <2>1 DEF Directed, Committed, Redone, Taking
    <2> QED
      BY <2>1, <2>2, <2>3, <2>4
  <1>6. \/ Cancelled(t) /\ Fail(t, "cancelled", "report") /\ UNCHANGED verified
        \/ core # "up" /\ Goto(t, "fatal") /\ UNCHANGED verified
        \/ Goto(t, "verify2") /\ UNCHANGED verified
        \/ core = "up" /\ Fail(t, "running", "report") /\ verified' = TRUE
    BY DEF Verify
  <1> QED
    BY <1>4, <1>5, <1>6

LEMMA ReadFatalStep == ASSUME IInv, TypeOK', NEW t \in Jobs, ReadFatal(t) PROVE IInv'
  <1> USE DEF IInv
  <1>1. /\ th[t].pc = "fatal"
        /\ UNCHANGED <<core, fatal, dns, v6block, autostart, conf, meta, loaded, dogs,
                       queue, stopGen, bg, upgrade, lock, count, wish, offDone, verified>>
    BY DEF ReadFatal, At, router, panel, outside, history
  <1>2. /\ Active = t /\ job = th[t] /\ t \in Threads /\ job.kind = "deploy" /\ Deploying
        /\ upgrade # "killed"
    BY <1>1, AtWork DEF Written, Committed
  <1>3. /\ NoFaults' = NoFaults
        /\ Happened("faults")' = Happened("faults") /\ Happened("losses")' = Happened("losses")
    BY <1>1, CountUnchanged
  <1>4. meta.mode = job.mode /\ job.mode \in DnsModes /\ core # "up"
    BY <1>1, <1>2 DEF Files, Written, Committed, JobConf
  <1>5. CASE Become(t, [th[t] EXCEPT !.pc = "config", !.redirect = FALSE, !.tried = TRUE])
    <2>1. /\ th' \in [Threads -> ThreadRecords] /\ OthersKept(t)
          /\ th'[t].pc = "config" /\ th'[t].tried = TRUE
          /\ th'[t].kind = th[t].kind /\ th'[t].gen = th[t].gen /\ th'[t].mode = th[t].mode
          /\ th'[t].stage = th[t].stage /\ th'[t].rollback = th[t].rollback
      BY <1>2, <1>5, Retrying
    <2>2. /\ Alone' /\ Paths' /\ Generations' /\ Followed' /\ LastWord' /\ Deploying'
          /\ job' = th'[t] /\ Waits(queue)' = Waits(queue)
          /\ Stopping' = Stopping /\ StopAhead' = StopAhead
      BY <1>1, <1>2, <2>1, OnWork DEF Begun, Written, Committed
    <2>3. Undone' /\ Files' /\ Verdicts'
      BY <1>1, <1>2, <1>3, <1>4, <2>1, <2>2
         DEF Undone, Files, Verdicts, Written, Committed, Undoing, Ends
    <2>4. StopComes' /\ Matched'
      BY <1>1, <1>2, <1>3, <1>4, <2>1, <2>2 DEF StopComes, Matched
    <2>5. Directed'
      BY <1>1, <1>2, <1>3, <1>4, <2>1, <2>2 DEF Directed, Committed, Redone, Taking
    <2> QED
      BY <2>2, <2>3, <2>4, <2>5
  <1>6. CASE Fail(t, "verify", "stopcore")
    <2>1. /\ Same(t) /\ th'[t].pc = "stopcore" /\ th'[t].stage = "verify"
          /\ th'[t].rollback = th[t].rollback
      BY <1>2, <1>6, Judging DEF Stages, Pcs
    <2>2. /\ Alone' /\ Paths' /\ Generations' /\ Followed' /\ LastWord' /\ Deploying'
          /\ job' = th'[t] /\ Waits(queue)' = Waits(queue)
          /\ Stopping' = Stopping /\ StopAhead' = StopAhead
      BY <1>1, <1>2, <2>1, OnWork DEF Same, Begun, Undoing, Written, Committed
    <2>3. Undone' /\ Files' /\ Verdicts'
      BY <1>1, <1>2, <1>3, <1>4, <2>1, <2>2
         DEF Undone, Files, Verdicts, Same, Written, Committed, Undoing, Ends
    <2>4. StopComes' /\ Matched'
      BY <1>1, <1>2, <1>3, <1>4, <2>1, <2>2 DEF StopComes, Matched
    <2>5. Directed'
      BY <1>1, <1>2, <1>3, <1>4, <2>1, <2>2 DEF Directed, Committed, Redone, Taking
    <2> QED
      BY <2>2, <2>3, <2>4, <2>5
  <1> QED
    BY <1>5, <1>6 DEF ReadFatal

-----------------------------------------------------------------------------
(* The rollback of a deploy, and the one the user asked for.               *)

\* What a rollback has when it goes on to the next place.
LEMMA OnUndo ==
    ASSUME IInv, NEW t \in Jobs, th[t].pc \in Undoing, Same(t),
           UNCHANGED <<queue, stopGen, bg, upgrade, wish, lock, offDone, autostart>>,
           th'[t].stage = th[t].stage, core' \in {core, "down"},
           th'[t].pc \in Undoing \cup (IF th[t].kind = "rollback" THEN {"disable"} ELSE {"report"})
    PROVE  /\ Alone' /\ Paths' /\ Generations' /\ Followed' /\ LastWord'
           /\ job = th[t] /\ job' = th'[t] /\ Waits(queue)' = Waits(queue)
           /\ (Deploying' <=> Deploying) /\ Stopping' = Stopping
           /\ (StopAhead /\ (t = Panel => job.pc # "stopcore") => StopAhead')
           /\ \/ job.kind = "deploy" /\ Deploying
              \/ job.kind = "rollback" /\ t = Panel /\ Stopping /\ ~Deploying
           /\ job'.pc = "disable" => job.kind = "rollback"
           /\ job'.pc = "report" => job.kind = "deploy"
           /\ upgrade # "killed"
  <1> USE DEF IInv
  <1>1. th[t].pc \notin Idle /\ th[t].pc # "gone"
    BY DEF Undoing, Idle
  <1>2. /\ lock = t /\ Active = t /\ job = th[t] /\ t \in Threads /\ upgrade # "killed"
    BY <1>1, Holder
  <1>3. Path(th[t]) /\ th[t].kind \in {"deploy", "rollback"}
    BY <1>2, ThreadType DEF Paths, Path, Kinds, Undoing
  <1>4. /\ th'[t].pc \notin {"gone", "lock", "begin", "prep"}
        /\ th'[t].pc = "disable" => th[t].kind = "rollback"
        /\ th'[t].pc = "report" => th[t].kind = "deploy"
    BY <1>3 DEF Undoing
  <1>5. Works(t)
    BY <1>2, <1>4 DEF Works, Same, Idle
  <1>6. Path(th'[t])
    BY <1>3, <1>4 DEF Path, Same, Begun, Undoing, Ends
  <1>7. t = Cli => th'[t].stage # "cancelled"
    BY DEF Alone
  <1>8. /\ Alone' /\ Generations' /\ Waits(queue)' = Waits(queue) /\ Paths'
        /\ Active' = t /\ job' = th'[t] /\ (t = Cli => waiting' = waiting)
        /\ Stopping' = Stopping
    BY <1>1, <1>2, <1>5, <1>6, <1>7, Working
  <1>9. /\ (Deploying' <=> Deploying)
        /\ \/ job.kind = "deploy" /\ Deploying
           \/ job.kind = "rollback" /\ t = Panel /\ Stopping /\ ~Deploying
    <2>1. CASE th[t].kind = "deploy"
      <3>1. th[t].pc \in Begun /\ th'[t].pc \in Begun
        BY <2>1 DEF Begun, Undoing, Ends
      <3> QED
        BY <1>2, <1>8, <2>1, <3>1 DEF Deploying, Same
    <2>2. CASE th[t].kind = "rollback"
      <3>1. t = Panel
        BY <2>2 DEF Alone, Jobs
      <3> QED
        BY <1>2, <1>8, <2>2, <3>1 DEF Deploying, Stopping, waiting, Same
    <2> QED
      BY <1>3, <2>1, <2>2
  <1>10. StopAhead /\ (t = Panel => job.pc # "stopcore") => StopAhead'
    <2>1. t = Panel /\ job.pc # "stopcore" => ~StopAhead
      BY <1>2 DEF StopAhead, waiting, Undoing
    <2> QED
      BY <1>8, <2>1 DEF StopAhead, Jobs
  <1>11. JobCancelled' = JobCancelled
    BY <1>2, <1>8 DEF JobCancelled, Same
  <1>12. Followed'
    BY <1>2, <1>8, <1>9, <1>11 DEF Followed
  <1>13. LastWord'
    BY <1>9 DEF LastWord
  <1> QED
    BY <1>2, <1>4, <1>8, <1>9, <1>10, <1>12, <1>13

\* A step that failed is remembered, and the next one tried.
LEMMA FailedStep ==
    ASSUME IInv, TypeOK', NEW t \in Jobs, NEW pc, Failed(t, pc), th[t].pc \in Undoing,
           pc \in Undoing \cup (IF th[t].kind = "rollback" THEN {"disable"} ELSE {"report"}),
           UNCHANGED <<core, fatal, dns, autostart, conf, meta, loaded, dogs, queue, stopGen,
                       bg, upgrade, lock, wish, offDone, verified>>
    PROVE  IInv'
  <1> USE DEF IInv
  <1>1. /\ Become(t, [th[t] EXCEPT !.pc = pc, !.rollback = "partial"])
        /\ May("faults") /\ Use("faults") /\ t \in Threads /\ pc \in Pcs
    BY Jobs0 DEF Failed, Pcs, Undoing
  <1>2. /\ Same(t) /\ th'[t].pc = pc /\ th'[t].stage = th[t].stage
        /\ th'[t].rollback = "partial"
    BY <1>1, Undoes
  <1>3. /\ Happened("losses")' = Happened("losses")
        /\ Happened("faults")' = Happened("faults") + 1 /\ Happened("faults") \in Nat
        /\ ~NoFaults'
    BY <1>1, Faulting
  <1>4. /\ Alone' /\ Paths' /\ Generations' /\ Followed' /\ LastWord'
        /\ job = th[t] /\ job' = th'[t] /\ Waits(queue)' = Waits(queue)
        /\ (Deploying' <=> Deploying)
        /\ (StopAhead /\ (t = Panel => job.pc # "stopcore") => StopAhead')
        /\ \/ job.kind = "deploy" /\ Deploying
           \/ job.kind = "rollback" /\ t = Panel /\ Stopping /\ ~Deploying
        /\ job'.pc = "disable" => job.kind = "rollback"
        /\ job'.pc = "report" => job.kind = "deploy"
        /\ upgrade # "killed"
    BY <1>2, OnUndo
  <1>5. Undone'
    BY <1>2, <1>3, <1>4 DEF Undone, Same
  <1>6. Files' /\ Verdicts'
    BY <1>2, <1>3, <1>4 DEF Files, Verdicts, Same, Written, Committed, Undoing, Ends
  <1>7. StopComes' /\ Directed'
    BY <1>3 DEF StopComes, Directed
  <1>8. Matched'
    BY <1>2, <1>3, <1>4 DEF Matched, Undoing
  <1> QED
    BY <1>4, <1>5, <1>6, <1>7, <1>8

LEMMA RollbackStopStep == ASSUME IInv, TypeOK', NEW t \in Jobs, RollbackStop(t) PROVE IInv'
  <1> USE DEF IInv
  <1>1. /\ th[t].pc = "stopcore" /\ th[t].pc \in Undoing /\ t \in Threads
        /\ UNCHANGED <<fatal, autostart, conf, meta, loaded, dogs, queue, stopGen,
                       bg, upgrade, lock, wish, offDone, verified>>
    BY Jobs0 DEF RollbackStop, At, panel, outside, history, Undoing
  <1>2. CASE Failed(t, "restoredns") /\ UNCHANGED <<core, dns, v6block>>
    BY <1>1, <1>2, FailedStep DEF Undoing
  <1>3. CASE /\ core' = "down" /\ Cleanup /\ UNCHANGED count
             /\ Become(t, [th[t] EXCEPT !.pc = "restoredns", !.rollback = "clean"])
    <2>1. /\ Same(t) /\ th'[t].pc = "restoredns" /\ th'[t].stage = th[t].stage
          /\ th'[t].rollback = "clean"
      BY <1>1, <1>3, Undoes DEF Pcs
    <2>2. /\ NoFaults' = NoFaults
          /\ Happened("faults")' = Happened("faults") /\ Happened("losses")' = Happened("losses")
      BY <1>3, CountUnchanged
    <2>3. dns' = "own" /\ v6block' = FALSE
      BY <1>3 DEF Cleanup
    <2>4. /\ Alone' /\ Paths' /\ Generations' /\ Followed' /\ LastWord'
          /\ job = th[t] /\ job' = th'[t] /\ Waits(queue)' = Waits(queue)
          /\ (Deploying' <=> Deploying) /\ Stopping' = Stopping
          /\ \/ job.kind = "deploy" /\ Deploying
             \/ job.kind = "rollback" /\ t = Panel /\ Stopping /\ ~Deploying
      BY <1>1, <1>3, <2>1, OnUndo DEF Undoing
    <2>5. Undone' /\ Files' /\ Verdicts'
      BY <1>1, <1>3, <2>1, <2>2, <2>3, <2>4
         DEF Undone, Files, Verdicts, Same, Written, Committed, Undoing, Ends
    <2>6. StopComes' /\ Matched'
      BY <1>1, <1>3, <2>1, <2>2, <2>4 DEF StopComes, Matched
    <2>7. Directed'
      BY <1>3, <2>1, <2>3, <2>4 DEF Directed, Committed, Redone
    <2> QED
      BY <2>4, <2>5, <2>6, <2>7
  <1> QED
    BY <1>2, <1>3 DEF RollbackStop

LEMMA RollbackDnsStep == ASSUME IInv, TypeOK', NEW t \in Jobs, RollbackDns(t) PROVE IInv'
  <1> USE DEF IInv
  <1>1. /\ th[t].pc = "restoredns" /\ th[t].pc \in Undoing /\ t \in Threads
        /\ UNCHANGED <<core, fatal, v6block, autostart, conf, meta, loaded, dogs, queue, stopGen,
                       bg, upgrade, lock, wish, offDone, verified>>
    BY Jobs0 DEF RollbackDns, At, panel, outside, history, Undoing
  <1>2. CASE Failed(t, "removefw") /\ UNCHANGED dns
    BY <1>1, <1>2, FailedStep DEF Undoing
  <1>3. CASE dns' = "own" /\ Goto(t, "removefw") /\ UNCHANGED count
    <2>1. /\ Same(t) /\ th'[t].pc = "removefw"
          /\ th'[t].stage = th[t].stage /\ th'[t].rollback = th[t].rollback
      BY <1>1, <1>3, Going DEF Pcs
    <2>2. /\ NoFaults' = NoFaults
          /\ Happened("faults")' = Happened("faults") /\ Happened("losses")' = Happened("losses")
      BY <1>3, CountUnchanged
    <2>3. /\ Alone' /\ Paths' /\ Generations' /\ Followed' /\ LastWord'
          /\ job = th[t] /\ job' = th'[t] /\ Waits(queue)' = Waits(queue)
          /\ (Deploying' <=> Deploying) /\ Stopping' = Stopping
          /\ (StopAhead => StopAhead') /\ upgrade # "killed"
          /\ \/ job.kind = "deploy" /\ Deploying
             \/ job.kind = "rollback" /\ t = Panel /\ Stopping /\ ~Deploying
      BY <1>1, <2>1, OnUndo DEF Undoing
    <2>4. Undone' /\ Files' /\ Verdicts'
      BY <1>1, <1>3, <2>1, <2>2, <2>3
         DEF Undone, Files, Verdicts, Same, Written, Committed, Undoing, Ends
    <2>5. NoFaults => core = "down"
      BY <1>1, <2>3, JobType DEF Undone, NoFaults
    <2>6. StopComes' /\ Matched'
      BY <1>1, <2>1, <2>2, <2>3 DEF StopComes, Matched
    <2>7. Directed'
      BY <1>1, <1>3, <2>1, <2>2, <2>3, <2>5 DEF Directed, Committed, Redone
    <2> QED
      BY <2>3, <2>4, <2>6, <2>7
  <1> QED
    BY <1>2, <1>3 DEF RollbackDns

LEMMA RollbackFirewallStep ==
    ASSUME IInv, TypeOK', NEW t \in Jobs, RollbackFirewall(t) PROVE IInv'
  <1> USE DEF IInv
  <1> DEFINE next == IF th[t].kind = "rollback" THEN "disable" ELSE "report"
  <1>1. /\ th[t].pc = "removefw" /\ th[t].pc \in Undoing /\ t \in Threads
        /\ next \in Undoing \cup (IF th[t].kind = "rollback" THEN {"disable"} ELSE {"report"})
        /\ next \in {"disable", "report"}
        /\ UNCHANGED <<core, fatal, dns, autostart, conf, meta, loaded, dogs, queue, stopGen,
                       bg, upgrade, lock, wish, offDone, verified>>
    BY Jobs0 DEF RollbackFirewall, At, panel, outside, history, Undoing
  <1>2. \/ v6block' = FALSE /\ Goto(t, next) /\ UNCHANGED count
        \/ Failed(t, next)
    BY DEF RollbackFirewall
  <1> HIDE DEF next
  <1>3. CASE Failed(t, next)
    BY <1>1, <1>3, FailedStep
  <1>4. CASE v6block' = FALSE /\ Goto(t, next) /\ UNCHANGED count
    <2>1. /\ Same(t) /\ th'[t].pc = next
          /\ th'[t].stage = th[t].stage /\ th'[t].rollback = th[t].rollback
      BY <1>1, <1>4, Going DEF Pcs
    <2>2. /\ NoFaults' = NoFaults
          /\ Happened("faults")' = Happened("faults") /\ Happened("losses")' = Happened("losses")
      BY <1>4, CountUnchanged
    <2>3. /\ Alone' /\ Paths' /\ Generations' /\ Followed' /\ LastWord'
          /\ job = th[t] /\ job' = th'[t] /\ Waits(queue)' = Waits(queue)
          /\ (Deploying' <=> Deploying) /\ Stopping' = Stopping
          /\ (StopAhead => StopAhead') /\ upgrade # "killed"
          /\ \/ job.kind = "deploy" /\ Deploying
             \/ job.kind = "rollback" /\ t = Panel /\ Stopping /\ ~Deploying
          /\ job'.pc = "disable" => job.kind = "rollback"
          /\ job'.pc = "report" => job.kind = "deploy"
      BY <1>1, <2>1, OnUndo
    <2>4. Undone' /\ Files' /\ Verdicts'
      BY <1>1, <1>4, <2>1, <2>2, <2>3
         DEF Undone, Files, Verdicts, Same, Written, Committed, Undoing, Ends
    <2>5. StopComes' /\ Matched'
      BY <1>1, <2>1, <2>2, <2>3 DEF StopComes, Matched
    <2>6. Directed'
      BY <1>1, <2>1, <2>2, <2>3 DEF Directed, Committed, Redone, Taking
    <2> QED
      BY <2>3, <2>4, <2>5, <2>6
  <1> QED
    BY <1>2, <1>3, <1>4

-----------------------------------------------------------------------------
(* The end of a job.                                                       *)

LEMMA ReportStep ==
    ASSUME NoWatch, IInv, TypeOK', NEW t \in Jobs, Report(t) PROVE IInv'
  <1> USE DEF IInv
  <1>1. /\ th[t].pc = "report" /\ ~count.budget.lateWatch
        /\ UNCHANGED <<core, fatal, dns, v6block, autostart, conf, meta, loaded, dogs,
                       queue, stopGen, bg, upgrade, lock, count, wish, offDone, verified>>
    BY NotBeside DEF Report, At, router, outside, history
  <1>2. Active = t /\ job = th[t] /\ t \in Threads /\ job.kind = "deploy"
    BY <1>1, AtWork DEF Ends
  <1>3. Goto(t, "flag")
    BY <1>1, <1>2 DEF Report
  <1>4. /\ NoFaults' = NoFaults
        /\ Happened("faults")' = Happened("faults") /\ Happened("losses")' = Happened("losses")
    BY <1>1, CountUnchanged
  <1>5. /\ Alone' /\ Paths' /\ Generations' /\ Followed' /\ LastWord' /\ Deploying'
        /\ Waits(queue)' = Waits(queue) /\ Stopping' = Stopping /\ StopAhead' = StopAhead
        /\ Deploying /\ upgrade # "killed"
        /\ job'.pc = "flag" /\ job'.kind = job.kind
        /\ job'.mode = job.mode /\ job'.redirect = job.redirect /\ job'.tried = job.tried
        /\ job'.stage = job.stage /\ job'.rollback = job.rollback /\ JobConf' = JobConf
    BY <1>1, <1>3, Proceeds DEF Begun, Ends
  <1>6. Undone' /\ Files' /\ Verdicts'
    BY <1>1, <1>2, <1>4, <1>5
       DEF Undone, Files, Verdicts, Written, Committed, Undoing, Ends
  <1>7. StopComes' /\ Matched'
    BY <1>1, <1>2, <1>4, <1>5 DEF StopComes, Matched
  <1>8. Directed'
    BY <1>1, <1>2, <1>4, <1>5 DEF Directed, Committed, Redone, Taking
  <1> QED
    BY <1>5, <1>6, <1>7, <1>8

LEMMA FlagStep == ASSUME IInv, TypeOK', NEW t \in Jobs, Flag(t) PROVE IInv'
  <1> USE DEF IInv
  <1>1. /\ th[t].pc = "flag" /\ Become(t, Gone) /\ lock' = Nobody
        /\ UNCHANGED <<core, fatal, dns, v6block, conf, meta, loaded, dogs, queue, stopGen,
                       bg, upgrade, wish, offDone, verified>>
    BY DEF Flag, At, Return, panel, outside, history
  <1>2. /\ Active = t /\ job = th[t] /\ t \in Threads /\ job.kind = "deploy" /\ Deploying
        /\ upgrade # "killed" /\ th[t].pc \notin Idle
        /\ t = Panel => ~Stopping /\ ~StopAhead
    BY <1>1, AtWork DEF Ends
  <1>3. th' \in [Threads -> ThreadRecords] /\ OthersKept(t) /\ th'[t] = Gone
    BY <1>1, <1>2, Ending
  <1>4. /\ Alone' /\ Paths' /\ Generations' /\ Waits(queue)' = Waits(queue)
        /\ t = Cli => waiting' = waiting /\ Stopping' = Stopping /\ StopAhead' = StopAhead
    BY <1>1, <1>2, <1>3, JobGone
  <1>5. /\ Followed' /\ Undone' /\ Files' /\ Verdicts'
        /\ job'.pc \in Idle /\ ~Deploying' /\ ~Redone'
    BY <1>1, <1>4, FreeParts, LockFree
  <1>6. \/ job.stage = "running" /\ autostart' = TRUE /\ UNCHANGED count
        \/ job.stage # "running" /\ autostart' = FALSE /\ UNCHANGED count
        \/ /\ job.stage \in {"cancelled", "rulesets", "conflict", "validate"}
           /\ UNCHANGED <<autostart, count>>
        \/ May("flags") /\ Use("flags") /\ UNCHANGED autostart
    BY <1>2, JobType DEF Flag, EnableService, DisableService, RolledBackStages, Stages
  <1>7. /\ NoFaults' = NoFaults
        /\ Happened("losses")' = Happened("losses") /\ Happened("faults")' = Happened("faults")
    BY <1>6, CountUnchanged, QuietCount DEF Counted
  <1>8. t = Panel \/ t = Cli
    BY DEF Jobs
  <1>9. LastWord'
    BY <1>1, <1>2, <1>5 DEF LastWord
  <1>10. StopComes' /\ Matched'
    BY <1>1, <1>2, <1>4, <1>7, <1>8 DEF StopComes, Matched
  <1>12. Directed'
    <2>1. Waits(queue) => Waits(queue)'
      BY <1>4
    <2>2. Stopping => Stopping'
      BY <1>2, <1>4, <1>8
    <2>3. NoFaults' => NoFaults
      BY <1>7
    <2>4. job.pc = "flag" /\ ~Taking
      BY <1>1, <1>2 DEF Taking
    <2> QED
      BY <1>1, <1>5, <2>1, <2>2, <2>3, <2>4 DEF Directed, Committed, Idle
  <1> QED
    BY <1>4, <1>5, <1>9, <1>10, <1>12

LEMMA StopStep == ASSUME IInv, TypeOK', NEW t \in Jobs, Stop(t) PROVE IInv'
  <1> USE DEF IInv
  <1>1. /\ th[t].pc = "stop" /\ th[t].pc \notin Idle
        /\ UNCHANGED <<fatal, autostart, conf, meta, loaded, dogs, queue, stopGen,
                       bg, upgrade, wish, offDone, verified>>
    BY DEF Stop, At, panel, outside, history, Idle
  <1>2. lock = t /\ Active = t /\ job = th[t] /\ t \in Threads /\ upgrade # "killed"
    BY <1>1, Holder
  <1>3. job.kind = "stop" /\ Path(job)
    BY <1>1, <1>2, JobType DEF Paths, Path, Kinds, Undoing, Begun, Written, Committed, Ends
  <1>4. t = Panel /\ Stopping /\ ~Deploying /\ job = waiting
    BY <1>2, <1>3 DEF Alone, Jobs, Stopping, waiting, Deploying
  <1>5. CASE core' = "down" /\ Cleanup /\ Goto(t, "disable") /\ UNCHANGED <<count, lock>>
    <2>1. /\ Same(t) /\ th'[t].pc = "disable"
          /\ th'[t].stage = th[t].stage /\ th'[t].rollback = th[t].rollback
      BY <1>2, <1>5, Going DEF Pcs
    <2>2. /\ NoFaults' = NoFaults
          /\ Happened("faults")' = Happened("faults") /\ Happened("losses")' = Happened("losses")
      BY <1>5, CountUnchanged
    <2>3. dns' = "own" /\ v6block' = FALSE
      BY <1>5 DEF Cleanup
    <2>4. Works(t) /\ Path(th'[t])
      BY <1>1, <1>2, <1>3, <1>5, <2>1 DEF Works, Same, Idle, Path
    <2>5. /\ Alone' /\ Generations' /\ Waits(queue)' = Waits(queue) /\ Paths'
          /\ Active' = t /\ job' = th'[t] /\ Stopping' = Stopping
      BY <1>1, <1>2, <1>4, <2>4, Jobs0, Working DEF Idle
    <2>6. ~Deploying' /\ Followed' /\ LastWord'
      BY <1>1, <1>2, <1>3, <1>5, <2>1, <2>5 DEF Deploying, Same, Followed, LastWord
    <2>7. Undone' /\ Files' /\ Verdicts'
      BY <1>1, <1>2, <1>3, <1>5, <2>1, <2>2, <2>3, <2>5, <2>6
         DEF Undone, Files, Verdicts, Same, Written, Committed, Undoing, Ends
    <2>8. StopComes' /\ Matched'
      BY <1>4, <1>5, <2>5 DEF StopComes, Matched
    <2>9. Directed'
      BY <1>5, <2>1, <2>3, <2>5 DEF Directed, Committed, Redone
    <2> QED
      BY <2>5, <2>6, <2>7, <2>8, <2>9
  <1>6. CASE /\ May("faults") /\ Use("faults") /\ UNCHANGED core
             /\ Cleanup \/ UNCHANGED <<dns, v6block>>
             /\ Return(t)
    <2>1. Become(t, Gone) /\ lock' = Nobody
      BY <1>6 DEF Return
    <2>2. th' \in [Threads -> ThreadRecords] /\ OthersKept(t) /\ th'[t] = Gone
      BY <1>2, <2>1, Ending
    <2>3. /\ Happened("losses")' = Happened("losses")
          /\ Happened("faults")' = Happened("faults") + 1 /\ Happened("faults") \in Nat
          /\ ~NoFaults'
      BY <1>6, Faulting
    <2>4. Alone' /\ Paths' /\ Generations' /\ Waits(queue)' = Waits(queue)
      BY <1>1, <1>2, <2>1, <2>2, JobGone
    <2>5. Followed' /\ Undone' /\ Files' /\ Verdicts' /\ ~Deploying'
      BY <2>1, <2>4, FreeParts, LockFree
    <2>6. LastWord' /\ StopComes' /\ Directed'
      BY <1>1, <1>6, <2>3, <2>5 DEF LastWord, StopComes, Directed
    <2>7. Matched'
      BY <1>1, <1>2, <1>4, <1>6, <2>3, <2>4 DEF Matched
    <2> QED
      BY <2>4, <2>5, <2>6, <2>7
  <1> QED
    BY <1>5, <1>6 DEF Stop

LEMMA DisableStep == ASSUME IInv, TypeOK', NEW t \in Jobs, Disable(t) PROVE IInv'
  <1> USE DEF IInv
  <1>1. /\ th[t].pc = "disable" /\ th[t].pc \notin Idle /\ Become(t, Gone) /\ lock' = Nobody
        /\ UNCHANGED <<core, fatal, dns, v6block, conf, meta, loaded, dogs, queue, stopGen,
                       bg, upgrade, wish, verified>>
    BY DEF Disable, At, Return, panel, outside, Idle
  <1>2. lock = t /\ Active = t /\ job = th[t] /\ t \in Threads /\ upgrade # "killed"
    BY <1>1, Holder
  <1>3. job.kind \in {"stop", "rollback"}
    BY <1>1, <1>2, JobType DEF Paths, Path, Kinds, Begun, Written, Committed, Undoing, Ends
  <1>4. t = Panel /\ Stopping /\ ~Deploying /\ ~StopAhead /\ job = waiting
    BY <1>1, <1>2, <1>3 DEF Alone, Jobs, Stopping, StopAhead, waiting, Deploying
  <1>5. th' \in [Threads -> ThreadRecords] /\ OthersKept(t) /\ th'[t] = Gone
    BY <1>1, <1>2, Ending
  <1>6. Alone' /\ Paths' /\ Generations' /\ Waits(queue)' = Waits(queue)
    BY <1>1, <1>2, <1>5, JobGone
  <1>7. /\ Followed' /\ Undone' /\ Files' /\ Verdicts'
        /\ job'.pc \in Idle /\ ~Deploying' /\ ~Redone'
    BY <1>1, <1>6, FreeParts, LockFree
  <1>8. job.rollback # "partial" => core = "down"
    BY <1>1, <1>2, <1>3, JobType DEF Undone
  <1>9. \/ /\ autostart' = FALSE /\ UNCHANGED count
           /\ offDone' = (IF job.rollback # "partial" THEN wish = "off" ELSE offDone)
        \/ May("flags") /\ Use("flags") /\ UNCHANGED <<autostart, offDone>>
    BY <1>2, <1>3 DEF Disable, DisableService
  <1>10. /\ NoFaults' = NoFaults
         /\ Happened("losses")' = Happened("losses") /\ Happened("faults")' = Happened("faults")
    BY <1>9, CountUnchanged, QuietCount DEF Counted
  <1>11. NoFaults => core = "down"
    BY <1>8, JobType DEF Undone, NoFaults
  <1>12. LastWord'
    BY <1>1, <1>4, <1>7, <1>8, <1>9 DEF LastWord
  <1>13. StopComes' /\ Matched'
    BY <1>1, <1>2, <1>4, <1>6, <1>8, <1>10, <1>11 DEF StopComes, Matched
  <1>14. Directed'
    BY <1>1, <1>2, <1>7, <1>10, <1>11 DEF Directed, Committed, Taking, Idle
  <1> QED
    BY <1>6, <1>7, <1>12, <1>13, <1>14

-----------------------------------------------------------------------------
(* The theorems.                                                           *)

\* A job never does what a late watch does.
LEMMA JobsDoNotWatch ==
    ASSUME IInv, NEW t \in Jobs
    PROVE  ~Wake(t) /\ ~Look(t) /\ ~Settle(t)
  <1>1. Path(th[t]) /\ th[t].kind \in Kinds
    BY Jobs0, ThreadType DEF IInv, Paths
  <1> QED
    BY <1>1
       DEF Path, Kinds, Wake, Look, Settle, At, Begun, Written, Committed, Undoing, Ends

\* A thread that does not exist takes no step.
LEMMA GoneRests ==
    ASSUME NEW t \in Threads, th[t].pc = "gone"
    PROVE  ~Step(t)
  BY DEF At, Step, Acquire, Begin, Prepare, WriteConfig, WriteMeta, Takeover, Firewall, Gate,
         Restart, Verify, ReadFatal, RollbackStop, RollbackDns, RollbackFirewall, Report, Flag,
         Stop, Disable, Wake, Look, Settle

LEMMA JobStep == ASSUME NoWatch, IInv, TypeOK', NEW t \in Threads, Step(t) PROVE IInv'
  <1>1. t \in Jobs
    BY GoneRests, Jobs0 DEF IInv, Alone
  <1>2. ~Wake(t) /\ ~Look(t) /\ ~Settle(t)
    BY <1>1, JobsDoNotWatch
  <1>3. CASE Acquire(t) \/ Begin(t) \/ Prepare(t) \/ WriteConfig(t) \/ WriteMeta(t)
    BY <1>1, <1>3, AcquireStep, BeginStep, PrepareStep, WriteConfigStep, WriteMetaStep
  <1>4. CASE \/ Takeover(t) \/ Firewall(t) \/ Gate(t) \/ Restart(t) \/ Verify(t) \/ ReadFatal(t)
    BY <1>1, <1>4, TakeoverStep, FirewallStep, GateStep, RestartStep, VerifyStep, ReadFatalStep
  <1>5. CASE RollbackStop(t) \/ RollbackDns(t) \/ RollbackFirewall(t)
    BY <1>1, <1>5, RollbackStopStep, RollbackDnsStep, RollbackFirewallStep
  <1>6. CASE Report(t) \/ Flag(t) \/ Stop(t) \/ Disable(t)
    BY <1>1, <1>6, ReportStep, FlagStep, StopStep, DisableStep
  <1> QED
    BY <1>2, <1>3, <1>4, <1>5, <1>6 DEF Step

LEMMA NextStep == NoWatch /\ IInv /\ TypeOK' /\ [Next]_vars => IInv'
  <1> SUFFICES ASSUME NoWatch, IInv, TypeOK', [Next]_vars PROVE IInv'
    OBVIOUS
  <1>1. ASSUME NEW t \in Threads, Step(t) PROVE IInv'
    BY <1>1, JobStep
  <1>2. ASSUME NEW t \in Jobs, LockTimeout(t) PROVE IInv'
    BY <1>2, LockTimeoutStep
  <1>3. ASSUME NEW d \in {"current", "old"}, DogLeaves(d) \/ DogCleans(d) PROVE IInv'
    BY <1>3, DogLeavesStep, DogCleansStep
  <1>4. ASSUME RunDeploy \/ RunExclusive("stop") \/ RunExclusive("rollback") PROVE IInv'
    BY <1>4, RunDeployStep, RunExclusiveStep
  <1>5. ASSUME BackgroundLook \/ BackgroundDeploy \/ Dequeue PROVE IInv'
    BY <1>5, BackgroundLookStep, BackgroundDeployStep, DequeueStep
  <1>6. ASSUME CoreDies \/ PowerLoss \/ PanelDies PROVE IInv'
    BY <1>6, CoreDiesStep, LossStep
  <1>7. ASSUME UpgradeKill \/ UpgradeStop \/ UpgradeDeploy \/ UpgradeDone PROVE IInv'
    BY <1>7, UpgradeKillStep, UpgradeStopStep, UpgradeDeployStep, UpgradeDoneStep
  <1>8. CASE UNCHANGED vars
    <2>1. /\ Alone' /\ Paths' /\ Generations' /\ Followed' /\ job' = job /\ JobConf' = JobConf
          /\ Waits(queue)' = Waits(queue) /\ Deploying' = Deploying /\ Stopping' = Stopping
          /\ StopAhead' = StopAhead /\ Redone' = Redone
      BY <1>8, Aside DEF vars
    <2>2. /\ NoFaults' = NoFaults
          /\ Happened("faults")' = Happened("faults") /\ Happened("losses")' = Happened("losses")
      BY <1>8, CountUnchanged DEF vars, IInv
    <2>3. LastWord' /\ Undone' /\ StopComes' /\ Files' /\ Verdicts' /\ Matched'
      BY <1>8, <2>1, <2>2
         DEF IInv, LastWord, Undone, StopComes, Files, Verdicts, Matched, vars
    <2>4. Directed'
      BY <1>8, <2>1, <2>2 DEF IInv, Directed, Taking, vars
    <2> QED
      BY <2>1, <2>3, <2>4 DEF IInv
  <1> QED
    BY <1>1, <1>2, <1>3, <1>4, <1>5, <1>6, <1>7, <1>8 DEF Next

\* The parts of the invariant hold of every state that queue, command line, kernel and power
\* can bring the router to.
THEOREM Invariance == NoWatch => (Spec => []IInv)
  <1> SUFFICES ASSUME NoWatch PROVE Spec => []IInv
    OBVIOUS
  <1>1. Init => IInv
    BY InitIInv
  <1>2. IInv /\ TypeOK' /\ [Next]_vars => IInv'
    BY NextStep
  <1> QED
    BY <1>1, <1>2, TypeCorrect, PTL DEF Spec

\* A stop or rollback that reported success is the last word: nothing still in the queue or
\* under way brings the kernel up again or enables it for the next boot (runExclusive,
\* cancelPendingDeploys).
THEOREM StopIsKept == OneQueue /\ OnRequest => (Spec => []StopIsFinal)
  <1> SUFFICES ASSUME OneQueue, OnRequest PROVE Spec => []StopIsFinal
    OBVIOUS
  <1>1. IInv => StopIsFinal
    BY DEF OneQueue, IInv, LastWord, StopIsFinal
  <1> QED
    BY <1>1, Invariance, PTL DEF OneQueue

\* A kernel that is up after the user asked for a stop has the stop coming, as the deploy
\* that reported "cancelled" and left it running relies on (deploy.mjs, verification).
THEOREM StopFollows == OneQueue /\ OnRequest => (Spec => []CancelledIsFollowed)
  <1> SUFFICES ASSUME OneQueue, OnRequest PROVE Spec => []CancelledIsFollowed
    OBVIOUS
  <1>1. IInv => CancelledIsFollowed
    <2> SUFFICES ASSUME IInv, wish = "off", core = "up", NoFaults
                 PROVE  \/ Waits(queue)
                        \/ waiting.kind \in {"stop", "rollback"} /\ waiting.pc # "gone"
      BY DEF CancelledIsFollowed, Waits, At, waiting
    <2>1. Path(waiting)
      BY Jobs0 DEF IInv, Paths, waiting
    <2> QED
      BY <2>1 DEF OneQueue, IInv, StopComes, Stopping, Path, Undoing
  <1> QED
    BY <1>1, Invariance, PTL DEF OneQueue

\* A failed deploy that says direct access is restored has the kernel down, dnsmasq on its
\* own upstreams and LAN IPv6 open, be it the panel's or that of update.sh
\* (rollbackToDirect, rollbackSummary).
THEOREM RestoredIsDirect == NoWatch => (Spec => []RestoredMeansDirect)
  <1> SUFFICES ASSUME NoWatch PROVE Spec => []RestoredMeansDirect
    OBVIOUS
  <1>1. IInv => RestoredMeansDirect
    <2> SUFFICES ASSUME IInv, NEW t \in Jobs, th[t].pc \in {"report", "flag"},
                        th[t].rollback = "clean"
                 PROVE  core = "down" /\ dns = "own" /\ ~v6block
      BY DEF RestoredMeansDirect
    <2>1. job = th[t]
      BY AtWork DEF Ends
    <2> QED
      BY <2>1 DEF IInv, Undone
  <1> QED
    BY <1>1, Invariance, PTL

\* Nothing is under way: what is left of the invariant.
LEMMA Resting ==
    ASSUME IInv, AtRest
    PROVE  /\ job.pc = "gone" /\ ~Deploying /\ ~Stopping /\ ~Waits(queue) /\ ~StopAhead
           /\ upgrade = "no"
  <1>1. job.pc = "gone" /\ waiting.pc = "gone" /\ queue = <<>> /\ upgrade = "no"
    BY Jobs0, ActiveJob DEF AtRest, At, job, waiting
  <1>2. Path(waiting)
    BY Jobs0 DEF IInv, Paths, waiting
  <1>3. ~Deploying /\ ~Stopping
    BY <1>1, <1>2
       DEF Path, Deploying, Stopping, Begun, Written, Committed, Undoing, Ends
  <1>4. Len(queue) = 0
    BY <1>1
  <1> QED
    BY <1>1, <1>3, <1>4 DEF Waits, StopAhead

\* At rest kernel, dnsmasq and metadata agree, whatever order the files, the takeover, the
\* rollback, the loops of the init script and the stop and redeploy of an upgrade came in.
THEOREM RouterIsLeftAgreed == NoWatch => (Spec => []RouterAgrees)
  <1> SUFFICES ASSUME NoWatch PROVE Spec => []RouterAgrees
    OBVIOUS
  <1>1. IInv => DnsFollowsCore
    <2> SUFFICES ASSUME IInv, AtRest, dogs = {}, NoFaults, core # "lost"
                 PROVE  /\ core # "up" => dns = "own"
                        /\ core = "up" /\ loaded = "dnsmasq" => dns # "own"
                        /\ core = "up" /\ dns = "core" => loaded = "dnsmasq"
      BY DEF DnsFollowsCore
    <2>1. job.pc = "gone" /\ upgrade = "no" /\ ~Waits(queue) /\ ~Stopping
      BY Resting
    <2>2. core \in {"down", "up", "failing"}
      BY DEF IInv, TypeOK, RouterTypes
    <2>3. Directed
      BY DEF IInv
    <2>4. CASE core = "up"
      BY <2>1, <2>3, <2>4 DEF Directed, Taking
    <2>5. CASE core # "up"
      BY <2>1, <2>2, <2>3, <2>5 DEF Directed, Taking
    <2> QED
      BY <2>4, <2>5
  <1>2. IInv => MetaMatchesKernel
    BY Resting DEF IInv, Matched, MetaMatchesKernel
  <1>3. IInv => RouterAgrees
    BY <1>1, <1>2 DEF IInv, RouterAgrees
  <1> QED
    BY <1>3, Invariance, PTL
=============================================================================
