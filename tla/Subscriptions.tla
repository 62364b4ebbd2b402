--------------------------- MODULE Subscriptions ---------------------------
(***************************************************************************)
(* api/subscriptions.mjs and system/scheduler.mjs: the list of              *)
(* subscriptions and the pool of their nodes, two records of the store that *)
(* every handler writes one after the other, and the scheduler that         *)
(* refreshes what is due and then has the kernel restarted.                 *)
(*                                                                         *)
(* The nodes of one subscription are one block: what its address and rename *)
(* rules (src) gave with the content served at the time (ver).  A name that *)
(* is no prefix of the nodes is left out; pasted content is an address that *)
(* never changes.  Time is in half days, one of which has the hour of a     *)
(* plan; no tick lasts into the next.  Deploys are their effect on the      *)
(* kernel: Deploy has the rest.                                             *)
(***************************************************************************)
EXTENDS Naturals, Sequences, FiniteSets, SequencesExt

CONSTANTS
    Ids,            \* subscriptions; a deleted id is never given again
    FirstList,      \* the list when the behaviour begins
    Srcs,           \* addresses with their rename rules
    Plans,          \* autoUpdate: when in the day (0 or 1) and every how many days
    NoPlan, Never, Nothing, Order,
    Budgets         \* new subscriptions, other requests, changes upstream, fetches and
                    \* deploys that fail, deaths of the panel, stops of the kernel

Counted == {"creates", "requests", "changes", "failures", "deaths", "stops"}
Settings == [id : Ids, src : Srcs, plan : Plans \cup {NoPlan}, on : BOOLEAN]
Blocks == [id : Ids, src : Srcs, ver : Nat]

ASSUME SubscriptionsAssumption ==
    /\ IsFiniteSet(Plans) /\ Plans # {}
    /\ \A p \in Plans : p.half \in {0, 1} /\ p.days \in Nat \ {0}
    /\ NoPlan \notin Plans /\ Never \notin Nat
    /\ {Nothing, Order} \cap (Ids \cup {"user", "scheduler"}) = {}
    /\ FirstList \in Seq(Settings)
    /\ \A i, k \in DOMAIN FirstList : FirstList[i].id = FirstList[k].id => i = k
    /\ Budgets \subseteq [Counted -> Nat]

VARIABLES
    upstream,  \* the version each address serves
    subs,      \* the list of subscriptions
    pool,      \* the pool of nodes
    done,      \* schedule-state.json: for each subscription, today and lastAt
    panel,     \* running, and a tick of the scheduler has begun in this half day
    job,       \* the request that awaits a fetch
    tick,      \* the scheduler's turn
    deploy,    \* the deploy under way and those who wait for one
    kernel,    \* running, and the nodes it runs with
    half,      \* of the day
    left,
    \* History.
    saved,     \* what the user saved last, also of what is deleted
    torn,      \* subscriptions whose two records a death has left apart, or Order
    fetches,   \* by the scheduler: of whom today, how many again, and deaths
    news,      \* changes the scheduler made; deploy and kernel have those they know
    excused    \* why the last of them need not be in the kernel

store == <<subs, pool, saved, torn>>
kernelSide == <<deploy, kernel, excused>>
vars == <<upstream, store, done, panel, job, tick, kernelSide, half, left, fetches, news>>

-----------------------------------------------------------------------------
IdsOf(list) == {list[i].id : i \in DOMAIN list}
Get(list, id) == list[CHOOSE i \in DOMAIN list : list[i].id = id]
Put(list, r) == [i \in DOMAIN list |-> IF list[i].id = r.id THEN r ELSE list[i]]
Those(list, ids) == FlattenSeq([i \in DOMAIN list |-> IF list[i].id \in ids THEN <<list[i]>> ELSE <<>>])
Without(list, id) == Those(list, IdsOf(list) \ {id})
Block(r, ver) == [id |-> r.id, src |-> r.src, ver |-> ver]
Known(st, id) == IF id \in DOMAIN st THEN st[id] ELSE [today |-> FALSE, age |-> Never]
With(f, id, v) == [i \in DOMAIN f \cup {id} |-> IF i = id THEN v ELSE f[i]]

May(what) == left[what] > 0
Spend(what) == left' = [c \in Counted |-> IF c \in what THEN left[c] - 1 ELSE left[c]]

\* Half days after which a plan is due: its days less half a day.
Term(plan) == 2 * plan.days - 1
Longest == CHOOSE n \in {Term(p) : p \in Plans} : \A p \in Plans : n >= Term(p)

NoTick == [pc |-> "idle", todo |-> <<>>, st |-> <<>>, job |-> Nothing, before |-> <<>>, news |-> FALSE]
NoDeploy == [pc |-> "none", who |-> Nothing, waiting |-> {}, nodes |-> <<>>, news |-> 0]

TypeOK ==
    /\ upstream \in [Srcs -> Nat]
    /\ subs \in Seq(Settings) /\ Cardinality(IdsOf(subs)) = Len(subs)
    /\ pool \in Seq(Blocks) /\ Cardinality(IdsOf(pool)) = Len(pool)
    /\ \A i \in DOMAIN done : done[i].today \in BOOLEAN /\ done[i].age \in {Never} \cup 0 .. Longest
    /\ DOMAIN done \subseteq Ids
    /\ panel \in [on : BOOLEAN, ticked : BOOLEAN]
    /\ job # Nothing => job.op \in {"create", "edit", "refresh"} /\ job.new \in Settings
    /\ tick.pc \in {"idle", "fetch", "save", "status", "deploy"}
    /\ deploy.pc \in {"none", "read", "down"} /\ deploy.waiting \subseteq {"user", "scheduler"}
    /\ kernel.on \in BOOLEAN /\ kernel.nodes \in Seq(Blocks)
    /\ half \in {0, 1} /\ left \in [Counted -> Nat]

Init ==
    /\ upstream = [s \in Srcs |-> 0]
    /\ subs = FirstList /\ pool = [i \in DOMAIN FirstList |-> Block(FirstList[i], 0)]
    /\ done = <<>> /\ panel = [on |-> TRUE, ticked |-> FALSE]
    /\ job = Nothing /\ tick = NoTick /\ deploy = NoDeploy
    /\ kernel = [on |-> TRUE, nodes |-> pool, news |-> 0]
    /\ half = 0 /\ left \in Budgets
    /\ saved = [i \in IdsOf(FirstList) |-> Get(FirstList, i)] /\ torn = {}
    /\ fetches = [today |-> {}, again |-> 0, deaths |-> 0]
    /\ news = 0 /\ excused = FALSE

-----------------------------------------------------------------------------
(* The pool, and what a death takes.                                       *)

\* orderNodesBySubscriptions: what belongs to no subscription comes last.
Ordered(nodes, list) ==
    FlattenSeq([i \in DOMAIN list |-> Those(nodes, {list[i].id})])
        \o Those(nodes, IdsOf(nodes) \ IdsOf(list))

\* rebuildNodePool: one block is new, what belongs to no subscription is dropped.
Rebuilt(nodes, list, block) ==
    FlattenSeq([i \in DOMAIN list |->
        IF list[i].id = block.id THEN <<block>> ELSE Those(nodes, {list[i].id})])

\* activeNodes: those of a subscription that is off are left out, those of none are not.
ActiveNodes == Those(pool, Ids \ {subs[i].id : i \in {i \in DOMAIN subs : ~subs[i].on}})

\* The panel ends; a restart of the kernel that has begun goes on by itself.
Dies ==
    /\ May("deaths")
    /\ panel' = [panel EXCEPT !.on = FALSE]
    /\ job' = Nothing /\ tick' = NoTick
    /\ deploy' = IF deploy.pc = "down" THEN [deploy EXCEPT !.who = Nothing, !.waiting = {}] ELSE NoDeploy
    /\ fetches' = [fetches EXCEPT !.deaths = @ + 1]
    /\ excused' = (excused \/ news' # kernel.news)

PanelDies ==
    /\ UNCHANGED <<upstream, store, done, kernel, half, news>>
    /\ panel.on /\ Dies /\ Spend({"deaths"})

PanelStarts ==
    /\ ~panel.on /\ panel' = [on |-> TRUE, ticked |-> FALSE]
    /\ UNCHANGED <<upstream, store, done, job, tick, kernelSide, half, left, fetches, news>>

\* Two records are written one after the other, unless a death comes in between:
\* then only the first is.
PoolThenList(nodes, list, id, cost, goesOn) ==
    /\ pool' = nodes
    /\ \/ subs' = list /\ torn' = torn \ {id, Order} /\ Spend(cost) /\ goesOn
       \/ subs' = subs /\ torn' = torn \cup {id} /\ Spend(cost \cup {"deaths"}) /\ Dies

ListThenPool(list, nodes, what, cost, goesOn) ==
    /\ subs' = list
    /\ \/ pool' = nodes /\ UNCHANGED torn /\ Spend(cost) /\ goesOn
       \/ pool' = pool /\ torn' = torn \cup {what} /\ Spend(cost \cup {"deaths"}) /\ Dies

-----------------------------------------------------------------------------
(* Requests.                                                               *)

Requests == panel.on /\ May("requests")
Waits == UNCHANGED <<panel, job, tick, deploy, fetches, excused>>

Begin(op, old, new, cost) ==
    /\ panel.on /\ May(cost) /\ Spend({cost}) /\ job = Nothing
    /\ job' = [op |-> op, old |-> old, new |-> new, ver |-> upstream[new.src]]
    /\ UNCHANGED <<upstream, store, done, panel, tick, kernelSide, half, fetches, news>>

\* POST /: the id is fresh.
BeginCreate ==
    \E id \in Ids \ (DOMAIN saved \cup torn), src \in Srcs, plan \in Plans \cup {NoPlan} :
        Begin("create", Nothing, [id |-> id, src |-> src, plan |-> plan, on |-> TRUE],
              "creates")

\* POST /:id/refresh.
BeginRefresh == \E i \in DOMAIN subs : Begin("refresh", subs[i], subs[i], "requests")

\* PATCH /:id with another address or other rename rules, and perhaps another plan.
BeginEdit ==
    \E i \in DOMAIN subs, src \in Srcs, plan \in Plans \cup {NoPlan} :
        /\ src # subs[i].src
        /\ Begin("edit", subs[i], [subs[i] EXCEPT !.src = src, !.plan = plan], "requests")

\* PATCH /:id with neither: nothing is fetched.
EditInPlace ==
    /\ Requests /\ Spend({"requests"})
    /\ \E i \in DOMAIN subs, on \in BOOLEAN, plan \in Plans \cup {NoPlan} :
          LET r == [subs[i] EXCEPT !.on = on, !.plan = plan]
          IN  r # subs[i] /\ subs' = Put(subs, r) /\ saved' = [saved EXCEPT ![r.id] = r]
    /\ UNCHANGED <<upstream, pool, torn, done, half, news, kernel>> /\ Waits

\* PUT /order.
Reorder ==
    /\ Requests
    /\ UNCHANGED <<upstream, saved, done, kernel, half, news>>
    /\ \E list \in SetToSeqs({subs[i] : i \in DOMAIN subs}) :
          list # subs /\ ListThenPool(list, Ordered(pool, list), Order, {"requests"}, Waits)

\* DELETE /:id.
Delete ==
    /\ Requests
    /\ UNCHANGED <<upstream, saved, done, kernel, half, news>>
    /\ \E id \in IdsOf(subs) :
          ListThenPool(Without(subs, id), Without(pool, id), id, {"requests"}, Waits)

JobEnds == job' = Nothing /\ UNCHANGED <<panel, tick, deploy, fetches, excused>>

\* Mutant: what was read before the fetch is written back as a whole.
RefreshedFromSnapshot(j, current) == j.old

\* A refresh merges what it fetched into the record as it is now.
Refreshed(j, current) == current

\* Mutant: the result is taken for what the subscription has become.
VoidNever(j) == FALSE

\* A subscription that is gone is not written, nor what was fetched from where it
\* no longer points.  An edit only asks whether it is still there.
Void(j) ==
    \/ j.op # "create" /\ j.new.id \notin IdsOf(subs)
    \/ j.op = "refresh" /\ Get(subs, j.new.id).src # j.old.src

\* The list a job writes: an edit puts back all the settings it read.
Written(j) ==
    CASE j.op = "create" -> Append(subs, j.new)
      [] j.op = "edit" -> Put(subs, j.new)
      [] j.op = "refresh" -> IF j.new.id \in IdsOf(subs)
                             THEN Put(subs, Refreshed(j, Get(subs, j.new.id))) ELSE subs

\* What was served when the fetch began, or what is served now.
Answers(j) == {j.ver, upstream[j.new.src]}

\* Mutant: a record that is not there is added.
FinishAdds ==
    /\ job # Nothing
    /\ UNCHANGED <<upstream, done, kernel, half, news>>
    /\ \E ver \in Answers(job) :
          LET list == IF job.new.id \in IdsOf(subs) THEN Written(job) ELSE Append(subs, job.new)
          IN  PoolThenList(Rebuilt(pool, list, Block(job.new, ver)), list, job.new.id, {}, JobEnds)
    /\ saved' = IF job.op = "refresh" \/ subs' = subs THEN saved
                ELSE With(saved, job.new.id, job.new)

Finish ==
    /\ job # Nothing /\ ~Void(job)
    /\ UNCHANGED <<upstream, done, kernel, half, news>>
    /\ \E ver \in Answers(job) :
          LET list == Written(job)
          IN  PoolThenList(Rebuilt(pool, list, Block(job.new, ver)), list, job.new.id, {}, JobEnds)
    /\ saved' = IF job.op = "refresh" \/ subs' # Written(job) THEN saved
                ELSE With(saved, job.new.id, job.new)

\* The fetch failed, or its result is void.
GiveUp ==
    /\ job # Nothing
    /\ IF Void(job) THEN UNCHANGED left ELSE May("failures") /\ Spend({"failures"})
    /\ JobEnds /\ UNCHANGED <<upstream, store, done, kernel, half, news>>

-----------------------------------------------------------------------------
(* The scheduler.                                                          *)

\* Switched on, its hour has come, and it has not been looked at today.
Planned(r, st) == r.on /\ r.plan # NoPlan /\ r.plan.half = half /\ ~Known(st, r.id).today

\* Mutant: what was refreshed once is never due again.
IsDueOnce(r, st) == Planned(r, st) /\ Known(st, r.id).age = Never

\* The last refresh that succeeded is long enough ago.
IsDue(r, st) ==
    Planned(r, st) /\ (Known(st, r.id).age = Never \/ Known(st, r.id).age >= Term(r.plan))

Marked(st, list) ==
    LET ids == {list[i].id : i \in {i \in DOMAIN list : Planned(list[i], st)}}
    IN  [id \in DOMAIN st \cup ids |-> IF id \in ids THEN [Known(st, id) EXCEPT !.today = TRUE] ELSE st[id]]

\* On to the next that is due, or to the kernel, or to the end.  A subscription that
\* is gone by now has failed.
GoesOn(todo, st, changed) ==
    LET due == {i \in DOMAIN todo : IsDue(todo[i], st)}
        n == CHOOSE i \in due : \A k \in due : i <= k
        here == [st |-> Marked(st, IF due = {} THEN todo ELSE SubSeq(todo, 1, n)), news |-> changed]
    IN  IF due = {}
        THEN /\ UNCHANGED fetches
             /\ IF changed THEN tick' = [NoTick EXCEPT !.pc = "status", !.st = here.st, !.news = TRUE]
                           ELSE tick' = NoTick
             /\ done' = IF changed THEN done ELSE here.st
        ELSE LET id == todo[n].id
                 rest == SubSeq(todo, n + 1, Len(todo))
                 next == [NoTick EXCEPT !.st = here.st, !.todo = rest, !.news = changed]
             IN  /\ UNCHANGED done
                 /\ IF id \in IdsOf(subs)
                    THEN /\ tick' = [next EXCEPT !.pc = "fetch", !.before = pool,
                                !.job = [op |-> "refresh", old |-> Get(subs, id), new |-> Get(subs, id),
                                         ver |-> upstream[Get(subs, id).src]]]
                         /\ fetches' = [fetches EXCEPT !.today = @ \cup {id},
                                           !.again = IF id \in fetches.today THEN @ + 1 ELSE @]
                    ELSE tick' = [next EXCEPT !.pc = "save"] /\ UNCHANGED fetches

\* A tick begins when none is under way.
TickBegins ==
    /\ panel.on /\ tick.pc = "idle"
    /\ ~panel.ticked \/ \E i \in DOMAIN subs : Planned(subs[i], done)
    /\ panel' = [panel EXCEPT !.ticked = TRUE]
    /\ GoesOn(subs, [id \in DOMAIN done \cap IdsOf(subs) |-> done[id]], FALSE)
    /\ UNCHANGED <<upstream, store, job, kernelSide, half, left, news>>

\* Mutant: only the last refresh of a tick counts.
ChangedLast(before) == pool' # before

\* One change is enough.
Changed(before) == tick.news \/ pool' # before

TickRefreshes ==
    /\ tick.pc = "fetch" /\ ~Void(tick.job)
    /\ LET id == tick.job.new.id
           list == Written(tick.job)
       IN  \E ver \in Answers(tick.job) :
              /\ news' = IF Rebuilt(pool, list, Block(tick.job.new, ver)) # tick.before THEN news + 1 ELSE news
              /\ PoolThenList(Rebuilt(pool, list, Block(tick.job.new, ver)), list, id, {},
                     /\ tick' = [tick EXCEPT !.pc = "save", !.news = Changed(tick.before),
                                    !.st = With(@, id, [today |-> TRUE, age |-> 0])]
                     /\ UNCHANGED <<panel, job, deploy, fetches, excused>>)
    /\ UNCHANGED <<upstream, saved, done, kernel, half>>

TickFails ==
    /\ tick.pc = "fetch"
    /\ IF Void(tick.job) THEN UNCHANGED left ELSE May("failures") /\ Spend({"failures"})
    /\ tick' = [tick EXCEPT !.pc = "save"]
    /\ UNCHANGED <<upstream, store, done, panel, job, kernelSide, half, fetches, news>>

\* The state is written after each refresh; then comes the next.
TickSaves ==
    /\ tick.pc = "save"
    /\ done # tick.st
    /\ done' = tick.st
    /\ UNCHANGED <<upstream, store, panel, job, tick, kernelSide, half, left, fetches, news>>

TickNext ==
    /\ tick.pc = "save" /\ done = tick.st
    /\ GoesOn(tick.todo, tick.st, tick.news)
    /\ UNCHANGED <<upstream, store, panel, job, kernelSide, half, left, news>>

\* The pool has changed: is the kernel running?  One that is being restarted is not.
TickAsks ==
    /\ tick.pc = "status"
    /\ IF kernel.on
       THEN /\ tick' = [tick EXCEPT !.pc = "deploy"]
            /\ deploy' = [deploy EXCEPT !.waiting = @ \cup {"scheduler"}]
            /\ UNCHANGED <<done, excused>>
       ELSE /\ tick' = NoTick /\ done' = tick.st
            /\ excused' = (excused \/ deploy.pc # "none")
            /\ UNCHANGED deploy
    /\ UNCHANGED <<upstream, store, panel, job, kernel, half, left, fetches, news>>

-----------------------------------------------------------------------------
(* Deploys, and the world.                                                 *)

AskDeploy ==
    /\ Requests /\ Spend({"requests"}) /\ "user" \notin deploy.waiting
    /\ deploy' = [deploy EXCEPT !.waiting = @ \cup {"user"}]
    /\ UNCHANGED <<upstream, store, done, panel, job, tick, kernel, excused, half, fetches, news>>

\* Its turn in the queue: the configuration is made from the pool as it is now.
DeployReads ==
    /\ panel.on /\ deploy.pc = "none"
    /\ \E who \in deploy.waiting :
          deploy' = [pc |-> "read", who |-> who, waiting |-> deploy.waiting \ {who},
                     nodes |-> ActiveNodes, news |-> news]
    /\ UNCHANGED <<upstream, store, done, panel, job, tick, kernel, excused, half, left, fetches, news>>

DeployRestarts ==
    /\ deploy.pc = "read"
    /\ deploy' = [deploy EXCEPT !.pc = "down"] /\ kernel' = [kernel EXCEPT !.on = FALSE]
    /\ UNCHANGED <<upstream, store, done, panel, job, tick, excused, half, left, fetches, news>>

\* Whoever waits for it goes on.
Answered ==
    /\ deploy' = [NoDeploy EXCEPT !.waiting = deploy.waiting]
    /\ IF deploy.who = "scheduler" THEN tick' = NoTick /\ done' = tick.st ELSE UNCHANGED <<tick, done>>

DeployEnds ==
    /\ deploy.pc = "down" /\ Answered
    /\ kernel' = [on |-> TRUE, nodes |-> deploy.nodes, news |-> deploy.news]
    /\ excused' = (excused /\ deploy.news # news)
    /\ UNCHANGED <<upstream, store, panel, job, half, left, fetches, news>>

\* Refused, the kernel runs on as it was; after the restart, it is left off.
DeployFails ==
    /\ deploy.pc # "none" /\ May("failures") /\ Spend({"failures"}) /\ Answered
    /\ excused' = (excused \/ deploy.who = "scheduler")
    /\ UNCHANGED <<upstream, store, panel, job, kernel, half, fetches, news>>

Stop ==
    /\ deploy.pc = "none" /\ deploy.waiting = {} /\ kernel.on /\ May("stops") /\ Spend({"stops"})
    /\ kernel' = [kernel EXCEPT !.on = FALSE]
    /\ UNCHANGED <<upstream, store, done, panel, job, tick, deploy, excused, half, fetches, news>>

UpstreamChanges ==
    /\ May("changes") /\ Spend({"changes"})
    /\ \E s \in Srcs : upstream' = [upstream EXCEPT ![s] = @ + 1]
    /\ UNCHANGED <<store, done, panel, job, tick, kernelSide, half, fetches, news>>

HalfDayPasses ==
    /\ tick.pc = "idle" /\ (panel.on => panel.ticked)
    /\ half' = 1 - half /\ panel' = [panel EXCEPT !.ticked = FALSE]
    /\ done' = [i \in DOMAIN done |->
                  [today |-> done[i].today /\ half = 0,
                   age |-> IF done[i].age \in {Never, Longest} THEN done[i].age ELSE done[i].age + 1]]
    /\ fetches' = IF half = 1 THEN [fetches EXCEPT !.today = {}] ELSE fetches
    /\ UNCHANGED <<upstream, store, job, tick, kernelSide, left, news>>

UserActs == BeginCreate \/ BeginRefresh \/ BeginEdit \/ EditInPlace \/ Reorder \/ Delete \/ AskDeploy
Ticks == TickBegins \/ TickRefreshes \/ TickFails \/ TickSaves \/ TickNext \/ TickAsks
Deploys == DeployReads \/ DeployRestarts \/ DeployEnds \/ DeployFails
World == PanelDies \/ PanelStarts \/ Stop \/ UpstreamChanges \/ HalfDayPasses

Next == UserActs \/ Finish \/ GiveUp \/ Ticks \/ Deploys \/ World

\* The scheduler's fetches have a time limit, its tick comes every minute, deploys end,
\* procd starts the panel again, and the days go by.
Fairness == WF_vars(Ticks \/ Deploys \/ PanelStarts) /\ WF_vars(HalfDayPasses)

Spec == Init /\ [][Next]_vars
FairSpec == Spec /\ Fairness

-----------------------------------------------------------------------------
(* Properties.                                                             *)

\* The nodes of every subscription are those of the address it has, and stand where it
\* stands in the list, whatever requests and refreshes overlapped: only a death
\* between the two writes takes them apart, and a rebuild puts the order right again.
PoolFollowsList ==
    /\ \A i \in DOMAIN pool : pool[i].id \in torn \/
          \E k \in DOMAIN subs : subs[k].id = pool[i].id /\ subs[k].src = pool[i].src
    /\ IdsOf(subs) \subseteq IdsOf(pool)
    /\ Order \in torn \/
          LET known == Those(pool, IdsOf(subs))
          IN  [i \in DOMAIN known |-> known[i].id] = [i \in DOMAIN subs |-> subs[i].id]

\* What the user saved stays, whatever is refreshed meanwhile (subscriptions.mjs:380-382).
SavedStays == \A i \in DOMAIN subs : subs[i] = saved[subs[i].id]

\* A deleted subscription does not come back, however late its refresh ends.
DeletedStaysDeleted ==
    [][\A id \in DOMAIN saved \ IdsOf(subs) :
          /\ id \notin IdsOf(subs')
          /\ id \notin IdsOf(pool) => id \notin IdsOf(pool')]_vars

\* When a tick of the scheduler is over the kernel has the nodes it fetched
\* (scheduler.mjs:53-54), unless the panel died on the way, the deploy failed, or the
\* kernel was being restarted with the old ones when the scheduler looked.
NewsReachesKernel == tick.pc = "idle" /\ kernel.on => excused \/ kernel.news = news

\* Nothing is fetched twice on a day but what a restart of the panel interrupted
\* (scheduler.mjs:85-86).
FetchedOnce == fetches.again <= fetches.deaths

\* Nodes and list agree, and the scheduler fetches no more than is due.
NodesFollowList == TypeOK /\ PoolFollowsList /\ FetchedOnce

\* In the end every subscription with a plan has what its address serves.
Settles ==
    <>[](\A i \in DOMAIN subs : subs[i].on /\ subs[i].plan # NoPlan =>
            Get(pool, subs[i].id) = Block(subs[i], upstream[subs[i].src]))
=============================================================================
